--------------------------- MODULE BBPrefsProofs ---------------------------
(***************************************************************************)
(* The buffer pool for any number of threads, BATs and views: a descriptor *)
(* that is in use is usable, no contents are lost, the counters are exact. *)
(* First the lists of steps: what a thread has to do after each step, and  *)
(* that every action keeps the lists in these forms.                       *)
(***************************************************************************)
EXTENDS BBPrefs, FiniteSetTheorems, SequenceTheorems, TLAPS

\* The steps of a list, and the list with x in front.
InList(L)  == {L[i] : i \in DOMAIN L}
Cons(x, L) == <<x>> \o L

Steps == [op : Ops, b : Bats, set : SUBSET Flags]

----------------------------------------------------------------------------
(***************************************************************************)
(* What a thread has to do after its next step.                            *)
(***************************************************************************)
\* Once b is in memory it is used, or a view on it is made ready.
Using(b)   == Cons(Step("use", b), <<>>)
Opening(b) == Cons(Step("desc", b), Using(b))
Joining(v) == Cons(Step("base", v), Cons(Off(v, {"LOADING"}), Opening(v)))
AfterDesc(b, T) == T = Using(b) \/ \E v \in Views : Parent[v] = b /\ T = Joining(v)

\* The trimmer goes on with other BATs.
Rest(t, b, T) ==
    \/ t # Trimmer /\ T = <<>>
    \/ /\ t = Trimmer
       /\ \A i \in DOMAIN T : \E c \in Stored : T[i] = Step("trim", c) /\ c # b
       /\ \A i, j \in DOMAIN T : T[i] = T[j] => i = j

AfterFree(t, b, T) == \E R \in Seq(Steps) : T = Cons(Off(b, {"UNLOADING"}), R) /\ Rest(t, b, R)
AfterSave(t, b, T) == \/ t # Trimmer /\ T = <<>>
                      \/ \E R \in Seq(Steps) : T = Cons(Step("free", b), R) /\ AfterFree(t, b, R)

AfterOff(t, b, f, T) ==
    \/ f = "LOADING" /\ t # Trimmer /\ b \in Stored /\ AfterDesc(b, T)
    \/ f = "LOADING" /\ t # Trimmer /\ b \in Views /\ T = Opening(b)
    \/ f = "SAVING" /\ b \in Stored /\ AfterSave(t, b, T)
    \/ f = "LOADED" /\ b \in Stored /\ AfterFree(t, b, T)
    \/ f = "UNLOADING" /\ b \in Stored /\ Rest(t, b, T)

Ending(b) == Cons(Step("epilogue", b), Cons(Step("end", b), <<>>))

Follows(t, x, T) ==
    /\ x.op \notin {"off", "write"} => x.set = {}
    /\ t = Trimmer => x.op \in {"save", "spin", "batsave", "free", "off", "write", "trim"}
    /\ x.op = "incref" => \E R \in Seq(Steps) : T = Cons(Step("desc", x.b), R) /\ AfterDesc(x.b, R)
    /\ x.op = "desc" => AfterDesc(x.b, T)
    /\ x.op = "load" => x.b \in Stored /\ \E R \in Seq(Steps) : T = Cons(Off(x.b, {"LOADING"}), R) /\ AfterDesc(x.b, R)
    /\ x.op = "base" => x.b \in Views /\ T = Cons(Off(x.b, {"LOADING"}), Opening(x.b))
    /\ x.op = "use" => T = <<>>
    /\ x.op = "increfl" => T = Cons(Step("kept", x.b), Cons(Step("decref", x.b), <<>>))
    /\ x.op = "kept" => T = Cons(Step("decref", x.b), <<>>)
    /\ x.op = "decref" => T = <<>>
    /\ x.op \in {"unload", "destroy"} => T = <<>> \/ (x.b \in Views /\ T = Cons(Step("decref", Parent[x.b]), <<>>))
    /\ x.op = "unshare" => /\ x.b \in Stored
                           /\ \/ T = Cons(Step("decrefl", x.b), <<>>)
                              \/ T = Cons(Step("decrefl", x.b), Cons(Step("decref", x.b), <<>>))
    /\ x.op = "decrefl" => T = <<>> \/ T = Cons(Step("decref", x.b), <<>>)
    /\ x.op \in {"save", "spin"} => x.b \in Stored /\ AfterSave(t, x.b, T)
    /\ x.op = "batsave" => /\ x.b \in Stored
                           /\ \/ t # Trimmer /\ May("commit") /\ T = Ending(x.b)
                              \/ \E R \in Seq(Steps) : T = Cons(Off(x.b, {"SAVING"}), R) /\ AfterSave(t, x.b, R)
    /\ x.op = "free" => x.b \in Stored /\ AfterFree(t, x.b, T)
    /\ x.op = "off" => \E f \in Flags : x.set = {f} /\ AfterOff(t, x.b, f, T)
    /\ x.op = "write" => \E f \in Flags : AfterOff(t, x.b, f, T)
    /\ x.op = "trim" => x.b \in Stored /\ t = Trimmer /\ Rest(t, x.b, T)
    /\ x.op = "dirty_bat" => x.b \in Stored /\ May("commit") /\ T = Ending(x.b)
    /\ x.op = "epilogue" => May("commit") /\ T = Cons(Step("end", x.b), <<>>)
    /\ x.op = "end" => T = <<>>

\* A list of t in one of these forms.
Formed(t, L) == L # <<>> => Follows(t, Head(L), Tail(L))
Shaped == \A t \in Actors : Formed(t, todo[t])

----------------------------------------------------------------------------
(***************************************************************************)
(* Lists                                                                   *)
(***************************************************************************)
\* Steps are equal if kind, BAT and flags are.
LEMMA StepsEqual ==
    /\ \A o, p, x, y : Step(o, x) = Step(p, y) <=> o = p /\ x = y
    /\ \A o, x, y, f : Step(o, x) = Off(y, f) <=> o = "off" /\ x = y /\ f = {}
    /\ \A o, x, y, f : Step(o, x) = Write(y, f) <=> o = "write" /\ x = y /\ f = {}
    /\ \A x, y, f, g : Off(x, f) = Off(y, g) <=> x = y /\ f = g
    /\ \A x, y, f, g : Write(x, f) = Write(y, g) <=> x = y /\ f = g
    /\ \A x, y, f, g : Off(x, f) # Write(y, g)
  BY DEF Step, Off, Write

\* The kind, the BAT and the flags of a step.
LEMMA StepParts ==
    /\ \A o, x : Step(o, x).op = o /\ Step(o, x).b = x /\ Step(o, x).set = {}
    /\ \A x, f : Off(x, f).op = "off" /\ Off(x, f).b = x /\ Off(x, f).set = f
    /\ \A x, f : Write(x, f).op = "write" /\ Write(x, f).b = x /\ Write(x, f).set = f
  BY DEF Step, Off, Write

\* The types of steps.
LEMMA StepsTyped ==
    /\ \A o \in Ops, x \in Bats : Step(o, x) \in Steps
    /\ \A x \in Bats, f \in SUBSET Flags : Off(x, f) \in Steps /\ Write(x, f) \in Steps
  BY DEF Step, Off, Write, Steps, Ops

\* A step is what its parts make it.
LEMMA StepIs ==
    ASSUME NEW x \in Steps
    PROVE  /\ x.op \in Ops /\ x.b \in Bats /\ x.set \in SUBSET Flags
           /\ x.set = {} => x = Step(x.op, x.b)
           /\ x.op = "off" => x = Off(x.b, x.set)
           /\ x.op = "write" => x = Write(x.b, x.set)
  BY DEF Step, Off, Write, Steps

\* A list with a step in front.
LEMMA ConsParts ==
    ASSUME NEW x \in Steps, NEW L \in Seq(Steps)
    PROVE  /\ Cons(x, L) \in Seq(Steps) /\ Cons(x, L) # <<>>
           /\ Head(Cons(x, L)) = x /\ Tail(Cons(x, L)) = L
           /\ InList(Cons(x, L)) = {x} \cup InList(L)
  <1>1. Cons(x, L) \in Seq(Steps) /\ Len(Cons(x, L)) = 1 + Len(L)
    BY DEF Cons
  <1>2. Cons(x, L)[1] = x /\ \A i \in 1..Len(L) : Cons(x, L)[i + 1] = L[i]
    BY DEF Cons
  <1>3. Tail(Cons(x, L)) = L
    BY <1>1, <1>2
  <1>4. ASSUME NEW y PROVE y \in InList(Cons(x, L)) <=> y = x \/ y \in InList(L)
    <2>1. ASSUME y \in InList(Cons(x, L)) PROVE y = x \/ y \in InList(L)
      <3>1. PICK i \in 1..(1 + Len(L)) : Cons(x, L)[i] = y
        BY <1>1, <2>1 DEF InList
      <3>2. CASE i = 1
        BY <1>2, <3>1, <3>2
      <3>3. CASE i # 1
        <4>1. i - 1 \in 1..Len(L) /\ (i - 1) + 1 = i
          BY <3>3
        <4>2. L[i - 1] = y
          BY <1>2, <3>1, <4>1
        <4> QED BY <4>1, <4>2 DEF InList
      <3> QED BY <3>2, <3>3
    <2>2. ASSUME y = x PROVE y \in InList(Cons(x, L))
      BY <1>1, <1>2, <2>2 DEF InList
    <2>3. ASSUME y \in InList(L) PROVE y \in InList(Cons(x, L))
      <3>1. PICK i \in 1..Len(L) : L[i] = y
        BY <2>3 DEF InList
      <3>2. i + 1 \in 1..(1 + Len(L)) /\ Cons(x, L)[i + 1] = y
        BY <1>2, <3>1
      <3> QED BY <1>1, <3>2 DEF InList
    <2> QED BY <2>1, <2>2, <2>3
  <1> QED BY <1>1, <1>2, <1>3, <1>4

\* A list that is not empty has a step in front.
LEMMA ConsOf ==
    ASSUME NEW L \in Seq(Steps), L # <<>>
    PROVE  /\ Head(L) \in Steps /\ Tail(L) \in Seq(Steps)
           /\ L = Cons(Head(L), Tail(L))
  <1>1. Head(L) \in Steps /\ Tail(L) \in Seq(Steps) /\ Len(L) = 1 + Len(Tail(L))
    OBVIOUS
  <1>2. Cons(Head(L), Tail(L)) \in Seq(Steps) /\ Len(Cons(Head(L), Tail(L))) = Len(L)
    BY <1>1 DEF Cons
  <1>3. \A i \in 1..Len(L) : Cons(Head(L), Tail(L))[i] = L[i]
    BY <1>1 DEF Cons
  <1> QED BY <1>1, <1>2, <1>3

\* Its steps.
LEMMA ConsSet == \A x \in Steps, L \in Seq(Steps) : Cons(x, L) \in Seq(Steps) /\ InList(Cons(x, L)) = {x} \cup InList(L)
  BY ConsParts

\* A list with nothing to do.
LEMMA EmptyList == <<>> \in Seq(Steps) /\ InList(<<>>) = {}
  BY DEF InList

\* The lists in the actions, as steps in front.
LEMMA Tuples ==
    ASSUME NEW L \in Seq(Steps)
    PROVE  /\ <<>> \o L = L
           /\ \A x \in Steps : <<x>> \o L = Cons(x, L)
           /\ \A x, y \in Steps : <<x, y>> \o L = Cons(x, Cons(y, L))
           /\ \A x, y, z \in Steps : <<x, y, z>> \o L = Cons(x, Cons(y, Cons(z, L)))
           /\ \A x, y, z, w \in Steps : <<x, y, z, w>> \o L = Cons(x, Cons(y, Cons(z, Cons(w, L))))
  <1>1. <<>> \o L = L
    BY ConcatEmptySeq
  <1>2. ASSUME NEW x \in Steps PROVE <<x>> \o L = Cons(x, L)
    BY DEF Cons
  <1>3. ASSUME NEW x \in Steps, NEW M \in Seq(Steps) PROVE (<<x>> \o M) \o L = Cons(x, M \o L)
    <2>1. <<x>> \in Seq(Steps)
      OBVIOUS
    <2> QED BY <2>1, ConcatAssociative DEF Cons
  <1>4. ASSUME NEW x \in Steps, NEW y \in Steps PROVE <<x, y>> \o L = Cons(x, Cons(y, L))
    <2>1. <<x, y>> \in Seq(Steps) /\ <<x, y>> # <<>> /\ Head(<<x, y>>) = x /\ Tail(<<x, y>>) = <<y>>
      OBVIOUS
    <2>2. <<x, y>> = <<x>> \o <<y>> /\ <<y>> \in Seq(Steps)
      BY <2>1, ConsOf DEF Cons
    <2> QED BY <1>2, <1>3, <2>2
  <1>5. ASSUME NEW x \in Steps, NEW y \in Steps, NEW z \in Steps
        PROVE  <<x, y, z>> \o L = Cons(x, Cons(y, Cons(z, L)))
    <2>1. <<x, y, z>> \in Seq(Steps) /\ <<x, y, z>> # <<>> /\ Head(<<x, y, z>>) = x /\ Tail(<<x, y, z>>) = <<y, z>>
      OBVIOUS
    <2>2. <<x, y, z>> = <<x>> \o <<y, z>> /\ <<y, z>> \in Seq(Steps)
      BY <2>1, ConsOf DEF Cons
    <2> QED BY <1>3, <1>4, <2>2
  <1>6. ASSUME NEW x \in Steps, NEW y \in Steps, NEW z \in Steps, NEW w \in Steps
        PROVE  <<x, y, z, w>> \o L = Cons(x, Cons(y, Cons(z, Cons(w, L))))
    <2>1. <<x, y, z, w>> \in Seq(Steps) /\ <<x, y, z, w>> # <<>>
      OBVIOUS
    <2>2. Head(<<x, y, z, w>>) = x /\ Tail(<<x, y, z, w>>) = <<y, z, w>>
      OBVIOUS
    <2>3. <<x, y, z, w>> = <<x>> \o <<y, z, w>> /\ <<y, z, w>> \in Seq(Steps)
      BY <2>1, <2>2, ConsOf DEF Cons
    <2>4. (<<x>> \o <<y, z, w>>) \o L = Cons(x, <<y, z, w>> \o L)
      BY <1>3, <2>3
    <2>5. <<y, z, w>> \o L = Cons(y, Cons(z, Cons(w, L)))
      BY <1>5
    <2> QED BY <2>3, <2>4, <2>5
  <1> QED BY <1>1, <1>2, <1>4, <1>5, <1>6

\* Lists written as tuples, as BBPrefs writes them, and with Cons.
LEMMA Tuple0 == \A L \in Seq(Steps) : <<>> \o L = L
  BY Tuples

\* One step in front.
LEMMA Tuple1 == \A x \in Steps, L \in Seq(Steps) : <<x>> \o L = Cons(x, L)
  BY Tuples

\* Two steps in front.
LEMMA Tuple2 == \A x, y \in Steps, L \in Seq(Steps) : <<x, y>> \o L = Cons(x, Cons(y, L))
  <1> TAKE x, y \in Steps, L \in Seq(Steps)
  <1> QED BY Tuples

\* Three steps in front.
LEMMA Tuple3 == \A x, y, z \in Steps, L \in Seq(Steps) : <<x, y, z>> \o L = Cons(x, Cons(y, Cons(z, L)))
  <1> TAKE x, y, z \in Steps, L \in Seq(Steps)
  <1> QED BY Tuples

\* The same with nothing behind, as in the calls.
LEMMA ShortLists ==
    /\ \A x \in Steps : <<x>> = Cons(x, <<>>)
    /\ \A x, y \in Steps : <<x, y>> = Cons(x, Cons(y, <<>>))
    /\ \A x, y, z \in Steps : <<x, y, z>> = Cons(x, Cons(y, Cons(z, <<>>)))
  <1>1. ASSUME NEW x \in Steps PROVE <<x>> = Cons(x, <<>>)
    <2>1. <<x>> \in Seq(Steps)
      OBVIOUS
    <2> QED BY <2>1, EmptyList, ConcatEmptySeq DEF Cons
  <1>2. ASSUME NEW x \in Steps, NEW y \in Steps PROVE <<x, y>> = Cons(x, Cons(y, <<>>))
    <2>1. <<x, y>> \in Seq(Steps) /\ <<x, y>> # <<>> /\ Head(<<x, y>>) = x /\ Tail(<<x, y>>) = <<y>>
      OBVIOUS
    <2> QED BY <1>1, <2>1, ConsOf
  <1>3. ASSUME NEW x \in Steps, NEW y \in Steps, NEW z \in Steps PROVE <<x, y, z>> = Cons(x, Cons(y, Cons(z, <<>>)))
    <2>1. <<x, y, z>> \in Seq(Steps) /\ <<x, y, z>> # <<>> /\ Head(<<x, y, z>>) = x /\ Tail(<<x, y, z>>) = <<y, z>>
      OBVIOUS
    <2> QED BY <1>2, <2>1, ConsOf
  <1> QED BY <1>1, <1>2, <1>3

----------------------------------------------------------------------------
(***************************************************************************)
(* The steps in these lists                                                *)
(***************************************************************************)
\* The steps that use b, and those that make the view v ready.
UseSet(b)  == {Step("use", b)}
JoinSet(v) == {Step("base", v), Off(v, {"LOADING"}), Step("desc", v), Step("use", v)}
AfterDescSet(b, K) == K = UseSet(b) \/ \E v \in Views : Parent[v] = b /\ K = JoinSet(v)
RestSet(t, b, K) ==
    \/ t # Trimmer /\ K = {}
    \/ t = Trimmer /\ \A y \in K : \E c \in Stored : y = Step("trim", c) /\ c # b
AfterFreeSet(t, b, K) == \E R : K = {Off(b, {"UNLOADING"})} \cup R /\ RestSet(t, b, R)
AfterSaveSet(t, b, K) == \/ t # Trimmer /\ K = {}
                         \/ \E R : K = {Step("free", b), Off(b, {"UNLOADING"})} \cup R /\ RestSet(t, b, R)
AfterOffSet(t, b, f, K) ==
    \/ f = "LOADING" /\ t # Trimmer /\ b \in Stored /\ AfterDescSet(b, K)
    \/ f = "LOADING" /\ t # Trimmer /\ b \in Views /\ K = {Step("desc", b), Step("use", b)}
    \/ f = "SAVING" /\ b \in Stored /\ AfterSaveSet(t, b, K)
    \/ f = "LOADED" /\ b \in Stored /\ AfterFreeSet(t, b, K)
    \/ f = "UNLOADING" /\ b \in Stored /\ RestSet(t, b, K)

\* The lists for one BAT are lists.
LEMMA ListsTyped ==
    ASSUME NEW b \in Bats
    PROVE  /\ Using(b) \in Seq(Steps) /\ Opening(b) \in Seq(Steps) /\ Joining(b) \in Seq(Steps) /\ Ending(b) \in Seq(Steps)
           /\ InList(Using(b)) = UseSet(b) /\ InList(Opening(b)) = {Step("desc", b), Step("use", b)}
           /\ InList(Joining(b)) = JoinSet(b)
           /\ InList(Ending(b)) = {Step("epilogue", b), Step("end", b)}
  <1>1. /\ Step("use", b) \in Steps /\ Step("desc", b) \in Steps /\ Step("base", b) \in Steps
        /\ Step("epilogue", b) \in Steps /\ Step("end", b) \in Steps /\ Off(b, {"LOADING"}) \in Steps
    BY StepsTyped DEF Ops, Flags, WAITING
  <1>2. Using(b) \in Seq(Steps) /\ InList(Using(b)) = UseSet(b)
    <2>1. Using(b) \in Seq(Steps) /\ InList(Using(b)) = {Step("use", b)} \cup InList(<<>>)
      BY <1>1, ConsSet, EmptyList DEF Using
    <2> QED BY <2>1, EmptyList DEF UseSet
  <1>3. Opening(b) \in Seq(Steps) /\ InList(Opening(b)) = {Step("desc", b), Step("use", b)}
    BY <1>1, <1>2, ConsSet DEF Opening, UseSet
  <1>4. Cons(Off(b, {"LOADING"}), Opening(b)) \in Seq(Steps)
        /\ InList(Cons(Off(b, {"LOADING"}), Opening(b))) = {Off(b, {"LOADING"}), Step("desc", b), Step("use", b)}
    BY <1>1, <1>3, ConsSet
  <1>5. Joining(b) \in Seq(Steps) /\ InList(Joining(b)) = JoinSet(b)
    BY <1>1, <1>4, ConsSet DEF Joining, JoinSet
  <1>6. Cons(Step("end", b), <<>>) \in Seq(Steps) /\ InList(Cons(Step("end", b), <<>>)) = {Step("end", b)}
    <2>1. Cons(Step("end", b), <<>>) \in Seq(Steps) /\ InList(Cons(Step("end", b), <<>>)) = {Step("end", b)} \cup InList(<<>>)
      BY <1>1, ConsSet, EmptyList, ZenonT(30)
    <2> QED BY <2>1, EmptyList
  <1>7. Ending(b) \in Seq(Steps) /\ InList(Ending(b)) = {Step("epilogue", b), Step("end", b)}
    BY <1>1, <1>6, ConsSet DEF Ending
  <1> QED BY <1>2, <1>3, <1>5, <1>7

\* What follows a step of each kind.
LEMMA Following ==
    ASSUME NEW t, NEW b, NEW T
    PROVE  /\ Follows(t, Step("incref", b), T) <=> t # Trimmer /\ \E R \in Seq(Steps) : T = Cons(Step("desc", b), R) /\ AfterDesc(b, R)
           /\ Follows(t, Step("desc", b), T) <=> t # Trimmer /\ AfterDesc(b, T)
           /\ Follows(t, Step("load", b), T) <=>
                 t # Trimmer /\ b \in Stored /\ \E R \in Seq(Steps) : T = Cons(Off(b, {"LOADING"}), R) /\ AfterDesc(b, R)
           /\ Follows(t, Step("base", b), T) <=> t # Trimmer /\ b \in Views /\ T = Cons(Off(b, {"LOADING"}), Opening(b))
           /\ Follows(t, Step("use", b), T) <=> t # Trimmer /\ T = <<>>
           /\ Follows(t, Step("increfl", b), T) <=> t # Trimmer /\ T = Cons(Step("kept", b), Cons(Step("decref", b), <<>>))
           /\ Follows(t, Step("kept", b), T) <=> t # Trimmer /\ T = Cons(Step("decref", b), <<>>)
           /\ Follows(t, Step("decref", b), T) <=> t # Trimmer /\ T = <<>>
           /\ \A o \in {"unload", "destroy"} : Follows(t, Step(o, b), T) <=>
                 t # Trimmer /\ (T = <<>> \/ (b \in Views /\ T = Cons(Step("decref", Parent[b]), <<>>)))
           /\ Follows(t, Step("unshare", b), T) <=>
                 t # Trimmer /\ b \in Stored /\ (T = Cons(Step("decrefl", b), <<>>) \/ T = Cons(Step("decrefl", b), Cons(Step("decref", b), <<>>)))
           /\ Follows(t, Step("decrefl", b), T) <=> t # Trimmer /\ (T = <<>> \/ T = Cons(Step("decref", b), <<>>))
           /\ \A o \in {"save", "spin"} : Follows(t, Step(o, b), T) <=> b \in Stored /\ AfterSave(t, b, T)
           /\ Follows(t, Step("batsave", b), T) <=>
                 b \in Stored /\ \/ t # Trimmer /\ May("commit") /\ T = Ending(b)
                                 \/ \E R \in Seq(Steps) : T = Cons(Off(b, {"SAVING"}), R) /\ AfterSave(t, b, R)
           /\ Follows(t, Step("free", b), T) <=> b \in Stored /\ AfterFree(t, b, T)
           /\ Follows(t, Step("trim", b), T) <=> b \in Stored /\ t = Trimmer /\ Rest(t, b, T)
           /\ Follows(t, Step("dirty_bat", b), T) <=> t # Trimmer /\ b \in Stored /\ May("commit") /\ T = Ending(b)
           /\ Follows(t, Step("epilogue", b), T) <=> t # Trimmer /\ May("commit") /\ T = Cons(Step("end", b), <<>>)
           /\ Follows(t, Step("end", b), T) <=> t # Trimmer /\ T = <<>>
           /\ \A s : Follows(t, Off(b, s), T) <=> \E f \in Flags : s = {f} /\ AfterOff(t, b, f, T)
           /\ \A s : Follows(t, Write(b, s), T) <=> \E f \in Flags : AfterOff(t, b, f, T)
  <1>1. Follows(t, Step("incref", b), T) <=> t # Trimmer /\ \E R \in Seq(Steps) : T = Cons(Step("desc", b), R) /\ AfterDesc(b, R)
    BY StepParts DEF Follows
  <1>2. Follows(t, Step("desc", b), T) <=> t # Trimmer /\ AfterDesc(b, T)
    BY StepParts DEF Follows
  <1>3. Follows(t, Step("load", b), T) <=>
                 t # Trimmer /\ b \in Stored /\ \E R \in Seq(Steps) : T = Cons(Off(b, {"LOADING"}), R) /\ AfterDesc(b, R)
    BY StepParts DEF Follows
  <1>4. Follows(t, Step("base", b), T) <=> t # Trimmer /\ b \in Views /\ T = Cons(Off(b, {"LOADING"}), Opening(b))
    BY StepParts DEF Follows
  <1>5. Follows(t, Step("use", b), T) <=> t # Trimmer /\ T = <<>>
    BY StepParts DEF Follows
  <1>6. Follows(t, Step("increfl", b), T) <=> t # Trimmer /\ T = Cons(Step("kept", b), Cons(Step("decref", b), <<>>))
    BY StepParts DEF Follows
  <1>7. Follows(t, Step("kept", b), T) <=> t # Trimmer /\ T = Cons(Step("decref", b), <<>>)
    BY StepParts DEF Follows
  <1>8. Follows(t, Step("decref", b), T) <=> t # Trimmer /\ T = <<>>
    BY StepParts DEF Follows
  <1>9. \A o \in {"unload", "destroy"} : Follows(t, Step(o, b), T) <=>
                 t # Trimmer /\ (T = <<>> \/ (b \in Views /\ T = Cons(Step("decref", Parent[b]), <<>>)))
    BY StepParts DEF Follows
  <1>10. Follows(t, Step("unshare", b), T) <=>
                 t # Trimmer /\ b \in Stored /\ (T = Cons(Step("decrefl", b), <<>>) \/ T = Cons(Step("decrefl", b), Cons(Step("decref", b), <<>>)))
    BY StepParts DEF Follows
  <1>11. Follows(t, Step("decrefl", b), T) <=> t # Trimmer /\ (T = <<>> \/ T = Cons(Step("decref", b), <<>>))
    BY StepParts DEF Follows
  <1>12. \A o \in {"save", "spin"} : Follows(t, Step(o, b), T) <=> b \in Stored /\ AfterSave(t, b, T)
    BY StepParts DEF Follows
  <1>13. Follows(t, Step("batsave", b), T) <=>
                 b \in Stored /\ \/ t # Trimmer /\ May("commit") /\ T = Ending(b)
                                 \/ \E R \in Seq(Steps) : T = Cons(Off(b, {"SAVING"}), R) /\ AfterSave(t, b, R)
    BY StepParts DEF Follows
  <1>14. Follows(t, Step("free", b), T) <=> b \in Stored /\ AfterFree(t, b, T)
    BY StepParts DEF Follows
  <1>15. Follows(t, Step("trim", b), T) <=> b \in Stored /\ t = Trimmer /\ Rest(t, b, T)
    BY StepParts DEF Follows
  <1>16. Follows(t, Step("dirty_bat", b), T) <=> t # Trimmer /\ b \in Stored /\ May("commit") /\ T = Ending(b)
    BY StepParts DEF Follows
  <1>17. Follows(t, Step("epilogue", b), T) <=> t # Trimmer /\ May("commit") /\ T = Cons(Step("end", b), <<>>)
    BY StepParts DEF Follows
  <1>18. Follows(t, Step("end", b), T) <=> t # Trimmer /\ T = <<>>
    BY StepParts DEF Follows
  <1>19. \A s : Follows(t, Off(b, s), T) <=> \E f \in Flags : s = {f} /\ AfterOff(t, b, f, T)
    BY StepParts DEF Follows
  <1>20. \A s : Follows(t, Write(b, s), T) <=> \E f \in Flags : AfterOff(t, b, f, T)
    BY StepParts DEF Follows
  <1> QED BY <1>1, <1>2, <1>3, <1>4, <1>5, <1>6, <1>7, <1>8, <1>9, <1>10, <1>11, <1>12, <1>13, <1>14, <1>15, <1>16, <1>17, <1>18, <1>19, <1>20

\* A list is in form if the rest follows its first step.
LEMMA FormedCons ==
    /\ \A t, x, T : x \in Steps /\ T \in Seq(Steps) => (Formed(t, Cons(x, T)) <=> Follows(t, x, T))
    /\ \A t : Formed(t, <<>>)
  <1>1. ASSUME NEW t, NEW x \in Steps, NEW T \in Seq(Steps)
        PROVE  Formed(t, Cons(x, T)) <=> Follows(t, x, T)
    <2>1. Cons(x, T) # <<>> /\ Head(Cons(x, T)) = x /\ Tail(Cons(x, T)) = T
      BY ConsParts
    <2> QED BY <2>1, Zenon DEF Formed
  <1>2. ASSUME NEW t PROVE Formed(t, <<>>)
    BY Zenon DEF Formed
  <1> QED BY <1>1, <1>2

\* The kinds of steps that the proofs name.
LEMMA Kinds ==
    ASSUME NEW b \in Bats
    PROVE  /\ Step("use", b) \in Steps /\ Step("desc", b) \in Steps /\ Step("base", b) \in Steps
           /\ Step("incref", b) \in Steps /\ Step("increfl", b) \in Steps /\ Step("kept", b) \in Steps
           /\ Step("decref", b) \in Steps /\ Step("decrefl", b) \in Steps /\ Step("unshare", b) \in Steps
           /\ Step("load", b) \in Steps /\ Step("unload", b) \in Steps /\ Step("destroy", b) \in Steps
           /\ Step("save", b) \in Steps /\ Step("spin", b) \in Steps /\ Step("batsave", b) \in Steps
           /\ Step("free", b) \in Steps /\ Step("trim", b) \in Steps /\ Step("dirty_bat", b) \in Steps
           /\ Step("epilogue", b) \in Steps /\ Step("end", b) \in Steps
           /\ Off(b, {"LOADING"}) \in Steps /\ Off(b, {"SAVING"}) \in Steps
           /\ Off(b, {"LOADED"}) \in Steps /\ Off(b, {"UNLOADING"}) \in Steps
  BY StepsTyped DEF Ops, Flags, WAITING

\* A list with one step.
LEMMA OneStep == \A x \in Steps : Cons(x, <<>>) \in Seq(Steps) /\ InList(Cons(x, <<>>)) = {x}
  <1>1. ASSUME NEW x \in Steps PROVE Cons(x, <<>>) \in Seq(Steps) /\ InList(Cons(x, <<>>)) = {x}
    <2>1. Cons(x, <<>>) \in Seq(Steps) /\ InList(Cons(x, <<>>)) = {x} \cup InList(<<>>)
      BY ConsSet, EmptyList
    <2> QED BY <2>1, EmptyList
  <1> QED BY <1>1

\* The tails of the lists of a thread are in form.
LEMMA FormedTails ==
    ASSUME NEW t, t # Trimmer, NEW b \in Bats
    PROVE  /\ Formed(t, Using(b)) /\ Formed(t, Opening(b))
           /\ Formed(t, Cons(Step("decref", b), <<>>))
           /\ Formed(t, Cons(Step("end", b), <<>>))
           /\ b \in Views => Formed(t, Joining(b)) /\ Formed(t, Cons(Off(b, {"LOADING"}), Opening(b)))
           /\ May("commit") => Formed(t, Ending(b))
  <1>1. Formed(t, Using(b)) /\ Formed(t, Cons(Step("decref", b), <<>>)) /\ Formed(t, Cons(Step("end", b), <<>>))
    BY FormedCons, EmptyList, Kinds, Following DEF Using
  <1>2. Formed(t, Opening(b))
    BY FormedCons, ListsTyped, Kinds, Following DEF Opening, AfterDesc
  <1>3. ASSUME b \in Views PROVE Formed(t, Cons(Off(b, {"LOADING"}), Opening(b)))
    <2>1. AfterOff(t, b, "LOADING", Opening(b)) /\ "LOADING" \in Flags
      BY <1>3 DEF AfterOff, Flags, WAITING
    <2> QED BY <2>1, FormedCons, ListsTyped, Kinds, Following
  <1>4. ASSUME b \in Views PROVE Formed(t, Joining(b))
    <2>1. Cons(Off(b, {"LOADING"}), Opening(b)) \in Seq(Steps)
      BY ConsSet, Kinds, ListsTyped
    <2> QED BY <1>4, <2>1, FormedCons, Kinds, Following DEF Joining
  <1>5. ASSUME May("commit") PROVE Formed(t, Ending(b))
    <2>1. Cons(Step("end", b), <<>>) \in Seq(Steps)
      BY OneStep, Kinds
    <2> QED BY <1>5, <2>1, FormedCons, Kinds, Following DEF Ending
  <1> QED BY <1>1, <1>2, <1>3, <1>4, <1>5

\* What is left to do when a descriptor is looked up.
LEMMA AfterDescFormed ==
    ASSUME NEW t, t # Trimmer, NEW b \in Bats, NEW T, AfterDesc(b, T)
    PROVE  /\ T \in Seq(Steps) /\ Formed(t, T) /\ AfterDescSet(b, InList(T))
           /\ b \in Views => T = Using(b)
  <1>1. CASE T = Using(b)
    BY <1>1, ListsTyped, FormedTails DEF AfterDescSet
  <1>2. ASSUME NEW v \in Views, Parent[v] = b, T = Joining(v)
        PROVE  /\ T \in Seq(Steps) /\ Formed(t, T) /\ AfterDescSet(b, InList(T))
               /\ b \in Views => T = Using(b)
    <2>1. v \in Bats /\ b \in Stored /\ b \notin Views
      BY <1>2, BatsAssumption DEF Bats
    <2> QED BY <1>2, <2>1, ListsTyped, FormedTails DEF AfterDescSet
  <1> QED BY <1>1, <1>2 DEF AfterDesc

\* What is left to do when the trimmer is done with b.
LEMMA RestFormed ==
    ASSUME NEW t, NEW b \in Bats, NEW T \in Seq(Steps), Rest(t, b, T)
    PROVE  Formed(t, T) /\ RestSet(t, b, InList(T))
  <1>1. CASE t # Trimmer
    BY <1>1, FormedCons, EmptyList DEF Rest, RestSet
  <1>2. CASE t = Trimmer
    <2>1. /\ \A i \in DOMAIN T : \E c \in Stored : T[i] = Step("trim", c) /\ c # b
          /\ \A i, j \in DOMAIN T : T[i] = T[j] => i = j
      BY <1>2 DEF Rest
    <2>2. RestSet(t, b, InList(T))
      BY <1>2, <2>1 DEF RestSet, InList
    <2>3. ASSUME T # <<>> PROVE Follows(t, Head(T), Tail(T))
      <3>1. 1 \in DOMAIN T /\ Head(T) = T[1] /\ DOMAIN Tail(T) = 1..(Len(T) - 1) /\ DOMAIN T = 1..Len(T) /\ Len(T) \in Nat
        BY <2>3
      <3>2. \A i \in DOMAIN Tail(T) : Tail(T)[i] = T[i + 1] /\ i + 1 \in DOMAIN T /\ i + 1 # 1
        BY <2>3
      <3>3. PICK c \in Stored : Head(T) = Step("trim", c)
        BY <2>1, <3>1
      <3>4. ASSUME NEW i \in DOMAIN Tail(T) PROVE \E d \in Stored : Tail(T)[i] = Step("trim", d) /\ d # c
        BY <2>1, <3>1, <3>2, <3>3
      <3>5. ASSUME NEW i \in DOMAIN Tail(T), NEW j \in DOMAIN Tail(T), Tail(T)[i] = Tail(T)[j] PROVE i = j
        <4>1. i + 1 = j + 1
          BY <2>1, <3>2, <3>5
        <4> QED BY <4>1, <3>1
      <3>6. Rest(t, c, Tail(T))
        BY <1>2, <3>4, <3>5 DEF Rest
      <3> QED BY <1>2, <3>3, <3>6, Following
    <2> QED BY <2>2, <2>3 DEF Formed
  <1> QED BY <1>1, <1>2

\* What is left to do when b is freed.
LEMMA AfterFreeFormed ==
    ASSUME NEW t, NEW b \in Stored, NEW T, AfterFree(t, b, T)
    PROVE  T \in Seq(Steps) /\ Formed(t, T) /\ AfterFreeSet(t, b, InList(T))
  <1>1. PICK R \in Seq(Steps) : T = Cons(Off(b, {"UNLOADING"}), R) /\ Rest(t, b, R)
    BY DEF AfterFree
  <1>2. b \in Bats
    BY DEF Bats
  <1>3. AfterOff(t, b, "UNLOADING", R) /\ "UNLOADING" \in Flags
    BY <1>1 DEF AfterOff, Flags, WAITING
  <1>4. Formed(t, T)
    BY <1>1, <1>2, <1>3, FormedCons, Kinds, Following
  <1>5. T \in Seq(Steps) /\ InList(T) = {Off(b, {"UNLOADING"})} \cup InList(R) /\ RestSet(t, b, InList(R))
    BY <1>1, <1>2, ConsSet, Kinds, RestFormed
  <1> QED BY <1>4, <1>5 DEF AfterFreeSet

\* What is left to do when b is saved.
LEMMA AfterSaveFormed ==
    ASSUME NEW t, NEW b \in Stored, NEW T, AfterSave(t, b, T)
    PROVE  T \in Seq(Steps) /\ Formed(t, T) /\ AfterSaveSet(t, b, InList(T))
  <1>1. CASE t # Trimmer /\ T = <<>>
    BY <1>1, EmptyList, FormedCons DEF AfterSaveSet
  <1>2. ASSUME NEW R \in Seq(Steps), T = Cons(Step("free", b), R), AfterFree(t, b, R)
        PROVE  T \in Seq(Steps) /\ Formed(t, T) /\ AfterSaveSet(t, b, InList(T))
    <2>1. b \in Bats
      BY DEF Bats
    <2>2. PICK K : InList(R) = {Off(b, {"UNLOADING"})} \cup K /\ RestSet(t, b, K)
      BY <1>2, AfterFreeFormed DEF AfterFreeSet
    <2>3. T \in Seq(Steps) /\ InList(T) = {Step("free", b)} \cup InList(R)
      BY <1>2, <2>1, ConsSet, Kinds
    <2>4. InList(T) = {Step("free", b), Off(b, {"UNLOADING"})} \cup K
      BY <2>2, <2>3
    <2>5. Formed(t, T)
      BY <1>2, <2>1, FormedCons, Kinds, Following
    <2> QED BY <2>2, <2>3, <2>4, <2>5 DEF AfterSaveSet
  <1> QED BY <1>1, <1>2 DEF AfterSave

\* What is left to do when a flag of b is cleared.
LEMMA AfterOffFormed ==
    ASSUME NEW t, NEW b \in Bats, NEW f, NEW T \in Seq(Steps), AfterOff(t, b, f, T)
    PROVE  Formed(t, T) /\ AfterOffSet(t, b, f, InList(T))
  <1>1. CASE f = "LOADING" /\ t # Trimmer /\ b \in Stored /\ AfterDesc(b, T)
    BY <1>1, AfterDescFormed DEF AfterOffSet
  <1>2. CASE f = "LOADING" /\ t # Trimmer /\ b \in Views /\ T = Opening(b)
    BY <1>2, FormedTails, ListsTyped DEF AfterOffSet
  <1>3. CASE f = "SAVING" /\ b \in Stored /\ AfterSave(t, b, T)
    BY <1>3, AfterSaveFormed DEF AfterOffSet
  <1>4. CASE f = "LOADED" /\ b \in Stored /\ AfterFree(t, b, T)
    BY <1>4, AfterFreeFormed DEF AfterOffSet
  <1>5. CASE f = "UNLOADING" /\ b \in Stored /\ Rest(t, b, T)
    BY <1>5, RestFormed DEF AfterOffSet
  <1> QED BY <1>1, <1>2, <1>3, <1>4, <1>5 DEF AfterOff

----------------------------------------------------------------------------
(***************************************************************************)
(* What each action does to the lists.  Moves(t, A, B): t had the steps A  *)
(* to do and now has B, the other threads have what they had.              *)
(***************************************************************************)
Todo(t) == InList(todo[t])
ListsOK == todo \in [Actors -> Seq(Steps)] /\ Shaped

Moves(t, A, B) ==
    /\ ListsOK'
    /\ Todo(t) = A /\ Todo(t)' = B
    /\ \A u \in Actors : u # t => Todo(u)' = Todo(u)

\* An action that gives t another list.
LEMMA Replaced ==
    ASSUME ListsOK, NEW t \in Actors, NEW L \in Seq(Steps), Formed(t, L), todo' = [todo EXCEPT ![t] = L]
    PROVE  Moves(t, Todo(t), InList(L))
  <1>1. todo' \in [Actors -> Seq(Steps)] /\ todo'[t] = L /\ \A u \in Actors : u # t => todo'[u] = todo[u]
    BY DEF ListsOK
  <1>2. \A u \in Actors : Formed(u, todo'[u])
    BY <1>1 DEF ListsOK, Shaped
  <1> QED BY <1>1, <1>2 DEF Moves, ListsOK, Shaped, Todo

\* The step that is next in the list of t, and what follows it.
LEMMA Popped ==
    ASSUME ListsOK, NEW t \in Actors, NEW o, NEW b, Ready(t, o, b)
    PROVE  /\ Head(todo[t]) \in Steps /\ Tail(todo[t]) \in Seq(Steps)
           /\ Head(todo[t]).op = o /\ Head(todo[t]).b = b /\ b \in Bats
           /\ o \notin {"off", "write"} => Head(todo[t]) = Step(o, b)
           /\ Follows(t, Head(todo[t]), Tail(todo[t]))
           /\ Todo(t) = {Head(todo[t])} \cup InList(Tail(todo[t]))
  <1>1. todo[t] \in Seq(Steps) /\ todo[t] # <<>> /\ Head(todo[t]).op = o /\ Head(todo[t]).b = b
    BY DEF ListsOK, Ready
  <1>2. Head(todo[t]) \in Steps /\ Tail(todo[t]) \in Seq(Steps) /\ todo[t] = Cons(Head(todo[t]), Tail(todo[t]))
    BY <1>1, ConsOf
  <1>3. Follows(t, Head(todo[t]), Tail(todo[t]))
    BY <1>1 DEF ListsOK, Shaped, Formed
  <1>4. ASSUME o \notin {"off", "write"} PROVE Head(todo[t]) = Step(o, b)
    <2>1. Head(todo[t]).set = {}
      BY <1>1, <1>3, <1>4 DEF Follows
    <2> QED BY <1>1, <1>2, <2>1, StepIs
  <1>5. Todo(t) = {Head(todo[t])} \cup InList(Tail(todo[t]))
    BY <1>2, ConsSet DEF Todo
  <1>6. b \in Bats
    BY <1>1, <1>2, StepIs
  <1> QED BY <1>1, <1>2, <1>3, <1>4, <1>5, <1>6

\* Going on with a step that is not a change of flags.
LEMMA Advanced ==
    ASSUME ListsOK, NEW t \in Actors, NEW o, NEW b, Ready(t, o, b), o \notin {"off", "write"},
           NEW s, Then(t, s), s \o Tail(todo[t]) \in Seq(Steps), Formed(t, s \o Tail(todo[t]))
    PROVE  Moves(t, {Step(o, b)} \cup InList(Tail(todo[t])), InList(s \o Tail(todo[t])))
  <1>1. Todo(t) = {Step(o, b)} \cup InList(Tail(todo[t]))
    BY Popped
  <1>2. todo' = [todo EXCEPT ![t] = s \o Tail(todo[t])]
    BY DEF Then
  <1> QED BY <1>1, <1>2, Replaced

\* A call that starts puts its steps on an empty list.
LEMMA Called ==
    ASSUME ListsOK, NEW t \in Actors, NEW s \in Seq(Steps), Formed(t, s), Call(t, s)
    PROVE  Moves(t, {}, InList(s))
  <1>1. Todo(t) = {} /\ todo' = [todo EXCEPT ![t] = s]
    BY EmptyList DEF Call, Todo
  <1> QED BY <1>1, Replaced

\* incref fixes b; a view that is loaded goes on with its parent.
LEMMA increfLists ==
    ASSUME ListsOK, NEW t \in Actors, NEW b, increfPhysical(t, b)
    PROVE  /\ t \in Threads
           /\ \E K : /\ AfterDescSet(b, K)
                     /\ IF desc[b] /\ LoadsParent(b)
                          THEN /\ K = UseSet(b)
                               /\ Moves(t, {Step("incref", b), Step("desc", b), Step("use", b)},
                                        {Step("incref", Parent[b]), Step("desc", Parent[b]), Step("base", b), Off(b, {"LOADING"}),
                                         Step("desc", b), Step("use", b)})
                          ELSE Moves(t, {Step("incref", b), Step("desc", b)} \cup K, {Step("desc", b)} \cup K)
  <1> DEFINE T == Tail(todo[t])
  <1>0. Ready(t, "incref", b)
    BY DEF increfPhysical
  <1>1. Follows(t, Step("incref", b), T) /\ T \in Seq(Steps) /\ b \in Bats
    BY <1>0, Popped
  <1>2. PICK R \in Seq(Steps) : T = Cons(Step("desc", b), R) /\ AfterDesc(b, R) /\ t # Trimmer
    BY <1>1, Following
  <1>3. t \in Threads
    BY <1>2 DEF Actors
  <1>4. /\ Formed(t, R) /\ AfterDescSet(b, InList(R)) /\ (b \in Views => R = Using(b))
    BY <1>1, <1>2, AfterDescFormed
  <1>5. InList(T) = {Step("desc", b)} \cup InList(R)
    BY <1>1, <1>2, ConsSet, Kinds
  <1>6. CASE desc[b] /\ LoadsParent(b)
    <2> DEFINE p == Parent[b]
               L1 == Cons(Off(b, {"LOADING"}), T)
               L2 == Cons(Step("base", b), L1)
               L3 == Cons(Step("desc", p), L2)
               L4 == Cons(Step("incref", p), L3)
    <2>1. b \in Views /\ p \in Bats /\ p \in Stored /\ T = Opening(b)
      BY <1>2, <1>4, <1>6, BatsAssumption DEF LoadsParent, IsView, Bats, Opening
    <2>2. L1 \in Seq(Steps) /\ L2 \in Seq(Steps) /\ L3 \in Seq(Steps) /\ L4 \in Seq(Steps)
      BY <1>1, <2>1, ConsSet, Kinds
    <2>3. InList(T) = {Step("desc", b), Step("use", b)} /\ InList(R) = UseSet(b)
      BY <1>1, <2>1, <1>4, ListsTyped
    <2>4. InList(L1) = {Off(b, {"LOADING"})} \cup InList(T) /\ InList(L2) = {Step("base", b)} \cup InList(L1)
      BY <1>1, <2>2, ConsSet, Kinds
    <2>5. InList(L3) = {Step("desc", p)} \cup InList(L2) /\ InList(L4) = {Step("incref", p)} \cup InList(L3)
      BY <2>1, <2>2, ConsSet, Kinds
    <2>6. InList(L4) = {Step("incref", p), Step("desc", p), Step("base", b), Off(b, {"LOADING"}), Step("desc", b), Step("use", b)}
      BY <2>3, <2>4, <2>5
    <2>7. L2 = Joining(b) /\ AfterDesc(p, L2)
      BY <2>1 DEF Joining, AfterDesc
    <2>8. Formed(t, L4)
      BY <1>2, <2>1, <2>2, <2>7, FormedCons, Following, Kinds
    <2>9. <<Step("incref", p), Step("desc", p), Step("base", b), Off(b, {"LOADING"})>> \o T = L4
      <3>1. Step("incref", p) \in Steps /\ Step("desc", p) \in Steps /\ Step("base", b) \in Steps /\ Off(b, {"LOADING"}) \in Steps
        BY <1>1, <2>1, Kinds
      <3>2. \A x, y, z, w \in Steps : <<x, y, z, w>> \o T = Cons(x, Cons(y, Cons(z, Cons(w, T))))
        BY <1>1, Tuples
      <3> QED BY <3>1, <3>2
    <2>10. Then(t, <<Step("incref", p), Step("desc", p), Step("base", b), Off(b, {"LOADING"})>>)
      BY <1>6 DEF increfPhysical
    <2>11. Moves(t, {Step("incref", b)} \cup InList(T), InList(L4))
      BY <1>0, <2>2, <2>8, <2>9, <2>10, Advanced
    <2>12. {Step("incref", b)} \cup InList(T) = {Step("incref", b), Step("desc", b), Step("use", b)}
      BY <2>3
    <2>13. Moves(t, {Step("incref", b), Step("desc", b), Step("use", b)},
                 {Step("incref", Parent[b]), Step("desc", Parent[b]), Step("base", b), Off(b, {"LOADING"}), Step("desc", b), Step("use", b)})
      BY <2>6, <2>11, <2>12
    <2> HIDE DEF T, L1, L2, L3, L4
    <2> QED BY <1>3, <1>4, <1>6, <2>3, <2>13
  <1>7. CASE ~(desc[b] /\ LoadsParent(b))
    <2>1. Then(t, <<>>) /\ <<>> \o T = T
      BY <1>1, <1>7, Tuples DEF increfPhysical
    <2>2. Formed(t, T)
      BY <1>1, <1>2, FormedCons, Following, Kinds
    <2>3. Moves(t, {Step("incref", b)} \cup InList(T), InList(T))
      BY <1>0, <1>1, <2>1, <2>2, Advanced
    <2>4. {Step("incref", b)} \cup InList(T) = {Step("incref", b), Step("desc", b)} \cup InList(R)
      BY <1>5
    <2>5. Moves(t, {Step("incref", b), Step("desc", b)} \cup InList(R), {Step("desc", b)} \cup InList(R))
      BY <1>5, <2>3, <2>4
    <2> HIDE DEF T
    <2> QED BY <1>3, <1>4, <1>7, <2>5
  <1> QED BY <1>6, <1>7

\* incref(logical), and the reference it gives to the caller.
LEMMA increflLists ==
    ASSUME ListsOK, NEW t \in Actors, NEW b, increfLogical(t, b)
    PROVE  /\ t \in Threads
           /\ Moves(t, {Step("increfl", b), Step("kept", b), Step("decref", b)}, {Step("kept", b), Step("decref", b)})
  <1> DEFINE T == Tail(todo[t])
  <1>0. Ready(t, "increfl", b) /\ Then(t, <<>>)
    BY DEF increfLogical
  <1>1. Follows(t, Step("increfl", b), T) /\ T \in Seq(Steps) /\ b \in Bats /\ <<>> \o T = T
    BY <1>0, Popped, Tuple0
  <1> HIDE DEF T
  <1>2. T = Cons(Step("kept", b), Cons(Step("decref", b), <<>>)) /\ t # Trimmer
    BY <1>1, Following
  <1>3. Cons(Step("decref", b), <<>>) \in Seq(Steps) /\ InList(Cons(Step("decref", b), <<>>)) = {Step("decref", b)}
    BY <1>1, OneStep, Kinds
  <1>4. InList(T) = {Step("kept", b)} \cup {Step("decref", b)} /\ Formed(t, T)
    <2>1. Follows(t, Step("kept", b), Cons(Step("decref", b), <<>>)) /\ Step("kept", b) \in Steps
      BY <1>1, <1>2, Following, Kinds
    <2> QED BY <1>2, <1>3, <2>1, ConsSet, FormedCons
  <1>5. Moves(t, {Step("increfl", b)} \cup InList(T), InList(T))
    BY <1>0, <1>1, <1>4, Advanced DEF T
  <1>6. {Step("increfl", b)} \cup InList(T) = {Step("increfl", b), Step("kept", b), Step("decref", b)}
        /\ InList(T) = {Step("kept", b), Step("decref", b)}
    BY <1>4
  <1> QED BY <1>2, <1>5, <1>6 DEF Actors

\* The caller keeps the reference, and gives the fix back.
LEMMA KeptLists ==
    ASSUME ListsOK, NEW t \in Actors, NEW b, Kept(t, b)
    PROVE  t \in Threads /\ Moves(t, {Step("kept", b), Step("decref", b)}, {Step("decref", b)})
  <1> DEFINE T == Tail(todo[t])
  <1>0. Ready(t, "kept", b) /\ Then(t, <<>>)
    BY DEF Kept
  <1>1. Follows(t, Step("kept", b), T) /\ T \in Seq(Steps) /\ b \in Bats /\ <<>> \o T = T
    BY <1>0, Popped, Tuple0
  <1> HIDE DEF T
  <1>2. T = Cons(Step("decref", b), <<>>) /\ t # Trimmer
    BY <1>1, Following
  <1>3. InList(T) = {Step("decref", b)} /\ Formed(t, T)
    BY <1>1, <1>2, OneStep, Kinds, FormedTails
  <1>4. Moves(t, {Step("kept", b)} \cup InList(T), InList(T))
    BY <1>0, <1>1, <1>3, Advanced DEF T
  <1>5. {Step("kept", b)} \cup InList(T) = {Step("kept", b), Step("decref", b)}
    BY <1>3
  <1> QED BY <1>2, <1>3, <1>4, <1>5 DEF Actors

\* The pointer of a view is set, and LOADING is to be cleared.
LEMMA RebaseLists ==
    ASSUME ListsOK, NEW t \in Actors, NEW b, Rebase(t, b)
    PROVE  /\ t \in Threads /\ b \in Views
           /\ Moves(t, JoinSet(b), {Off(b, {"LOADING"}), Step("desc", b), Step("use", b)})
  <1> DEFINE T == Tail(todo[t])
  <1>0. Ready(t, "base", b) /\ Then(t, <<>>)
    BY DEF Rebase
  <1>1. Follows(t, Step("base", b), T) /\ T \in Seq(Steps) /\ b \in Bats /\ <<>> \o T = T
    BY <1>0, Popped, Tuple0
  <1> HIDE DEF T
  <1>2. T = Cons(Off(b, {"LOADING"}), Opening(b)) /\ t # Trimmer /\ b \in Views
    BY <1>1, Following
  <1>3. Formed(t, T)
    BY <1>1, <1>2, FormedTails
  <1>4. InList(T) = {Off(b, {"LOADING"})} \cup {Step("desc", b), Step("use", b)}
    BY <1>1, <1>2, ConsSet, Kinds, ListsTyped
  <1>5. Moves(t, {Step("base", b)} \cup InList(T), InList(T))
    BY <1>0, <1>1, <1>3, Advanced DEF T
  <1>6. {Step("base", b)} \cup InList(T) = JoinSet(b) /\ InList(T) = {Off(b, {"LOADING"}), Step("desc", b), Step("use", b)}
    BY <1>4 DEF JoinSet
  <1> QED BY <1>2, <1>5, <1>6 DEF Actors

\* The descriptor is in memory, or nobody is to load it.
LEMMA CachedLists ==
    ASSUME ListsOK, NEW t \in Actors, NEW b, Cached(t, b)
    PROVE  t \in Threads /\ \E K : AfterDescSet(b, K) /\ Moves(t, {Step("desc", b)} \cup K, K)
  <1> DEFINE T == Tail(todo[t])
  <1>0. Ready(t, "desc", b) /\ Then(t, <<>>)
    BY DEF Cached
  <1>1. Follows(t, Step("desc", b), T) /\ T \in Seq(Steps) /\ b \in Bats /\ <<>> \o T = T
    BY <1>0, Popped, Tuple0
  <1> HIDE DEF T
  <1>2. AfterDesc(b, T) /\ t # Trimmer
    BY <1>1, Following
  <1>3. AfterDescSet(b, InList(T)) /\ Formed(t, T)
    BY <1>1, <1>2, AfterDescFormed
  <1>4. Moves(t, {Step("desc", b)} \cup InList(T), InList(T))
    BY <1>0, <1>1, <1>3, Advanced DEF T
  <1> QED BY <1>2, <1>3, <1>4 DEF Actors

\* Only a BAT with heaps of its own is loaded.
LEMMA MustLoadLists ==
    ASSUME ListsOK, NEW t \in Actors, NEW b \in Stored, MustLoad(t, b)
    PROVE  /\ t \in Threads
           /\ \E K : /\ AfterDescSet(b, K)
                     /\ Moves(t, {Step("desc", b)} \cup K, {Step("load", b), Off(b, {"LOADING"})} \cup K)
  <1> DEFINE T == Tail(todo[t])
             L1 == Cons(Off(b, {"LOADING"}), T)
             L2 == Cons(Step("load", b), L1)
  <1>0. Ready(t, "desc", b) /\ Then(t, <<Step("load", b), Off(b, {"LOADING"})>>)
    BY DEF MustLoad
  <1>1. Follows(t, Step("desc", b), T) /\ T \in Seq(Steps) /\ b \in Bats
    BY <1>0, Popped
  <1> HIDE DEF T
  <1>2. AfterDesc(b, T) /\ t # Trimmer
    BY <1>1, Following
  <1>3. AfterDescSet(b, InList(T))
    BY <1>1, <1>2, AfterDescFormed
  <1>4. L1 \in Seq(Steps) /\ L2 \in Seq(Steps) /\ InList(L1) = {Off(b, {"LOADING"})} \cup InList(T)
    BY <1>1, ConsSet, Kinds
  <1>5. InList(L2) = {Step("load", b)} \cup InList(L1)
    BY <1>1, <1>4, ConsSet, Kinds
  <1>6. Formed(t, L2)
    BY <1>1, <1>2, <1>4, FormedCons, Following, Kinds
  <1>7. <<Step("load", b), Off(b, {"LOADING"})>> \o T = L2
    <2>1. Step("load", b) \in Steps /\ Off(b, {"LOADING"}) \in Steps
      BY <1>1, Kinds
    <2> QED BY <1>1, <2>1, Tuple2
  <1>8. Moves(t, {Step("desc", b)} \cup InList(T), InList(L2))
    BY <1>0, <1>4, <1>6, <1>7, Advanced DEF T
  <1>9. InList(L2) = {Step("load", b), Off(b, {"LOADING"})} \cup InList(T)
    BY <1>4, <1>5
  <1> HIDE DEF L1, L2
  <1> QED BY <1>2, <1>3, <1>8, <1>9 DEF Actors

\* BATload, LOADING being cleared afterwards.
LEMMA LoadLists ==
    ASSUME ListsOK, NEW t \in Actors, NEW b, Load(t, b)
    PROVE  /\ t \in Threads /\ b \in Stored
           /\ \E K : /\ AfterDescSet(b, K)
                     /\ Moves(t, {Step("load", b), Off(b, {"LOADING"})} \cup K, {Off(b, {"LOADING"})} \cup K)
  <1> DEFINE T == Tail(todo[t])
  <1>0. Ready(t, "load", b) /\ Then(t, <<>>)
    BY DEF Load
  <1>1. Follows(t, Step("load", b), T) /\ T \in Seq(Steps) /\ b \in Bats /\ <<>> \o T = T
    BY <1>0, Popped, Tuple0
  <1> HIDE DEF T
  <1>2. PICK R \in Seq(Steps) : T = Cons(Off(b, {"LOADING"}), R) /\ AfterDesc(b, R) /\ b \in Stored /\ t # Trimmer
    BY <1>1, Following
  <1>3. AfterDescSet(b, InList(R)) /\ AfterOff(t, b, "LOADING", R) /\ "LOADING" \in Flags
    BY <1>1, <1>2, AfterDescFormed DEF AfterOff, Flags, WAITING
  <1>4. Formed(t, T) /\ InList(T) = {Off(b, {"LOADING"})} \cup InList(R)
    <2>1. Follows(t, Off(b, {"LOADING"}), R) /\ Off(b, {"LOADING"}) \in Steps
      BY <1>1, <1>3, Following, Kinds
    <2> QED BY <1>2, <2>1, ConsSet, FormedCons
  <1>5. Moves(t, {Step("load", b)} \cup InList(T), InList(T))
    BY <1>0, <1>1, <1>4, Advanced DEF T
  <1>6. {Step("load", b)} \cup InList(T) = {Step("load", b), Off(b, {"LOADING"})} \cup InList(R)
    BY <1>4
  <1> QED BY <1>2, <1>3, <1>4, <1>5, <1>6 DEF Actors

\* A flag is cleared: read, then written back.
LEMMA StatusReadLists ==
    ASSUME ListsOK, NEW t \in Actors, NEW b, StatusRead(t, b), status \in [Bats -> SUBSET Flags]
    PROVE  \E f \in Flags : \E K : /\ AfterOffSet(t, b, f, K)
                               /\ Moves(t, {Off(b, {f})} \cup K, {Write(b, status[b] \ {f})} \cup K)
  <1> DEFINE T == Tail(todo[t])
             x == Head(todo[t])
             w == Write(b, status[b] \ x.set)
  <1>0. Ready(t, "off", b) /\ Then(t, <<w>>)
    BY DEF StatusRead
  <1>1. Follows(t, x, T) /\ T \in Seq(Steps) /\ b \in Bats /\ x \in Steps /\ x.op = "off" /\ x.b = b
        /\ Todo(t) = {x} \cup InList(T)
    BY <1>0, Popped
  <1> HIDE DEF T, x
  <1>2. PICK f \in Flags : x.set = {f} /\ AfterOff(t, b, f, T)
    BY <1>1 DEF Follows
  <1>3. x = Off(b, {f}) /\ w \in Steps /\ w = Write(b, status[b] \ {f})
    BY <1>1, <1>2, StepIs, StepsTyped
  <1>4. AfterOffSet(t, b, f, InList(T))
    BY <1>1, <1>2, AfterOffFormed
  <1>5. <<w>> \o T = Cons(w, T) /\ Cons(w, T) \in Seq(Steps) /\ InList(Cons(w, T)) = {w} \cup InList(T)
    BY <1>1, <1>3, Tuple1, ConsSet
  <1>6. Formed(t, Cons(w, T))
    <2>1. Follows(t, Write(b, status[b] \ {f}), T)
      BY <1>2, StepParts DEF Follows
    <2> QED BY <1>1, <1>3, <2>1, FormedCons
  <1>7. Moves(t, Todo(t), InList(Cons(w, T)))
    <2>1. todo' = [todo EXCEPT ![t] = Cons(w, T)]
      BY <1>0, <1>5 DEF Then, T
    <2> QED BY <1>5, <1>6, <2>1, Replaced
  <1>8. Moves(t, {Off(b, {f})} \cup InList(T), {Write(b, status[b] \ {f})} \cup InList(T))
    BY <1>1, <1>3, <1>5, <1>7
  <1> QED BY <1>4, <1>8

\* BBP_status_off writes the flags it has read, without one of them.
LEMMA StatusWriteLists ==
    ASSUME ListsOK, NEW t \in Actors, NEW b, StatusWrite(t, b)
    PROVE  \E f \in Flags, s \in SUBSET Flags : \E K :
              /\ AfterOffSet(t, b, f, K)
              /\ status' = [status EXCEPT ![b] = s]
              /\ Moves(t, {Write(b, s)} \cup K, K)
  <1> DEFINE T == Tail(todo[t])
             x == Head(todo[t])
  <1>0. Ready(t, "write", b) /\ Then(t, <<>>) /\ status' = [status EXCEPT ![b] = x.set]
    BY DEF StatusWrite
  <1>1. Follows(t, x, T) /\ T \in Seq(Steps) /\ b \in Bats /\ x \in Steps /\ x.op = "write" /\ x.b = b
        /\ Todo(t) = {x} \cup InList(T)
    BY <1>0, Popped
  <1> HIDE DEF T
  <1>2. PICK f \in Flags : AfterOff(t, b, f, T)
    BY <1>1 DEF Follows
  <1>3. x = Write(b, x.set) /\ x.set \in SUBSET Flags
    BY <1>1, StepIs
  <1>4. AfterOffSet(t, b, f, InList(T)) /\ Formed(t, T)
    BY <1>1, <1>2, AfterOffFormed
  <1>5. todo' = [todo EXCEPT ![t] = T]
    BY <1>0, <1>1, Tuple0 DEF Then, T
  <1>6. Moves(t, Todo(t), InList(T))
    BY <1>1, <1>4, <1>5, Replaced
  <1>7. Moves(t, {Write(b, x.set)} \cup InList(T), InList(T))
    BY <1>1, <1>3, <1>6
  <1> QED BY <1>0, <1>3, <1>4, <1>7

\* A thread that gives up a logical reference unloads the BAT only if it has
\* no fix to give up.
LEMMA decreflLists ==
    ASSUME ListsOK, NEW t \in Actors, NEW b, decrefLogical(t, b),
           Step("decref", b) \in Todo(t) => ~Goes(b, refs[b], lrefs[b] - 1)
    PROVE  /\ t \in Threads
           /\ \E K : /\ K = {} \/ K = {Step("decref", b)}
                     /\ IF Goes(b, refs[b], lrefs[b] - 1) /\ cache[b]
                          THEN K = {} /\ Moves(t, {Step("decrefl", b)}, {Step("unload", b)})
                          ELSE Moves(t, {Step("decrefl", b)} \cup K, K)
  <1> DEFINE T == Tail(todo[t])
             G == Goes(b, refs[b], lrefs[b] - 1) /\ cache[b]
  <1>0. Ready(t, "decrefl", b) /\ Then(t, UnloadSteps(b, refs[b], lrefs[b] - 1))
    BY DEF decrefLogical
  <1>1. Follows(t, Step("decrefl", b), T) /\ T \in Seq(Steps) /\ b \in Bats /\ <<>> \o T = T
        /\ Todo(t) = {Step("decrefl", b)} \cup InList(T)
    BY <1>0, Popped, Tuple0
  <1> HIDE DEF T
  <1>2. t # Trimmer /\ (T = <<>> \/ T = Cons(Step("decref", b), <<>>))
    BY <1>1, Following
  <1>3. t \in Threads
    BY <1>2 DEF Actors
  <1>4. Formed(t, T) /\ (T = <<>> => InList(T) = {}) /\ (T # <<>> => InList(T) = {Step("decref", b)})
    <2>1. CASE T = <<>>
      BY <2>1, FormedCons, EmptyList
    <2>2. CASE T = Cons(Step("decref", b), <<>>)
      <3>1. Step("decref", b) \in Steps /\ Formed(t, T)
        BY <1>1, <1>2, <2>2, Kinds, FormedTails
      <3>2. InList(T) = {Step("decref", b)} /\ InList(<<>>) = {}
        BY <2>2, <3>1, OneStep, EmptyList
      <3>3. T # <<>>
        BY <3>2
      <3> QED BY <3>1, <3>2, <3>3
    <2> QED BY <1>2, <2>1, <2>2
  <1>5. CASE G
    <2>1. T = <<>>
      BY <1>1, <1>4, <1>5
    <2>2. <<Step("unload", b)>> \o T = Cons(Step("unload", b), T) /\ Cons(Step("unload", b), T) \in Seq(Steps)
          /\ InList(Cons(Step("unload", b), T)) = {Step("unload", b)}
      BY <1>1, <2>1, Tuple1, OneStep, Kinds
    <2>3. Formed(t, Cons(Step("unload", b), T))
      <3>1. Follows(t, Step("unload", b), T) /\ Step("unload", b) \in Steps
        BY <1>1, <1>2, <2>1, Following, Kinds
      <3> QED BY <1>1, <3>1, FormedCons
    <2>4. Then(t, <<Step("unload", b)>>)
      BY <1>0, <1>5 DEF UnloadSteps
    <2>5. Moves(t, {Step("decrefl", b)} \cup InList(T), {Step("unload", b)})
      <3>1. <<Step("unload", b)>> \o T \in Seq(Steps) /\ Formed(t, <<Step("unload", b)>> \o T)
        BY <2>2, <2>3
      <3>2. Moves(t, {Step("decrefl", b)} \cup InList(T), InList(<<Step("unload", b)>> \o T))
        BY <1>0, <2>4, <3>1, Advanced DEF T
      <3> QED BY <2>2, <3>2
    <2>6. {Step("decrefl", b)} \cup InList(T) = {Step("decrefl", b)}
      BY <1>4, <2>1
    <2> QED BY <1>3, <1>5, <2>5, <2>6
  <1>6. CASE ~G
    <2>1. Then(t, <<>>)
      BY <1>0, <1>6 DEF UnloadSteps
    <2>2. Moves(t, {Step("decrefl", b)} \cup InList(T), InList(T))
      BY <1>0, <1>1, <1>4, <2>1, Advanced DEF T
    <2> QED BY <1>3, <1>4, <1>6, <2>2
  <1> QED BY <1>5, <1>6

\* The steps that follow when a fix goes.
UnloadSet(b, r, l) == IF Goes(b, r, l) /\ cache[b] THEN {Step("unload", b)} ELSE {}
ParentSet(b) == IF LastOfView(b) THEN {Step("decref", Parent[b])} ELSE {}

\* decref gives a fix back, and then unloads or destroys b.
LEMMA decrefLists ==
    ASSUME ListsOK, NEW t \in Actors, NEW b, decrefPhysical(t, b)
    PROVE  t \in Threads /\ Moves(t, {Step("decref", b)}, UnloadSet(b, refs[b] - 1, lrefs[b]) \cup ParentSet(b))
  <1> DEFINE T == Tail(todo[t])
             U == UnloadSteps(b, refs[b] - 1, lrefs[b])
             P == ParentSteps(b)
  <1>0. Ready(t, "decref", b) /\ Then(t, U \o P)
    BY DEF decrefPhysical
  <1>1. Follows(t, Step("decref", b), T) /\ T \in Seq(Steps) /\ b \in Bats
    BY <1>0, Popped
  <1> HIDE DEF T
  <1>2. t # Trimmer /\ T = <<>>
    BY <1>1, Following
  <1>3. /\ P \in Seq(Steps) /\ InList(P) = ParentSet(b) /\ Formed(t, P)
        /\ P = <<>> \/ (b \in Views /\ P = Cons(Step("decref", Parent[b]), <<>>))
    <2>1. CASE LastOfView(b)
      <3>1. b \in Views /\ Parent[b] \in Bats
        BY <2>1, BatsAssumption DEF LastOfView, IsView, Bats
      <3>2. P = Cons(Step("decref", Parent[b]), <<>>)
        BY <2>1, <3>1, ShortLists, Kinds DEF ParentSteps
      <3>3. Step("decref", Parent[b]) \in Steps /\ Formed(t, Cons(Step("decref", Parent[b]), <<>>))
        BY <1>2, <3>1, Kinds, FormedTails
      <3>4. P \in Seq(Steps) /\ InList(P) = ParentSet(b)
        BY <2>1, <3>2, <3>3, OneStep DEF ParentSet
      <3> QED BY <3>1, <3>2, <3>3, <3>4
    <2>2. CASE ~LastOfView(b)
      BY <2>2, EmptyList, FormedCons DEF ParentSteps, ParentSet
    <2> QED BY <2>1, <2>2
  <1> HIDE DEF P
  <1>4. U \o P \in Seq(Steps) /\ Formed(t, U \o P) /\ InList(U \o P) = UnloadSet(b, refs[b] - 1, lrefs[b]) \cup InList(P)
    <2>1. CASE Goes(b, refs[b] - 1, lrefs[b]) /\ cache[b]
      <3>1. U = <<Step("unload", b)>> /\ Step("unload", b) \in Steps
        BY <1>1, <2>1, Kinds DEF UnloadSteps
      <3>2. U \o P = Cons(Step("unload", b), P)
        BY <1>3, <3>1, Tuple1
      <3>3. Follows(t, Step("unload", b), P)
        BY <1>2, <1>3, Following
      <3> QED BY <1>3, <2>1, <3>1, <3>2, <3>3, ConsSet, FormedCons DEF UnloadSet
    <2>2. CASE ~(Goes(b, refs[b] - 1, lrefs[b]) /\ cache[b])
      <3>1. U \o P = P
        BY <1>3, <2>2, Tuple0 DEF UnloadSteps
      <3>2. UnloadSet(b, refs[b] - 1, lrefs[b]) = {}
        BY <2>2 DEF UnloadSet
      <3> QED BY <1>3, <3>1, <3>2
    <2> QED BY <2>1, <2>2
  <1> HIDE DEF U
  <1>5. (U \o P) \o T = U \o P
    BY <1>2, <1>4, ConcatEmptySeq
  <1>6. Moves(t, {Step("decref", b)} \cup InList(T), InList(U \o P))
    BY <1>0, <1>4, <1>5, Advanced DEF T
  <1>7. {Step("decref", b)} \cup InList(T) = {Step("decref", b)}
    BY <1>2, EmptyList
  <1> QED BY <1>2, <1>3, <1>4, <1>6, <1>7 DEF Actors

\* The steps of BBPfree on b.
FreeSet(b) == {Step("save", b), Step("free", b), Off(b, {"UNLOADING"})}

\* BBPfree in front of what the thread has to do after it.
LEMMA FreeStepsFormed ==
    ASSUME NEW t, NEW b \in Stored, NEW T \in Seq(Steps), Rest(t, b, T)
    PROVE  FreeSteps(b) \o T \in Seq(Steps) /\ Formed(t, FreeSteps(b) \o T) /\ InList(FreeSteps(b) \o T) = FreeSet(b) \cup InList(T)
  <1> DEFINE L1 == Cons(Off(b, {"UNLOADING"}), T)
             L2 == Cons(Step("free", b), L1)
             L3 == Cons(Step("save", b), L2)
  <1>0. b \in Bats /\ b \notin Views
    BY BatsAssumption DEF Bats
  <1>1. Step("save", b) \in Steps /\ Step("free", b) \in Steps /\ Off(b, {"UNLOADING"}) \in Steps
    BY <1>0, Kinds
  <1>2. L1 \in Seq(Steps) /\ InList(L1) = {Off(b, {"UNLOADING"})} \cup InList(T)
    BY <1>1, ConsSet
  <1>3. L2 \in Seq(Steps) /\ InList(L2) = {Step("free", b)} \cup InList(L1)
    BY <1>1, <1>2, ConsSet
  <1>4. L3 \in Seq(Steps) /\ InList(L3) = {Step("save", b)} \cup InList(L2)
    BY <1>1, <1>3, ConsSet
  <1>5. AfterSave(t, b, L2)
    BY <1>2 DEF AfterSave, AfterFree
  <1>6. Follows(t, Step("save", b), L2)
    BY <1>5, Following
  <1>7. Formed(t, L3)
    BY <1>1, <1>3, <1>6, FormedCons
  <1>8. FreeSteps(b) \o T = L3
    <2>1. FreeSteps(b) = <<Step("save", b), Step("free", b), Off(b, {"UNLOADING"})>>
      BY <1>0 DEF FreeSteps, Unshare, IsView
    <2> QED BY <1>1, <2>1, Tuple3
  <1>9. InList(L3) = FreeSet(b) \cup InList(T)
    BY <1>2, <1>3, <1>4 DEF FreeSet
  <1> QED BY <1>4, <1>7, <1>8, <1>9

\* What may be left to do after a view is gone.
ViewTail(b, K) == K = {} \/ (b \in Views /\ K = {Step("decref", Parent[b])})

\* The lists behind unload and destroy.
LEMMA UnloadTail ==
    ASSUME NEW t, NEW b \in Bats, NEW T \in Seq(Steps), t # Trimmer,
           T = <<>> \/ (b \in Views /\ T = Cons(Step("decref", Parent[b]), <<>>))
    PROVE  Formed(t, T) /\ ViewTail(b, InList(T)) /\ (b \in Stored => T = <<>>)
  <1>1. CASE T = <<>>
    BY <1>1, FormedCons, EmptyList DEF ViewTail
  <1>2. CASE b \in Views /\ T = Cons(Step("decref", Parent[b]), <<>>)
    <2>1. Parent[b] \in Bats /\ b \notin Stored
      BY <1>2, BatsAssumption DEF Bats
    <2>2. Step("decref", Parent[b]) \in Steps /\ Formed(t, T)
      BY <1>2, <2>1, Kinds, FormedTails
    <2>3. InList(T) = {Step("decref", Parent[b])}
      BY <1>2, <2>2, OneStep
    <2> QED BY <1>2, <2>1, <2>2, <2>3 DEF ViewTail
  <1> QED BY <1>1, <1>2

\* A view is unloaded only without logical references: it is destroyed.
LEMMA UnloadOrDestroyLists ==
    ASSUME ListsOK, NEW t \in Actors, NEW b, UnloadOrDestroy(t, b), b \in Views => lrefs[b] = 0
    PROVE  /\ t \in Threads
           /\ IF lrefs[b] = 0
                THEN \E K : ViewTail(b, K) /\ Moves(t, {Step("unload", b)} \cup K, {Step("destroy", b)} \cup K)
                ELSE b \in Stored /\ Moves(t, {Step("unload", b)}, FreeSet(b))
  <1> DEFINE T == Tail(todo[t])
  <1>0. Ready(t, "unload", b) /\ Then(t, IF lrefs[b] = 0 THEN <<Step("destroy", b)>> ELSE FreeSteps(b))
    BY DEF UnloadOrDestroy
  <1>1. Follows(t, Step("unload", b), T) /\ T \in Seq(Steps) /\ b \in Bats
    BY <1>0, Popped
  <1> HIDE DEF T
  <1>2. t # Trimmer /\ (T = <<>> \/ (b \in Views /\ T = Cons(Step("decref", Parent[b]), <<>>)))
    BY <1>1, Following
  <1>3. t \in Threads
    BY <1>2 DEF Actors
  <1>4. ViewTail(b, InList(T)) /\ (b \in Stored => T = <<>>)
    BY <1>1, <1>2, UnloadTail
  <1>5. CASE lrefs[b] = 0
    <2> DEFINE L == Cons(Step("destroy", b), T)
    <2>1. Then(t, <<Step("destroy", b)>>) /\ Step("destroy", b) \in Steps
      BY <1>0, <1>1, <1>5, Kinds
    <2>2. Follows(t, Step("destroy", b), T)
      BY <1>2, Following
    <2>3. <<Step("destroy", b)>> \o T = L /\ L \in Seq(Steps) /\ InList(L) = {Step("destroy", b)} \cup InList(T) /\ Formed(t, L)
      BY <1>1, <2>1, <2>2, Tuple1, ConsSet, FormedCons
    <2> HIDE DEF L
    <2>4. Moves(t, {Step("unload", b)} \cup InList(T), InList(L))
      BY <1>0, <2>1, <2>3, Advanced DEF T
    <2>5. Moves(t, {Step("unload", b)} \cup InList(T), {Step("destroy", b)} \cup InList(T))
      BY <2>3, <2>4
    <2> QED BY <1>3, <1>4, <1>5, <2>5
  <1>6. CASE lrefs[b] # 0
    <2>1. b \in Stored /\ T = <<>> /\ Then(t, FreeSteps(b)) /\ Rest(t, b, T)
      BY <1>0, <1>1, <1>2, <1>4, <1>6 DEF Bats, Rest
    <2>2. FreeSteps(b) \o T \in Seq(Steps) /\ Formed(t, FreeSteps(b) \o T) /\ InList(FreeSteps(b) \o T) = FreeSet(b) \cup InList(T)
      BY <1>1, <2>1, FreeStepsFormed, ZenonT(30)
    <2>3. Moves(t, {Step("unload", b)} \cup InList(T), InList(FreeSteps(b) \o T))
      BY <1>0, <2>1, <2>2, Advanced DEF T
    <2>4. {Step("unload", b)} \cup InList(T) = {Step("unload", b)} /\ FreeSet(b) \cup InList(T) = FreeSet(b)
      BY <2>1, EmptyList
    <2>5. Moves(t, {Step("unload", b)}, FreeSet(b))
      BY <2>2, <2>3, <2>4
    <2> QED BY <1>3, <1>6, <2>1, <2>5
  <1> QED BY <1>5, <1>6

\* The steps that give up what a view has of its parent.
UnshareSet(b) == IF b \in Views THEN {Step("unshare", Parent[b]), Step("decrefl", Parent[b])} ELSE {}

\* BBPdestroy of a view gives its share of the parent back.
LEMMA BBPdestroyLists ==
    ASSUME ListsOK, NEW t \in Actors, NEW b, BBPdestroy(t, b)
    PROVE  t \in Threads /\ \E K : ViewTail(b, K) /\ Moves(t, {Step("destroy", b)} \cup K, UnshareSet(b) \cup K)
  <1> DEFINE T == Tail(todo[t])
  <1>0. Ready(t, "destroy", b) /\ Then(t, Unshare(b))
    BY DEF BBPdestroy
  <1>1. Follows(t, Step("destroy", b), T) /\ T \in Seq(Steps) /\ b \in Bats /\ <<>> \o T = T
    BY <1>0, Popped, Tuple0
  <1> HIDE DEF T
  <1>2. t # Trimmer /\ (T = <<>> \/ (b \in Views /\ T = Cons(Step("decref", Parent[b]), <<>>)))
    BY <1>1, Following
  <1>3. t \in Threads
    BY <1>2 DEF Actors
  <1>4. ViewTail(b, InList(T)) /\ Formed(t, T)
    BY <1>1, <1>2, UnloadTail
  <1>5. Unshare(b) \o T \in Seq(Steps) /\ Formed(t, Unshare(b) \o T) /\ InList(Unshare(b) \o T) = UnshareSet(b) \cup InList(T)
    <2>1. CASE b \in Views
      <3> DEFINE p == Parent[b]
                 L1 == Cons(Step("decrefl", p), T)
                 L2 == Cons(Step("unshare", p), L1)
      <3>1. p \in Bats /\ p \in Stored
        BY <2>1, BatsAssumption DEF Bats
      <3>2. Step("unshare", p) \in Steps /\ Step("decrefl", p) \in Steps
        BY <3>1, Kinds
      <3>3. L1 \in Seq(Steps) /\ InList(L1) = {Step("decrefl", p)} \cup InList(T)
        BY <1>1, <3>2, ConsSet
      <3>4. L2 \in Seq(Steps) /\ InList(L2) = {Step("unshare", p)} \cup InList(L1)
        BY <3>2, <3>3, ConsSet
      <3>5. Follows(t, Step("unshare", p), L1)
        BY <1>2, <3>1, Following
      <3>6. Formed(t, L2)
        BY <3>2, <3>3, <3>5, FormedCons
      <3>7. Unshare(b) = <<Step("unshare", p), Step("decrefl", p)>>
        BY <2>1 DEF Unshare, IsView
      <3>8. Unshare(b) \o T = L2
        BY <1>1, <3>2, <3>7, Tuple2
      <3>9. InList(L2) = UnshareSet(b) \cup InList(T)
        BY <2>1, <3>3, <3>4 DEF UnshareSet
      <3> QED BY <3>4, <3>6, <3>8, <3>9
    <2>2. CASE b \notin Views
      <3>1. Unshare(b) = <<>> /\ UnshareSet(b) = {}
        BY <2>2 DEF Unshare, IsView, UnshareSet
      <3> QED BY <1>1, <1>4, <3>1
    <2> QED BY <2>1, <2>2
  <1>6. Moves(t, {Step("destroy", b)} \cup InList(T), InList(Unshare(b) \o T))
    BY <1>0, <1>5, Advanced DEF T
  <1> QED BY <1>3, <1>4, <1>5, <1>6

\* A share of a parent that is given back was a logical reference, and maybe a
\* fix.
LEMMA ReleaseShareLists ==
    ASSUME ListsOK, NEW t \in Actors, NEW b, ReleaseShare(t, b)
    PROVE  /\ t \in Threads /\ b \in Stored
           /\ \E K : /\ K = {Step("decrefl", b)} \/ K = {Step("decrefl", b), Step("decref", b)}
                     /\ Moves(t, {Step("unshare", b)} \cup K, K)
  <1> DEFINE T == Tail(todo[t])
             D == Cons(Step("decref", b), <<>>)
  <1>0. Ready(t, "unshare", b) /\ Then(t, <<>>)
    BY DEF ReleaseShare
  <1>1. Follows(t, Step("unshare", b), T) /\ T \in Seq(Steps) /\ b \in Bats /\ <<>> \o T = T
    BY <1>0, Popped, Tuple0
  <1> HIDE DEF T
  <1>2. t # Trimmer /\ b \in Stored /\ (T = Cons(Step("decrefl", b), <<>>) \/ T = Cons(Step("decrefl", b), D))
    BY <1>1, Following
  <1>3. Step("decrefl", b) \in Steps /\ Step("decref", b) \in Steps
    BY <1>1, Kinds
  <1>4. D \in Seq(Steps) /\ InList(D) = {Step("decref", b)}
    BY <1>3, OneStep
  <1>5. Follows(t, Step("decrefl", b), <<>>) /\ Follows(t, Step("decrefl", b), D)
    BY <1>2, Following
  <1>6. Formed(t, T)
    BY <1>2, <1>3, <1>4, <1>5, EmptyList, FormedCons
  <1>7. InList(T) = {Step("decrefl", b)} \/ InList(T) = {Step("decrefl", b), Step("decref", b)}
    BY <1>2, <1>3, <1>4, OneStep, ConsSet
  <1>8. Moves(t, {Step("unshare", b)} \cup InList(T), InList(T))
    BY <1>0, <1>1, <1>6, Advanced DEF T
  <1> QED BY <1>2, <1>7, <1>8 DEF Actors

\* BBPsave: nothing to save, someone saves it, or this call does.
LEMMA BBPsaveLists ==
    ASSUME ListsOK, NEW t \in Actors, NEW b, BBPsave(t, b)
    PROVE  /\ b \in Stored
           /\ \E K : /\ AfterSaveSet(t, b, K)
                     /\ IF NothingToSave(b) THEN Moves(t, {Step("save", b)} \cup K, K)
                        ELSE IF "SAVING" \in status[b] THEN Moves(t, {Step("save", b)} \cup K, {Step("spin", b)} \cup K)
                        ELSE Moves(t, {Step("save", b)} \cup K, {Step("batsave", b), Off(b, {"SAVING"})} \cup K)
  <1> DEFINE T == Tail(todo[t])
  <1>0. Ready(t, "save", b)
    BY DEF BBPsave
  <1>1. Follows(t, Step("save", b), T) /\ T \in Seq(Steps) /\ b \in Bats /\ <<>> \o T = T
    BY <1>0, Popped, Tuple0
  <1> HIDE DEF T
  <1>2. b \in Stored /\ AfterSave(t, b, T)
    BY <1>1, Following
  <1>3. AfterSaveSet(t, b, InList(T)) /\ Formed(t, T)
    BY <1>2, AfterSaveFormed
  <1>4. Step("spin", b) \in Steps /\ Step("batsave", b) \in Steps /\ Off(b, {"SAVING"}) \in Steps
    BY <1>1, Kinds
  <1>5. CASE NothingToSave(b)
    <2>1. Then(t, <<>>)
      BY <1>5 DEF BBPsave
    <2>2. Moves(t, {Step("save", b)} \cup InList(T), InList(T))
      BY <1>0, <1>1, <1>3, <2>1, Advanced DEF T
    <2> QED BY <1>2, <1>3, <1>5, <2>2
  <1>6. CASE ~NothingToSave(b) /\ "SAVING" \in status[b]
    <2> DEFINE L == Cons(Step("spin", b), T)
    <2>1. Then(t, <<Step("spin", b)>>)
      BY <1>6 DEF BBPsave
    <2>2. Follows(t, Step("spin", b), T)
      BY <1>2, Following
    <2>3. <<Step("spin", b)>> \o T = L /\ L \in Seq(Steps) /\ InList(L) = {Step("spin", b)} \cup InList(T) /\ Formed(t, L)
      BY <1>1, <1>4, <2>2, Tuple1, ConsSet, FormedCons
    <2> HIDE DEF L
    <2>4. Moves(t, {Step("save", b)} \cup InList(T), {Step("spin", b)} \cup InList(T))
      <3>1. Moves(t, {Step("save", b)} \cup InList(T), InList(L))
        BY <1>0, <2>1, <2>3, Advanced DEF T
      <3> QED BY <2>3, <3>1
    <2> QED BY <1>2, <1>3, <1>6, <2>4
  <1>7. CASE ~NothingToSave(b) /\ "SAVING" \notin status[b]
    <2> DEFINE L1 == Cons(Off(b, {"SAVING"}), T)
               L2 == Cons(Step("batsave", b), L1)
    <2>1. Then(t, <<Step("batsave", b), Off(b, {"SAVING"})>>)
      BY <1>7 DEF BBPsave
    <2>2. L1 \in Seq(Steps) /\ InList(L1) = {Off(b, {"SAVING"})} \cup InList(T)
      BY <1>1, <1>4, ConsSet
    <2>3. L2 \in Seq(Steps) /\ InList(L2) = {Step("batsave", b)} \cup InList(L1)
      BY <1>4, <2>2, ConsSet
    <2>4. Follows(t, Step("batsave", b), L1)
      BY <1>1, <1>2, Following
    <2>5. Formed(t, L2)
      BY <1>4, <2>2, <2>4, FormedCons
    <2>6. <<Step("batsave", b), Off(b, {"SAVING"})>> \o T = L2
      BY <1>1, <1>4, Tuple2
    <2>7. InList(L2) = {Step("batsave", b), Off(b, {"SAVING"})} \cup InList(T)
      BY <2>2, <2>3
    <2> HIDE DEF L1, L2
    <2>8. Moves(t, {Step("save", b)} \cup InList(T), {Step("batsave", b), Off(b, {"SAVING"})} \cup InList(T))
      <3>1. Moves(t, {Step("save", b)} \cup InList(T), InList(L2))
        BY <1>0, <2>1, <2>3, <2>5, <2>6, Advanced DEF T
      <3> QED BY <2>7, <3>1
    <2> QED BY <1>2, <1>3, <1>7, <2>8
  <1> QED BY <1>5, <1>6, <1>7

\* BBPspin waits for the thread that saves.
LEMMA BBPspinLists ==
    ASSUME ListsOK, NEW t \in Actors, NEW b, BBPspin(t, b)
    PROVE  b \in Stored /\ \E K : AfterSaveSet(t, b, K) /\ Moves(t, {Step("spin", b)} \cup K, K)
  <1> DEFINE T == Tail(todo[t])
  <1>0. Ready(t, "spin", b) /\ Then(t, <<>>)
    BY DEF BBPspin
  <1>1. Follows(t, Step("spin", b), T) /\ T \in Seq(Steps) /\ b \in Bats /\ <<>> \o T = T
    BY <1>0, Popped, Tuple0
  <1> HIDE DEF T
  <1>2. b \in Stored /\ AfterSave(t, b, T)
    BY <1>1, Following
  <1>3. AfterSaveSet(t, b, InList(T)) /\ Formed(t, T)
    BY <1>2, AfterSaveFormed
  <1>4. Moves(t, {Step("spin", b)} \cup InList(T), InList(T))
    BY <1>0, <1>1, <1>3, Advanced DEF T
  <1> QED BY <1>2, <1>3, <1>4

\* BATsave for a commit, or for BBPsave.
LEMMA BATsaveLists ==
    ASSUME ListsOK, NEW t \in Actors, NEW b, BATsave(t, b)
    PROVE  /\ b \in Stored
           /\ \/ /\ t \in Threads
                 /\ Moves(t, {Step("batsave", b), Step("epilogue", b), Step("end", b)}, {Step("epilogue", b), Step("end", b)})
              \/ \E K : /\ AfterSaveSet(t, b, K)
                        /\ Moves(t, {Step("batsave", b), Off(b, {"SAVING"})} \cup K, {Off(b, {"SAVING"})} \cup K)
  <1> DEFINE T == Tail(todo[t])
  <1>0. Ready(t, "batsave", b) /\ Then(t, <<>>)
    BY DEF BATsave
  <1>1. Follows(t, Step("batsave", b), T) /\ T \in Seq(Steps) /\ b \in Bats /\ <<>> \o T = T
    BY <1>0, Popped, Tuple0
  <1> HIDE DEF T
  <1>2. b \in Stored /\ \/ t # Trimmer /\ May("commit") /\ T = Ending(b)
                        \/ \E R \in Seq(Steps) : T = Cons(Off(b, {"SAVING"}), R) /\ AfterSave(t, b, R)
    BY <1>1, Following
  <1>3. Formed(t, T) => Moves(t, {Step("batsave", b)} \cup InList(T), InList(T))
    BY <1>0, <1>1, Advanced DEF T
  <1>4. CASE t # Trimmer /\ May("commit") /\ T = Ending(b)
    <2>1. Formed(t, T) /\ InList(T) = {Step("epilogue", b), Step("end", b)} /\ t \in Threads
      BY <1>1, <1>4, FormedTails, ListsTyped DEF Actors
    <2>2. {Step("batsave", b)} \cup InList(T) = {Step("batsave", b), Step("epilogue", b), Step("end", b)}
      BY <2>1
    <2> QED BY <1>2, <1>3, <2>1, <2>2
  <1>5. ASSUME NEW R \in Seq(Steps), T = Cons(Off(b, {"SAVING"}), R), AfterSave(t, b, R)
        PROVE  \E K : /\ AfterSaveSet(t, b, K)
                      /\ Moves(t, {Step("batsave", b), Off(b, {"SAVING"})} \cup K, {Off(b, {"SAVING"})} \cup K)
    <2>1. AfterSaveSet(t, b, InList(R)) /\ Off(b, {"SAVING"}) \in Steps
      BY <1>1, <1>2, <1>5, AfterSaveFormed, Kinds
    <2>2. AfterOff(t, b, "SAVING", R) /\ "SAVING" \in Flags
      BY <1>2, <1>5 DEF AfterOff, Flags, WAITING
    <2>3. Follows(t, Off(b, {"SAVING"}), R)
      BY <2>2, Following
    <2>4. Formed(t, T) /\ InList(T) = {Off(b, {"SAVING"})} \cup InList(R)
      BY <1>5, <2>1, <2>3, FormedCons, ConsSet
    <2>5. {Step("batsave", b)} \cup InList(T) = {Step("batsave", b), Off(b, {"SAVING"})} \cup InList(R)
      BY <2>4
    <2> QED BY <1>3, <2>1, <2>4, <2>5
  <1> QED BY <1>2, <1>4, <1>5

\* BBPfree unloads, and clears LOADED and UNLOADING.
LEMMA BBPfreeLists ==
    ASSUME ListsOK, NEW t \in Actors, NEW b, BBPfree(t, b)
    PROVE  /\ b \in Stored
           /\ \E R : /\ RestSet(t, b, R)
                     /\ Moves(t, {Step("free", b), Off(b, {"UNLOADING"})} \cup R, {Off(b, {"LOADED"}), Off(b, {"UNLOADING"})} \cup R)
  <1> DEFINE T == Tail(todo[t])
             L == Cons(Off(b, {"LOADED"}), T)
  <1>0. Ready(t, "free", b) /\ Then(t, <<Off(b, {"LOADED"})>>)
    BY DEF BBPfree
  <1>1. Follows(t, Step("free", b), T) /\ T \in Seq(Steps) /\ b \in Bats
    BY <1>0, Popped
  <1> HIDE DEF T
  <1>2. b \in Stored /\ AfterFree(t, b, T)
    BY <1>1, Following
  <1>3. PICK R : InList(T) = {Off(b, {"UNLOADING"})} \cup R /\ RestSet(t, b, R)
    BY <1>2, AfterFreeFormed DEF AfterFreeSet
  <1>4. AfterOff(t, b, "LOADED", T) /\ "LOADED" \in Flags /\ Off(b, {"LOADED"}) \in Steps
    BY <1>1, <1>2, Kinds DEF AfterOff, Flags
  <1>5. Follows(t, Off(b, {"LOADED"}), T)
    BY <1>4, Following
  <1>6. <<Off(b, {"LOADED"})>> \o T = L /\ L \in Seq(Steps) /\ InList(L) = {Off(b, {"LOADED"})} \cup InList(T) /\ Formed(t, L)
    BY <1>1, <1>4, <1>5, Tuple1, ConsSet, FormedCons
  <1> HIDE DEF L
  <1>7. Moves(t, {Step("free", b)} \cup InList(T), InList(L))
    BY <1>0, <1>6, Advanced DEF T
  <1>8. /\ {Step("free", b)} \cup InList(T) = {Step("free", b), Off(b, {"UNLOADING"})} \cup R
        /\ InList(L) = {Off(b, {"LOADED"}), Off(b, {"UNLOADING"})} \cup R
    BY <1>3, <1>6
  <1> QED BY <1>2, <1>3, <1>7, <1>8

\* The caller of BATdescriptor gets it.
LEMMA UseLists ==
    ASSUME ListsOK, NEW t \in Actors, NEW b, Use(t, b)
    PROVE  t \in Threads /\ Moves(t, {Step("use", b)}, {})
  <1> DEFINE T == Tail(todo[t])
  <1>0. Ready(t, "use", b) /\ Then(t, <<>>)
    BY DEF Use
  <1>1. Follows(t, Step("use", b), T) /\ T \in Seq(Steps) /\ <<>> \o T = T
    BY <1>0, Popped, Tuple0
  <1> HIDE DEF T
  <1>2. t # Trimmer /\ T = <<>>
    BY <1>1, Following
  <1>3. InList(T) = {} /\ Formed(t, T)
    BY <1>2, EmptyList, FormedCons
  <1>4. Moves(t, {Step("use", b)} \cup InList(T), InList(T))
    BY <1>0, <1>1, <1>3, Advanced DEF T
  <1>5. {Step("use", b)} \cup InList(T) = {Step("use", b)}
    BY <1>3
  <1> QED BY <1>2, <1>3, <1>4, <1>5 DEF Actors

\* dirty_bat saves what has changed.
LEMMA dirty_batLists ==
    ASSUME ListsOK, NEW t \in Actors, NEW b, dirty_bat(t, b)
    PROVE  /\ t \in Threads /\ b \in Stored
           /\ \E N : /\ N = {} \/ N = {Step("batsave", b)}
                     /\ Moves(t, {Step("dirty_bat", b), Step("epilogue", b), Step("end", b)}, N \cup {Step("epilogue", b), Step("end", b)})
  <1> DEFINE T == Tail(todo[t])
             L == Cons(Step("batsave", b), T)
  <1>0. Ready(t, "dirty_bat", b) /\ Then(t, IF cache[b] THEN <<Step("batsave", b)>> ELSE <<>>)
    BY DEF dirty_bat
  <1>1. Follows(t, Step("dirty_bat", b), T) /\ T \in Seq(Steps) /\ b \in Bats /\ <<>> \o T = T
    BY <1>0, Popped, Tuple0
  <1> HIDE DEF T
  <1>2. t # Trimmer /\ b \in Stored /\ May("commit") /\ T = Ending(b)
    BY <1>1, Following
  <1>3. InList(T) = {Step("epilogue", b), Step("end", b)} /\ Formed(t, T) /\ Step("batsave", b) \in Steps
    BY <1>1, <1>2, ListsTyped, FormedTails, Kinds
  <1>4. Follows(t, Step("batsave", b), T)
    BY <1>2, Following
  <1>5. <<Step("batsave", b)>> \o T = L /\ L \in Seq(Steps) /\ InList(L) = {Step("batsave", b)} \cup InList(T) /\ Formed(t, L)
    BY <1>1, <1>3, <1>4, Tuple1, ConsSet, FormedCons
  <1> HIDE DEF L
  <1>6. {Step("dirty_bat", b)} \cup InList(T) = {Step("dirty_bat", b), Step("epilogue", b), Step("end", b)}
    BY <1>3
  <1>7. CASE cache[b]
    <2>1. Then(t, <<Step("batsave", b)>>)
      BY <1>0, <1>7
    <2>2. Moves(t, {Step("dirty_bat", b)} \cup InList(T), InList(L))
      BY <1>0, <1>5, <2>1, Advanced DEF T
    <2>3. Moves(t, {Step("dirty_bat", b), Step("epilogue", b), Step("end", b)}, {Step("batsave", b)} \cup {Step("epilogue", b), Step("end", b)})
      BY <1>3, <1>5, <1>6, <2>2
    <2> QED BY <1>2, <2>3 DEF Actors
  <1>8. CASE ~cache[b]
    <2>1. Then(t, <<>>)
      BY <1>0, <1>8
    <2>2. Moves(t, {Step("dirty_bat", b)} \cup InList(T), InList(T))
      BY <1>0, <1>1, <1>3, <2>1, Advanced DEF T
    <2>3. Moves(t, {Step("dirty_bat", b), Step("epilogue", b), Step("end", b)}, {} \cup {Step("epilogue", b), Step("end", b)})
      BY <1>3, <1>6, <2>2
    <2> QED BY <1>2, <2>3 DEF Actors
  <1> QED BY <1>7, <1>8

\* With the flags of the commit cleared in one step.
LEMMA epilogueLists ==
    ASSUME ListsOK, NEW t \in Actors, NEW b, epilogue(t, b), LocksFlags \/ ~May("commit")
    PROVE  LocksFlags /\ t \in Threads /\ Moves(t, {Step("epilogue", b), Step("end", b)}, {Step("end", b)})
  <1> DEFINE T == Tail(todo[t])
  <1>0. Ready(t, "epilogue", b)
    BY DEF epilogue
  <1>1. Follows(t, Step("epilogue", b), T) /\ T \in Seq(Steps) /\ b \in Bats /\ <<>> \o T = T
    BY <1>0, Popped, Tuple0
  <1> HIDE DEF T
  <1>2. t # Trimmer /\ May("commit") /\ T = Cons(Step("end", b), <<>>)
    BY <1>1, Following
  <1>3. InList(T) = {Step("end", b)} /\ Formed(t, T)
    BY <1>1, <1>2, OneStep, Kinds, FormedTails
  <1>4. LocksFlags /\ Then(t, <<>>)
    BY <1>2 DEF epilogue
  <1>5. Moves(t, {Step("epilogue", b)} \cup InList(T), InList(T))
    BY <1>0, <1>1, <1>3, <1>4, Advanced DEF T
  <1>6. {Step("epilogue", b)} \cup InList(T) = {Step("epilogue", b), Step("end", b)}
    BY <1>3
  <1> QED BY <1>2, <1>3, <1>4, <1>5, <1>6 DEF Actors

\* The commit ends.
LEMMA CommittedLists ==
    ASSUME ListsOK, NEW t \in Actors, NEW b, Committed(t, b)
    PROVE  t \in Threads /\ Moves(t, {Step("end", b)}, {})
  <1> DEFINE T == Tail(todo[t])
  <1>0. Ready(t, "end", b) /\ Then(t, <<>>)
    BY DEF Committed
  <1>1. Follows(t, Step("end", b), T) /\ T \in Seq(Steps) /\ <<>> \o T = T
    BY <1>0, Popped, Tuple0
  <1> HIDE DEF T
  <1>2. t # Trimmer /\ T = <<>>
    BY <1>1, Following
  <1>3. InList(T) = {} /\ Formed(t, T)
    BY <1>2, EmptyList, FormedCons
  <1>4. Moves(t, {Step("end", b)} \cup InList(T), InList(T))
    BY <1>0, <1>1, <1>3, Advanced DEF T
  <1>5. {Step("end", b)} \cup InList(T) = {Step("end", b)}
    BY <1>3
  <1> QED BY <1>2, <1>3, <1>4, <1>5 DEF Actors

\* The trimmer takes the next BAT, which is as it marked it.
LEMMA TrimOneLists ==
    ASSUME ListsOK, NEW b \in Stored, TrimOne(b), cache[b], "UNLOADING" \in status[b]
    PROVE  \E R : RestSet(Trimmer, b, R) /\ Moves(Trimmer, {Step("trim", b)} \cup R, FreeSet(b) \cup R)
  <1> DEFINE T == Tail(todo[Trimmer])
  <1>0. Ready(Trimmer, "trim", b) /\ Then(Trimmer, FreeSteps(b)) /\ Trimmer \in Actors
    BY DEF TrimOne, Actors
  <1>1. Follows(Trimmer, Step("trim", b), T) /\ T \in Seq(Steps) /\ b \in Bats
    BY <1>0, Popped
  <1> HIDE DEF T
  <1>2. Rest(Trimmer, b, T)
    BY <1>1, Following
  <1>3. RestSet(Trimmer, b, InList(T))
    BY <1>1, <1>2, RestFormed
  <1>4. /\ FreeSteps(b) \o T \in Seq(Steps) /\ Formed(Trimmer, FreeSteps(b) \o T)
        /\ InList(FreeSteps(b) \o T) = FreeSet(b) \cup InList(T)
    BY <1>1, <1>2, FreeStepsFormed
  <1>5. Moves(Trimmer, {Step("trim", b)} \cup InList(T), InList(FreeSteps(b) \o T))
    BY <1>0, <1>4, Advanced DEF T
  <1> QED BY <1>3, <1>4, <1>5

\* The trimmer has marked BATs.
LEMMA BBPtrimLists ==
    ASSUME ListsOK, NEW S \in SUBSET Stored, BBPtrim(S)
    PROVE  \E K : (\A y \in K : \E c \in S : y = Step("trim", c)) /\ Moves(Trimmer, {}, K)
  <1>1. PICK order \in Orders(S) : Call(Trimmer, [i \in DOMAIN order |-> Step("trim", order[i])])
    BY DEF BBPtrim
  <1> DEFINE n == Cardinality(S)
             L == [i \in DOMAIN order |-> Step("trim", order[i])]
  <1>2. n \in Nat
    BY BatsAssumption, FS_Subset, FS_CardinalityType
  <1> HIDE DEF n
  <1>3. order \in [1..n -> S] /\ DOMAIN order = 1..n /\ \A i, j \in 1..n : order[i] = order[j] => i = j
    BY <1>1 DEF Orders, n
  <1>4. \A i \in 1..n : Step("trim", order[i]) \in Steps /\ order[i] \in S /\ order[i] \in Stored
    BY <1>3, Kinds DEF Bats
  <1>5. L \in [1..n -> Steps] /\ DOMAIN L = 1..n /\ \A i \in 1..n : L[i] = Step("trim", order[i])
    BY <1>3, <1>4
  <1> HIDE DEF L
  <1>6. L \in Seq(Steps) /\ Len(L) = n
    BY <1>2, <1>5, IsASeq
  <1>7. \A y \in InList(L) : \E c \in S : y = Step("trim", c)
    BY <1>4, <1>5 DEF InList
  <1>8. ASSUME L # <<>> PROVE Follows(Trimmer, Head(L), Tail(L))
    <2>1. 1 \in 1..n /\ Head(L) = Step("trim", order[1]) /\ Tail(L) \in Seq(Steps) /\ DOMAIN Tail(L) = 1..(n - 1)
      BY <1>2, <1>5, <1>6, <1>8
    <2>2. \A i \in 1..(n - 1) : i + 1 \in 1..n /\ i + 1 # 1 /\ Tail(L)[i] = Step("trim", order[i + 1])
      BY <1>2, <1>5, <1>6, <1>8
    <2>3. ASSUME NEW i \in DOMAIN Tail(L) PROVE \E c \in Stored : Tail(L)[i] = Step("trim", c) /\ c # order[1]
      <3>1. i + 1 \in 1..n /\ i + 1 # 1 /\ Tail(L)[i] = Step("trim", order[i + 1]) /\ order[i + 1] \in Stored
        BY <1>4, <2>1, <2>2, <2>3
      <3> QED BY <1>3, <2>1, <3>1
    <2>4. ASSUME NEW i \in DOMAIN Tail(L), NEW j \in DOMAIN Tail(L), Tail(L)[i] = Tail(L)[j] PROVE i = j
      <3>1. i \in 1..(n - 1) /\ j \in 1..(n - 1)
        BY <2>1
      <3>2. order[i + 1] = order[j + 1]
        BY <2>2, <2>4, <3>1, StepsEqual
      <3>3. i + 1 = j + 1
        BY <1>3, <2>2, <3>1, <3>2
      <3> QED BY <1>2, <3>1, <3>3
    <2>5. Rest(Trimmer, order[1], Tail(L))
      BY <2>3, <2>4 DEF Rest
    <2>6. order[1] \in Stored
      BY <1>4, <2>1
    <2> QED BY <2>1, <2>5, <2>6, Following
  <1>9. Formed(Trimmer, L)
    BY <1>8 DEF Formed
  <1>10. Call(Trimmer, L)
    BY <1>1 DEF L
  <1>11. Moves(Trimmer, {}, InList(L))
    BY <1>6, <1>9, <1>10, Called DEF Actors
  <1> QED BY <1>7, <1>11

\* The calls of a thread, with the lists they start.
LEMMA CallLists ==
    ASSUME ListsOK, NEW t \in Threads, NEW b \in Bats
    PROVE  /\ BATdescriptor(t, b) => Moves(t, {}, {Step("incref", b), Step("desc", b), Step("use", b)})
           /\ BBPunfix(t, b) => Moves(t, {}, {Step("decref", b)})
           /\ BBPkeepref(t, b) => Moves(t, {}, {Step("increfl", b), Step("kept", b), Step("decref", b)})
           /\ Release(t, b) => Moves(t, {}, {Step("decrefl", b)})
           /\ Save(t, b) => Moves(t, {}, {Step("save", b)})
           /\ TMsubcommit(t, b) /\ b \in Stored =>
                 Moves(t, {}, {Step("dirty_bat", b), Step("epilogue", b), Step("end", b)})
  <1>0. t \in Actors /\ t # Trimmer
    BY BatsAssumption DEF Actors
  <1>1. ASSUME BATdescriptor(t, b) PROVE Moves(t, {}, {Step("incref", b), Step("desc", b), Step("use", b)})
    <2> DEFINE L == Cons(Step("incref", b), Opening(b))
    <2>1. Step("incref", b) \in Steps /\ Step("desc", b) \in Steps /\ Step("use", b) \in Steps
      BY Kinds
    <2>2. Using(b) \in Seq(Steps) /\ Opening(b) \in Seq(Steps) /\ InList(Opening(b)) = {Step("desc", b), Step("use", b)}
      BY ListsTyped
    <2>3. Follows(t, Step("incref", b), Opening(b))
      BY <1>0, <2>2, Following DEF Opening, AfterDesc
    <2>4. L \in Seq(Steps) /\ Formed(t, L) /\ InList(L) = {Step("incref", b)} \cup InList(Opening(b))
      BY <2>1, <2>2, <2>3, ConsSet, FormedCons
    <2>5. <<Step("incref", b), Step("desc", b), Step("use", b)>> = L
      BY <2>1, ShortLists DEF Opening, Using
    <2>6. Call(t, L)
      BY <1>1, <2>5 DEF BATdescriptor
    <2>7. InList(L) = {Step("incref", b), Step("desc", b), Step("use", b)}
      BY <2>2, <2>4
    <2> HIDE DEF L
    <2> QED BY <1>0, <2>4, <2>6, <2>7, Called
  <1>2. ASSUME BBPunfix(t, b) PROVE Moves(t, {}, {Step("decref", b)})
    <2> DEFINE L == Cons(Step("decref", b), <<>>)
    <2>1. Step("decref", b) \in Steps /\ Formed(t, L)
      BY <1>0, Kinds, FormedTails
    <2>2. <<Step("decref", b)>> = L /\ L \in Seq(Steps) /\ InList(L) = {Step("decref", b)}
      BY <2>1, ShortLists, OneStep
    <2>3. Call(t, L)
      BY <1>2, <2>2 DEF BBPunfix
    <2> HIDE DEF L
    <2> QED BY <1>0, <2>1, <2>2, <2>3, Called
  <1>3. ASSUME BBPkeepref(t, b) PROVE Moves(t, {}, {Step("increfl", b), Step("kept", b), Step("decref", b)})
    <2> DEFINE L1 == Cons(Step("decref", b), <<>>)
               L2 == Cons(Step("kept", b), L1)
               L3 == Cons(Step("increfl", b), L2)
    <2>1. Step("increfl", b) \in Steps /\ Step("kept", b) \in Steps /\ Step("decref", b) \in Steps
      BY Kinds
    <2>2. L1 \in Seq(Steps) /\ InList(L1) = {Step("decref", b)}
      BY <2>1, OneStep
    <2>3. L2 \in Seq(Steps) /\ InList(L2) = {Step("kept", b)} \cup InList(L1)
      BY <2>1, <2>2, ConsSet
    <2>4. L3 \in Seq(Steps) /\ InList(L3) = {Step("increfl", b)} \cup InList(L2)
      BY <2>1, <2>3, ConsSet
    <2>5. Follows(t, Step("increfl", b), L2)
      BY <1>0, Following
    <2>6. Formed(t, L3)
      BY <2>1, <2>3, <2>5, FormedCons
    <2>7. <<Step("increfl", b), Step("kept", b), Step("decref", b)>> = L3
      BY <2>1, ShortLists
    <2>8. Call(t, L3)
      BY <1>3, <2>7 DEF BBPkeepref
    <2>9. InList(L3) = {Step("increfl", b), Step("kept", b), Step("decref", b)}
      BY <2>2, <2>3, <2>4
    <2> HIDE DEF L3
    <2> QED BY <1>0, <2>4, <2>6, <2>8, <2>9, Called
  <1>4. ASSUME Release(t, b) PROVE Moves(t, {}, {Step("decrefl", b)})
    <2> DEFINE L == Cons(Step("decrefl", b), <<>>)
    <2>1. Step("decrefl", b) \in Steps /\ Follows(t, Step("decrefl", b), <<>>)
      BY <1>0, Kinds, Following
    <2>2. <<Step("decrefl", b)>> = L /\ L \in Seq(Steps) /\ InList(L) = {Step("decrefl", b)} /\ Formed(t, L)
      BY <2>1, ShortLists, OneStep, EmptyList, FormedCons
    <2>3. Call(t, L)
      BY <1>4, <2>2 DEF Release
    <2> HIDE DEF L
    <2> QED BY <1>0, <2>2, <2>3, Called
  <1>5. ASSUME Save(t, b) PROVE Moves(t, {}, {Step("save", b)})
    <2> DEFINE L == Cons(Step("save", b), <<>>)
    <2>1. b \in Stored /\ AfterSave(t, b, <<>>)
      BY <1>0, <1>5 DEF Save, AfterSave
    <2>2. Step("save", b) \in Steps /\ Follows(t, Step("save", b), <<>>)
      BY <2>1, Kinds, Following
    <2>3. <<Step("save", b)>> = L /\ L \in Seq(Steps) /\ InList(L) = {Step("save", b)} /\ Formed(t, L)
      BY <2>2, ShortLists, OneStep, EmptyList, FormedCons
    <2>4. Call(t, L)
      BY <1>5, <2>3 DEF Save
    <2> HIDE DEF L
    <2> QED BY <1>0, <2>3, <2>4, Called
  <1>6. ASSUME TMsubcommit(t, b), b \in Stored
        PROVE  Moves(t, {}, {Step("dirty_bat", b), Step("epilogue", b), Step("end", b)})
    <2> DEFINE L == Cons(Step("dirty_bat", b), Ending(b))
    <2>1. Step("dirty_bat", b) \in Steps /\ Step("epilogue", b) \in Steps /\ Step("end", b) \in Steps
      BY Kinds
    <2>2. Ending(b) \in Seq(Steps) /\ InList(Ending(b)) = {Step("epilogue", b), Step("end", b)}
      BY ListsTyped
    <2>3. May("commit")
      BY <1>6 DEF TMsubcommit
    <2>4. Follows(t, Step("dirty_bat", b), Ending(b))
      BY <1>0, <1>6, <2>3, Following
    <2>5. L \in Seq(Steps) /\ Formed(t, L) /\ InList(L) = {Step("dirty_bat", b)} \cup InList(Ending(b))
      BY <2>1, <2>2, <2>4, ConsSet, FormedCons
    <2>6. <<Step("dirty_bat", b), Step("epilogue", b), Step("end", b)>> = L
      BY <2>1, ShortLists DEF Ending
    <2>7. Call(t, L)
      BY <1>6, <2>6 DEF TMsubcommit
    <2>8. InList(L) = {Step("dirty_bat", b), Step("epilogue", b), Step("end", b)}
      BY <2>2, <2>5
    <2> HIDE DEF L
    <2> QED BY <1>0, <2>5, <2>7, <2>8, Called
  <1> QED BY <1>1, <1>2, <1>3, <1>4, <1>5, <1>6

----------------------------------------------------------------------------
(***************************************************************************)
(* All the lists, as sets of steps.                                        *)
(***************************************************************************)
LoadForm(t, b, S) ==
    /\ t \in Threads
    /\ \/ \E K : /\ AfterDescSet(b, K)
                 /\ \/ S = {Step("incref", b), Step("desc", b)} \cup K
                    \/ S = {Step("desc", b)} \cup K
                    \/ b \in Stored /\ S = {Step("load", b), Off(b, {"LOADING"})} \cup K
       \/ b \in Views /\ S = JoinSet(b)
       \/ S = UseSet(b)

CountForm(t, b, S) ==
    /\ t \in Threads
    /\ \/ S = {Step("increfl", b), Step("kept", b), Step("decref", b)}
       \/ S = {Step("kept", b), Step("decref", b)}
       \/ S = {Step("decref", b)}
       \/ \E K : ViewTail(b, K) /\ (S = {Step("unload", b)} \cup K \/ S = {Step("destroy", b)} \cup K)
       \/ \E K : /\ K = {} \/ K = {Step("decref", b)}
                 /\ \/ b \in Stored /\ S = {Step("unshare", b), Step("decrefl", b)} \cup K
                    \/ S = {Step("decrefl", b)} \cup K

SaveForm(t, b, S) ==
    /\ b \in Stored
    /\ \/ \E K : /\ AfterSaveSet(t, b, K)
                 /\ \/ S = {Step("save", b)} \cup K
                    \/ S = {Step("spin", b)} \cup K
                    \/ S = {Step("batsave", b), Off(b, {"SAVING"})} \cup K
       \/ \E R : /\ RestSet(t, b, R)
                 /\ \/ S = {Step("free", b), Off(b, {"UNLOADING"})} \cup R
                    \/ t = Trimmer /\ S = {Step("trim", b)} \cup R

CommitForm(t, b, S) ==
    /\ t \in Threads
    /\ \/ b \in Stored /\ S = {Step("dirty_bat", b), Step("epilogue", b), Step("end", b)}
       \/ b \in Stored /\ S = {Step("batsave", b), Step("epilogue", b), Step("end", b)}
       \/ S = {Step("epilogue", b), Step("end", b)}
       \/ S = {Step("end", b)}

FlagForm(t, b, S) ==
    \E f \in Flags, K \in SUBSET Steps :
        /\ AfterOffSet(t, b, f, K)
        /\ S = {Off(b, {f})} \cup K \/ \E s \in SUBSET Flags : S = {Write(b, s)} \cup K

Form(t, b, S) == LoadForm(t, b, S) \/ CountForm(t, b, S) \/ SaveForm(t, b, S) \/ CommitForm(t, b, S) \/ FlagForm(t, b, S)

\* What a thread has to do is in one of the forms, for one BAT.
LEMMA TodoForms ==
    ASSUME ListsOK, NEW t \in Actors
    PROVE  Todo(t) = {} \/ \E c \in Bats : Form(t, c, Todo(t))
  <1>1. CASE todo[t] = <<>>
    BY <1>1, EmptyList DEF Todo
  <1>2. CASE todo[t] # <<>>
    <2> DEFINE x == Head(todo[t])
               T == Tail(todo[t])
               b == x.b
               S == Todo(t)
    <2>1. Ready(t, x.op, b)
      BY <1>2 DEF Ready
    <2>2. /\ x \in Steps /\ T \in Seq(Steps) /\ b \in Bats /\ Follows(t, x, T)
          /\ S = {x} \cup InList(T) /\ (x.op \notin {"off", "write"} => x = Step(x.op, b))
      BY <2>1, Popped
    <2> HIDE DEF x, T, b, S
    <2>3. t # Trimmer => t \in Threads
      BY DEF Actors
    <2>4. x.op \in Ops
      BY <2>2, StepIs
    <2>5. CASE x.op \in {"incref", "desc", "load", "base", "use"}
      <3>1. ASSUME x.op = "incref" PROVE LoadForm(t, b, S)
        <4>1. PICK R \in Seq(Steps) : T = Cons(Step("desc", b), R) /\ AfterDesc(b, R) /\ t # Trimmer
          BY <2>2, <3>1, Following
        <4>2. InList(T) = {Step("desc", b)} \cup InList(R) /\ AfterDescSet(b, InList(R))
          BY <2>2, <4>1, ConsSet, Kinds, AfterDescFormed
        <4>3. S = {Step("incref", b), Step("desc", b)} \cup InList(R)
          BY <2>2, <3>1, <4>2
        <4> QED BY <2>3, <4>1, <4>2, <4>3 DEF LoadForm
      <3>2. ASSUME x.op = "desc" PROVE LoadForm(t, b, S)
        <4>1. AfterDesc(b, T) /\ t # Trimmer
          BY <2>2, <3>2, Following
        <4>2. AfterDescSet(b, InList(T)) /\ S = {Step("desc", b)} \cup InList(T)
          BY <2>2, <3>2, <4>1, AfterDescFormed
        <4> QED BY <2>3, <4>1, <4>2 DEF LoadForm
      <3>3. ASSUME x.op = "load" PROVE LoadForm(t, b, S)
        <4>1. PICK R \in Seq(Steps) : T = Cons(Off(b, {"LOADING"}), R) /\ AfterDesc(b, R) /\ b \in Stored /\ t # Trimmer
          BY <2>2, <3>3, Following
        <4>2. InList(T) = {Off(b, {"LOADING"})} \cup InList(R) /\ AfterDescSet(b, InList(R))
          BY <2>2, <4>1, ConsSet, Kinds, AfterDescFormed
        <4>3. S = {Step("load", b), Off(b, {"LOADING"})} \cup InList(R)
          BY <2>2, <3>3, <4>2
        <4> QED BY <2>3, <4>1, <4>2, <4>3 DEF LoadForm
      <3>4. ASSUME x.op = "base" PROVE LoadForm(t, b, S)
        <4>1. T = Cons(Off(b, {"LOADING"}), Opening(b)) /\ t # Trimmer /\ b \in Views
          BY <2>2, <3>4, Following
        <4>2. InList(T) = {Off(b, {"LOADING"})} \cup {Step("desc", b), Step("use", b)}
          BY <2>2, <4>1, ConsSet, Kinds, ListsTyped
        <4>3. S = JoinSet(b)
          BY <2>2, <3>4, <4>2 DEF JoinSet
        <4> QED BY <2>3, <4>1, <4>3 DEF LoadForm
      <3>5. ASSUME x.op = "use" PROVE LoadForm(t, b, S)
        <4>1. T = <<>> /\ t # Trimmer
          BY <2>2, <3>5, Following
        <4>2. S = UseSet(b)
          BY <2>2, <3>5, <4>1, EmptyList DEF UseSet
        <4> QED BY <2>3, <4>1, <4>2 DEF LoadForm
      <3>6. LoadForm(t, b, S)
        BY <2>5, <3>1, <3>2, <3>3, <3>4, <3>5
      <3> QED BY <2>2, <3>6 DEF Form, S
    <2>6. CASE x.op \in {"increfl", "kept", "decref", "unload", "destroy", "unshare", "decrefl"}
      <3> DEFINE D == Cons(Step("decref", b), <<>>)
      <3>0. D \in Seq(Steps) /\ InList(D) = {Step("decref", b)} /\ Step("kept", b) \in Steps /\ Step("decrefl", b) \in Steps
        BY <2>2, OneStep, Kinds
      <3> HIDE DEF D
      <3>1. ASSUME x.op = "increfl" PROVE CountForm(t, b, S)
        <4>1. T = Cons(Step("kept", b), D) /\ t # Trimmer
          BY <2>2, <3>1, Following DEF D
        <4>2. InList(T) = {Step("kept", b)} \cup InList(D)
          BY <3>0, <4>1, ConsSet
        <4>3. S = {Step("increfl", b), Step("kept", b), Step("decref", b)}
          BY <2>2, <3>0, <3>1, <4>2
        <4> QED BY <2>3, <4>1, <4>3 DEF CountForm
      <3>2. ASSUME x.op = "kept" PROVE CountForm(t, b, S)
        <4>1. T = D /\ t # Trimmer
          BY <2>2, <3>2, Following DEF D
        <4>2. S = {Step("kept", b), Step("decref", b)}
          BY <2>2, <3>0, <3>2, <4>1
        <4> QED BY <2>3, <4>1, <4>2 DEF CountForm
      <3>3. ASSUME x.op = "decref" PROVE CountForm(t, b, S)
        <4>1. T = <<>> /\ t # Trimmer
          BY <2>2, <3>3, Following
        <4>2. S = {Step("decref", b)}
          BY <2>2, <3>3, <4>1, EmptyList
        <4> QED BY <2>3, <4>1, <4>2 DEF CountForm
      <3>4. ASSUME x.op = "unload" \/ x.op = "destroy" PROVE CountForm(t, b, S)
        <4>1. t # Trimmer /\ (T = <<>> \/ (b \in Views /\ T = Cons(Step("decref", Parent[b]), <<>>)))
          BY <2>2, <3>4, Following
        <4>2. ViewTail(b, InList(T))
          BY <2>2, <4>1, UnloadTail
        <4> QED BY <2>2, <2>3, <3>4, <4>1, <4>2 DEF CountForm
      <3>5. ASSUME x.op = "unshare" PROVE CountForm(t, b, S)
        <4>1. t # Trimmer /\ b \in Stored /\ (T = Cons(Step("decrefl", b), <<>>) \/ T = Cons(Step("decrefl", b), D))
          BY <2>2, <3>5, Following DEF D
        <4>2. InList(T) = {Step("decrefl", b)} \cup {} \/ InList(T) = {Step("decrefl", b)} \cup {Step("decref", b)}
          BY <3>0, <4>1, OneStep, ConsSet
        <4>3. S = {Step("unshare", b), Step("decrefl", b)} \cup {} \/ S = {Step("unshare", b), Step("decrefl", b)} \cup {Step("decref", b)}
          BY <2>2, <3>5, <4>2
        <4> QED BY <2>3, <4>1, <4>3 DEF CountForm
      <3>6. ASSUME x.op = "decrefl" PROVE CountForm(t, b, S)
        <4>1. t # Trimmer /\ (T = <<>> \/ T = D)
          BY <2>2, <3>6, Following DEF D
        <4>2. InList(T) = {} \/ InList(T) = {Step("decref", b)}
          BY <3>0, <4>1, EmptyList
        <4> QED BY <2>2, <2>3, <3>6, <4>1, <4>2 DEF CountForm
      <3>7. CountForm(t, b, S)
        BY <2>6, <3>1, <3>2, <3>3, <3>4, <3>5, <3>6
      <3> QED BY <2>2, <3>7 DEF Form, S
    <2>7. CASE x.op \in {"save", "spin", "free", "trim"}
      <3>1. ASSUME x.op = "save" \/ x.op = "spin" PROVE SaveForm(t, b, S)
        <4>1. b \in Stored /\ AfterSave(t, b, T)
          BY <2>2, <3>1, Following
        <4>2. AfterSaveSet(t, b, InList(T))
          BY <4>1, AfterSaveFormed
        <4> QED BY <2>2, <3>1, <4>1, <4>2 DEF SaveForm
      <3>2. ASSUME x.op = "free" PROVE SaveForm(t, b, S)
        <4>1. b \in Stored /\ AfterFree(t, b, T)
          BY <2>2, <3>2, Following
        <4>2. PICK R : InList(T) = {Off(b, {"UNLOADING"})} \cup R /\ RestSet(t, b, R)
          BY <4>1, AfterFreeFormed DEF AfterFreeSet
        <4>3. S = {Step("free", b), Off(b, {"UNLOADING"})} \cup R
          BY <2>2, <3>2, <4>2
        <4> QED BY <4>1, <4>2, <4>3 DEF SaveForm
      <3>3. ASSUME x.op = "trim" PROVE SaveForm(t, b, S)
        <4>1. b \in Stored /\ t = Trimmer /\ Rest(t, b, T)
          BY <2>2, <3>3, Following
        <4>2. RestSet(t, b, InList(T))
          BY <2>2, <4>1, RestFormed
        <4> QED BY <2>2, <3>3, <4>1, <4>2 DEF SaveForm
      <3>4. SaveForm(t, b, S)
        BY <2>7, <3>1, <3>2, <3>3
      <3> QED BY <2>2, <3>4 DEF Form, S
    <2>8. CASE x.op = "batsave"
      <3>1. b \in Stored /\ \/ t # Trimmer /\ May("commit") /\ T = Ending(b)
                            \/ \E R \in Seq(Steps) : T = Cons(Off(b, {"SAVING"}), R) /\ AfterSave(t, b, R)
        BY <2>2, <2>8, Following
      <3>2. CASE t # Trimmer /\ T = Ending(b)
        <4>1. S = {Step("batsave", b), Step("epilogue", b), Step("end", b)}
          BY <2>2, <2>8, <3>2, ListsTyped
        <4>2. CommitForm(t, b, S)
          BY <2>3, <3>1, <3>2, <4>1 DEF CommitForm
        <4> QED BY <2>2, <4>2 DEF Form, S
      <3>3. ASSUME NEW R \in Seq(Steps), T = Cons(Off(b, {"SAVING"}), R), AfterSave(t, b, R)
            PROVE  Form(t, b, S)
        <4>1. AfterSaveSet(t, b, InList(R)) /\ InList(T) = {Off(b, {"SAVING"})} \cup InList(R)
          BY <2>2, <3>1, <3>3, AfterSaveFormed, ConsSet, Kinds
        <4>2. S = {Step("batsave", b), Off(b, {"SAVING"})} \cup InList(R)
          BY <2>2, <2>8, <4>1
        <4>3. SaveForm(t, b, S)
          BY <3>1, <4>1, <4>2 DEF SaveForm
        <4> QED BY <4>3 DEF Form
      <3> QED BY <2>2, <3>1, <3>2, <3>3 DEF S
    <2>9. CASE x.op \in {"dirty_bat", "epilogue", "end"}
      <3>1. ASSUME x.op = "dirty_bat" PROVE CommitForm(t, b, S)
        <4>1. t # Trimmer /\ b \in Stored /\ T = Ending(b)
          BY <2>2, <3>1, Following
        <4>2. S = {Step("dirty_bat", b), Step("epilogue", b), Step("end", b)}
          BY <2>2, <3>1, <4>1, ListsTyped
        <4> QED BY <2>3, <4>1, <4>2 DEF CommitForm
      <3>2. ASSUME x.op = "epilogue" PROVE CommitForm(t, b, S)
        <4>1. t # Trimmer /\ T = Cons(Step("end", b), <<>>)
          BY <2>2, <3>2, Following
        <4>2. InList(T) = {Step("end", b)}
          BY <2>2, <4>1, OneStep, Kinds
        <4>3. S = {Step("epilogue", b), Step("end", b)}
          BY <2>2, <3>2, <4>2
        <4> QED BY <2>3, <4>1, <4>3 DEF CommitForm
      <3>3. ASSUME x.op = "end" PROVE CommitForm(t, b, S)
        <4>1. t # Trimmer /\ T = <<>>
          BY <2>2, <3>3, Following
        <4>2. S = {Step("end", b)}
          BY <2>2, <3>3, <4>1, EmptyList
        <4> QED BY <2>3, <4>1, <4>2 DEF CommitForm
      <3>4. CommitForm(t, b, S)
        BY <2>9, <3>1, <3>2, <3>3
      <3> QED BY <2>2, <3>4 DEF Form, S
    <2>10. CASE x.op \in {"off", "write"}
      <3>1. PICK f \in Flags : AfterOff(t, b, f, T) /\ (x.op = "off" => x.set = {f})
        BY <2>2, <2>10 DEF Follows, b
      <3>2. AfterOffSet(t, b, f, InList(T))
        BY <2>2, <3>1, AfterOffFormed
      <3>3. x = Off(b, {f}) \/ \E s \in SUBSET Flags : x = Write(b, s)
        BY <2>2, <2>10, <3>1, StepIs DEF b
      <3>4. InList(T) \in SUBSET Steps
        BY <2>2 DEF InList
      <3>5. FlagForm(t, b, S)
        BY <2>2, <3>2, <3>3, <3>4 DEF FlagForm
      <3> QED BY <2>2, <3>5 DEF Form, S
    <2> QED BY <2>4, <2>5, <2>6, <2>7, <2>8, <2>9, <2>10 DEF Ops
  <1> QED BY <1>1, <1>2

----------------------------------------------------------------------------
(***************************************************************************)
(* Threads and BATs                                                        *)
(***************************************************************************)

\* t has the step o on b to do; it has to clear the flag f of b; it has read
\* the status of b and will write it back.
Has(o, t, b)    == Step(o, b) \in Todo(t)
Clears(f, t, b) == Off(b, {f}) \in Todo(t)
Holds(s, t, b)  == Write(b, s) \in Todo(t)
Writes(t, b)    == \E s \in SUBSET Flags : Holds(s, t, b)

----------------------------------------------------------------------------
(***************************************************************************)
(* The counters: what has been counted and who will give it back.          *)
(***************************************************************************)
OwesFix(t, b)  == Has("decref", t, b) \/ (Has("use", t, b) /\ ~Has("incref", t, b))
OwesKeep(t, b) == Has("decrefl", t, b) \/ (Has("kept", t, b) /\ ~Has("increfl", t, b))
Joins(t, v)    == Has("base", t, v) /\ Has("incref", t, Parent[v])
Joined(v)      == refs[v] > 0 /\ \A t \in Threads : ~Joins(t, v)

FixOwed(b)   == {t \in Threads : OwesFix(t, b)}
KeepOwed(b)  == {t \in Threads : OwesKeep(t, b)}
ShareOwed(b) == {t \in Threads : Has("unshare", t, b)}
JoinedTo(b)  == {v \in Views : Parent[v] = b /\ Joined(v)}

RefsExact == \A b \in Bats :
    refs[b] = Cardinality(Holders(b)) + Cardinality(FixOwed(b)) + Cardinality(JoinedTo(b))
LrefsExact == \A b \in Bats :
    lrefs[b] = keeps[b] + Cardinality({b} \cap persistent) + Cardinality(ViewsOf(b)) + Cardinality(KeepOwed(b))
ShareExact == \A b \in Bats :
    share[b] = Cardinality(ViewsOf(b)) + Cardinality(ShareOwed(b))
FixesOnce == \A t \in Threads, b \in Bats :
    fixes[t][b] \in {0, 1} /\ (Has("use", t, b) => fixes[t][b] = 0)

Counters == RefsExact /\ LrefsExact /\ ShareExact /\ FixesOnce

----------------------------------------------------------------------------
(***************************************************************************)
(* What is there: an entry that is counted exists, a view is in memory as  *)
(* long as it exists, and what a thread begins to fix is kept for it.      *)
(***************************************************************************)
Exist(b) ==
    /\ ~desc[b] => refs[b] = 0 /\ lrefs[b] = 0 /\ ~cache[b]
    /\ b \in Views => cache[b] = desc[b]

\* t is about to set the pointer of a view on b.
Serves(t, b) == \E v \in Views : Parent[v] = b /\ Has("base", t, v)

Begun(b) == \A t \in Threads : Has("incref", t, b) =>
    b \in persistent \/ keeps[b] > 0 \/ Serves(t, b)

----------------------------------------------------------------------------
(***************************************************************************)
(* The flags.  Each UNLOADING and each LOADING belongs to one thread, and  *)
(* a status that was read without the lock is still right when it is       *)
(* written.                                                                *)
(***************************************************************************)
Frees(t, b)   == Has("free", t, b) \/ Clears("UNLOADING", t, b)
Doomed(t, b)  == Has("unload", t, b) \/ Has("destroy", t, b) \/ Has("trim", t, b) \/ Has("free", t, b)
Unloads(t, b) == Doomed(t, b) \/ Clears("UNLOADING", t, b) \/ (Writes(t, b) /\ "UNLOADING" \in status[b])
Loads(t, b)   == \/ Has("load", t, b)
                 \/ b \in Views /\ (Has("base", t, b) \/ Clears("LOADING", t, b) \/ Writes(t, b))

Flagged(b) ==
    /\ "DELETING" \notin status[b]
    /\ "UNLOADING" \in status[b] => refs[b] = 0 /\ "LOADING" \notin status[b]
    /\ "LOADING" \in status[b] => \E t \in Threads : Loads(t, b)
    /\ cache[b] /\ refs[b] = 0 /\ lrefs[b] = 0 => "UNLOADING" \in status[b]

Written(b) == \A t \in Actors, s \in SUBSET Flags : Holds(s, t, b) =>
    /\ "UNLOADING" \in s <=> Frees(t, b)
    /\ "LOADING" \notin s /\ "DELETING" \notin s

Unloading(b) == \A t \in Actors : Unloads(t, b) =>
    /\ "UNLOADING" \in status[b]
    /\ cache[b] <=> Doomed(t, b)
    /\ \A u \in Actors : Unloads(u, b) => u = t
    /\ Has("destroy", t, b) => lrefs[b] = 0
    /\ Has("unload", t, b) /\ b \in Views => lrefs[b] = 0
    /\ Has("trim", t, b) \/ Has("free", t, b) => lrefs[b] > 0

Loading(b) == \A t \in Threads : Loads(t, b) =>
    /\ "LOADING" \in status[b]
    /\ \A u \in Threads : Loads(u, b) => u = t
    /\ b \in Stored => ~cache[b]
    /\ b \in Views => refs[b] = 1 /\ base[b] = (IF Has("base", t, b) THEN "offset" ELSE "pointer")

----------------------------------------------------------------------------
(***************************************************************************)
(* The contents: nothing changes a BAT that is being loaded, saved or      *)
(* freed, and a thread that saves has a fix or unloads.                    *)
(***************************************************************************)
Saves(t, b) == Has("save", t, b) \/ Has("spin", t, b) \/ Has("batsave", t, b)
Late(t, b) ==
    \/ Clears("LOADING", t, b) /\ ~Has("load", t, b)
    \/ Clears("SAVING", t, b) /\ ~Has("batsave", t, b)
    \/ Clears("LOADED", t, b) \/ Writes(t, b)
    \/ Frees(t, b) /\ ~Saves(t, b)
Clean(b) == \A t \in Actors : Late(t, b) => ~dirty[b]

Spinning(b) == \A t \in Actors : Has("spin", t, b) /\ dirty[b] => "SAVING" \in status[b]

\* t goes on to use b, or a view on b.
Window(t, b) == Has("use", t, b) \/ Serves(t, b)
OnlySaves(t, b) ==
    /\ ~Frees(t, b)
    /\ \/ Has("save", t, b) \/ Has("spin", t, b) \/ Clears("SAVING", t, b)
       \/ Has("batsave", t, b) /\ ~Has("epilogue", t, b)
       \/ Writes(t, b) /\ ~Window(t, b) /\ "UNLOADING" \notin status[b]
Saving(b) == \A t \in Actors : OnlySaves(t, b) => t \in Threads /\ fixes[t][b] > 0

Contents(b) ==
    /\ cache[b] => mem[b] = val[b]
    /\ dirty[b] => cache[b]
    /\ desc[b] /\ ~dirty[b] => disk[b] = val[b]

----------------------------------------------------------------------------
(***************************************************************************)
(* Use: what a thread uses or is about to use is in memory.                *)
(***************************************************************************)
Opened(t, b) == Window(t, b) /\ ~Has("incref", t, b) /\ ~Has("desc", t, b) /\ ~Has("load", t, b)
Needed(b) == \A t \in Threads : fixes[t][b] > 0 \/ Opened(t, b) => cache[b]

Based == \A v \in Views :
    /\ base[v] # "wrong"
    /\ base[v] = "pointer" => Joined(v) /\ cache[Parent[v]]
    /\ base[v] = "offset" => refs[v] = 0 \/ "LOADING" \in status[v]

Heap(b) == b \in Stored => Clean(b) /\ Spinning(b) /\ Saving(b) /\ Contents(b)
Entry(b) == Exist(b) /\ Begun(b) /\ Flagged(b) /\ Written(b) /\ Unloading(b) /\ Loading(b) /\ Needed(b) /\ Heap(b)
Pool == (\A b \in Bats : Entry(b)) /\ Based
Inv  == TypeOK /\ Shaped /\ Counters /\ Pool

----------------------------------------------------------------------------
(***************************************************************************)
(* What the lists say about each other's steps.                            *)
(***************************************************************************)
\* The kinds of steps only a thread has, and the BATs they are for.
Sound(t, c) ==
    /\ Has("base", t, c) => c \in Views /\ t \in Threads /\ Has("use", t, c) /\ ~Has("incref", t, c)
    /\ c \in Views /\ (Clears("LOADING", t, c) \/ Writes(t, c)) => t \in Threads /\ Has("use", t, c) /\ ~Has("incref", t, c)
    /\ Has("load", t, c) => c \in Stored
    /\ Has("load", t, c) \/ (c \in Stored /\ Clears("LOADING", t, c)) \/ (c \in Stored /\ Writes(t, c) /\ Window(t, c)) =>
          t \in Threads /\ Window(t, c) /\ ~Has("incref", t, c) /\ ~Has("desc", t, c)
    /\ Writes(t, c) /\ Window(t, c) => ~Frees(t, c) /\ ~Has("load", t, c)
    /\ Frees(t, c) \/ Has("trim", t, c) \/ Saves(t, c) \/ Clears("SAVING", t, c) \/ Clears("LOADED", t, c) => c \in Stored
    /\ Writes(t, c) /\ ~Window(t, c) => c \in Stored
    /\ Clears("LOADED", t, c) => Frees(t, c)
    /\ Writes(t, c) => ~Has("unload", t, c) /\ ~Has("destroy", t, c) /\ ~Has("trim", t, c)

\* The steps of a thread in each form of its list.
LEMMA AllSound ==
    ASSUME ListsOK, NEW t \in Actors, NEW c \in Bats
    PROVE  Sound(t, c)
  <1> USE DEF Sound, Has, Clears, Holds, Writes, Window, Serves, Frees, Saves
  <1>0. Bats = Stored \cup Views /\ Stored \cap Views = {} /\ Trimmer \notin Threads /\ \A v \in Views : Parent[v] \in Stored
    BY BatsAssumption DEF Bats
  <1>1. CASE Todo(t) = {}
    BY <1>1
  <1>2. ASSUME NEW b \in Bats, LoadForm(t, b, Todo(t)) PROVE Sound(t, c)
    BY <1>0, <1>2, StepsEqual DEF LoadForm, AfterDescSet, UseSet, JoinSet
  <1>3. ASSUME NEW b \in Bats, CountForm(t, b, Todo(t)) PROVE Sound(t, c)
    BY <1>0, <1>3, StepsEqual DEF CountForm, ViewTail
  <1>4. ASSUME NEW b \in Bats, SaveForm(t, b, Todo(t)) PROVE Sound(t, c)
    BY <1>0, <1>4, StepsEqual DEF SaveForm, AfterSaveSet, RestSet
  <1>5. ASSUME NEW b \in Bats, CommitForm(t, b, Todo(t)) PROVE Sound(t, c)
    BY <1>0, <1>5, StepsEqual DEF CommitForm
  <1>6. ASSUME NEW b \in Bats, FlagForm(t, b, Todo(t)) PROVE Sound(t, c)
    <2>1. PICK f \in Flags, K \in SUBSET Steps :
              AfterOffSet(t, b, f, K) /\ (Todo(t) = {Off(b, {f})} \cup K \/ \E s \in SUBSET Flags : Todo(t) = {Write(b, s)} \cup K)
      BY <1>6 DEF FlagForm
    <2>2. CASE f = "LOADING" /\ t # Trimmer /\ b \in Stored /\ AfterDescSet(b, K)
      <3>1. t \in Threads
        BY <2>2 DEF Actors
      <3>2. CASE K = UseSet(b)
        BY <1>0, <2>1, <2>2, <3>1, <3>2, StepsEqual DEF UseSet
      <3>3. ASSUME NEW v \in Views, Parent[v] = b, K = JoinSet(v) PROVE Sound(t, c)
        BY <1>0, <2>1, <2>2, <3>1, <3>3, StepsEqual DEF JoinSet
      <3> QED BY <2>2, <3>2, <3>3 DEF AfterDescSet
    <2>3. CASE f = "LOADING" /\ t # Trimmer /\ b \in Views /\ K = {Step("desc", b), Step("use", b)}
      <3>1. t \in Threads
        BY <2>3 DEF Actors
      <3> QED BY <1>0, <2>1, <2>3, <3>1, StepsEqual
    <2>4. CASE f = "SAVING" /\ b \in Stored /\ AfterSaveSet(t, b, K)
      BY <1>0, <2>1, <2>4, StepsEqual DEF AfterSaveSet, RestSet
    <2>5. CASE f = "LOADED" /\ b \in Stored /\ AfterFreeSet(t, b, K)
      BY <1>0, <2>1, <2>5, StepsEqual DEF AfterFreeSet, RestSet
    <2>6. CASE f = "UNLOADING" /\ b \in Stored /\ RestSet(t, b, K)
      BY <1>0, <2>1, <2>6, StepsEqual DEF RestSet
    <2> QED BY <2>1, <2>2, <2>3, <2>4, <2>5, <2>6 DEF AfterOffSet
  <1> QED BY <1>1, <1>2, <1>3, <1>4, <1>5, <1>6, TodoForms DEF Form

----------------------------------------------------------------------------
(***************************************************************************)
(* Counting                                                                *)
(***************************************************************************)
N(P) == IF P THEN 1 ELSE 0

\* A set that changes at one element.
LEMMA CardMove ==
    ASSUME NEW F, IsFiniteSet(F), NEW x \in F, NEW S \in SUBSET F, NEW S2 \in SUBSET F,
           \A y \in F : y # x => (y \in S <=> y \in S2)
    PROVE  /\ Cardinality(S) \in Nat /\ Cardinality(S2) \in Nat
           /\ Cardinality(S2) + N(x \in S) = Cardinality(S) + N(x \in S2)
  <1>1. IsFiniteSet(S) /\ IsFiniteSet(S2) /\ Cardinality(S) \in Nat /\ Cardinality(S2) \in Nat
    BY FS_Subset, FS_CardinalityType
  <1>2. CASE x \in S /\ x \notin S2
    <2>1. S = S2 \cup {x}
      BY <1>2
    <2>2. Cardinality(S) = Cardinality(S2) + 1
      BY <1>1, <1>2, <2>1, FS_AddElement
    <2> QED BY <1>1, <1>2, <2>2 DEF N
  <1>3. CASE x \notin S /\ x \in S2
    <2>1. S2 = S \cup {x}
      BY <1>3
    <2>2. Cardinality(S2) = Cardinality(S) + 1
      BY <1>1, <1>3, <2>1, FS_AddElement
    <2> QED BY <1>1, <1>3, <2>2 DEF N
  <1>4. CASE x \in S <=> x \in S2
    <2>1. S = S2
      BY <1>4
    <2> QED BY <1>1, <1>4, <2>1 DEF N
  <1> QED BY <1>1, <1>2, <1>3, <1>4

\* Who is in a set is counted.
LEMMA CardOne ==
    ASSUME NEW S, IsFiniteSet(S)
    PROVE  /\ Cardinality(S) \in Nat
           /\ \A x \in S : Cardinality(S) >= 1
           /\ \A x, y \in S : x # y => Cardinality(S) >= 2
           /\ S = {} => Cardinality(S) = 0
  <1>1. Cardinality(S) \in Nat
    BY FS_CardinalityType
  <1>2. S = {} <=> Cardinality(S) = 0
    BY FS_EmptySet
  <1>3. ASSUME NEW x \in S, NEW y \in S, x # y PROVE Cardinality(S) >= 2
    <2>1. IsFiniteSet(S \ {x}) /\ Cardinality(S \ {x}) = Cardinality(S) - 1
      BY FS_RemoveElement
    <2>2. S \ {x} # {} /\ Cardinality(S \ {x}) \in Nat
      BY <1>3, <2>1, FS_CardinalityType
    <2>3. Cardinality(S \ {x}) # 0
      BY <2>1, <2>2, FS_EmptySet
    <2> QED BY <1>1, <2>1, <2>2, <2>3
  <1> QED BY <1>1, <1>2, <1>3

\* The sets that are counted are finite.
LEMMA Finite ==
    ASSUME NEW b
    PROVE  /\ IsFiniteSet(Holders(b)) /\ IsFiniteSet(FixOwed(b)) /\ IsFiniteSet(JoinedTo(b))
           /\ IsFiniteSet(KeepOwed(b)) /\ IsFiniteSet(ShareOwed(b)) /\ IsFiniteSet(ViewsOf(b))
           /\ IsFiniteSet({b} \cap persistent)
  <1>1. /\ Holders(b) \subseteq Threads /\ FixOwed(b) \subseteq Threads /\ KeepOwed(b) \subseteq Threads
        /\ ShareOwed(b) \subseteq Threads /\ JoinedTo(b) \subseteq Views /\ ViewsOf(b) \subseteq Views
        /\ {b} \cap persistent \subseteq {b}
    BY DEF Holders, FixOwed, KeepOwed, ShareOwed, JoinedTo, ViewsOf
  <1>2. IsFiniteSet({b})
    BY FS_Singleton
  <1> QED BY <1>1, <1>2, BatsAssumption, FS_Subset

\* A fix that somebody has, owes or needs for a view is counted.
LEMMA RefsBounds ==
    ASSUME RefsExact, NEW b \in Bats
    PROVE  /\ \A t \in Threads : fixes[t][b] > 0 \/ OwesFix(t, b) => refs[b] >= 1
           /\ \A v \in Views : Parent[v] = b /\ Joined(v) => refs[b] >= 1
           /\ \A t, u \in Threads : fixes[t][b] > 0 /\ OwesFix(u, b) => refs[b] >= 2
           /\ \A t, u \in Threads : t # u /\ fixes[t][b] > 0 /\ fixes[u][b] > 0 => refs[b] >= 2
           /\ \A t, u \in Threads : t # u /\ OwesFix(t, b) /\ OwesFix(u, b) => refs[b] >= 2
           /\ \A t \in Threads, v \in Views :
                 (fixes[t][b] > 0 \/ OwesFix(t, b)) /\ Parent[v] = b /\ Joined(v) => refs[b] >= 2
  <1> DEFINE H == Cardinality(Holders(b))
             O == Cardinality(FixOwed(b))
             J == Cardinality(JoinedTo(b))
  <1>1. refs[b] = H + O + J
    BY DEF RefsExact
  <1>2. H \in Nat /\ O \in Nat /\ J \in Nat
    BY Finite, CardOne
  <1>3. /\ \A t \in Threads : fixes[t][b] > 0 => H >= 1
        /\ \A t, u \in Threads : t # u /\ fixes[t][b] > 0 /\ fixes[u][b] > 0 => H >= 2
    <2>1. \A t \in Threads : fixes[t][b] > 0 <=> t \in Holders(b)
      BY DEF Holders
    <2> QED BY <2>1, Finite, CardOne
  <1>4. /\ \A t \in Threads : OwesFix(t, b) => O >= 1
        /\ \A t, u \in Threads : t # u /\ OwesFix(t, b) /\ OwesFix(u, b) => O >= 2
    <2>1. \A t \in Threads : OwesFix(t, b) <=> t \in FixOwed(b)
      BY DEF FixOwed
    <2> QED BY <2>1, Finite, CardOne
  <1>5. \A v \in Views : Parent[v] = b /\ Joined(v) => J >= 1
    <2>1. \A v \in Views : Parent[v] = b /\ Joined(v) => v \in JoinedTo(b)
      BY DEF JoinedTo
    <2> QED BY <2>1, Finite, CardOne
  <1> HIDE DEF H, O, J
  <1>6. \A t \in Threads : fixes[t][b] > 0 \/ OwesFix(t, b) => refs[b] >= 1
    BY <1>1, <1>2, <1>3, <1>4
  <1>7. \A v \in Views : Parent[v] = b /\ Joined(v) => refs[b] >= 1
    BY <1>1, <1>2, <1>5
  <1>8. \A t, u \in Threads : fixes[t][b] > 0 /\ OwesFix(u, b) => refs[b] >= 2
    BY <1>1, <1>2, <1>3, <1>4
  <1>9. \A t, u \in Threads : t # u /\ fixes[t][b] > 0 /\ fixes[u][b] > 0 => refs[b] >= 2
    BY <1>1, <1>2, <1>3
  <1>10. \A t, u \in Threads : t # u /\ OwesFix(t, b) /\ OwesFix(u, b) => refs[b] >= 2
    BY <1>1, <1>2, <1>4
  <1>11. \A t \in Threads, v \in Views :
            (fixes[t][b] > 0 \/ OwesFix(t, b)) /\ Parent[v] = b /\ Joined(v) => refs[b] >= 2
    BY <1>1, <1>2, <1>3, <1>4, <1>5
  <1> QED BY <1>6, <1>7, <1>8, <1>9, <1>10, <1>11

\* A logical reference that somebody holds or owes is counted.
LEMMA LrefsBounds ==
    ASSUME LrefsExact, NEW b \in Bats, keeps[b] \in Nat
    PROVE  /\ b \in persistent \/ keeps[b] > 0 => lrefs[b] >= 1
           /\ \A v \in Views : Parent[v] = b /\ desc[v] => lrefs[b] >= 1
           /\ \A t \in Threads : OwesKeep(t, b) => lrefs[b] >= 1
  <1> DEFINE P == Cardinality({b} \cap persistent)
             V == Cardinality(ViewsOf(b))
             O == Cardinality(KeepOwed(b))
  <1>1. lrefs[b] = keeps[b] + P + V + O
    BY DEF LrefsExact
  <1>2. P \in Nat /\ V \in Nat /\ O \in Nat
    BY Finite, CardOne
  <1>3. b \in persistent => P >= 1
    <2>1. b \in persistent => b \in {b} \cap persistent
      OBVIOUS
    <2> QED BY <2>1, Finite, CardOne
  <1>4. \A v \in Views : Parent[v] = b /\ desc[v] => V >= 1
    <2>1. \A v \in Views : Parent[v] = b /\ desc[v] => v \in ViewsOf(b)
      BY DEF ViewsOf
    <2> QED BY <2>1, Finite, CardOne
  <1>5. \A t \in Threads : OwesKeep(t, b) => O >= 1
    <2>1. \A t \in Threads : OwesKeep(t, b) => t \in KeepOwed(b)
      BY DEF KeepOwed
    <2> QED BY <2>1, Finite, CardOne
  <1> HIDE DEF P, V, O
  <1>6. b \in persistent \/ keeps[b] > 0 => lrefs[b] >= 1
    BY <1>1, <1>2, <1>3
  <1>7. \A v \in Views : Parent[v] = b /\ desc[v] => lrefs[b] >= 1
    BY <1>1, <1>2, <1>4
  <1>8. \A t \in Threads : OwesKeep(t, b) => lrefs[b] >= 1
    BY <1>1, <1>2, <1>5
  <1> QED BY <1>6, <1>7, <1>8

\* What is in the pool is of these types.
LEMMA Types ==
    TypeOK => /\ ListsOK \/ ~Shaped
              /\ \A b \in Bats : /\ status[b] \in SUBSET Flags /\ refs[b] \in Nat /\ lrefs[b] \in Nat /\ share[b] \in Nat
                                 /\ desc[b] \in BOOLEAN /\ cache[b] \in BOOLEAN /\ dirty[b] \in BOOLEAN
                                 /\ keeps[b] \in Nat
              /\ \A v \in Views : base[v] \in {"offset", "pointer", "wrong"}
              /\ \A t \in Threads, b \in Bats : fixes[t][b] \in Nat
  BY DEF TypeOK, ListsOK, Steps

\* A thread that uses b after its fix has the fix.
LEMMA Claims ==
    ASSUME Inv, NEW t \in Threads, NEW b \in Bats, Window(t, b), ~Has("incref", t, b)
    PROVE  /\ refs[b] >= 1
           /\ \A u \in Threads : fixes[u][b] > 0 => refs[b] >= 2
           /\ \A u \in Threads : u # t /\ OwesFix(u, b) => refs[b] >= 2
           /\ b \in Stored => desc[b]
  <1>0. t \in Actors /\ ListsOK /\ refs[b] \in Nat
    BY Types DEF Inv, Actors
  <1>1. RefsExact /\ \A c \in Bats : Loading(c) /\ Exist(c)
    BY DEF Inv, Counters, Pool, Entry
  <1>2. CASE Has("use", t, b)
    <2>1. OwesFix(t, b)
      BY <1>2 DEF OwesFix
    <2> QED BY <1>0, <1>1, <2>1, RefsBounds DEF Exist
  <1>3. ASSUME NEW v \in Views, Parent[v] = b, Has("base", t, v)
        PROVE  /\ refs[b] >= 1
               /\ \A u \in Threads : fixes[u][b] > 0 \/ OwesFix(u, b) => refs[b] >= 2
    <2>1. v \in Bats /\ Loads(t, v)
      BY <1>3 DEF Bats, Loads
    <2>2. refs[v] = 1 /\ \A u \in Threads : Loads(u, v) => u = t
      BY <1>1, <1>3, <2>1 DEF Loading
    <2>3. \A u \in Threads : ~Joins(u, v)
      BY <1>3, <2>2 DEF Joins, Loads
    <2>4. Joined(v)
      BY <2>2, <2>3 DEF Joined
    <2> QED BY <1>1, <1>3, <2>4, RefsBounds
  <1>4. refs[b] >= 1 => desc[b]
    BY <1>0, <1>1, Types DEF Exist, Inv
  <1> QED BY <1>2, <1>3, <1>4 DEF Window, Serves

----------------------------------------------------------------------------
(***************************************************************************)
(* Frames                                                                  *)
(***************************************************************************)
\* A move of t, as steps that are there before and after.
LEMMA HasMoves ==
    ASSUME NEW t, NEW A, NEW B, Moves(t, A, B)
    PROVE  /\ \A o, c : (Has(o, t, c) <=> Step(o, c) \in A) /\ (Has(o, t, c)' <=> Step(o, c) \in B)
           /\ \A f, c : (Clears(f, t, c) <=> Off(c, {f}) \in A) /\ (Clears(f, t, c)' <=> Off(c, {f}) \in B)
           /\ \A s, c : (Holds(s, t, c) <=> Write(c, s) \in A) /\ (Holds(s, t, c)' <=> Write(c, s) \in B)
           /\ \A u \in Actors : u # t => \A o, c : Has(o, u, c)' <=> Has(o, u, c)
           /\ \A u \in Actors : u # t => \A f, c : Clears(f, u, c)' <=> Clears(f, u, c)
           /\ \A u \in Actors : u # t => \A s, c : Holds(s, u, c)' <=> Holds(s, u, c)
  BY DEF Moves, Has, Clears, Holds

\* The table of steps when t has the steps Y in place of x.
Table(t, x, Y) ==
    \A u \in Actors :
        /\ \A o, c : Has(o, u, c)' <=> (Has(o, u, c) /\ ~(u = t /\ x = Step(o, c))) \/ (u = t /\ Step(o, c) \in Y)
        /\ \A f, c : Clears(f, u, c)' <=> (Clears(f, u, c) /\ ~(u = t /\ x = Off(c, {f}))) \/ (u = t /\ Off(c, {f}) \in Y)
        /\ \A s, c : Holds(s, u, c)' <=> (Holds(s, u, c) /\ ~(u = t /\ x = Write(c, s))) \/ (u = t /\ Write(c, s) \in Y)

\* t has the steps Y in place of x.
LEMMA Replace ==
    \A t \in Actors : \A x, Y, K : x \notin K /\ x \notin Y /\ Moves(t, {x} \cup K, Y \cup K) => Table(t, x, Y)
  <1> SUFFICES ASSUME NEW t \in Actors, NEW x, NEW Y, NEW K, x \notin K, x \notin Y, Moves(t, {x} \cup K, Y \cup K)
               PROVE  Table(t, x, Y)
    OBVIOUS
  <1>1. /\ Todo(t) = {x} \cup K /\ Todo(t)' = Y \cup K
        /\ \A u \in Actors : u # t => Todo(u)' = Todo(u)
    BY DEF Moves
  <1>2. \A u \in Actors : \A y : y \in Todo(u)' <=> (y \in Todo(u) /\ ~(u = t /\ x = y)) \/ (u = t /\ y \in Y)
    BY <1>1
  <1> QED BY <1>1, <1>2 DEF Table, Has, Clears, Holds

\* The table of steps when t has done the step o on b.
Drops(t, o, b) ==
    \A u \in Actors :
        /\ \A p, c : Has(p, u, c)' <=> Has(p, u, c) /\ ~(u = t /\ p = o /\ c = b)
        /\ \A f, c : Clears(f, u, c)' <=> Clears(f, u, c)
        /\ \A s, c : Holds(s, u, c)' <=> Holds(s, u, c)
        /\ \A c : Writes(u, c)' <=> Writes(u, c)
        /\ o # "base" => \A c : Serves(u, c)' <=> Serves(u, c)

\* t has done a step and has nothing more to do for it.
LEMMA Dropped ==
    \A t \in Actors : \A o, b, K :
        o \notin {"off", "write"} /\ Step(o, b) \notin K /\ Moves(t, {Step(o, b)} \cup K, K) => Drops(t, o, b)
  <1> SUFFICES ASSUME NEW t \in Actors, NEW o, NEW b, NEW K,
                      o \notin {"off", "write"}, Step(o, b) \notin K, Moves(t, {Step(o, b)} \cup K, K)
               PROVE  Drops(t, o, b)
    OBVIOUS
  <1>1. Table(t, Step(o, b), {})
    <2>1. K = {} \cup K
      OBVIOUS
    <2> QED BY <2>1, Replace
  <1>2. /\ \A p, c : Step(o, b) = Step(p, c) <=> p = o /\ c = b
        /\ \A f, c : Step(o, b) # Off(c, {f}) /\ Step(o, b) # Write(c, f)
    BY StepsEqual
  <1>3. \A u \in Actors : \A p, c : Has(p, u, c)' <=> Has(p, u, c) /\ ~(u = t /\ p = o /\ c = b)
    BY <1>1, <1>2 DEF Table
  <1>4. \A u \in Actors : \A f, c : (Clears(f, u, c)' <=> Clears(f, u, c)) /\ (Holds(f, u, c)' <=> Holds(f, u, c))
    BY <1>1, <1>2 DEF Table
  <1>5. \A u \in Actors : \A c : Writes(u, c)' <=> Writes(u, c)
    BY <1>4 DEF Writes
  <1>6. o # "base" => \A u \in Actors : \A c : Serves(u, c)' <=> Serves(u, c)
    BY <1>3 DEF Serves
  <1> QED BY <1>3, <1>4, <1>5, <1>6 DEF Drops

\* Steps that nothing happens to, of the kinds that entries speak of.
Telling == {"incref", "desc", "load", "base", "use", "unload", "destroy", "trim", "save", "spin", "batsave", "free", "epilogue"}
SameSteps(u, c) ==
    /\ \A o \in Telling : Has(o, u, c)' <=> Has(o, u, c)
    /\ \A f : Clears(f, u, c)' <=> Clears(f, u, c)
    /\ \A s : Holds(s, u, c)' <=> Holds(s, u, c)
    /\ Writes(u, c)' <=> Writes(u, c)
    /\ Serves(u, c)' <=> Serves(u, c)
    /\ Window(u, c)' <=> Window(u, c)

\* Steps on another BAT, or of another thread, stay.
LEMMA TableSame ==
    \A t \in Actors : \A x, Y, b :
        Table(t, x, Y) /\ x.b = b /\ x.op # "base" /\ (\A y \in Y : y.b = b /\ y.op # "base") =>
            /\ \A u \in Actors : \A c : c # b \/ u # t => SameSteps(u, c)
            /\ \A u \in Actors : \A c : Serves(u, c)' <=> Serves(u, c)
  <1> SUFFICES ASSUME NEW t \in Actors, NEW x, NEW Y, NEW b, Table(t, x, Y), x.b = b, x.op # "base",
                      \A y \in Y : y.b = b /\ y.op # "base"
               PROVE  /\ \A u \in Actors : \A c : c # b \/ u # t => SameSteps(u, c)
                      /\ \A u \in Actors : \A c : Serves(u, c)' <=> Serves(u, c)
    OBVIOUS
  <1>1. /\ \A o, c : x = Step(o, c) => c = b /\ o # "base"
        /\ \A c, f : (x = Off(c, f) => c = b) /\ (x = Write(c, f) => c = b)
        /\ \A o, c : Step(o, c) \in Y => c = b /\ o # "base"
        /\ \A c, f : (Off(c, f) \in Y => c = b) /\ (Write(c, f) \in Y => c = b)
    BY StepParts
  <1>2. \A u \in Actors : \A c : c # b \/ u # t => \A o : Has(o, u, c)' <=> Has(o, u, c)
    BY <1>1 DEF Table
  <1>3. ASSUME NEW u \in Actors, NEW c, c # b \/ u # t, NEW f
        PROVE  (Clears(f, u, c)' <=> Clears(f, u, c)) /\ (Holds(f, u, c)' <=> Holds(f, u, c))
    <2>1. Clears(f, u, c)' <=> (Clears(f, u, c) /\ ~(u = t /\ x = Off(c, {f}))) \/ (u = t /\ Off(c, {f}) \in Y)
      BY DEF Table
    <2>2. Holds(f, u, c)' <=> (Holds(f, u, c) /\ ~(u = t /\ x = Write(c, f))) \/ (u = t /\ Write(c, f) \in Y)
      BY DEF Table
    <2>3. /\ (x = Off(c, {f}) => c = b) /\ (x = Write(c, f) => c = b)
          /\ (Off(c, {f}) \in Y => c = b) /\ (Write(c, f) \in Y => c = b)
      BY <1>1
    <2> QED BY <1>3, <2>1, <2>2, <2>3
  <1>4. \A u \in Actors : \A c : Has("base", u, c)' <=> Has("base", u, c)
    BY <1>1 DEF Table
  <1>5. \A u \in Actors : \A c : Serves(u, c)' <=> Serves(u, c)
    BY <1>4 DEF Serves
  <1>6. \A u \in Actors : \A c : c # b \/ u # t => (Writes(u, c)' <=> Writes(u, c))
    BY <1>3 DEF Writes
  <1>7. \A u \in Actors : \A c : c # b \/ u # t => (Window(u, c)' <=> Window(u, c))
    BY <1>2, <1>5 DEF Window
  <1> QED BY <1>2, <1>3, <1>5, <1>6, <1>7 DEF SameSteps

\* A step that is done says nothing of other BATs, nor of other threads.
LEMMA DropSame ==
    \A t \in Actors : \A o, b : Drops(t, o, b) /\ o # "base" =>
        \A u \in Actors : \A c : c # b \/ u # t => SameSteps(u, c)
  BY DEF Drops, SameSteps, Window

\* A call of a thread that has nothing to do.
LEMMA Calling ==
    \A t \in Actors : \A x, Y : Moves(t, {}, Y) =>
        /\ Table(t, x, Y)
        /\ \A o, c : ~Has(o, t, c)
        /\ \A f, c : ~Clears(f, t, c) /\ ~Holds(f, t, c)
        /\ \A c : ~Writes(t, c) /\ ~Window(t, c)
  <1> SUFFICES ASSUME NEW t \in Actors, NEW x, NEW Y, Moves(t, {}, Y)
               PROVE  /\ Table(t, x, Y)
                      /\ \A o, c : ~Has(o, t, c)
                      /\ \A f, c : ~Clears(f, t, c) /\ ~Holds(f, t, c)
                      /\ \A c : ~Writes(t, c) /\ ~Window(t, c)
    OBVIOUS
  <1>1. Todo(t) = {} /\ Todo(t)' = Y /\ \A u \in Actors : u # t => Todo(u)' = Todo(u)
    BY DEF Moves
  <1>2. \A u \in Actors : \A y : y \in Todo(u)' <=> (y \in Todo(u) /\ ~(u = t /\ x = y)) \/ (u = t /\ y \in Y)
    BY <1>1
  <1>3. Table(t, x, Y)
    BY <1>2 DEF Table, Has, Clears, Holds
  <1>4. \A o, c : ~Has(o, t, c) /\ ~Clears(o, t, c) /\ ~Holds(o, t, c)
    BY <1>1 DEF Has, Clears, Holds
  <1> QED BY <1>3, <1>4 DEF Writes, Window, Serves

\* The kinds of steps that say what is counted.
Counted == {"incref", "base", "increfl", "decref", "decrefl", "use", "kept", "unshare"}
SameCounted == \A u \in Actors : \A o \in Counted : \A c : Has(o, u, c)' <=> Has(o, u, c)

\* The counters do not depend on a step that counts nothing.
LEMMA DropCounted ==
    \A t \in Actors : \A o, b : Drops(t, o, b) /\ o \notin Counted => SameCounted
  BY DEF Drops, SameCounted

\* Nor on steps that count nothing in place of one that counts nothing.
LEMMA TableCounted ==
    \A t \in Actors : \A x, Y : Table(t, x, Y) /\ x.op \notin Counted /\ (\A y \in Y : y.op \notin Counted) => SameCounted
  BY StepParts DEF Table, SameCounted

\* The counters stay exact when nothing is counted.
LEMMA CountersStay ==
    /\ Counters /\ UNCHANGED <<refs, lrefs, share, desc, fixes, keeps, persistent>>
    /\ \A u \in Threads : \A c \in Bats : /\ OwesFix(u, c)' <=> OwesFix(u, c)
                                          /\ OwesKeep(u, c)' <=> OwesKeep(u, c)
                                          /\ Has("unshare", u, c)' <=> Has("unshare", u, c)
                                          /\ Has("use", u, c)' => Has("use", u, c)
    /\ \A v \in Views : Joined(v)' <=> Joined(v)
    => Counters'
  <1> SUFFICES ASSUME Counters, UNCHANGED <<refs, lrefs, share, desc, fixes, keeps, persistent>>,
                      \A u \in Threads : \A c \in Bats : /\ OwesFix(u, c)' <=> OwesFix(u, c)
                                                         /\ OwesKeep(u, c)' <=> OwesKeep(u, c)
                                                         /\ Has("unshare", u, c)' <=> Has("unshare", u, c)
                                                         /\ Has("use", u, c)' => Has("use", u, c),
                      \A v \in Views : Joined(v)' <=> Joined(v)
               PROVE  Counters'
    OBVIOUS
  <1>1. \A c \in Bats : Holders(c)' = Holders(c) /\ ViewsOf(c)' = ViewsOf(c)
    BY DEF Holders, ViewsOf
  <1>2. \A c \in Bats : FixOwed(c)' = FixOwed(c) /\ KeepOwed(c)' = KeepOwed(c) /\ ShareOwed(c)' = ShareOwed(c)
    BY DEF FixOwed, KeepOwed, ShareOwed
  <1>3. \A c \in Bats : JoinedTo(c)' = JoinedTo(c)
    BY DEF JoinedTo
  <1>4. RefsExact'
    BY <1>1, <1>2, <1>3 DEF Counters, RefsExact
  <1>5. LrefsExact'
    BY <1>1, <1>2 DEF Counters, LrefsExact
  <1>6. ShareExact'
    BY <1>1, <1>2 DEF Counters, ShareExact
  <1>7. FixesOnce'
    BY DEF Counters, FixesOnce
  <1> QED BY <1>4, <1>5, <1>6, <1>7 DEF Counters

\* The counters are exact when neither they nor what they count changes.
LEMMA CountersFrame ==
    Counters /\ SameCounted /\ UNCHANGED <<refs, lrefs, share, desc, fixes, keeps, persistent>> =>
        Counters' /\ \A v \in Views : Joined(v)' <=> Joined(v)
  <1> SUFFICES ASSUME Counters, SameCounted, UNCHANGED <<refs, lrefs, share, desc, fixes, keeps, persistent>>
               PROVE  Counters' /\ \A v \in Views : Joined(v)' <=> Joined(v)
    OBVIOUS
  <1>0. \A u \in Threads : u \in Actors
    BY DEF Actors
  <1>1. \A u \in Threads : \A c : /\ OwesFix(u, c)' <=> OwesFix(u, c)
                                  /\ OwesKeep(u, c)' <=> OwesKeep(u, c)
                                  /\ Has("unshare", u, c)' <=> Has("unshare", u, c)
                                  /\ Has("use", u, c)' <=> Has("use", u, c)
    BY <1>0 DEF SameCounted, Counted, OwesFix, OwesKeep
  <1>2. \A v \in Views : Joined(v)' <=> Joined(v)
    BY <1>0 DEF SameCounted, Counted, Joined, Joins
  <1> QED BY <1>1, <1>2, CountersStay

\* The pointers of views stay right when no heap goes.
LEMMA BasedFrame ==
    ASSUME Based,
           \A v \in Views : /\ base'[v] = base[v] /\ refs'[v] = refs[v]
                            /\ "LOADING" \in status[v] => "LOADING" \in status'[v]
                            /\ cache[Parent[v]] => cache'[Parent[v]]
                            /\ Joined(v) => Joined(v)'
    PROVE  Based'
  BY DEF Based

\* An entry that nothing happens to.
Same(c) ==
    /\ status'[c] = status[c] /\ refs'[c] = refs[c] /\ lrefs'[c] = lrefs[c] /\ desc'[c] = desc[c] /\ cache'[c] = cache[c]
    /\ dirty'[c] = dirty[c] /\ mem'[c] = mem[c] /\ disk'[c] = disk[c] /\ val'[c] = val[c]
    /\ c \in Views => base'[c] = base[c]
    /\ \A u \in Threads : fixes'[u][c] = fixes[u][c]
    /\ keeps'[c] >= keeps[c] /\ persistent' = persistent
    /\ \A u \in Actors : SameSteps(u, c)

\* What t does to a BAT leaves the entries of the others.
LEMMA Elsewhere ==
    ASSUME NEW c \in Bats, Entry(c), Same(c), keeps[c] \in Nat, keeps'[c] \in Nat
    PROVE  Entry(c)'
  <1>0. \A u \in Threads : u \in Actors
    BY DEF Actors
  <1>1. \A u \in Actors : SameSteps(u, c)
    BY DEF Same
  <1>2. Exist(c)'
    BY DEF Entry, Same, Exist
  <1>3. Begun(c)'
    BY <1>0, <1>1 DEF Entry, Same, SameSteps, Telling, Begun
  <1>4. \A u \in Actors : /\ Unloads(u, c)' <=> Unloads(u, c)
                          /\ Doomed(u, c)' <=> Doomed(u, c)
                          /\ Frees(u, c)' <=> Frees(u, c)
                          /\ Loads(u, c)' <=> Loads(u, c)
    BY <1>1 DEF Same, SameSteps, Telling, Unloads, Doomed, Frees, Loads
  <1>5. Flagged(c)'
    BY <1>0, <1>4 DEF Entry, Same, Flagged
  <1>6. Written(c)'
    BY <1>1, <1>4 DEF Entry, SameSteps, Telling, Written
  <1>7. Unloading(c)'
    BY <1>1, <1>4 DEF Entry, Same, SameSteps, Telling, Unloading
  <1>8. Loading(c)'
    BY <1>0, <1>1, <1>4 DEF Entry, Same, SameSteps, Telling, Loading
  <1>9. Needed(c)'
    BY <1>0, <1>1 DEF Entry, Same, SameSteps, Telling, Needed, Opened
  <1>10. Heap(c)'
    <2>1. \A u \in Actors : (Saves(u, c)' <=> Saves(u, c))
      BY <1>1 DEF SameSteps, Telling, Saves
    <2>2. \A u \in Actors : (Late(u, c)' <=> Late(u, c))
      BY <1>1, <1>4, <2>1 DEF SameSteps, Telling, Late
    <2>3. \A u \in Actors : (OnlySaves(u, c)' <=> OnlySaves(u, c))
      BY <1>1, <1>4, <2>1 DEF Same, SameSteps, Telling, OnlySaves
    <2> QED BY <1>1, <2>2, <2>3 DEF Entry, Same, SameSteps, Telling, Heap, Clean, Spinning, Saving, Contents
  <1> QED BY <1>2, <1>3, <1>5, <1>6, <1>7, <1>8, <1>9, <1>10 DEF Entry

\* What the invariant says at hand.
LEMMA Facts ==
    Inv => /\ TypeOK /\ ListsOK /\ Counters /\ Pool /\ Based
           /\ \A c \in Bats : Entry(c) /\ \A u \in Actors : Sound(u, c)
  BY Types, AllSound DEF Inv, Pool

\* BATs are stored or views, and the trimmer is not one of the threads.
LEMMA Constants ==
    /\ Bats = Stored \cup Views /\ Stored \cap Views = {}
    /\ \A v \in Views : v \in Bats /\ v \notin Stored /\ Parent[v] \in Stored /\ Parent[v] \in Bats /\ Parent[v] \notin Views
    /\ \A c \in Stored : c \in Bats /\ c \notin Views
    /\ \A c \in Bats : c \in Stored \/ c \in Views
    /\ Actors = Threads \cup {Trimmer} /\ Trimmer \notin Threads
    /\ \A u \in Threads : u \in Actors
  BY BatsAssumption DEF Bats, Actors

\* An entry whose counters and flags stay, and whose steps say no more.
Placed(b) ==
    /\ refs'[b] = refs[b] /\ lrefs'[b] = lrefs[b] /\ desc'[b] = desc[b] /\ cache'[b] = cache[b]
    /\ b \in Views => base'[b] = base[b]
    /\ fixes' = fixes /\ keeps' = keeps /\ persistent' = persistent
    /\ \A f \in {"UNLOADING", "LOADING", "DELETING"} : f \in status'[b] <=> f \in status[b]
    /\ \A u \in Actors :
          /\ Has("incref", u, b)' => Has("incref", u, b) /\ (Serves(u, b) => Serves(u, b)')
          /\ Unloads(u, b)' <=> Unloads(u, b)
          /\ Doomed(u, b)' <=> Doomed(u, b)
          /\ Frees(u, b)' <=> Frees(u, b)
          /\ Loads(u, b)' <=> Loads(u, b)
          /\ \A o \in {"base", "unload", "destroy", "trim", "free"} : Has(o, u, b)' <=> Has(o, u, b)
          /\ \A s : Holds(s, u, b)' => Holds(s, u, b)
          /\ Opened(u, b)' => Opened(u, b) \/ cache[b]

\* Contents that stay as well.
Settled(b) ==
    /\ Placed(b)
    /\ dirty'[b] = dirty[b] /\ mem'[b] = mem[b] /\ disk'[b] = disk[b] /\ val'[b] = val[b]
    /\ b \in Stored => \A u \in Actors :
          /\ Late(u, b)' => Late(u, b) \/ ~dirty[b]
          /\ OnlySaves(u, b)' => OnlySaves(u, b)
          /\ (Has("spin", u, b)' /\ dirty[b]) => "SAVING" \in status'[b]

\* The same, with a reference more or less, or a status that nobody marked.
Eased(b) ==
    /\ desc'[b] = desc[b] /\ cache'[b] = cache[b]
    /\ \/ refs'[b] = refs[b] /\ lrefs'[b] = lrefs[b]
       \/ /\ desc[b] /\ "UNLOADING" \notin status[b]
          /\ cache[b] => refs'[b] > 0 \/ lrefs'[b] > 0
          /\ b \in Views => "LOADING" \notin status[b] \/ refs'[b] = refs[b]
    /\ b \in Views => base'[b] = base[b] \/ "LOADING" \notin status[b]
    /\ \A f \in {"UNLOADING", "LOADING", "DELETING"} : f \in status'[b] <=> f \in status[b]
    /\ \A u \in Threads : fixes'[u][b] > 0 => fixes[u][b] > 0 \/ cache[b]
    /\ \A u \in Actors :
          /\ Has("incref", u, b)' =>
                \/ b \in persistent' \/ keeps'[b] > 0 \/ Serves(u, b)'
                \/ Has("incref", u, b) /\ b \notin persistent /\ ~(keeps[b] > 0) /\ ~Serves(u, b)
          /\ Unloads(u, b)' <=> Unloads(u, b)
          /\ Doomed(u, b)' <=> Doomed(u, b)
          /\ Frees(u, b)' <=> Frees(u, b)
          /\ Loads(u, b)' <=> Loads(u, b)
          /\ \A o \in {"base", "unload", "destroy", "trim", "free"} : Has(o, u, b)' <=> Has(o, u, b)
          /\ \A s : Holds(s, u, b)' => Holds(s, u, b)
          /\ Opened(u, b)' => Opened(u, b) \/ cache[b]

\* Contents that stay as well.
Lasting(b) ==
    /\ Eased(b)
    /\ dirty'[b] = dirty[b] /\ mem'[b] = mem[b] /\ disk'[b] = disk[b] /\ val'[b] = val[b]
    /\ b \in Stored => \A u \in Actors :
          /\ Late(u, b)' => Late(u, b) \/ ~dirty[b]
          /\ OnlySaves(u, b)' => OnlySaves(u, b) /\ (u \in Threads /\ fixes[u][b] > 0 => fixes'[u][b] > 0)
          /\ (Has("spin", u, b)' /\ dirty[b]) => "SAVING" \in status'[b]

\* An entry stays right when a reference is counted and nothing else is.
LEMMA EasedStay ==
    \A b \in Bats : Entry(b) /\ Eased(b) /\ Heap(b)' => Entry(b)'
  <1> SUFFICES ASSUME NEW b \in Bats, Entry(b), Eased(b), Heap(b)' PROVE Entry(b)'
    OBVIOUS
  <1>1. \A u \in Threads : u \in Actors
    BY Constants
  <1>2. Exist(b)'
    BY DEF Entry, Exist, Eased
  <1>3. Begun(b)'
    BY <1>1 DEF Entry, Begun, Eased
  <1>4. Flagged(b)'
    BY <1>1 DEF Entry, Flagged, Eased
  <1>5. Written(b)'
    BY DEF Entry, Written, Eased
  <1>6. Unloading(b)'
    BY DEF Entry, Unloading, Eased
  <1>7. Loading(b)'
    <2>1. \A u \in Threads : Loads(u, b)' => /\ Loads(u, b) /\ "LOADING" \in status[b]
                                             /\ b \in Views => refs'[b] = refs[b] /\ base'[b] = base[b]
      BY <1>1 DEF Entry, Loading, Eased
    <2> QED BY <1>1, <2>1 DEF Entry, Loading, Eased
  <1>8. Needed(b)'
    BY <1>1 DEF Entry, Needed, Eased
  <1> QED BY <1>2, <1>3, <1>4, <1>5, <1>6, <1>7, <1>8 DEF Entry

\* An entry stays right when its contents stay as well.
LEMMA LastingStay ==
    \A b \in Bats : Entry(b) /\ Lasting(b) => Entry(b)'
  <1> SUFFICES ASSUME NEW b \in Bats, Entry(b), Lasting(b) PROVE Entry(b)'
    OBVIOUS
  <1>1. Heap(b)'
    <2>1. CASE b \notin Stored
      BY <2>1 DEF Heap
    <2>2. CASE b \in Stored
      <3>1. Clean(b)' /\ Spinning(b)' /\ Contents(b)'
        BY <2>2 DEF Entry, Heap, Clean, Spinning, Contents, Lasting, Eased
      <3>2. Saving(b)'
        BY <2>2 DEF Entry, Heap, Saving, Lasting
      <3> QED BY <3>1, <3>2 DEF Heap
    <2> QED BY <2>1, <2>2
  <1> QED BY <1>1, EasedStay DEF Lasting

\* An entry stays right when its counters and flags stay.
LEMMA PlacedStay ==
    \A b \in Bats : Entry(b) /\ Placed(b) /\ Heap(b)' => Entry(b)'
  <1> SUFFICES ASSUME NEW b \in Bats, Entry(b), Placed(b), Heap(b)' PROVE Entry(b)'
    OBVIOUS
  <1>1. Eased(b)
    BY DEF Placed, Eased
  <1> QED BY <1>1, EasedStay

\* An entry stays right when its contents stay as well.
LEMMA EntryStay ==
    \A b \in Bats : Entry(b) /\ Settled(b) => Entry(b)'
  <1> SUFFICES ASSUME NEW b \in Bats, Entry(b), Settled(b) PROVE Entry(b)'
    OBVIOUS
  <1>1. Heap(b)'
    <2>1. CASE b \notin Stored
      BY <2>1 DEF Heap
    <2>2. CASE b \in Stored
      BY <2>2 DEF Entry, Heap, Clean, Spinning, Saving, Contents, Settled, Placed
    <2> QED BY <2>1, <2>2
  <1> QED BY <1>1, PlacedStay DEF Settled

\* A step on b: the entries of the other BATs stay.
LEMMA Others ==
    \A b \in Bats :
        /\ Inv /\ TypeOK'
        /\ fixes' = fixes /\ keeps' = keeps /\ persistent' = persistent
        /\ \A c \in Bats : c # b =>
              /\ status'[c] = status[c] /\ refs'[c] = refs[c] /\ lrefs'[c] = lrefs[c] /\ desc'[c] = desc[c]
              /\ cache'[c] = cache[c] /\ dirty'[c] = dirty[c] /\ mem'[c] = mem[c] /\ disk'[c] = disk[c] /\ val'[c] = val[c]
              /\ c \in Views => base'[c] = base[c]
        /\ \A u \in Actors : \A c : c # b => SameSteps(u, c)
        => \A c \in Bats : c # b => Entry(c)'
  <1> SUFFICES ASSUME NEW b \in Bats, Inv, TypeOK', fixes' = fixes, keeps' = keeps, persistent' = persistent, NEW c \in Bats, c # b,
                      status'[c] = status[c] /\ refs'[c] = refs[c] /\ lrefs'[c] = lrefs[c] /\ desc'[c] = desc[c],
                      cache'[c] = cache[c] /\ dirty'[c] = dirty[c] /\ mem'[c] = mem[c] /\ disk'[c] = disk[c] /\ val'[c] = val[c],
                      c \in Views => base'[c] = base[c],
                      \A u \in Actors : SameSteps(u, c)
               PROVE  Entry(c)'
    OBVIOUS
  <1>1. keeps[c] \in Nat /\ keeps'[c] \in Nat /\ keeps'[c] >= keeps[c]
    BY Facts DEF TypeOK
  <1>2. Same(c)
    BY <1>1 DEF Same
  <1> QED BY <1>1, <1>2, Elsewhere, Facts

\* A step of t on b that counts nothing and takes no heap away.
LEMMA Focus ==
    \A b \in Bats :
        /\ Inv /\ TypeOK' /\ Shaped' /\ SameCounted
        /\ UNCHANGED <<refs, lrefs, share, desc, fixes, keeps, persistent, base>>
        /\ \A c \in Bats : c # b => /\ status'[c] = status[c] /\ cache'[c] = cache[c] /\ dirty'[c] = dirty[c]
                                    /\ mem'[c] = mem[c] /\ disk'[c] = disk[c] /\ val'[c] = val[c]
        /\ \A u \in Actors : \A c : c # b => SameSteps(u, c)
        /\ Entry(b)'
        /\ b \in Views => ("LOADING" \in status[b] => "LOADING" \in status'[b])
        /\ b \in Stored => (cache[b] => cache'[b])
        => Inv'
  <1> SUFFICES ASSUME NEW b \in Bats, Inv, TypeOK', Shaped', SameCounted,
                      UNCHANGED <<refs, lrefs, share, desc, fixes, keeps, persistent, base>>,
                      \A c \in Bats : c # b => /\ status'[c] = status[c] /\ cache'[c] = cache[c] /\ dirty'[c] = dirty[c]
                                               /\ mem'[c] = mem[c] /\ disk'[c] = disk[c] /\ val'[c] = val[c],
                      \A u \in Actors : \A c : c # b => SameSteps(u, c),
                      Entry(b)',
                      b \in Views => ("LOADING" \in status[b] => "LOADING" \in status'[b]),
                      b \in Stored => (cache[b] => cache'[b])
               PROVE  Inv'
    OBVIOUS
  <1>1. TypeOK /\ Counters /\ Based
    BY Facts
  <1>2. Counters' /\ \A v \in Views : Joined(v)' <=> Joined(v)
    BY <1>1, CountersFrame
  <1>3. \A c \in Bats : c # b => Entry(c)'
    BY Others
  <1>4. Based'
    <2>1. \A v \in Views : /\ base'[v] = base[v] /\ refs'[v] = refs[v]
                           /\ "LOADING" \in status[v] => "LOADING" \in status'[v]
                           /\ cache[Parent[v]] => cache'[Parent[v]]
      BY Constants
    <2> QED BY <1>1, <1>2, <2>1, BasedFrame
  <1> QED BY <1>2, <1>3, <1>4 DEF Inv, Pool

----------------------------------------------------------------------------
(***************************************************************************)
(* Steps that only go away                                                 *)
(***************************************************************************)
\* A step done that changes nothing in the pool but flags nobody waits for.
LEMMA DropKeeps ==
    \A t \in Actors : \A b \in Bats :
        \A o \in {"desc", "save", "spin", "dirty_bat", "epilogue", "end"} :
        /\ Inv /\ TypeOK' /\ Shaped' /\ Drops(t, o, b)
        /\ UNCHANGED <<refs, lrefs, share, desc, cache, heaps, users>>
        /\ \A c \in Bats : c # b => status'[c] = status[c]
        /\ \A f \in WAITING : f \in status'[b] <=> f \in status[b]
        /\ o = "desc" => cache[b]
        /\ o \in {"save", "spin"} /\ b \in Stored => ~dirty[b] \/ ~Frees(t, b)
        /\ o = "epilogue" => ~Has("batsave", t, b)
        => Inv'
  <1> SUFFICES ASSUME NEW t \in Actors, NEW b \in Bats, NEW o \in {"desc", "save", "spin", "dirty_bat", "epilogue", "end"},
                      Inv, TypeOK', Shaped', Drops(t, o, b), UNCHANGED <<refs, lrefs, share, desc, cache, heaps, users>>,
                      \A c \in Bats : c # b => status'[c] = status[c],
                      \A f \in WAITING : f \in status'[b] <=> f \in status[b],
                      o = "desc" => cache[b],
                      o \in {"save", "spin"} /\ b \in Stored => ~dirty[b] \/ ~Frees(t, b),
                      o = "epilogue" => ~Has("batsave", t, b)
               PROVE  Inv'
    OBVIOUS
  <1>1. Entry(b) /\ \A u \in Threads : u \in Actors
    BY Facts, Constants
  <1>2. /\ refs' = refs /\ lrefs' = lrefs /\ share' = share /\ desc' = desc /\ cache' = cache
        /\ dirty' = dirty /\ mem' = mem /\ disk' = disk /\ val' = val /\ base' = base
        /\ fixes' = fixes /\ keeps' = keeps /\ persistent' = persistent
    BY DEF heaps, users
  <1>3. \A f \in {"UNLOADING", "LOADING", "DELETING", "SAVING"} : f \in status'[b] <=> f \in status[b]
    BY DEF WAITING
  <1>4. SameCounted /\ \A u \in Actors : \A c : c # b => SameSteps(u, c)
    BY DropCounted, DropSame DEF Counted
  <1>5. \A u \in Actors : (Writes(u, b)' <=> Writes(u, b)) /\ (Window(u, b)' <=> Window(u, b)) /\ (Serves(u, b)' <=> Serves(u, b))
    BY DEF Drops, Window
  <1>6. \A u \in Actors : /\ Unloads(u, b)' <=> Unloads(u, b)
                          /\ Doomed(u, b)' <=> Doomed(u, b)
                          /\ Frees(u, b)' <=> Frees(u, b)
                          /\ Loads(u, b)' <=> Loads(u, b)
    BY <1>2, <1>3, <1>5 DEF Drops, Unloads, Doomed, Frees, Loads
  <1>7. \A u \in Actors : Opened(u, b)' => Opened(u, b) \/ cache[b]
    BY <1>5 DEF Drops, Opened
  <1>8. b \in Stored => \A u \in Actors : Late(u, b)' => Late(u, b) \/ ~dirty[b]
    BY <1>5, <1>6 DEF Drops, Late, Saves
  <1>9. b \in Stored => \A u \in Actors : OnlySaves(u, b)' => OnlySaves(u, b)
    BY <1>3, <1>5, <1>6 DEF Drops, OnlySaves
  <1>10. b \in Stored => \A u \in Actors : (Has("spin", u, b)' /\ dirty[b]) => "SAVING" \in status'[b]
    BY <1>1, <1>3 DEF Drops, Entry, Heap, Spinning
  <1>11. Settled(b)
    BY <1>2, <1>3, <1>5, <1>6, <1>7, <1>8, <1>9, <1>10 DEF Settled, Placed, Drops
  <1>12. Entry(b)'
    BY <1>1, <1>11, EntryStay
  <1> QED BY <1>2, <1>3, <1>4, <1>12, Focus

\* The descriptor is in memory, and what t fixes stays there.
LEMMA CachedKeeps ==
    ASSUME Inv, NEW t \in Actors, NEW b \in Bats, Cached(t, b)
    PROVE  Inv'
  <1>1. PICK K : AfterDescSet(b, K) /\ Moves(t, {Step("desc", b)} \cup K, K)
    BY Facts, CachedLists
  <1>2. Step("desc", b) \notin K
    BY <1>1, StepsEqual, Constants DEF AfterDescSet, UseSet, JoinSet
  <1>3. Drops(t, "desc", b) /\ ListsOK'
    BY <1>1, <1>2, Dropped DEF Moves
  <1>4. TypeOK' /\ Shaped'
    BY <1>3, Facts DEF Cached, TypeOK, ListsOK, Steps, bbp, heaps, users
  <1> QED BY <1>3, <1>4, DropKeeps DEF Cached, bbp

\* The end of a commit changes nothing of the pool.
LEMMA CommittedKeeps ==
    ASSUME Inv, NEW t \in Actors, NEW b \in Bats, Committed(t, b)
    PROVE  Inv'
  <1>1. Moves(t, {Step("end", b)} \cup {}, {})
    BY Facts, CommittedLists
  <1>2. Drops(t, "end", b) /\ ListsOK'
    BY <1>1, Dropped DEF Moves
  <1>3. TypeOK' /\ Shaped'
    BY <1>2, Facts DEF Committed, TypeOK, ListsOK, Steps, bbp, heaps, users
  <1> QED BY <1>2, <1>3, DropKeeps DEF Committed, bbp

\* Lists that stay.
LEMMA TodoStays ==
    todo' = todo => /\ SameCounted /\ \A u \in Actors : \A c : SameSteps(u, c)
                    /\ \A u \in Actors : Todo(u)' = Todo(u)
  <1> SUFFICES ASSUME todo' = todo
               PROVE  /\ SameCounted /\ \A u \in Actors : \A c : SameSteps(u, c)
                      /\ \A u \in Actors : Todo(u)' = Todo(u)
    OBVIOUS
  <1>1. \A u \in Actors : Todo(u)' = Todo(u)
    BY DEF Todo
  <1>2. \A u \in Actors : \A o, c : (Has(o, u, c)' <=> Has(o, u, c)) /\ (Clears(o, u, c)' <=> Clears(o, u, c)) /\ (Holds(o, u, c)' <=> Holds(o, u, c))
    BY <1>1 DEF Has, Clears, Holds
  <1>3. SameCounted
    BY <1>2 DEF SameCounted
  <1>4. \A u \in Actors : \A c : SameSteps(u, c)
    BY <1>2 DEF SameSteps, Writes, Window, Serves
  <1> QED BY <1>1, <1>3, <1>4

\* Nothing changes but the lock.
LEMMA StutterKeeps ==
    ASSUME Inv, UNCHANGED <<bbp, heaps, users, todo>>, trimLock' \in Actors \cup {"none"}
    PROVE  Inv'
  <1>1. /\ status' = status /\ refs' = refs /\ lrefs' = lrefs /\ share' = share /\ desc' = desc /\ cache' = cache
        /\ dirty' = dirty /\ mem' = mem /\ disk' = disk /\ val' = val /\ base' = base
        /\ fixes' = fixes /\ keeps' = keeps /\ persistent' = persistent /\ todo' = todo
    BY DEF bbp, heaps, users
  <1>2. TypeOK' /\ Shaped'
    BY <1>1, Facts DEF Inv, TypeOK, Shaped
  <1>3. SameCounted /\ \A u \in Actors : \A c : SameSteps(u, c)
    BY <1>1, TodoStays
  <1>4. ASSUME NEW c \in Bats PROVE Entry(c)'
    <2>1. keeps[c] \in Nat /\ keeps'[c] \in Nat /\ keeps'[c] >= keeps[c]
      BY <1>1, Facts DEF TypeOK
    <2>2. Same(c)
      BY <1>1, <1>3, <2>1 DEF Same
    <2> QED BY <2>1, <2>2, Elsewhere, Facts
  <1>5. Counters' /\ \A v \in Views : Joined(v)' <=> Joined(v)
    BY <1>1, <1>3, Facts, CountersFrame
  <1>6. Based'
    BY <1>1, <1>5, Facts, BasedFrame
  <1> QED BY <1>2, <1>4, <1>5, <1>6 DEF Inv, Pool

\* The end of BBPtrim changes nothing of the pool.
LEMMA TrimDoneKeeps ==
    ASSUME Inv, TrimDone
    PROVE  Inv'
  BY StutterKeeps DEF TrimDone

\* dirty_bat of a commit only decides whether to save.
LEMMA dirty_batKeeps ==
    ASSUME Inv, NEW t \in Actors, NEW b \in Bats, dirty_bat(t, b)
    PROVE  Inv'
  <1>1. /\ t \in Threads /\ b \in Stored
        /\ \E E : /\ E = {} \/ E = {Step("batsave", b)}
                  /\ Moves(t, {Step("dirty_bat", b), Step("epilogue", b), Step("end", b)}, E \cup {Step("epilogue", b), Step("end", b)})
    BY Facts, dirty_batLists
  <1> DEFINE K == {Step("epilogue", b), Step("end", b)}
  <1>2. {Step("dirty_bat", b), Step("epilogue", b), Step("end", b)} = {Step("dirty_bat", b)} \cup K
    OBVIOUS
  <1>3. Step("dirty_bat", b) \notin K /\ Step("dirty_bat", b) # Step("batsave", b)
    BY StepsEqual
  <1>4. Step("epilogue", b) \in K
    OBVIOUS
  <1> HIDE DEF K
  <1>5. CASE Moves(t, {Step("dirty_bat", b)} \cup K, {} \cup K)
    <2>1. {} \cup K = K
      OBVIOUS
    <2>2. Drops(t, "dirty_bat", b) /\ ListsOK'
      BY <1>3, <1>5, <2>1, Dropped DEF Moves
    <2>3. TypeOK' /\ Shaped'
      BY <2>2, Facts DEF dirty_bat, TypeOK, ListsOK, Steps, bbp, heaps, users
    <2> QED BY <2>2, <2>3, DropKeeps DEF dirty_bat, bbp
  <1>6. CASE Moves(t, {Step("dirty_bat", b)} \cup K, {Step("batsave", b)} \cup K)
    <2>1. Table(t, Step("dirty_bat", b), {Step("batsave", b)})
      BY <1>3, <1>6, Replace
    <2>2. SameCounted /\ \A u \in Actors : \A c : c # b => SameSteps(u, c)
      BY <2>1, StepParts, TableSame, TableCounted DEF Counted
    <2>3. \A u \in Actors : Serves(u, b)' <=> Serves(u, b)
      BY <2>1, StepParts, TableSame
    <2>4. /\ \A p, c : (Step("dirty_bat", b) = Step(p, c) <=> (p = "dirty_bat" /\ c = b)) /\ (Step(p, c) = Step("batsave", b) <=> p = "batsave" /\ c = b)
          /\ \A f, c : Step("dirty_bat", b) # Off(c, f) /\ Step("dirty_bat", b) # Write(c, f) /\ Step("batsave", b) # Off(c, f) /\ Step("batsave", b) # Write(c, f)
      BY StepsEqual
    <2>5. \A u \in Actors : /\ \A o : Has(o, u, b)' <=> (Has(o, u, b) /\ ~(u = t /\ o = "dirty_bat")) \/ (u = t /\ o = "batsave")
                            /\ \A f : Clears(f, u, b)' <=> Clears(f, u, b)
                            /\ \A s : Holds(s, u, b)' <=> Holds(s, u, b)
      BY <2>1, <2>4 DEF Table
    <2>6. \A u \in Actors : (Writes(u, b)' <=> Writes(u, b)) /\ (Window(u, b)' <=> Window(u, b))
      BY <2>3, <2>5 DEF Writes, Window
    <2>7. Has("epilogue", t, b)' /\ Has("epilogue", t, b)
      BY <1>4, <1>6, HasMoves
    <2>8. /\ status' = status /\ refs' = refs /\ lrefs' = lrefs /\ share' = share /\ desc' = desc /\ cache' = cache
          /\ dirty' = dirty /\ mem' = mem /\ disk' = disk /\ val' = val /\ base' = base
          /\ fixes' = fixes /\ keeps' = keeps /\ persistent' = persistent /\ trimLock' = trimLock
      BY DEF dirty_bat, bbp, heaps, users
    <2>9. TypeOK' /\ Shaped'
      BY <1>6, <2>8, Facts DEF Moves, TypeOK, ListsOK, Steps
    <2>10. Entry(b) /\ \A u \in Threads : u \in Actors
      BY Facts, Constants
    <2>11. \A u \in Actors : /\ Unloads(u, b)' <=> Unloads(u, b)
                             /\ Doomed(u, b)' <=> Doomed(u, b)
                             /\ Frees(u, b)' <=> Frees(u, b)
                             /\ Loads(u, b)' <=> Loads(u, b)
      BY <2>5, <2>6, <2>8 DEF Unloads, Doomed, Frees, Loads
    <2>12. \A u \in Actors : Opened(u, b)' => Opened(u, b) \/ cache[b]
      BY <2>5, <2>6 DEF Opened
    <2>13. \A u \in Actors : Late(u, b)' => Late(u, b)
      BY <2>5, <2>6, <2>11 DEF Late, Saves
    <2>14. \A u \in Actors : OnlySaves(u, b)' => OnlySaves(u, b)
      BY <2>5, <2>6, <2>7, <2>8, <2>11 DEF OnlySaves
    <2>15. Settled(b)
      BY <1>1, <2>3, <2>5, <2>8, <2>10, <2>11, <2>12, <2>13, <2>14 DEF Settled, Placed, Entry, Heap, Spinning
    <2> QED BY <2>2, <2>8, <2>9, <2>10, <2>15, EntryStay, Focus
  <1> QED BY <1>1, <1>2, <1>5, <1>6 DEF K

\* The epilogue keeps the invariant only if it holds the lock (see
\* FlagsLocked).
LEMMA epilogueKeeps ==
    ASSUME Inv, NEW t \in Actors, NEW b \in Bats, epilogue(t, b), LocksFlags \/ ~May("commit")
    PROVE  Inv'
  <1>1. LocksFlags /\ t \in Threads /\ Moves(t, {Step("epilogue", b), Step("end", b)}, {Step("end", b)})
    BY Facts, epilogueLists
  <1> DEFINE K == {Step("end", b)}
  <1>2. {Step("epilogue", b), Step("end", b)} = {Step("epilogue", b)} \cup K
    OBVIOUS
  <1>3. Step("epilogue", b) \notin K
    BY StepsEqual
  <1>4. Moves(t, {Step("epilogue", b)} \cup K, K)
    BY <1>1, <1>2
  <1>5. ~Has("batsave", t, b)
    BY <1>1, HasMoves, StepsEqual
  <1> HIDE DEF K
  <1>6. Drops(t, "epilogue", b) /\ ListsOK'
    BY <1>3, <1>4, Dropped DEF Moves
  <1>7. status' = [status EXCEPT ![b] = @ \ {"SWAPPED"}]
    BY <1>1 DEF epilogue
  <1>8. TypeOK' /\ Shaped'
    BY <1>6, <1>7, Facts DEF epilogue, TypeOK, ListsOK, Steps, heaps, users
  <1>9. /\ \A c \in Bats : c # b => status'[c] = status[c]
        /\ \A f \in WAITING : f \in status'[b] <=> f \in status[b]
    BY <1>7, Facts DEF TypeOK, WAITING
  <1> QED BY <1>5, <1>6, <1>8, <1>9, DropKeeps DEF epilogue

\* BBPspin is over when SAVING is clear: by Spinning b is clean then.
LEMMA BBPspinKeeps ==
    ASSUME Inv, NEW t \in Actors, NEW b \in Bats, BBPspin(t, b)
    PROVE  Inv'
  <1>1. PICK K : b \in Stored /\ AfterSaveSet(t, b, K) /\ Moves(t, {Step("spin", b)} \cup K, K)
    BY Facts, BBPspinLists
  <1>2. Step("spin", b) \notin K
    BY <1>1, StepsEqual DEF AfterSaveSet, RestSet
  <1>3. Drops(t, "spin", b) /\ ListsOK' /\ Has("spin", t, b)
    BY <1>1, <1>2, Dropped, HasMoves DEF Moves
  <1>4. ~dirty[b]
    BY <1>1, <1>3, Facts DEF BBPspin, Entry, Heap, Spinning, TypeOK
  <1>5. TypeOK' /\ Shaped'
    BY <1>3, Facts DEF BBPspin, TypeOK, ListsOK, Steps, bbp, heaps, users
  <1> QED BY <1>3, <1>4, <1>5, DropKeeps DEF BBPspin, bbp

----------------------------------------------------------------------------
(***************************************************************************)
(* Loading a BAT                                                           *)
(***************************************************************************)
LEMMA LoadKeeps ==
    ASSUME Inv, NEW t \in Actors, NEW b \in Bats, Load(t, b)
    PROVE  Inv'
  <1>0. TypeOK /\ ListsOK /\ Counters /\ Pool
    BY Types DEF Inv
  <1>1. PICK K : AfterDescSet(b, K) /\ Moves(t, {Step("load", b), Off(b, {"LOADING"})} \cup K, {Off(b, {"LOADING"})} \cup K)
    BY <1>0, LoadLists
  <1>2. t \in Threads /\ b \in Stored
    BY <1>0, LoadLists
  <1>3. Drops(t, "load", b) /\ Clears("LOADING", t, b) /\ Has("load", t, b)
    <2> DEFINE K2 == {Off(b, {"LOADING"})} \cup K
    <2>1. Step("load", b) \notin K2
      BY <1>1, StepsEqual DEF AfterDescSet, UseSet, JoinSet
    <2>2. {Step("load", b), Off(b, {"LOADING"})} \cup K = {Step("load", b)} \cup K2 /\ Off(b, {"LOADING"}) \in K2
      OBVIOUS
    <2>3. Moves(t, {Step("load", b)} \cup K2, K2)
      BY <1>1, <2>2
    <2> HIDE DEF K2
    <2>4. Drops(t, "load", b)
      BY <2>1, <2>3, Dropped
    <2> QED BY <2>2, <2>3, <2>4, HasMoves
  <1>5. TypeOK' /\ Shaped'
    BY <1>0, <1>1 DEF TypeOK, Moves, ListsOK, Steps, Load, Flags, WAITING, heaps, users, vars
  <1>7. SameCounted /\ \A u \in Actors : \A c : c # b => SameSteps(u, c)
    BY <1>3, DropCounted, DropSame DEF Counted
  <1>8. \A c \in Bats : c # b => /\ status'[c] = status[c] /\ cache'[c] = cache[c] /\ dirty'[c] = dirty[c]
                                 /\ mem'[c] = mem[c] /\ disk'[c] = disk[c] /\ val'[c] = val[c]
    BY <1>0 DEF Load, TypeOK
  <1>9. /\ Entry(b) /\ \A u \in Actors : Sound(u, b)
        /\ Loads(t, b) /\ Window(t, b) /\ ~Has("incref", t, b) /\ ~Has("desc", t, b)
    BY <1>0, <1>2, <1>3, AllSound DEF Pool, Sound, Loads
  <1>10. /\ \A u \in Actors : Has("load", u, b) => u = t
         /\ "LOADING" \in status[b] /\ ~cache[b] /\ ~dirty[b]
    BY <1>2, <1>9, AllSound DEF Entry, Loading, Heap, Contents, Sound, Loads, Actors
  <1>11. refs[b] >= 1 /\ desc[b]
    BY <1>2, <1>9, Claims
  <1>12. /\ \A u \in Actors : ~Unloads(u, b) /\ ~Frees(u, b)
    BY <1>9, <1>10, <1>11 DEF Entry, Flagged, Unloading, Unloads, Frees, Doomed
  <1>13. /\ refs'[b] = refs[b] /\ lrefs'[b] = lrefs[b] /\ desc'[b] = desc[b] /\ cache'[b] /\ ~dirty'[b]
         /\ mem'[b] = disk[b] /\ disk'[b] = disk[b] /\ val'[b] = val[b] /\ keeps' = keeps /\ fixes' = fixes /\ persistent' = persistent
         /\ status'[b] = (status[b] \cup {"LOADED"}) \ {"LOADING", "DELETING"}
    BY <1>0 DEF Load, TypeOK, users
  <1>14. \A u \in Actors : Window(u, b)' <=> Window(u, b)
    BY <1>3 DEF Drops, Window
  <1>20. Exist(b)'
    BY <1>2, <1>9, <1>11, <1>13, BatsAssumption DEF Exist, Entry
  <1>21. Begun(b)'
    BY <1>3, <1>9, <1>13 DEF Begun, Entry, Drops, Actors
  <1>22. Flagged(b)'
    BY <1>9, <1>10, <1>11, <1>13 DEF Flagged, Entry
  <1>23. Written(b)'
    BY <1>3, <1>9 DEF Written, Entry, Drops, Frees
  <1>24. Unloading(b)'
    BY <1>3, <1>12, <1>13 DEF Unloading, Entry, Drops, Unloads, Doomed
  <1>25. Loading(b)'
    BY <1>2, <1>3, <1>10, <1>13, BatsAssumption DEF Loading, Drops, Loads, Actors
  <1>26. Needed(b)'
    BY <1>13 DEF Needed
  <1>27. Clean(b)' /\ Spinning(b)'
    BY <1>13 DEF Clean, Spinning
  <1>28. Saving(b)'
    BY <1>2, <1>3, <1>9, <1>12, <1>13, <1>14 DEF Saving, Entry, Heap, Drops, OnlySaves, Frees, Unloads
  <1>29. Contents(b)'
    BY <1>2, <1>9, <1>10, <1>11, <1>13 DEF Contents, Entry, Heap
  <1>30. Entry(b)'
    BY <1>20, <1>21, <1>22, <1>23, <1>24, <1>25, <1>26, <1>27, <1>28, <1>29 DEF Entry, Heap
  <1> QED BY <1>2, <1>5, <1>7, <1>8, <1>13, <1>30, Constants, Focus DEF Load, users

\* LOADING is set by one thread, the only one that loads b then.
LEMMA MustLoadKeeps ==
    ASSUME Inv, NEW t \in Actors, NEW b \in Bats, MustLoad(t, b)
    PROVE  Inv'
  <1>0. TypeOK /\ ListsOK /\ Entry(b) /\ \A u \in Actors : Sound(u, b)
    BY Facts
  <1>1. b \in Stored
    BY <1>0, Constants DEF MustLoad, Entry, Exist
  <1>2. PICK K : t \in Threads /\ AfterDescSet(b, K) /\ Moves(t, {Step("desc", b)} \cup K, {Step("load", b), Off(b, {"LOADING"})} \cup K)
    BY <1>0, <1>1, MustLoadLists
  <1>3. /\ Step("desc", b) \notin K /\ Step("desc", b) \notin {Step("load", b), Off(b, {"LOADING"})} /\ Step("incref", b) \notin K
        /\ Step("use", b) \in K \/ \E v \in Views : Parent[v] = b /\ Step("base", v) \in K
    BY <1>2, StepsEqual, Constants DEF AfterDescSet, UseSet, JoinSet
  <1>4. Table(t, Step("desc", b), {Step("load", b), Off(b, {"LOADING"})})
    BY <1>2, <1>3, Replace
  <1>5. ~Has("incref", t, b) /\ Window(t, b)
    BY <1>2, <1>3, HasMoves, StepsEqual DEF Window, Serves
  <1>6. /\ SameCounted /\ \A u \in Actors : \A c : c # b => SameSteps(u, c)
        /\ \A u \in Actors : Serves(u, b)' <=> Serves(u, b)
    BY <1>4, StepParts, TableSame, TableCounted DEF Counted
  <1>7. /\ \A p, c : (Step("desc", b) = Step(p, c) <=> (p = "desc" /\ c = b)) /\ (Step(p, c) = Step("load", b) <=> (p = "load" /\ c = b)) /\ Step(p, c) # Off(b, {"LOADING"})
        /\ \A f, c : /\ Step("desc", b) # Off(c, f) /\ Step("desc", b) # Write(c, f) /\ Step("load", b) # Off(c, f) /\ Step("load", b) # Write(c, f)
                     /\ Off(c, {f}) = Off(b, {"LOADING"}) <=> (f = "LOADING" /\ c = b)
                     /\ Step("desc", b) # Off(c, {f}) /\ Step("load", b) # Off(c, {f})
                     /\ Write(c, f) # Off(b, {"LOADING"})
    BY StepsEqual
  <1>8. \A u \in Actors : /\ \A o : Has(o, u, b)' <=> (Has(o, u, b) /\ ~(u = t /\ o = "desc")) \/ (u = t /\ o = "load")
                          /\ \A f : Clears(f, u, b)' <=> Clears(f, u, b) \/ (u = t /\ f = "LOADING")
                          /\ \A s : Holds(s, u, b)' <=> Holds(s, u, b)
    <2>1. \A u \in Actors : \A o : Has(o, u, b)' <=> (Has(o, u, b) /\ ~(u = t /\ o = "desc")) \/ (u = t /\ o = "load")
      BY <1>4, <1>7 DEF Table
    <2>2. \A u \in Actors : \A f : Clears(f, u, b)' <=> Clears(f, u, b) \/ (u = t /\ f = "LOADING")
      <3>1. \A f : Step("desc", b) # Off(b, {f}) /\ (Off(b, {f}) \in {Step("load", b), Off(b, {"LOADING"})} <=> f = "LOADING")
        BY <1>7
      <3> QED BY <1>4, <3>1 DEF Table
    <2>3. \A u \in Actors : \A s : Holds(s, u, b)' <=> Holds(s, u, b)
      BY <1>4, <1>7 DEF Table
    <2> QED BY <2>1, <2>2, <2>3
  <1>9. \A u \in Actors : (Writes(u, b)' <=> Writes(u, b)) /\ (Window(u, b)' <=> Window(u, b))
    BY <1>6, <1>8 DEF Writes, Window
  <1>10. /\ refs' = refs /\ lrefs' = lrefs /\ share' = share /\ desc' = desc /\ cache' = cache
         /\ dirty' = dirty /\ mem' = mem /\ disk' = disk /\ val' = val /\ base' = base
         /\ fixes' = fixes /\ keeps' = keeps /\ persistent' = persistent /\ trimLock' = trimLock
    BY DEF MustLoad, heaps, users
  <1>11. /\ status' = [status EXCEPT ![b] = @ \cup {"LOADING"}] /\ "LOADING" \in Flags
         /\ status'[b] = status[b] \cup {"LOADING"} /\ \A c \in Bats : c # b => status'[c] = status[c]
    BY <1>0 DEF MustLoad, TypeOK, Flags, WAITING
  <1>12. TypeOK' /\ Shaped'
    <2>1. status' \in [Bats -> SUBSET Flags]
      BY <1>0, <1>11 DEF TypeOK
    <2>2. todo' \in [Actors -> Seq(Steps)] /\ Shaped'
      BY <1>2 DEF Moves, ListsOK
    <2> QED BY <1>0, <1>10, <2>1, <2>2 DEF TypeOK, Steps
  <1>13. ~cache[b] /\ "LOADING" \notin status[b] /\ "UNLOADING" \notin status[b]
    BY DEF MustLoad, WAITING
  <1>14. refs[b] >= 1 /\ desc[b]
    BY <1>1, <1>2, <1>5, Claims
  <1>15. \A u \in Actors : ~Unloads(u, b) /\ ~Has("load", u, b)
    BY <1>0, <1>1, <1>13 DEF Entry, Unloading, Loading, Loads, Sound, Window
  <1>16. \A u \in Actors : ~Unloads(u, b)' /\ (Frees(u, b)' <=> Frees(u, b))
    BY <1>8, <1>9, <1>11, <1>13, <1>15 DEF Unloads, Doomed, Frees
  <1>17. \A u \in Actors : Loads(u, b)' <=> u = t
    BY <1>1, <1>8, <1>15, Constants DEF Loads
  <1>20. Exist(b)' /\ Begun(b)'
    BY <1>0, <1>6, <1>8, <1>10, Constants DEF Entry, Exist, Begun
  <1>21. Flagged(b)'
    BY <1>0, <1>2, <1>11, <1>13, <1>14, <1>10, <1>17 DEF Entry, Flagged
  <1>22. Written(b)'
    BY <1>0, <1>8, <1>16 DEF Entry, Written
  <1>23. Unloading(b)'
    BY <1>16 DEF Unloading
  <1>24. Loading(b)'
    BY <1>1, <1>10, <1>11, <1>13, <1>17, Constants DEF Loading
  <1>25. Needed(b)'
    BY <1>0, <1>8, <1>9, <1>10, Constants DEF Entry, Needed, Opened
  <1>26. Clean(b)'
    BY <1>0, <1>1, <1>8, <1>9, <1>10, <1>16 DEF Entry, Heap, Clean, Late, Saves
  <1>27. Spinning(b)'
    BY <1>0, <1>1, <1>8, <1>10, <1>11 DEF Entry, Heap, Spinning
  <1>28. Saving(b)'
    BY <1>0, <1>1, <1>8, <1>9, <1>10, <1>11, <1>16 DEF Entry, Heap, Saving, OnlySaves
  <1>29. Contents(b)'
    BY <1>0, <1>1, <1>10 DEF Entry, Heap, Contents
  <1>30. Entry(b)'
    BY <1>20, <1>21, <1>22, <1>23, <1>24, <1>25, <1>26, <1>27, <1>28, <1>29 DEF Entry, Heap
  <1> QED BY <1>1, <1>6, <1>10, <1>11, <1>12, <1>30, Constants, Focus

----------------------------------------------------------------------------
(***************************************************************************)
(* Saving a BAT                                                            *)
(***************************************************************************)
LEMMA SaveKeeps ==
    ASSUME Inv, NEW t \in Threads, NEW b \in Bats, Save(t, b)
    PROVE  Inv'
  <1>0. TypeOK /\ ListsOK /\ Entry(b) /\ t \in Actors /\ \A u \in Threads : u \in Actors
    BY Facts, Constants
  <1>1. b \in Stored /\ Moves(t, {}, {Step("save", b)})
    BY <1>0, CallLists DEF Save
  <1>2. Table(t, Step("call", b), {Step("save", b)}) /\ \A o, c : ~Has(o, t, c) /\ ~Clears(o, t, c)
    BY <1>0, <1>1, Calling
  <1>3. /\ SameCounted /\ \A u \in Actors : \A c : c # b => SameSteps(u, c)
        /\ \A u \in Actors : Serves(u, b)' <=> Serves(u, b)
    BY <1>0, <1>2, StepParts, TableSame, TableCounted DEF Counted
  <1>4. /\ \A p, c : (Step("call", b) = Step(p, c) <=> (p = "call" /\ c = b)) /\ (Step(p, c) = Step("save", b) <=> (p = "save" /\ c = b))
        /\ \A f, c : Step("call", b) # Off(c, f) /\ Step("call", b) # Write(c, f) /\ Step("save", b) # Off(c, f) /\ Step("save", b) # Write(c, f)
    BY StepsEqual
  <1>5. \A u \in Actors : /\ \A o : o # "call" => (Has(o, u, b)' <=> Has(o, u, b) \/ (u = t /\ o = "save"))
                          /\ \A f : Clears(f, u, b)' <=> Clears(f, u, b)
                          /\ \A s : Holds(s, u, b)' <=> Holds(s, u, b)
    BY <1>2, <1>4 DEF Table
  <1>6. \A u \in Actors : (Writes(u, b)' <=> Writes(u, b)) /\ (Window(u, b)' <=> Window(u, b))
    BY <1>3, <1>5 DEF Writes, Window
  <1>7. /\ status' = status /\ refs' = refs /\ lrefs' = lrefs /\ share' = share /\ desc' = desc /\ cache' = cache
        /\ dirty' = dirty /\ mem' = mem /\ disk' = disk /\ val' = val /\ base' = base
        /\ fixes' = fixes /\ keeps' = keeps /\ persistent' = persistent /\ trimLock' = trimLock
    BY DEF Save, bbp, heaps, users
  <1>8. TypeOK' /\ Shaped'
    BY <1>0, <1>1, <1>7 DEF Moves, TypeOK, ListsOK, Steps
  <1>9. \A u \in Actors : /\ Unloads(u, b)' <=> Unloads(u, b)
                          /\ Doomed(u, b)' <=> Doomed(u, b)
                          /\ Frees(u, b)' <=> Frees(u, b)
                          /\ Loads(u, b)' <=> Loads(u, b)
    BY <1>5, <1>6, <1>7 DEF Unloads, Doomed, Frees, Loads
  <1>10. \A u \in Actors : Opened(u, b)' => Opened(u, b) \/ cache[b]
    BY <1>5, <1>6 DEF Opened
  <1>11. Placed(b)
    BY <1>3, <1>5, <1>7, <1>9, <1>10 DEF Placed
  <1>12. Clean(b)' /\ Spinning(b)' /\ Contents(b)'
    BY <1>0, <1>1, <1>5, <1>6, <1>7, <1>9 DEF Entry, Heap, Clean, Spinning, Contents, Late, Saves
  <1>13. Saving(b)'
    BY <1>0, <1>1, <1>5, <1>6, <1>7, <1>9 DEF Entry, Heap, Saving, OnlySaves, Save
  <1> QED BY <1>0, <1>3, <1>7, <1>8, <1>11, <1>12, <1>13, PlacedStay, Focus DEF Heap

\* A subcommit begins with nothing but what it has to do.
LEMMA TMsubcommitKeeps ==
    ASSUME Inv, NEW t \in Threads, NEW b \in Bats, TMsubcommit(t, b)
    PROVE  Inv'
  <1>0. TypeOK /\ ListsOK /\ Entry(b) /\ t \in Actors /\ \A u \in Threads : u \in Actors
    BY Facts, Constants
  <1>1. b \in Stored /\ Moves(t, {}, {Step("dirty_bat", b), Step("epilogue", b), Step("end", b)})
    BY <1>0, CallLists DEF TMsubcommit, TypeOK
  <1> DEFINE Y == {Step("dirty_bat", b), Step("epilogue", b), Step("end", b)}
  <1>2. Table(t, Step("call", b), Y) /\ \A o, c : ~Has(o, t, c) /\ ~Clears(o, t, c)
    BY <1>0, <1>1, Calling
  <1>a. \A y \in Y : y.b = b /\ y.op \notin {"base"} \cup Counted
    BY StepParts DEF Counted
  <1>4. /\ \A p, c : (Step("call", b) = Step(p, c) <=> (p = "call" /\ c = b)) /\ (Step(p, c) \in Y <=> (p \in {"dirty_bat", "epilogue", "end"} /\ c = b))
        /\ \A f, c : Step("call", b) # Off(c, f) /\ Step("call", b) # Write(c, f) /\ Off(c, f) \notin Y /\ Write(c, f) \notin Y
    BY StepsEqual
  <1> HIDE DEF Y
  <1>3. /\ SameCounted /\ \A u \in Actors : \A c : c # b => SameSteps(u, c)
        /\ \A u \in Actors : Serves(u, b)' <=> Serves(u, b)
    BY <1>0, <1>2, <1>a, StepParts, TableSame, TableCounted DEF Counted
  <1>5. \A u \in Actors : /\ \A o : o \notin {"call", "dirty_bat", "epilogue", "end"} => (Has(o, u, b)' <=> Has(o, u, b))
                          /\ Has("epilogue", u, b)' <=> Has("epilogue", u, b) \/ u = t
                          /\ \A f : Clears(f, u, b)' <=> Clears(f, u, b)
                          /\ \A s : Holds(s, u, b)' <=> Holds(s, u, b)
    <2>1. \A u \in Actors : \A o : o \notin {"call", "dirty_bat", "epilogue", "end"} => (Has(o, u, b)' <=> Has(o, u, b))
      BY <1>2, <1>4, SMTT(30) DEF Table
    <2>2. \A u \in Actors : Has("epilogue", u, b)' <=> Has("epilogue", u, b) \/ u = t
      BY <1>2, <1>4, SMTT(30) DEF Table
    <2>3. ASSUME NEW u \in Actors, NEW f PROVE Clears(f, u, b)' <=> Clears(f, u, b)
      <3>1. Clears(f, u, b)' <=> (Clears(f, u, b) /\ ~(u = t /\ Step("call", b) = Off(b, {f}))) \/ (u = t /\ Off(b, {f}) \in Y)
        BY <1>2 DEF Table
      <3>2. Step("call", b) # Off(b, {f}) /\ Off(b, {f}) \notin Y
        BY <1>4
      <3> QED BY <3>1, <3>2
    <2>4. \A u \in Actors : \A s : Holds(s, u, b)' <=> Holds(s, u, b)
      BY <1>2, <1>4, SMTT(30) DEF Table
    <2> QED BY <2>1, <2>2, <2>3, <2>4
  <1>6. \A u \in Actors : (Writes(u, b)' <=> Writes(u, b)) /\ (Window(u, b)' <=> Window(u, b))
    BY <1>3, <1>5 DEF Writes, Window
  <1>7. /\ status' = status /\ refs' = refs /\ lrefs' = lrefs /\ share' = share /\ desc' = desc /\ cache' = cache
        /\ dirty' = dirty /\ mem' = mem /\ disk' = disk /\ val' = val /\ base' = base
        /\ fixes' = fixes /\ keeps' = keeps /\ persistent' = persistent /\ trimLock' = t
    BY DEF TMsubcommit, bbp, heaps, users
  <1>8. TypeOK' /\ Shaped'
    BY <1>0, <1>1, <1>7 DEF Moves, TypeOK, ListsOK, Steps
  <1>9. \A u \in Actors : /\ Unloads(u, b)' <=> Unloads(u, b)
                          /\ Doomed(u, b)' <=> Doomed(u, b)
                          /\ Frees(u, b)' <=> Frees(u, b)
                          /\ Loads(u, b)' <=> Loads(u, b)
    BY <1>5, <1>6, <1>7 DEF Unloads, Doomed, Frees, Loads
  <1>10. \A u \in Actors : Opened(u, b)' => Opened(u, b) \/ cache[b]
    BY <1>5, <1>6 DEF Opened
  <1>11. \A u \in Actors : (Late(u, b)' => Late(u, b)) /\ (OnlySaves(u, b)' => OnlySaves(u, b))
    BY <1>5, <1>6, <1>7, <1>9 DEF Late, Saves, OnlySaves
  <1>12. Settled(b)
    BY <1>0, <1>1, <1>3, <1>5, <1>7, <1>9, <1>10, <1>11 DEF Settled, Placed, Entry, Heap, Spinning
  <1> QED BY <1>0, <1>3, <1>7, <1>8, <1>12, EntryStay, Focus

\* BATsave writes what is in memory, so that b is clean and not lost.
LEMMA BATsaveKeeps ==
    ASSUME Inv, NEW t \in Actors, NEW b \in Bats, BATsave(t, b)
    PROVE  Inv'
  <1>0. TypeOK /\ ListsOK /\ Entry(b)
    BY Facts
  <1>1. b \in Stored /\ Drops(t, "batsave", b) /\ ListsOK'
    <2>1. b \in Stored
      BY <1>0, BATsaveLists
    <2>2. CASE Moves(t, {Step("batsave", b), Step("epilogue", b), Step("end", b)}, {Step("epilogue", b), Step("end", b)})
      <3> DEFINE K == {Step("epilogue", b), Step("end", b)}
      <3>1. {Step("batsave", b), Step("epilogue", b), Step("end", b)} = {Step("batsave", b)} \cup K /\ Step("batsave", b) \notin K
        BY StepsEqual
      <3>2. Moves(t, {Step("batsave", b)} \cup K, K)
        BY <2>2, <3>1
      <3> HIDE DEF K
      <3> QED BY <2>1, <3>1, <3>2, Dropped DEF Moves
    <2>3. ASSUME NEW J, AfterSaveSet(t, b, J), Moves(t, {Step("batsave", b), Off(b, {"SAVING"})} \cup J, {Off(b, {"SAVING"})} \cup J)
          PROVE  b \in Stored /\ Drops(t, "batsave", b) /\ ListsOK'
      <3> DEFINE K == {Off(b, {"SAVING"})} \cup J
      <3>1. {Step("batsave", b), Off(b, {"SAVING"})} \cup J = {Step("batsave", b)} \cup K
        OBVIOUS
      <3>2. Step("batsave", b) \notin K
        BY <2>3, StepsEqual DEF AfterSaveSet, RestSet
      <3>3. Moves(t, {Step("batsave", b)} \cup K, K)
        BY <2>3, <3>1
      <3> HIDE DEF K
      <3> QED BY <2>1, <3>2, <3>3, Dropped DEF Moves
    <2> QED BY <1>0, <2>2, <2>3, BATsaveLists
  <1>2. SameCounted /\ \A u \in Actors : \A c : c # b => SameSteps(u, c)
    BY <1>1, DropCounted, DropSame DEF Counted
  <1>3. \A u \in Actors : (Writes(u, b)' <=> Writes(u, b)) /\ (Window(u, b)' <=> Window(u, b)) /\ (Serves(u, b)' <=> Serves(u, b))
    BY <1>1 DEF Drops, Window
  <1>4. /\ status' = status /\ refs' = refs /\ lrefs' = lrefs /\ share' = share /\ desc' = desc /\ cache' = cache
        /\ mem' = mem /\ val' = val /\ base' = base
        /\ fixes' = fixes /\ keeps' = keeps /\ persistent' = persistent /\ trimLock' = trimLock
    BY DEF BATsave, bbp, users
  <1>5. /\ ~dirty'[b] /\ disk'[b] = IF dirty[b] THEN mem[b] ELSE disk[b]
        /\ \A c \in Bats : c # b => dirty'[c] = dirty[c] /\ disk'[c] = disk[c]
    BY <1>0 DEF BATsave, TypeOK
  <1>6. TypeOK' /\ Shaped'
    <2>1. disk' \in [Bats -> 0..MaxVal] /\ dirty' \in [Bats -> BOOLEAN]
      BY <1>0 DEF BATsave, TypeOK
    <2> QED BY <1>0, <1>1, <1>4, <2>1 DEF TypeOK, ListsOK, Steps
  <1>7. \A u \in Actors : /\ Unloads(u, b)' <=> Unloads(u, b)
                          /\ Doomed(u, b)' <=> Doomed(u, b)
                          /\ Frees(u, b)' <=> Frees(u, b)
                          /\ Loads(u, b)' <=> Loads(u, b)
    BY <1>1, <1>3, <1>4 DEF Drops, Unloads, Doomed, Frees, Loads
  <1>8. \A u \in Actors : Opened(u, b)' => Opened(u, b) \/ cache[b]
    BY <1>1, <1>3 DEF Drops, Opened
  <1>9. Placed(b)
    BY <1>1, <1>3, <1>4, <1>7, <1>8 DEF Placed, Drops
  <1>10. Clean(b)' /\ Spinning(b)'
    BY <1>5 DEF Clean, Spinning
  <1>11. Saving(b)'
    BY <1>0, <1>1, <1>3, <1>4, <1>7 DEF Entry, Heap, Saving, OnlySaves, Drops
  <1>12. Contents(b)'
    BY <1>0, <1>1, <1>4, <1>5 DEF Entry, Heap, Contents
  <1> QED BY <1>0, <1>2, <1>4, <1>5, <1>6, <1>9, <1>10, <1>11, <1>12, PlacedStay, Focus DEF Heap

\* BBPsave marks b SAVING, or waits, or has nothing to save.
LEMMA BBPsaveKeeps ==
    ASSUME Inv, NEW t \in Actors, NEW b \in Bats, BBPsave(t, b)
    PROVE  Inv'
  <1>0. TypeOK /\ ListsOK /\ Entry(b)
    BY Facts
  <1>1. /\ b \in Stored
        /\ \E K : /\ AfterSaveSet(t, b, K)
                  /\ IF NothingToSave(b) THEN Moves(t, {Step("save", b)} \cup K, K)
                     ELSE IF "SAVING" \in status[b] THEN Moves(t, {Step("save", b)} \cup K, {Step("spin", b)} \cup K)
                     ELSE Moves(t, {Step("save", b)} \cup K, {Step("batsave", b), Off(b, {"SAVING"})} \cup K)
    BY <1>0, BBPsaveLists
  <1>2. PICK K : /\ AfterSaveSet(t, b, K)
                 /\ IF NothingToSave(b) THEN Moves(t, {Step("save", b)} \cup K, K)
                    ELSE IF "SAVING" \in status[b] THEN Moves(t, {Step("save", b)} \cup K, {Step("spin", b)} \cup K)
                    ELSE Moves(t, {Step("save", b)} \cup K, {Step("batsave", b), Off(b, {"SAVING"})} \cup K)
    BY <1>1
  <1>3. Step("save", b) \notin K /\ Step("save", b) # Step("spin", b) /\ Step("save", b) \notin {Step("batsave", b), Off(b, {"SAVING"})}
    BY <1>2, StepsEqual DEF AfterSaveSet, RestSet
  <1>4. /\ refs' = refs /\ lrefs' = lrefs /\ share' = share /\ desc' = desc /\ cache' = cache
        /\ dirty' = dirty /\ mem' = mem /\ disk' = disk /\ val' = val /\ base' = base
        /\ fixes' = fixes /\ keeps' = keeps /\ persistent' = persistent /\ trimLock' = trimLock
    BY DEF BBPsave, heaps, users
  <1>5. ListsOK'
    BY <1>2 DEF Moves
  <1>6. Has("save", t, b)
    BY <1>2, HasMoves
  <1>7. CASE NothingToSave(b)
    <2>1. status' = status /\ Drops(t, "save", b)
      BY <1>2, <1>3, <1>7, Dropped DEF BBPsave
    <2>2. TypeOK' /\ Shaped'
      BY <1>0, <1>4, <1>5, <2>1 DEF TypeOK, ListsOK, Steps
    <2>3. Frees(t, b) => lrefs[b] > 0
      <3>1. Frees(t, b) => Step("free", b) \in K
        <4>1. CASE t # Trimmer /\ K = {}
          <5>1. Todo(t) = {Step("save", b)}
            BY <1>2, <1>7, <4>1 DEF Moves
          <5>2. Step("free", b) # Step("save", b) /\ Off(b, {"UNLOADING"}) # Step("save", b)
            BY StepsEqual
          <5> QED BY <5>1, <5>2 DEF Frees, Has, Clears
        <4>2. CASE \E R : K = {Step("free", b), Off(b, {"UNLOADING"})} \cup R
          BY <4>2
        <4> QED BY <1>2, <4>1, <4>2 DEF AfterSaveSet
      <3>2. Frees(t, b) => Has("free", t, b)
        BY <1>2, <1>7, <3>1, HasMoves
      <3> QED BY <1>0, <3>2 DEF Entry, Unloading, Unloads, Doomed
    <2>4. ~dirty[b] \/ ~Frees(t, b)
      BY <1>0, <1>1, <1>7, <2>3, Constants DEF NothingToSave, TypeOK, IsView
    <2> QED BY <1>4, <2>1, <2>2, <2>4, DropKeeps DEF heaps, users
  <1>8. CASE ~NothingToSave(b) /\ "SAVING" \in status[b]
    <2>1. status' = status /\ Table(t, Step("save", b), {Step("spin", b)})
      BY <1>2, <1>3, <1>8, Replace DEF BBPsave
    <2>2. TypeOK' /\ Shaped'
      BY <1>0, <1>4, <1>5, <2>1 DEF TypeOK, ListsOK, Steps
    <2>3. /\ SameCounted /\ \A u \in Actors : \A c : c # b => SameSteps(u, c)
          /\ \A u \in Actors : Serves(u, b)' <=> Serves(u, b)
      BY <2>1, StepParts, TableSame, TableCounted DEF Counted
    <2>4. /\ \A p, c : (Step("save", b) = Step(p, c) <=> (p = "save" /\ c = b)) /\ (Step(p, c) = Step("spin", b) <=> (p = "spin" /\ c = b))
          /\ \A f, c : Step("save", b) # Off(c, f) /\ Step("save", b) # Write(c, f) /\ Step("spin", b) # Off(c, f) /\ Step("spin", b) # Write(c, f)
      BY StepsEqual
    <2>5. \A u \in Actors : /\ \A o : Has(o, u, b)' <=> (Has(o, u, b) /\ ~(u = t /\ o = "save")) \/ (u = t /\ o = "spin")
                            /\ \A f : Clears(f, u, b)' <=> Clears(f, u, b)
                            /\ \A s : Holds(s, u, b)' <=> Holds(s, u, b)
      BY <2>1, <2>4 DEF Table
    <2>6. \A u \in Actors : (Writes(u, b)' <=> Writes(u, b)) /\ (Window(u, b)' <=> Window(u, b))
      BY <2>3, <2>5 DEF Writes, Window
    <2>7. \A u \in Actors : /\ Unloads(u, b)' <=> Unloads(u, b)
                            /\ Doomed(u, b)' <=> Doomed(u, b)
                            /\ Frees(u, b)' <=> Frees(u, b)
                            /\ Loads(u, b)' <=> Loads(u, b)
      BY <1>4, <2>1, <2>5, <2>6 DEF Unloads, Doomed, Frees, Loads
    <2>8. \A u \in Actors : (Saves(u, b)' <=> Saves(u, b)) /\ (Opened(u, b)' => Opened(u, b))
      BY <1>6, <2>5, <2>6 DEF Saves, Opened
    <2>9. \A u \in Actors : (Late(u, b)' => Late(u, b)) /\ (OnlySaves(u, b)' => OnlySaves(u, b))
      BY <1>4, <1>6, <2>1, <2>5, <2>6, <2>7, <2>8 DEF Late, OnlySaves
    <2>10. Settled(b)
      BY <1>4, <1>8, <2>1, <2>3, <2>5, <2>7, <2>8, <2>9 DEF Settled, Placed
    <2> QED BY <1>0, <1>4, <2>1, <2>2, <2>3, <2>10, EntryStay, Focus
  <1>9. CASE ~NothingToSave(b) /\ "SAVING" \notin status[b]
    <2>1. /\ status' = [status EXCEPT ![b] = @ \cup {"SAVING", "SWAPPED"} \cup (IF b \in persistent THEN {} ELSE {"TMP"})]
          /\ Table(t, Step("save", b), {Step("batsave", b), Off(b, {"SAVING"})})
      BY <1>2, <1>3, <1>9, Replace DEF BBPsave
    <2>2. /\ \A f \in {"UNLOADING", "LOADING", "DELETING"} : f \in status'[b] <=> f \in status[b]
          /\ "SAVING" \in status'[b] /\ \A c \in Bats : c # b => status'[c] = status[c]
      BY <1>0, <2>1 DEF TypeOK
    <2>x. TypeOK' /\ Shaped'
      <3>1. status' \in [Bats -> SUBSET Flags]
        BY <1>0, <2>1 DEF TypeOK, Flags, WAITING
      <3> QED BY <1>0, <1>4, <1>5, <3>1 DEF TypeOK, ListsOK, Steps
    <2>3. /\ SameCounted /\ \A u \in Actors : \A c : c # b => SameSteps(u, c)
          /\ \A u \in Actors : Serves(u, b)' <=> Serves(u, b)
      BY <2>1, StepParts, TableSame, TableCounted DEF Counted
    <2>4. /\ \A p : /\ Step("save", b) = Step(p, b) <=> p = "save"
                    /\ Step(p, b) \in {Step("batsave", b), Off(b, {"SAVING"})} <=> p = "batsave"
          /\ \A f : /\ Step("save", b) # Off(b, {f}) /\ Step("save", b) # Write(b, f)
                    /\ Write(b, f) \notin {Step("batsave", b), Off(b, {"SAVING"})}
                    /\ Off(b, {f}) \in {Step("batsave", b), Off(b, {"SAVING"})} <=> f = "SAVING"
      BY StepsEqual
    <2>5. \A u \in Actors : /\ \A o : Has(o, u, b)' <=> (Has(o, u, b) /\ ~(u = t /\ o = "save")) \/ (u = t /\ o = "batsave")
                            /\ \A f : Clears(f, u, b)' <=> Clears(f, u, b) \/ (u = t /\ f = "SAVING")
                            /\ \A s : Holds(s, u, b)' <=> Holds(s, u, b)
      BY <2>1, <2>4 DEF Table
    <2>6. \A u \in Actors : (Writes(u, b)' <=> Writes(u, b)) /\ (Window(u, b)' <=> Window(u, b))
      BY <2>3, <2>5 DEF Writes, Window
    <2>7. \A u \in Actors : /\ Unloads(u, b)' <=> Unloads(u, b)
                            /\ Doomed(u, b)' <=> Doomed(u, b)
                            /\ Frees(u, b)' <=> Frees(u, b)
                            /\ Loads(u, b)' <=> Loads(u, b)
      BY <1>4, <2>2, <2>5, <2>6 DEF Unloads, Doomed, Frees, Loads
    <2>8. \A u \in Actors : (Saves(u, b)' <=> Saves(u, b)) /\ (Opened(u, b)' => Opened(u, b))
      BY <1>6, <2>5, <2>6 DEF Saves, Opened
    <2>9. \A u \in Actors : (Late(u, b)' => Late(u, b)) /\ (OnlySaves(u, b)' => OnlySaves(u, b))
      BY <1>4, <1>6, <2>2, <2>5, <2>6, <2>7, <2>8 DEF Late, OnlySaves
    <2>10. Settled(b)
      BY <1>4, <2>2, <2>3, <2>5, <2>7, <2>8, <2>9 DEF Settled, Placed
    <2> QED BY <1>0, <1>4, <2>2, <2>x, <2>3, <2>10, EntryStay, Focus
  <1> QED BY <1>7, <1>8, <1>9

\* Nothing changes contents that somebody loads, saves or frees.
LEMMA UpdateKeeps ==
    ASSUME Inv, NEW t \in Threads, NEW b \in Bats, Update(t, b)
    PROVE  Inv'
  <1>0. /\ TypeOK /\ ListsOK /\ Entry(b) /\ t \in Actors /\ Counters
        /\ \A u \in Threads : u \in Actors
        /\ \A u \in Actors : Sound(u, b)
    BY Facts, Constants
  <1>1. b \in Stored /\ refs[b] = 1 /\ fixes[t][b] > 0 /\ "SAVING" \notin status[b]
    BY DEF Update
  <1>2. "UNLOADING" \notin status[b] /\ cache[b]
    BY <1>0, <1>1 DEF Entry, Flagged, Needed
  <1>3. \A u \in Actors : ~Unloads(u, b) /\ ~Frees(u, b)
    BY <1>0, <1>2 DEF Entry, Unloading, Unloads, Doomed, Frees
  <1>4. \A o, c : ~Has(o, t, c) /\ ~Clears(o, t, c) /\ ~Holds(o, t, c)
    BY EmptyList DEF Update, Has, Clears, Holds, Todo
  <1>5. ~Writes(t, b)
    BY <1>4 DEF Writes
  <1>6. \A u \in Threads : Window(u, b) => Has("incref", u, b)
    BY <1>1, Claims, Facts DEF TypeOK
  <1>7. \A u \in Threads : u # t => ~(fixes[u][b] > 0)
    BY <1>0, <1>1, RefsBounds DEF Counters
  <1>8. \A u \in Actors : ~OnlySaves(u, b)
    BY <1>0, <1>1, <1>4, <1>5, <1>7 DEF Entry, Heap, Saving, OnlySaves
  <1>9. \A u \in Actors : ~Late(u, b) /\ ~Has("spin", u, b)
    BY <1>0, <1>1, <1>2, <1>3, <1>6, <1>8 DEF Late, OnlySaves, Sound
  <1>10. /\ status' = status /\ refs' = refs /\ lrefs' = lrefs /\ share' = share /\ desc' = desc /\ cache' = cache
         /\ disk' = disk /\ base' = base /\ todo' = todo
         /\ fixes' = fixes /\ keeps' = keeps /\ persistent' = persistent /\ trimLock' = trimLock
    BY DEF Update, bbp, users
  <1>11. /\ dirty'[b] /\ mem'[b] = val'[b]
         /\ \A c \in Bats : c # b => dirty'[c] = dirty[c] /\ mem'[c] = mem[c] /\ val'[c] = val[c]
    BY <1>0 DEF Update, TypeOK
  <1>12. TypeOK' /\ Shaped'
    <2>1. val[b] \in 0..MaxVal /\ val[b] < MaxVal /\ MaxVal \in Nat
      BY <1>0, BatsAssumption DEF TypeOK, Update
    <2>2. val[b] + 1 \in 0..MaxVal
      BY <2>1
    <2>3. mem' \in [Bats -> 0..MaxVal] /\ val' \in [Bats -> 0..MaxVal] /\ dirty' \in [Bats -> BOOLEAN]
      BY <1>0, <2>2 DEF TypeOK, Update
    <2> QED BY <1>0, <1>10, <2>3 DEF TypeOK, Inv, Shaped
  <1>13. \A u \in Actors : /\ \A o, c : (Has(o, u, c)' <=> Has(o, u, c)) /\ (Clears(o, u, c)' <=> Clears(o, u, c)) /\ (Holds(o, u, c)' <=> Holds(o, u, c))
    <2>1. \A u \in Actors : Todo(u)' = Todo(u)
      BY <1>10 DEF Todo
    <2> QED BY <2>1 DEF Has, Clears, Holds
  <1>14. \A u \in Actors : \A c : (Writes(u, c)' <=> Writes(u, c)) /\ (Serves(u, c)' <=> Serves(u, c)) /\ (Window(u, c)' <=> Window(u, c))
    BY <1>13 DEF Writes, Serves, Window
  <1>15. SameCounted /\ \A u \in Actors : \A c : SameSteps(u, c)
    BY <1>13, <1>14 DEF SameCounted, SameSteps
  <1>16. \A u \in Actors : /\ Unloads(u, b)' <=> Unloads(u, b)
                           /\ Doomed(u, b)' <=> Doomed(u, b)
                           /\ Frees(u, b)' <=> Frees(u, b)
                           /\ Loads(u, b)' <=> Loads(u, b)
                           /\ Saves(u, b)' <=> Saves(u, b)
                           /\ Opened(u, b)' <=> Opened(u, b)
    BY <1>10, <1>13, <1>14 DEF Unloads, Doomed, Frees, Loads, Saves, Opened
  <1>17. \A u \in Actors : (Late(u, b)' <=> Late(u, b)) /\ (OnlySaves(u, b)' <=> OnlySaves(u, b))
    BY <1>10, <1>13, <1>14, <1>16 DEF Late, OnlySaves
  <1>18. Placed(b)
    BY <1>10, <1>13, <1>14, <1>16 DEF Placed
  <1>19. Heap(b)'
    BY <1>2, <1>8, <1>9, <1>10, <1>11, <1>13, <1>17 DEF Heap, Clean, Spinning, Saving, Contents
  <1> QED BY <1>0, <1>10, <1>11, <1>12, <1>15, <1>18, <1>19, PlacedStay, Focus

----------------------------------------------------------------------------
(***************************************************************************)
(* Unloading a BAT                                                         *)
(***************************************************************************)
LEMMA IsReady ==
    \A t \in Actors : \A o, b : ListsOK /\ Ready(t, o, b) /\ o \notin {"off", "write"} => Has(o, t, b)
  BY Popped DEF Has

\* FreeSteps in place of the step o that said that t unloads b.
LEMMA FreeStepsKeep ==
    \A t \in Actors : \A b \in Stored : \A o \in {"unload", "trim"} : \A R :
        /\ Inv /\ RestSet(t, b, R) /\ Moves(t, {Step(o, b)} \cup R, FreeSet(b) \cup R)
        /\ lrefs[b] > 0 /\ UNCHANGED <<bbp, heaps, users, trimLock>>
        => Inv'
  <1> SUFFICES ASSUME NEW t \in Actors, NEW b \in Stored, NEW o \in {"unload", "trim"}, NEW R,
                      Inv, RestSet(t, b, R), Moves(t, {Step(o, b)} \cup R, FreeSet(b) \cup R),
                      lrefs[b] > 0, UNCHANGED <<bbp, heaps, users, trimLock>>
               PROVE  Inv'
    OBVIOUS
  <1>0. TypeOK /\ b \in Bats /\ b \notin Views /\ Entry(b) /\ \A u \in Threads : u \in Actors
    BY Facts, Constants
  <1>1. /\ status' = status /\ refs' = refs /\ lrefs' = lrefs /\ share' = share /\ desc' = desc /\ cache' = cache
        /\ dirty' = dirty /\ mem' = mem /\ disk' = disk /\ val' = val /\ base' = base
        /\ fixes' = fixes /\ keeps' = keeps /\ persistent' = persistent /\ trimLock' = trimLock
    BY DEF bbp, heaps, users
  <1>2. /\ \A p : /\ Step(o, b) = Step(p, b) <=> p = o
                  /\ Step(p, b) \in FreeSet(b) <=> p \in {"save", "free"}
        /\ \A f : /\ Step(o, b) # Off(b, {f}) /\ Step(o, b) # Write(b, f) /\ Write(b, f) \notin FreeSet(b)
                  /\ Off(b, {f}) \in FreeSet(b) <=> f = "UNLOADING"
        /\ Step(o, b) \notin R
    BY StepsEqual DEF RestSet, FreeSet
  <1>3. Table(t, Step(o, b), FreeSet(b))
    <2>1. Step(o, b) \notin FreeSet(b)
      BY <1>2
    <2> QED BY <1>2, <2>1, Replace
  <1>4. \A y \in FreeSet(b) : y.b = b /\ y.op \notin Counted
    BY StepParts DEF FreeSet, Counted
  <1>5. /\ SameCounted /\ \A u \in Actors : \A c : c # b => SameSteps(u, c)
        /\ \A u \in Actors : Serves(u, b)' <=> Serves(u, b)
    BY <1>3, <1>4, StepParts, TableSame, TableCounted DEF Counted
  <1>6. \A u \in Actors : /\ \A p : Has(p, u, b)' <=> (Has(p, u, b) /\ ~(u = t /\ p = o)) \/ (u = t /\ p \in {"save", "free"})
                          /\ \A f : Clears(f, u, b)' <=> Clears(f, u, b) \/ (u = t /\ f = "UNLOADING")
                          /\ \A s : Holds(s, u, b)' <=> Holds(s, u, b)
    BY <1>2, <1>3 DEF Table
  <1>7. \A u \in Actors : (Writes(u, b)' <=> Writes(u, b)) /\ (Window(u, b)' <=> Window(u, b))
    BY <1>5, <1>6 DEF Writes, Window
  <1>8. TypeOK' /\ Shaped'
    BY <1>0, <1>1 DEF Moves, TypeOK, ListsOK, Steps
  <1>9. /\ Has(o, t, b) /\ \A s : ~Holds(s, t, b)
        /\ \A p : Has(p, t, b) => p = o
        /\ \A f : ~Clears(f, t, b)
    <2>1. Todo(t) = {Step(o, b)} \cup R
      BY DEF Moves
    <2>2. \A y \in R : \E c : y = Step("trim", c) /\ c # b
      BY DEF RestSet
    <2> QED BY <2>1, <2>2, StepsEqual DEF Has, Clears, Holds
  <1>10. /\ "UNLOADING" \in status[b] /\ cache[b] /\ \A u \in Actors : Unloads(u, b) <=> u = t
    BY <1>0, <1>9 DEF Entry, Unloading, Unloads, Doomed
  <1>11. \A u \in Actors : /\ Unloads(u, b)' <=> Unloads(u, b)
                           /\ Doomed(u, b)' <=> Doomed(u, b)
                           /\ Frees(u, b)' <=> u = t
                           /\ Loads(u, b)' <=> Loads(u, b)
    <2>1. \A u \in Actors : u # t => (Unloads(u, b)' <=> Unloads(u, b)) /\ (Doomed(u, b)' <=> Doomed(u, b)) /\ (Frees(u, b)' <=> Frees(u, b))
      BY <1>1, <1>6, <1>7 DEF Unloads, Doomed, Frees
    <2>2. Doomed(t, b) /\ Doomed(t, b)' /\ Unloads(t, b) /\ Unloads(t, b)' /\ Frees(t, b)'
      BY <1>6, <1>9 DEF Unloads, Doomed, Frees
    <2>3. \A u \in Actors : Frees(u, b) => Unloads(u, b)
      BY DEF Frees, Unloads, Doomed
    <2>4. \A u \in Actors : Loads(u, b)' <=> Loads(u, b)
      BY <1>0, <1>6 DEF Loads
    <2> QED BY <1>10, <2>1, <2>2, <2>3, <2>4
  <1>12. Exist(b)' /\ Begun(b)' /\ Flagged(b)'
    BY <1>0, <1>1, <1>5, <1>6, <1>11 DEF Entry, Exist, Begun, Flagged
  <1>13. Written(b)'
    <2>1. \A u \in Actors : Frees(u, b) => u = t
      BY <1>10 DEF Frees, Unloads, Doomed
    <2> QED BY <1>0, <1>6, <1>9, <1>11, <2>1 DEF Entry, Written
  <1>14. Unloading(b)'
    BY <1>0, <1>1, <1>6, <1>9, <1>10, <1>11 DEF Entry, Unloading
  <1>15. Loading(b)' /\ Needed(b)'
    BY <1>0, <1>1, <1>6, <1>7, <1>11 DEF Entry, Loading, Needed, Opened
  <1>16. Clean(b)'
    BY <1>0, <1>1, <1>6, <1>7, <1>11 DEF Entry, Heap, Clean, Late, Saves
  <1>17. Spinning(b)' /\ Contents(b)'
    BY <1>0, <1>1, <1>6 DEF Entry, Heap, Spinning, Contents
  <1>18. Saving(b)'
    <2>1. \A u \in Actors : u # t => ~Frees(u, b)
      BY <1>10 DEF Frees, Unloads, Doomed
    <2>2. \A u \in Actors : OnlySaves(u, b)' => OnlySaves(u, b)
      BY <1>1, <1>6, <1>7, <1>11, <2>1 DEF OnlySaves
    <2> QED BY <1>0, <1>1, <2>2 DEF Entry, Heap, Saving
  <1>19. Entry(b)'
    BY <1>12, <1>13, <1>14, <1>15, <1>16, <1>17, <1>18 DEF Entry, Heap
  <1> QED BY <1>0, <1>1, <1>5, <1>8, <1>19, Focus

\* The trimmer frees a BAT while it is marked UNLOADING and in memory: then the
\* mark is its own and the BAT has logical references.
LEMMA TrimOneKeeps ==
    ASSUME Inv, NEW b \in Stored, TrimOne(b)
    PROVE  Inv'
  <1>1. Trimmer \in Actors /\ b \in Bats /\ Entry(b) /\ ListsOK
    BY Facts, Constants
  <1>2. Has("trim", Trimmer, b)
    BY <1>1, IsReady DEF TrimOne
  <1>3. cache[b] /\ "UNLOADING" \in status[b] /\ lrefs[b] > 0
    BY <1>1, <1>2 DEF Entry, Unloading, Unloads, Doomed
  <1>4. PICK R : RestSet(Trimmer, b, R) /\ Moves(Trimmer, {Step("trim", b)} \cup R, FreeSet(b) \cup R)
    BY <1>1, <1>3, TrimOneLists
  <1> QED BY <1>1, <1>3, <1>4, FreeStepsKeep DEF TrimOne

\* The thread that marked b UNLOADING is the only one that unloads it.
LEMMA UnloadOrDestroyKeeps ==
    ASSUME Inv, NEW t \in Actors, NEW b \in Bats, UnloadOrDestroy(t, b)
    PROVE  Inv'
  <1>0. TypeOK /\ ListsOK /\ Entry(b) /\ \A u \in Threads : u \in Actors
    BY Facts, Constants
  <1>1. Has("unload", t, b)
    BY <1>0, IsReady DEF UnloadOrDestroy
  <1>2. /\ "UNLOADING" \in status[b] /\ cache[b] /\ \A u \in Actors : Unloads(u, b) <=> u = t
        /\ b \in Views => lrefs[b] = 0
    BY <1>0, <1>1 DEF Entry, Unloading, Unloads, Doomed
  <1>3. /\ t \in Threads
        /\ IF lrefs[b] = 0
             THEN \E K : ViewTail(b, K) /\ Moves(t, {Step("unload", b)} \cup K, {Step("destroy", b)} \cup K)
             ELSE b \in Stored /\ Moves(t, {Step("unload", b)}, FreeSet(b))
    BY <1>0, <1>2, UnloadOrDestroyLists
  <1>4. CASE lrefs[b] # 0
    <2>1. lrefs[b] > 0
      BY <1>0, <1>4 DEF TypeOK
    <2>2. RestSet(t, b, {}) /\ Moves(t, {Step("unload", b)} \cup {}, FreeSet(b) \cup {})
      BY <1>3, <1>4, Constants DEF RestSet
    <2> QED BY <1>3, <1>4, <2>1, <2>2, FreeStepsKeep DEF UnloadOrDestroy
  <1>5. CASE lrefs[b] = 0
    <2>1. PICK K : ViewTail(b, K) /\ Moves(t, {Step("unload", b)} \cup K, {Step("destroy", b)} \cup K)
      BY <1>3, <1>5
    <2>2. Step("unload", b) \notin K /\ Step("unload", b) \notin {Step("destroy", b)}
      BY <2>1, StepsEqual DEF ViewTail
    <2>3. Table(t, Step("unload", b), {Step("destroy", b)})
      BY <2>1, <2>2, Replace
    <2>4. /\ \A p, c : (Step("unload", b) = Step(p, c) <=> (p = "unload" /\ c = b)) /\ (Step(p, c) = Step("destroy", b) <=> (p = "destroy" /\ c = b))
          /\ \A f, c : Step("unload", b) # Off(c, f) /\ Step("unload", b) # Write(c, f) /\ Step("destroy", b) # Off(c, f) /\ Step("destroy", b) # Write(c, f)
      BY StepsEqual
    <2>5. /\ SameCounted /\ \A u \in Actors : \A c : c # b => SameSteps(u, c)
          /\ \A u \in Actors : Serves(u, b)' <=> Serves(u, b)
      BY <2>3, StepParts, TableSame, TableCounted DEF Counted
    <2>6. \A u \in Actors : /\ \A o : Has(o, u, b)' <=> (Has(o, u, b) /\ ~(u = t /\ o = "unload")) \/ (u = t /\ o = "destroy")
                            /\ \A f : Clears(f, u, b)' <=> Clears(f, u, b)
                            /\ \A s : Holds(s, u, b)' <=> Holds(s, u, b)
      BY <2>3, <2>4 DEF Table
    <2>7. \A u \in Actors : (Writes(u, b)' <=> Writes(u, b)) /\ (Window(u, b)' <=> Window(u, b))
      BY <2>5, <2>6 DEF Writes, Window
    <2>8. /\ status' = status /\ refs' = refs /\ lrefs' = lrefs /\ share' = share /\ desc' = desc /\ cache' = cache
          /\ dirty' = dirty /\ mem' = mem /\ disk' = disk /\ val' = val /\ base' = base
          /\ fixes' = fixes /\ keeps' = keeps /\ persistent' = persistent /\ trimLock' = trimLock
      BY DEF UnloadOrDestroy, bbp, heaps, users
    <2>9. TypeOK' /\ Shaped'
      BY <1>0, <2>1, <2>8 DEF Moves, TypeOK, ListsOK, Steps
    <2>10. Doomed(t, b) /\ Doomed(t, b)' /\ Unloads(t, b) /\ Unloads(t, b)'
      BY <1>1, <2>6 DEF Unloads, Doomed
    <2>11. \A u \in Actors : /\ Unloads(u, b)' <=> Unloads(u, b)
                             /\ Doomed(u, b)' <=> Doomed(u, b)
                             /\ Frees(u, b)' <=> Frees(u, b)
                             /\ Loads(u, b)' <=> Loads(u, b)
      BY <2>6, <2>7, <2>8, <2>10 DEF Unloads, Doomed, Frees, Loads
    <2>12. Exist(b)' /\ Begun(b)' /\ Flagged(b)' /\ Written(b)'
      BY <1>0, <2>5, <2>6, <2>8, <2>11 DEF Entry, Exist, Begun, Flagged, Written
    <2>13. Unloading(b)'
      BY <1>0, <1>2, <1>5, <2>6, <2>8, <2>11 DEF Entry, Unloading
    <2>14. Loading(b)' /\ Needed(b)'
      BY <1>0, <2>6, <2>7, <2>8, <2>11 DEF Entry, Loading, Needed, Opened
    <2>15. b \in Stored => Clean(b)' /\ Spinning(b)' /\ Contents(b)'
      BY <1>0, <2>6, <2>7, <2>8, <2>11 DEF Entry, Heap, Clean, Spinning, Contents, Late, Saves
    <2>16. b \in Stored => Saving(b)'
      BY <1>0, <2>6, <2>7, <2>8, <2>11 DEF Entry, Heap, Saving, OnlySaves
    <2>17. Entry(b)'
      BY <2>12, <2>13, <2>14, <2>15, <2>16 DEF Entry, Heap
    <2> QED BY <1>0, <2>5, <2>8, <2>9, <2>17, Focus
  <1> QED BY <1>4, <1>5

\* BBPfree throws away only what is clean, of a BAT nobody uses.
LEMMA BBPfreeKeeps ==
    ASSUME Inv, NEW t \in Actors, NEW b \in Bats, BBPfree(t, b)
    PROVE  Inv'
  <1>0. /\ TypeOK /\ ListsOK /\ Entry(b) /\ Counters /\ Based
        /\ \A u \in Threads : u \in Actors
        /\ \A u \in Actors : Sound(u, b)
    BY Facts, Constants
  <1>1. PICK R : b \in Stored /\ RestSet(t, b, R) /\ Moves(t, {Step("free", b), Off(b, {"UNLOADING"})} \cup R, {Off(b, {"LOADED"}), Off(b, {"UNLOADING"})} \cup R)
    BY <1>0, BBPfreeLists
  <1>2. \A y \in R : \E c : y = Step("trim", c) /\ c # b
    BY <1>1 DEF RestSet
  <1> DEFINE K == {Off(b, {"UNLOADING"})} \cup R
  <1>3. /\ {Step("free", b), Off(b, {"UNLOADING"})} \cup R = {Step("free", b)} \cup K
        /\ {Off(b, {"LOADED"}), Off(b, {"UNLOADING"})} \cup R = {Off(b, {"LOADED"})} \cup K
    OBVIOUS
  <1>4. Step("free", b) \notin K /\ Step("free", b) # Off(b, {"LOADED"})
    BY <1>2, StepsEqual
  <1>5. Moves(t, {Step("free", b)} \cup K, {Off(b, {"LOADED"})} \cup K)
    BY <1>1, <1>3
  <1>6. /\ Has("free", t, b) /\ Clears("UNLOADING", t, b) /\ Clears("UNLOADING", t, b)' /\ \A s : ~Holds(s, t, b)
        /\ ~Saves(t, b) /\ \A o : Has(o, t, b) => o = "free"
    <2>1. Todo(t) = {Step("free", b), Off(b, {"UNLOADING"})} \cup R /\ Off(b, {"UNLOADING"}) \in Todo(t)'
      BY <1>1 DEF Moves
    <2> QED BY <1>2, <2>1, StepsEqual DEF Has, Clears, Holds, Saves
  <1> HIDE DEF K
  <1>7. Table(t, Step("free", b), {Off(b, {"LOADED"})})
    BY <1>4, <1>5, Replace
  <1>8. /\ SameCounted /\ \A u \in Actors : \A c : c # b => SameSteps(u, c)
        /\ \A u \in Actors : Serves(u, b)' <=> Serves(u, b)
    BY <1>7, StepParts, TableSame, TableCounted DEF Counted
  <1>9. /\ \A p : (Step("free", b) = Step(p, b) <=> p = "free") /\ Step(p, b) # Off(b, {"LOADED"})
        /\ \A f : /\ Step("free", b) # Off(b, {f}) /\ Step("free", b) # Write(b, f) /\ Write(b, f) # Off(b, {"LOADED"})
                  /\ Off(b, {f}) = Off(b, {"LOADED"}) <=> f = "LOADED"
    BY StepsEqual
  <1>10. \A u \in Actors : /\ \A o : Has(o, u, b)' <=> Has(o, u, b) /\ ~(u = t /\ o = "free")
                           /\ \A f : Clears(f, u, b)' <=> Clears(f, u, b) \/ (u = t /\ f = "LOADED")
                           /\ \A s : Holds(s, u, b)' <=> Holds(s, u, b)
    <2>1. /\ \A p : Step(p, b) \notin {Off(b, {"LOADED"})}
          /\ \A f : Write(b, f) \notin {Off(b, {"LOADED"})} /\ (Off(b, {f}) \in {Off(b, {"LOADED"})} <=> f = "LOADED")
      BY <1>9
    <2> QED BY <1>7, <1>9, <2>1 DEF Table
  <1>11. \A u \in Actors : (Writes(u, b)' <=> Writes(u, b)) /\ (Window(u, b)' <=> Window(u, b))
    BY <1>8, <1>10 DEF Writes, Window
  <1>12. /\ status' = status /\ refs' = refs /\ lrefs' = lrefs /\ share' = share /\ desc' = desc
         /\ dirty' = dirty /\ disk' = disk /\ val' = val
         /\ fixes' = fixes /\ keeps' = keeps /\ persistent' = persistent /\ trimLock' = trimLock
    BY DEF BBPfree, users
  <1>13. /\ ~cache'[b] /\ \A c \in Bats : c # b => cache'[c] = cache[c] /\ mem'[c] = mem[c]
    BY <1>0 DEF BBPfree, TypeOK
  <1>14. /\ "UNLOADING" \in status[b] /\ \A u \in Actors : Unloads(u, b) => u = t
         /\ refs[b] = 0 /\ "LOADING" \notin status[b] /\ refs[b] \in Nat
    BY <1>0, <1>6 DEF Entry, Unloading, Unloads, Doomed, Flagged, TypeOK
  <1>15. /\ \A u \in Threads : ~(fixes[u][b] > 0)
         /\ \A v \in Views : Parent[v] = b => base[v] # "pointer"
    BY <1>0, <1>14, RefsBounds DEF Counters, Based
  <1>16. base' = base
    BY <1>0, <1>15 DEF BBPfree, TypeOK
  <1>17. TypeOK' /\ Shaped'
    <2>1. mem' \in [Bats -> 0..MaxVal] /\ cache' \in [Bats -> BOOLEAN]
      BY <1>0, BatsAssumption DEF BBPfree, TypeOK
    <2> QED BY <1>0, <1>1, <1>12, <1>16, <2>1 DEF Moves, TypeOK, ListsOK, Steps
  <1>18. ~dirty[b]
    BY <1>0, <1>1, <1>6 DEF Entry, Heap, Clean, Late, Frees
  <1>19. \A u \in Actors : /\ Unloads(u, b)' <=> Unloads(u, b)
                           /\ Frees(u, b)' <=> Frees(u, b)
                           /\ Loads(u, b)' <=> Loads(u, b)
                           /\ Opened(u, b)' <=> Opened(u, b)
    BY <1>1, <1>6, <1>10, <1>11, <1>12, Constants DEF Unloads, Doomed, Frees, Loads, Opened
  <1>20. \A u \in Actors : Unloads(u, b)' => ~Doomed(u, b)' /\ ~Has("destroy", u, b)' /\ ~Has("trim", u, b)' /\ ~Has("free", u, b)' /\ ~Has("unload", u, b)'
    BY <1>6, <1>10, <1>14, <1>19 DEF Doomed
  <1>21. Exist(b)' /\ Begun(b)' /\ Flagged(b)'
    BY <1>0, <1>1, <1>8, <1>10, <1>12, <1>13, <1>19, Constants DEF Entry, Exist, Begun, Flagged
  <1>22. Written(b)' /\ Unloading(b)'
    BY <1>0, <1>10, <1>12, <1>13, <1>14, <1>19, <1>20 DEF Entry, Written, Unloading
  <1>23. Loading(b)'
    BY <1>0, <1>14, <1>19 DEF Entry, Loading
  <1>24. Needed(b)'
    <2>1. \A u \in Threads : ~Opened(u, b)
      BY <1>14, Claims DEF Opened
    <2> QED BY <1>0, <1>12, <1>15, <1>19, <2>1 DEF Needed
  <1>25. Clean(b)' /\ Spinning(b)' /\ Contents(b)'
    BY <1>0, <1>1, <1>12, <1>13, <1>18 DEF Entry, Heap, Clean, Spinning, Contents
  <1>26. Saving(b)'
    <2>1. \A u \in Actors : OnlySaves(u, b)' => OnlySaves(u, b)
      BY <1>10, <1>11, <1>12, <1>19 DEF OnlySaves
    <2> QED BY <1>0, <1>1, <1>12, <2>1 DEF Entry, Heap, Saving
  <1>27. Entry(b)'
    BY <1>21, <1>22, <1>23, <1>24, <1>25, <1>26 DEF Entry, Heap
  <1>28. \A c \in Bats : c # b => Entry(c)'
    BY <1>8, <1>12, <1>13, <1>16, <1>17, Others
  <1>29. Counters' /\ \A v \in Views : Joined(v)' <=> Joined(v)
    BY <1>0, <1>8, <1>12, CountersFrame
  <1>30. Based'
    BY <1>0, <1>12, <1>13, <1>15, <1>16, <1>29, Constants DEF Based
  <1> QED BY <1>17, <1>27, <1>28, <1>29, <1>30 DEF Inv, Pool

\* Everything BBPtrim marks is free of threads.
LEMMA BBPtrimKeeps ==
    ASSUME Inv, NEW S \in SUBSET Stored, BBPtrim(S)
    PROVE  Inv'
  <1>0. /\ TypeOK /\ ListsOK /\ Counters /\ Based /\ Trimmer \in Actors
        /\ \A u \in Threads : u \in Actors
        /\ \A c \in Bats : Entry(c) /\ \A u \in Actors : Sound(u, c)
    BY Facts, Constants
  <1>1. PICK K : (\A y \in K : \E c \in S : y = Step("trim", c)) /\ Moves(Trimmer, {}, K)
    BY <1>0, BBPtrimLists
  <1>2. Table(Trimmer, Step("call", 0), K) /\ \A o, c : ~Has(o, Trimmer, c) /\ ~Clears(o, Trimmer, c) /\ ~Holds(o, Trimmer, c) /\ ~Writes(Trimmer, c)
    BY <1>0, <1>1, Calling
  <1>3. /\ \A o, c : Step(o, c) \in K => o = "trim" /\ c \in S
        /\ \A f, c : Off(c, f) \notin K /\ Write(c, f) \notin K
    BY <1>1, StepsEqual
  <1>4. \A u \in Actors : \A o, c : Has(o, u, c)' <=> (Has(o, u, c) /\ ~(u = Trimmer /\ Step("call", 0) = Step(o, c))) \/ (u = Trimmer /\ Step(o, c) \in K)
    BY <1>2 DEF Table
  <1>5. \A u \in Actors : \A o, c : /\ Has(o, u, c) => Has(o, u, c)'
                                    /\ u # Trimmer \/ o # "trim" \/ c \notin S => (Has(o, u, c)' <=> Has(o, u, c))
                                    /\ Has(o, Trimmer, c)' => o = "trim" /\ c \in S
    <2>1. \A o, c : ~Has(o, Trimmer, c) /\ (Has(o, Trimmer, c)' <=> Step(o, c) \in K)
      BY <1>0, <1>2, <1>4
    <2>2. \A u \in Actors : \A o, c : u # Trimmer => (Has(o, u, c)' <=> Has(o, u, c))
      BY <1>4
    <2> QED BY <1>3, <2>1, <2>2
  <1>6. \A u \in Actors : \A f, c : (Clears(f, u, c)' <=> Clears(f, u, c)) /\ (Holds(f, u, c)' <=> Holds(f, u, c))
    <2>1. \A f, c : Step("call", 0) # Off(c, f) /\ Step("call", 0) # Write(c, f)
      BY StepsEqual
    <2> QED BY <1>2, <1>3, <2>1 DEF Table
  <1>7. \A u \in Actors : \A c : (Writes(u, c)' <=> Writes(u, c)) /\ (Serves(u, c)' <=> Serves(u, c)) /\ (Window(u, c)' <=> Window(u, c))
    BY <1>5, <1>6 DEF Writes, Serves, Window
  <1>8. SameCounted
    BY <1>5 DEF SameCounted, Counted
  <1>9. \A u \in Actors : \A c : c \notin S => SameSteps(u, c)
    BY <1>5, <1>6, <1>7 DEF SameSteps
  <1>10. /\ refs' = refs /\ lrefs' = lrefs /\ share' = share /\ desc' = desc /\ cache' = cache
         /\ dirty' = dirty /\ mem' = mem /\ disk' = disk /\ val' = val /\ base' = base
         /\ fixes' = fixes /\ keeps' = keeps /\ persistent' = persistent /\ trimLock' = Trimmer
    BY DEF BBPtrim, heaps, users
  <1>11. /\ \A c \in Bats : status'[c] = IF c \in S THEN status[c] \cup {"UNLOADING"} ELSE status[c]
         /\ status' \in [Bats -> SUBSET Flags]
    BY <1>0 DEF BBPtrim, TypeOK, Flags, WAITING
  <1>12. TypeOK' /\ Shaped'
    BY <1>0, <1>1, <1>10, <1>11 DEF Moves, TypeOK, ListsOK, Steps
  <1>13. Counters' /\ \A v \in Views : Joined(v)' <=> Joined(v)
    BY <1>0, <1>8, <1>10, CountersFrame
  <1>14. Based'
    BY <1>0, <1>10, <1>11, <1>13, Constants, BasedFrame
  <1>15. ASSUME NEW c \in Bats, c \notin S PROVE Entry(c)'
    <2>1. keeps[c] \in Nat /\ keeps'[c] \in Nat /\ keeps'[c] >= keeps[c]
      BY <1>0, <1>12, <1>10 DEF TypeOK
    <2>2. Same(c)
      BY <1>9, <1>10, <1>11, <1>15, <2>1 DEF Same
    <2> QED BY <1>0, <2>1, <2>2, Elsewhere
  <1>16. ASSUME NEW c \in Bats, c \in S PROVE Entry(c)'
    <2>1. /\ cache[c] /\ refs[c] = 0 /\ c \in Stored /\ c \notin Views /\ Entry(c) /\ status[c] \cap WAITING = {}
          /\ \A u \in Actors : Sound(u, c)
      BY <1>0, <1>16, Constants DEF BBPtrim, BBPtrimmable, IsView
    <2>2. "UNLOADING" \notin status[c] /\ "LOADING" \notin status[c] /\ "SAVING" \notin status[c]
      BY <2>1 DEF WAITING
    <2>3. lrefs[c] > 0 /\ \A u \in Threads : ~(fixes[u][c] > 0)
      <3>1. lrefs[c] \in Nat /\ lrefs[c] # 0
        BY <1>0, <2>1, <2>2 DEF Entry, Flagged, TypeOK
      <3>2. \A u \in Threads : ~(fixes[u][c] > 0)
        BY <1>0, <2>1, RefsBounds DEF Counters
      <3> QED BY <3>1, <3>2
    <2>4. \A u \in Actors : ~Unloads(u, c) /\ ~Frees(u, c) /\ ~Doomed(u, c)
      BY <2>1, <2>2 DEF Entry, Unloading, Unloads, Frees, Doomed
    <2>5. \A u \in Actors : ~OnlySaves(u, c)
      BY <2>1, <2>3 DEF Entry, Heap, Saving
    <2>6. \A u \in Actors : ~Writes(u, c)
      <3>1. \A u \in Threads : Window(u, c) => Has("incref", u, c)
        BY <2>1, Claims
      <3>2. \A u \in Actors : Writes(u, c) => ~Window(u, c)
        BY <2>1, <3>1 DEF Sound
      <3> QED BY <2>2, <2>4, <2>5, <3>2 DEF OnlySaves
    <2>7. \A u \in Actors : Unloads(u, c)' => u = Trimmer /\ Has("trim", u, c)'
      BY <1>5, <1>6, <1>7, <2>4, <2>6 DEF Unloads, Doomed, Frees
    <2>8. /\ status'[c] = status[c] \cup {"UNLOADING"} /\ "UNLOADING" \in status'[c] /\ "LOADING" \notin status'[c]
          /\ "DELETING" \notin status'[c]
      BY <1>11, <1>16, <2>1, <2>2 DEF WAITING
    <2>9. Exist(c)' /\ Begun(c)' /\ Flagged(c)'
      BY <1>0, <1>5, <1>7, <1>10, <2>1, <2>8 DEF Entry, Exist, Begun, Flagged
    <2>10. Written(c)'
      BY <1>7, <2>6 DEF Written, Writes
    <2>11. Unloading(c)'
      BY <1>5, <1>10, <2>1, <2>3, <2>7, <2>8, Constants DEF Unloading, Doomed
    <2>12. Loading(c)'
      <3>1. \A u \in Threads : ~Loads(u, c)
        BY <2>1, <2>2 DEF Entry, Loading
      <3>2. \A u \in Threads : ~Loads(u, c)'
        BY <1>0, <1>5, <2>1, <3>1 DEF Loads
      <3> QED BY <3>2 DEF Loading
    <2>13. Needed(c)'
      BY <1>10, <2>1 DEF Needed
    <2>14. Clean(c)'
      <3>1. \A u \in Actors : Late(u, c)' => Late(u, c)
        BY <1>5, <1>6, <1>7 DEF Late, Frees, Saves
      <3> QED BY <1>10, <2>1, <3>1 DEF Entry, Heap, Clean
    <2>15. Spinning(c)' /\ Contents(c)'
      BY <1>5, <1>10, <2>1, <2>8 DEF Entry, Heap, Spinning, Contents
    <2>16. Saving(c)'
      <3>1. \A u \in Actors : OnlySaves(u, c)' => OnlySaves(u, c)
        BY <1>5, <1>6, <1>7, <2>6 DEF OnlySaves, Frees
      <3> QED BY <2>5, <3>1 DEF Saving
    <2> QED BY <2>9, <2>10, <2>11, <2>12, <2>13, <2>14, <2>15, <2>16 DEF Entry, Heap
  <1> QED BY <1>12, <1>13, <1>14, <1>15, <1>16 DEF Inv, Pool

----------------------------------------------------------------------------
(***************************************************************************)
(* Clearing flags without the lock                                         *)
(***************************************************************************)
\* The list of a thread that clears f, before the status is read (x) and
\* after: what else it has to do with b.
Behind(t, b, f, K) ==
    /\ Off(b, {f}) \notin K /\ \A s : Write(b, s) \notin K
    /\ \A o : Has(o, t, b) => o \in {"desc", "use", "free"}
    /\ f = "LOADING" => t \in Threads /\ ~Has("free", t, b)
    /\ f = "LOADING" /\ b \in Stored => ~Has("desc", t, b) /\ Window(t, b)
    /\ f # "LOADING" => b \in Stored /\ ~Has("use", t, b) /\ ~Has("desc", t, b)
    /\ f = "SAVING" => (Has("free", t, b) <=> Off(b, {"UNLOADING"}) \in K)
    /\ f = "LOADED" => Off(b, {"UNLOADING"}) \in K /\ ~Has("free", t, b)
    /\ f = "UNLOADING" => ~Has("free", t, b)
    /\ f \in {"LOADING", "SAVING", "LOADED", "UNLOADING"}
    /\ \A g : Off(b, {g}) \in K => g = "UNLOADING" /\ f \in {"SAVING", "LOADED"}

\* What a thread that clears a flag of b still has to do with b.
LEMMA AfterOffSteps ==
    \A t \in Actors : \A b \in Bats : \A f \in Flags : \A K, x :
        AfterOffSet(t, b, f, K) /\ Todo(t) = {x} \cup K /\ (\A o, c : Step(o, c) # x) => Behind(t, b, f, K)
  <1> SUFFICES ASSUME NEW t \in Actors, NEW b \in Bats, NEW f \in Flags, NEW K, NEW x,
                      AfterOffSet(t, b, f, K), Todo(t) = {x} \cup K, \A o, c : Step(o, c) # x
               PROVE  Behind(t, b, f, K)
    OBVIOUS
  <1>1. \A o : Has(o, t, b) <=> Step(o, b) \in K
    BY DEF Has
  <1>2. CASE f = "LOADING" /\ t # Trimmer /\ b \in Stored /\ K = UseSet(b)
    BY <1>1, <1>2, Constants, StepsEqual DEF UseSet, Window, Behind
  <1>3. ASSUME f = "LOADING", t # Trimmer, b \in Stored, NEW v \in Views, Parent[v] = b, K = JoinSet(v)
        PROVE  Behind(t, b, f, K)
    <2>1. v # b /\ t \in Threads
      BY <1>3, Constants
    <2>2. Has("base", t, v)
      BY <1>3 DEF Has, JoinSet
    <2>3. Window(t, b)
      BY <1>3, <2>2 DEF Window, Serves
    <2>4. /\ \A s : Write(b, s) \notin K /\ Off(b, {s}) \notin K
          /\ \A o : Step(o, b) \notin K
      BY <1>3, <2>1, StepsEqual DEF JoinSet
    <2> QED BY <1>1, <1>3, <2>1, <2>3, <2>4 DEF Behind
  <1>4. CASE f = "LOADING" /\ t # Trimmer /\ b \in Views /\ K = {Step("desc", b), Step("use", b)}
    BY <1>1, <1>4, Constants, StepsEqual DEF Behind
  <1>5. CASE f = "SAVING" /\ b \in Stored /\ AfterSaveSet(t, b, K)
    BY <1>1, <1>5, StepsEqual DEF AfterSaveSet, RestSet, Behind
  <1>6. CASE f = "LOADED" /\ b \in Stored /\ AfterFreeSet(t, b, K)
    BY <1>1, <1>6, StepsEqual DEF AfterFreeSet, RestSet, Behind
  <1>7. CASE f = "UNLOADING" /\ b \in Stored /\ RestSet(t, b, K)
    BY <1>1, <1>7, StepsEqual DEF RestSet, Behind
  <1> QED BY <1>2, <1>3, <1>4, <1>5, <1>6, <1>7 DEF AfterOffSet, AfterDescSet

\* The status that is read without the lock is what the others leave alone.
LEMMA StatusReadKeeps ==
    ASSUME Inv, NEW t \in Actors, NEW b \in Bats, StatusRead(t, b)
    PROVE  Inv'
  <1>0. /\ TypeOK /\ ListsOK /\ Entry(b) /\ Counters /\ \A u \in Threads : u \in Actors
        /\ \A u \in Actors : Sound(u, b)
    BY Facts, Constants
  <1>1. PICK f \in Flags : \E K : AfterOffSet(t, b, f, K) /\ Moves(t, {Off(b, {f})} \cup K, {Write(b, status[b] \ {f})} \cup K)
    BY <1>0, StatusReadLists DEF TypeOK
  <1>2. PICK K : AfterOffSet(t, b, f, K) /\ Moves(t, {Off(b, {f})} \cup K, {Write(b, status[b] \ {f})} \cup K)
    BY <1>1
  <1> DEFINE x == Off(b, {f})
             n == status[b] \ {f}
             w == Write(b, n)
  <1>3. n \in SUBSET Flags
    BY <1>0 DEF TypeOK
  <1>4. /\ \A o, c : Step(o, c) # x
        /\ x.b = b /\ x.op = "off" /\ w.b = b /\ w.op = "write" /\ x # w
    BY StepsEqual, StepParts
  <1>5. Todo(t) = {x} \cup K /\ Behind(t, b, f, K)
    <2>1. Todo(t) = {x} \cup K
      BY <1>2 DEF Moves
    <2> HIDE DEF x
    <2> QED BY <1>2, <1>4, <2>1, AfterOffSteps
  <1>6. Table(t, x, {w})
    <2>1. x \notin K /\ x \notin {w} /\ Moves(t, {x} \cup K, {w} \cup K)
      BY <1>2, <1>4, <1>5 DEF Behind
    <2> HIDE DEF x, w
    <2> QED BY <2>1, Replace
  <1>7. /\ SameCounted /\ \A u \in Actors : \A c : c # b => SameSteps(u, c)
        /\ \A u \in Actors : Serves(u, b)' <=> Serves(u, b)
    <2> HIDE DEF x, w
    <2> QED BY <1>4, <1>6, TableSame, TableCounted DEF Counted
  <1>8. /\ \A p : p # "write" => Step(p, b) # x /\ Step(p, b) # w
        /\ \A g : /\ x = Off(b, {g}) <=> g = f
                  /\ Off(b, {g}) # w
                  /\ x # Write(b, g)
                  /\ Write(b, g) = w <=> g = n
    <2>1. \A p : Step(p, b) # x
      BY StepsEqual
    <2>2. \A g : ({g} = {f} <=> g = f)
      OBVIOUS
    <2>3. \A g : (x = Off(b, {g}) <=> {f} = {g})
      BY StepsEqual
    <2>4. \A g : x # Write(b, g)
      BY StepsEqual
    <2> HIDE DEF n
    <2>5. \A p : p # "write" => Step(p, b) # w
      BY StepsEqual
    <2>6. \A g : Off(b, {g}) # w /\ (Write(b, g) = w <=> g = n)
      BY StepsEqual
    <2> HIDE DEF x, w
    <2> QED BY <2>1, <2>2, <2>3, <2>4, <2>5, <2>6
  <1>9. \A u \in Actors : /\ \A o : o # "write" => (Has(o, u, b)' <=> Has(o, u, b))
                          /\ \A g : Clears(g, u, b)' <=> Clears(g, u, b) /\ ~(u = t /\ g = f)
                          /\ \A s : Holds(s, u, b)' <=> Holds(s, u, b) \/ (u = t /\ s = n)
    <2>1. \A p, g : (p # "write" => Step(p, b) \notin {w}) /\ Off(b, {g}) \notin {w} /\ (Write(b, g) \in {w} <=> g = n)
      BY <1>8
    <2> HIDE DEF x, w, n
    <2> QED BY <1>6, <1>8, <2>1 DEF Table
  <1>10. /\ \A s : ~Holds(s, t, b)
         /\ \A g : Clears(g, t, b) <=> g = f \/ Off(b, {g}) \in K
    BY <1>5, <1>8 DEF Holds, Clears, Behind
  <1>11. /\ ~Writes(t, b) /\ Writes(t, b)'
         /\ \A u \in Actors : u # t => (Writes(u, b)' <=> Writes(u, b))
         /\ \A u \in Actors : Window(u, b)' <=> Window(u, b)
    <2>1. Writes(t, b)'
      BY <1>3, <1>9 DEF Writes
    <2> HIDE DEF n
    <2> QED BY <1>7, <1>9, <1>10, <2>1 DEF Writes, Window
  <1> HIDE DEF x, w
  <1>12. /\ status' = status /\ refs' = refs /\ lrefs' = lrefs /\ share' = share /\ desc' = desc /\ cache' = cache
         /\ dirty' = dirty /\ mem' = mem /\ disk' = disk /\ val' = val /\ base' = base
         /\ fixes' = fixes /\ keeps' = keeps /\ persistent' = persistent /\ trimLock' = trimLock
    BY DEF StatusRead, bbp, heaps, users
  <1>13. TypeOK' /\ Shaped'
    BY <1>0, <1>2, <1>12 DEF Moves, TypeOK, ListsOK, Steps
  \* What the status says when it is read.
  <1>14. Frees(t, b) <=> f = "UNLOADING" \/ f = "LOADED" \/ (f = "SAVING" /\ Has("free", t, b))
    BY <1>5, <1>10 DEF Frees, Behind
  <1>15. f \in {"LOADING", "SAVING", "LOADED", "UNLOADING"} /\ (f # "LOADING" => b \in Stored)
    BY <1>5 DEF Behind
  <1>16. Frees(t, b) => "UNLOADING" \in status[b] /\ "LOADING" \notin status[b]
    BY <1>0 DEF Entry, Unloading, Unloads, Doomed, Frees, Flagged
  <1>17. f = "SAVING" /\ ~Frees(t, b) => "UNLOADING" \notin status[b] /\ "LOADING" \notin status[b]
    <2> SUFFICES ASSUME f = "SAVING", ~Frees(t, b) PROVE "UNLOADING" \notin status[b] /\ "LOADING" \notin status[b]
      OBVIOUS
    <2>1. b \in Stored /\ OnlySaves(t, b)
      BY <1>10, <1>15 DEF OnlySaves
    <2>2. t \in Threads /\ fixes[t][b] > 0
      BY <1>0, <2>1 DEF Entry, Heap, Saving
    <2>3. refs[b] >= 1 /\ cache[b]
      BY <1>0, <2>2, RefsBounds DEF Counters, Entry, Needed
    <2>4. \A u \in Threads : ~Loads(u, b)
      BY <1>0, <2>1, <2>3 DEF Entry, Loading
    <2> QED BY <1>0, <2>3, <2>4 DEF Entry, Flagged
  <1>18. f = "LOADING" => "UNLOADING" \notin status[b]
    <2>1. CASE f = "LOADING" /\ b \in Stored
      <3>1. Window(t, b) /\ ~Has("incref", t, b) /\ t \in Threads
        BY <1>5, <2>1 DEF Behind
      <3>2. refs[b] >= 1
        BY <3>1, Claims
      <3> QED BY <1>0, <3>2 DEF Entry, Flagged
    <2>2. CASE f = "LOADING" /\ b \notin Stored
      <3>1. t \in Threads /\ Loads(t, b)
        BY <1>5, <1>10, <2>2, Constants DEF Behind, Loads
      <3> QED BY <1>0, <3>1 DEF Entry, Loading, Flagged
    <2> QED BY <2>1, <2>2
  <1>19. "UNLOADING" \in status[b] <=> Frees(t, b)
    BY <1>14, <1>15, <1>16, <1>17, <1>18
  <1>20. Frees(t, b)' <=> Frees(t, b) /\ f # "UNLOADING"
    <2>1. f # "UNLOADING" => (Frees(t, b)' <=> Frees(t, b))
      BY <1>9 DEF Frees
    <2>2. f = "UNLOADING" => ~Has("free", t, b)
      BY <1>5 DEF Behind
    <2> QED BY <1>9, <1>14, <2>1, <2>2 DEF Frees
  <1>21. b \in Stored => ~dirty[b]
    <2> SUFFICES ASSUME b \in Stored PROVE ~dirty[b]
      OBVIOUS
    <2>1. \A o \in {"load", "save", "spin", "batsave"} : ~Has(o, t, b)
      BY <1>5 DEF Behind
    <2>2. Late(t, b)
      BY <1>10, <1>14, <1>15, <2>1 DEF Late, Saves
    <2> QED BY <1>0, <2>2 DEF Entry, Heap, Clean
  <1>22. \A u \in Actors : /\ Unloads(u, b)' <=> Unloads(u, b)
                           /\ Doomed(u, b)' <=> Doomed(u, b)
                           /\ u # t => (Frees(u, b)' <=> Frees(u, b))
                           /\ Loads(u, b)' <=> Loads(u, b)
    <2>1. \A u \in Actors : u # t => /\ Unloads(u, b)' <=> Unloads(u, b)
                                     /\ Frees(u, b)' <=> Frees(u, b)
                                     /\ Loads(u, b)' <=> Loads(u, b)
      BY <1>9, <1>11, <1>12 DEF Unloads, Doomed, Frees, Loads
    <2>2. \A u \in Actors : Doomed(u, b)' <=> Doomed(u, b)
      BY <1>9 DEF Doomed
    <2>3. Unloads(t, b)' <=> Unloads(t, b)
      <3>1. Unloads(t, b)' <=> Doomed(t, b) \/ Frees(t, b)
        BY <1>9, <1>11, <1>12, <1>19, <2>2 DEF Unloads, Frees
      <3>2. Frees(t, b) => Unloads(t, b)
        BY DEF Unloads, Doomed, Frees
      <3>3. Unloads(t, b) => Doomed(t, b) \/ Frees(t, b)
        BY <1>11 DEF Unloads, Frees
      <3> QED BY <3>1, <3>2, <3>3 DEF Unloads
    <2>4. Loads(t, b)' <=> Loads(t, b)
      BY <1>9, <1>10, <1>11, <1>15, Constants DEF Loads
    <2> QED BY <2>1, <2>2, <2>3, <2>4
  <1>23. Exist(b)' /\ Begun(b)' /\ Flagged(b)'
    BY <1>0, <1>7, <1>9, <1>12, <1>22 DEF Entry, Exist, Begun, Flagged
  <1>24. Written(b)'
    <2>1. /\ "UNLOADING" \in n <=> Frees(t, b)'
          /\ "LOADING" \notin n /\ "DELETING" \notin n
      BY <1>0, <1>14, <1>15, <1>16, <1>17, <1>19, <1>20 DEF Entry, Flagged
    <2> HIDE DEF n
    <2> QED BY <1>0, <1>9, <1>10, <1>22, <2>1 DEF Entry, Written
  <1> HIDE DEF n
  <1>25. Unloading(b)'
    BY <1>0, <1>9, <1>12, <1>22 DEF Entry, Unloading
  <1>26. Loading(b)' /\ Needed(b)'
    BY <1>0, <1>9, <1>11, <1>12, <1>22 DEF Entry, Loading, Needed, Opened
  <1>27. b \in Stored => Clean(b)' /\ Spinning(b)' /\ Contents(b)'
    BY <1>0, <1>9, <1>12, <1>21 DEF Entry, Heap, Clean, Spinning, Contents
  <1>28. b \in Stored => Saving(b)'
    <2> SUFFICES ASSUME b \in Stored PROVE Saving(b)'
      OBVIOUS
    <2>1. \A u \in Actors : u # t => (OnlySaves(u, b)' => OnlySaves(u, b))
      BY <1>9, <1>11, <1>12, <1>22 DEF OnlySaves
    <2>2. OnlySaves(t, b)' => OnlySaves(t, b)
      <3>1. \A o \in {"save", "spin", "batsave"} : ~Has(o, t, b)
        BY <1>5 DEF Behind
      <3>2. OnlySaves(t, b)' => ~Frees(t, b) /\ ~Window(t, b)
        <4> SUFFICES ASSUME OnlySaves(t, b)' PROVE ~Frees(t, b) /\ ~Window(t, b)
          OBVIOUS
        <4>1. ~Clears("SAVING", t, b)'
          BY <1>5, <1>9, <1>10 DEF Behind
        <4>2. ~Window(t, b)' /\ "UNLOADING" \notin status'[b]
          BY <1>9, <3>1, <4>1 DEF OnlySaves
        <4> QED BY <1>11, <1>12, <1>19, <4>2
      <3>3. ~Frees(t, b) /\ ~Window(t, b) => f = "SAVING"
        BY <1>5, <1>14, <1>15 DEF Behind
      <3> QED BY <1>10, <3>2, <3>3 DEF OnlySaves
    <2> QED BY <1>0, <1>12, <2>1, <2>2 DEF Entry, Heap, Saving
  <1>29. Entry(b)'
    BY <1>23, <1>24, <1>25, <1>26, <1>27, <1>28 DEF Entry, Heap
  <1> QED BY <1>0, <1>7, <1>12, <1>13, <1>29, Focus

\* Writing back what was read loses no flag: nobody has set one in between.
LEMMA StatusWriteKeeps ==
    ASSUME Inv, NEW t \in Actors, NEW b \in Bats, StatusWrite(t, b)
    PROVE  Inv'
  <1>0. /\ TypeOK /\ ListsOK /\ Entry(b) /\ Counters /\ Based /\ \A u \in Threads : u \in Actors
        /\ \A u \in Actors : Sound(u, b)
    BY Facts, Constants
  <1>1. PICK f \in Flags, s \in SUBSET Flags : \E K :
            AfterOffSet(t, b, f, K) /\ status' = [status EXCEPT ![b] = s] /\ Moves(t, {Write(b, s)} \cup K, K)
    BY <1>0, StatusWriteLists
  <1>2. PICK K : AfterOffSet(t, b, f, K) /\ status' = [status EXCEPT ![b] = s] /\ Moves(t, {Write(b, s)} \cup K, K)
    BY <1>1
  <1> DEFINE w == Write(b, s)
  <1>3. /\ \A o : o # "write" => Step(o, b) # w
        /\ w.b = b /\ w.op = "write"
        /\ \A g : Off(b, {g}) # w /\ (Write(b, g) = w <=> g = s)
    BY StepsEqual, StepParts
  <1>4. Todo(t) = {w} \cup K
    BY <1>2 DEF Moves
  <1>5. /\ w \notin K /\ \A g : Write(b, g) \notin K
        /\ \A o : Has(o, t, b) => o \in {"desc", "use", "free", "write"}
        /\ \A g : Clears(g, t, b) => g = "UNLOADING"
        /\ b \in Views => \A g : ~Clears(g, t, b)
    <2>1. \A g : Write(b, g) \notin K /\ (Off(b, {g}) \in K => g = "UNLOADING" /\ f \in {"SAVING", "LOADED"})
      BY <1>2, StepsEqual, Constants DEF AfterOffSet, AfterDescSet, UseSet, JoinSet, AfterSaveSet, AfterFreeSet, RestSet
    <2>2. \A o : Step(o, b) \in K => o \in {"desc", "use", "free"}
      BY <1>2, StepsEqual, Constants DEF AfterOffSet, AfterDescSet, UseSet, JoinSet, AfterSaveSet, AfterFreeSet, RestSet
    <2>3. f \in {"SAVING", "LOADED"} => b \in Stored
      BY <1>2 DEF AfterOffSet
    <2> HIDE DEF w
    <2>4. \A o : Has(o, t, b) => o \in {"desc", "use", "free", "write"}
      BY <1>3, <1>4, <2>2 DEF Has
    <2>5. \A g : Clears(g, t, b) => g = "UNLOADING" /\ f \in {"SAVING", "LOADED"}
      BY <1>3, <1>4, <2>1 DEF Clears
    <2>6. w \notin K
      BY <2>1 DEF w
    <2>7. b \in Views => \A g : ~Clears(g, t, b)
      BY <2>3, <2>5, Constants
    <2>8. \A g : Write(b, g) \notin K
      BY <2>1
    <2>9. \A g : Clears(g, t, b) => g = "UNLOADING"
      BY <2>5
    <2> QED BY <2>4, <2>6, <2>7, <2>8, <2>9
  <1>6. Table(t, w, {})
    <2>1. w \notin {} /\ Moves(t, {w} \cup K, {} \cup K)
      <3>1. {} \cup K = K
        OBVIOUS
      <3> QED BY <1>2, <3>1
    <2> HIDE DEF w
    <2> QED BY <1>5, <2>1, Replace
  <1>7. /\ SameCounted /\ \A u \in Actors : \A c : c # b => SameSteps(u, c)
        /\ \A u \in Actors : Serves(u, b)' <=> Serves(u, b)
    <2> HIDE DEF w
    <2> QED BY <1>3, <1>6, TableSame, TableCounted DEF Counted
  <1>8. \A u \in Actors : /\ \A o : o # "write" => (Has(o, u, b)' <=> Has(o, u, b))
                          /\ \A g : Clears(g, u, b)' <=> Clears(g, u, b)
                          /\ \A g : Holds(g, u, b)' <=> Holds(g, u, b) /\ ~(u = t /\ g = s)
    <2> HIDE DEF w
    <2> QED BY <1>3, <1>6 DEF Table
  <1>9. Holds(s, t, b) /\ \A g : Holds(g, t, b) => g = s
    <2>1. Holds(s, t, b)
      BY <1>4 DEF Holds
    <2> HIDE DEF w
    <2>2. \A g : Write(b, g) \in Todo(t) => Write(b, g) = w
      BY <1>4, <1>5
    <2> QED BY <1>3, <2>1, <2>2 DEF Holds
  <1> HIDE DEF w
  <1>10. /\ Writes(t, b) /\ ~Writes(t, b)'
         /\ \A u \in Actors : u # t => (Writes(u, b)' <=> Writes(u, b))
         /\ \A u \in Actors : Window(u, b)' <=> Window(u, b)
    BY <1>7, <1>8, <1>9 DEF Writes, Window
  <1>11. /\ status'[b] = s /\ \A c \in Bats : c # b => status'[c] = status[c]
         /\ refs' = refs /\ lrefs' = lrefs /\ share' = share /\ desc' = desc /\ cache' = cache
         /\ dirty' = dirty /\ mem' = mem /\ disk' = disk /\ val' = val /\ base' = base
         /\ fixes' = fixes /\ keeps' = keeps /\ persistent' = persistent /\ trimLock' = trimLock
    BY <1>0, <1>2 DEF StatusWrite, heaps, users, TypeOK
  <1>12. TypeOK' /\ Shaped'
    BY <1>0, <1>2, <1>11 DEF Moves, TypeOK, ListsOK, Steps
  \* What is written.
  <1>13. /\ "UNLOADING" \in s <=> Frees(t, b)
         /\ "LOADING" \notin s /\ "DELETING" \notin s
    BY <1>0, <1>9 DEF Entry, Written
  <1>14. /\ ~Has("unload", t, b) /\ ~Has("destroy", t, b) /\ ~Has("trim", t, b)
         /\ Frees(t, b) => Unloads(t, b)
         /\ Doomed(t, b) <=> Has("free", t, b)
    BY <1>0, <1>10 DEF Sound, Unloads, Doomed, Frees
  <1>15. "UNLOADING" \in status[b] => Unloads(t, b) /\ \A u \in Actors : Unloads(u, b) => u = t
    BY <1>0, <1>10 DEF Unloads, Entry, Unloading
  <1>16. \A u \in Actors : /\ Doomed(u, b)' <=> Doomed(u, b)
                           /\ Frees(u, b)' <=> Frees(u, b)
    BY <1>8 DEF Doomed, Frees
  <1>17. \A u \in Actors : Unloads(u, b)' => u = t /\ Frees(t, b) /\ Unloads(t, b)
    <2> SUFFICES ASSUME NEW u \in Actors, Unloads(u, b)' PROVE u = t /\ Frees(t, b) /\ Unloads(t, b)
      OBVIOUS
    <2>1. CASE u = t
      <3>1. Doomed(t, b) \/ Clears("UNLOADING", t, b)
        BY <1>8, <1>10, <1>16, <2>1 DEF Unloads
      <3> QED BY <1>14, <2>1, <3>1 DEF Frees
    <2>2. CASE u # t
      <3>1. Unloads(u, b) \/ (Writes(u, b) /\ Frees(t, b))
        BY <1>8, <1>10, <1>11, <1>13, <1>16, <2>2 DEF Unloads
      <3>2. "UNLOADING" \in status[b]
        BY <1>0, <1>14, <3>1 DEF Entry, Unloading
      <3>3. Unloads(u, b)
        BY <3>1, <3>2 DEF Unloads
      <3> QED BY <1>15, <2>2, <3>2, <3>3
    <2> QED BY <2>1, <2>2
  <1>18. Exist(b)' /\ Begun(b)'
    BY <1>0, <1>7, <1>8, <1>11 DEF Entry, Exist, Begun
  <1>19. Flagged(b)'
    <2>1. "UNLOADING" \in s => refs[b] = 0
      BY <1>0, <1>13, <1>14 DEF Entry, Unloading, Flagged
    <2>2. cache[b] /\ refs[b] = 0 /\ lrefs[b] = 0 => "UNLOADING" \in s
      <3>1. cache[b] /\ refs[b] = 0 /\ lrefs[b] = 0 => Unloads(t, b)
        BY <1>0, <1>15 DEF Entry, Flagged
      <3>2. cache[b] /\ Unloads(t, b) => Has("free", t, b)
        BY <1>0, <1>14 DEF Entry, Unloading
      <3> QED BY <1>13, <3>1, <3>2 DEF Frees
    <2> QED BY <1>11, <1>13, <2>1, <2>2 DEF Flagged
  <1>20. Written(b)'
    BY <1>0, <1>8, <1>16 DEF Entry, Written
  <1>21. Unloading(b)'
    <2>1. Unloads(t, b) => /\ cache[b] <=> Doomed(t, b)
                           /\ Has("trim", t, b) \/ Has("free", t, b) => lrefs[b] > 0
      BY <1>0 DEF Entry, Unloading
    <2> QED BY <1>8, <1>11, <1>13, <1>14, <1>16, <1>17, <2>1 DEF Unloading
  <1>22. Loading(b)'
    <2>1. ASSUME b \in Stored, NEW u \in Threads, Loads(u, b)' PROVE FALSE
      <3>1. Loads(u, b) /\ ~cache[b] /\ "LOADING" \in status[b]
        BY <1>0, <1>8, <2>1, Constants DEF Entry, Loading, Loads
      <3>2. "UNLOADING" \notin status[b] /\ ~Frees(t, b)
        BY <1>0, <1>14, <3>1 DEF Entry, Flagged, Unloading
      <3>3. CASE Window(t, b)
        <4>1. Opened(t, b) /\ t \in Threads
          BY <1>0, <1>10, <2>1, <3>3 DEF Sound, Opened
        <4> QED BY <1>0, <3>1, <4>1 DEF Entry, Needed
      <3>4. CASE ~Window(t, b)
        <4>1. OnlySaves(t, b)
          BY <1>10, <3>2, <3>4 DEF OnlySaves
        <4>2. t \in Threads /\ fixes[t][b] > 0
          BY <1>0, <2>1, <4>1 DEF Entry, Heap, Saving
        <4> QED BY <1>0, <3>1, <4>2 DEF Entry, Needed
      <3> QED BY <3>3, <3>4
    <2>2. ASSUME b \in Views, NEW u \in Threads, Loads(u, b)' PROVE FALSE
      <3>1. t \in Threads /\ Loads(t, b)
        BY <1>0, <1>10, <2>2 DEF Sound, Loads
      <3>2. u # t
        BY <1>0, <1>5, <1>8, <1>10, <2>2 DEF Loads
      <3>3. Loads(u, b)
        BY <1>0, <1>8, <1>10, <2>2, <3>2 DEF Loads
      <3> QED BY <1>0, <3>1, <3>2, <3>3 DEF Entry, Loading
    <2> QED BY <2>1, <2>2, Constants DEF Loading
  <1>23. Needed(b)'
    BY <1>0, <1>8, <1>10, <1>11 DEF Entry, Needed, Opened
  <1>24. b \in Stored => ~dirty[b]
    BY <1>0, <1>10 DEF Entry, Heap, Clean, Late
  <1>25. b \in Stored => Clean(b)' /\ Spinning(b)' /\ Contents(b)'
    BY <1>0, <1>11, <1>24 DEF Entry, Heap, Clean, Spinning, Contents
  <1>26. b \in Stored => Saving(b)'
    <2> SUFFICES ASSUME b \in Stored PROVE Saving(b)'
      OBVIOUS
    <2>1. \A u \in Actors : u # t => (OnlySaves(u, b)' => OnlySaves(u, b))
      <3>1. \A u \in Actors : u # t /\ Writes(u, b) => "UNLOADING" \notin status[b]
        BY <1>15 DEF Unloads
      <3> QED BY <1>8, <1>10, <1>11, <1>16, <3>1 DEF OnlySaves
    <2>2. ~OnlySaves(t, b)'
      BY <1>5, <1>8, <1>10 DEF OnlySaves
    <2> QED BY <1>0, <1>11, <2>1, <2>2 DEF Entry, Heap, Saving
  <1>27. Entry(b)'
    BY <1>18, <1>19, <1>20, <1>21, <1>22, <1>23, <1>25, <1>26 DEF Entry, Heap
  <1>28. Counters' /\ \A v \in Views : Joined(v)' <=> Joined(v)
    BY <1>0, <1>7, <1>11, CountersFrame
  <1>29. \A c \in Bats : c # b => Entry(c)'
    BY <1>7, <1>11, <1>12, Others
  <1>30. b \in Views => base[b] = "pointer"
    <2> SUFFICES ASSUME b \in Views PROVE base[b] = "pointer"
      OBVIOUS
    <2>1. t \in Threads /\ Loads(t, b) /\ ~Has("base", t, b)
      BY <1>0, <1>5, <1>10 DEF Sound, Loads
    <2> QED BY <1>0, <2>1 DEF Entry, Loading
  <1>31. Based'
    <2>1. \A v \in Views : v \in Bats /\ (v # b => status'[v] = status[v])
      BY <1>11, Constants
    <2> QED BY <1>0, <1>11, <1>28, <1>30, <2>1 DEF Based
  <1> QED BY <1>12, <1>27, <1>28, <1>29, <1>31 DEF Inv, Pool

----------------------------------------------------------------------------
(***************************************************************************)
(* The pointer of a view                                                   *)
(***************************************************************************)
LEMMA RebaseKeeps ==
    ASSUME Inv, NEW t \in Actors, NEW b \in Bats, Rebase(t, b)
    PROVE  Inv'
  <1>0. /\ TypeOK /\ ListsOK /\ Counters /\ Based /\ \A u \in Threads : u \in Actors
        /\ \A c \in Bats : Entry(c) /\ \A u \in Actors : Sound(u, c)
    BY Facts, Constants
  <1> DEFINE K == {Off(b, {"LOADING"}), Step("desc", b), Step("use", b)}
             p == Parent[b]
  <1>1. t \in Threads /\ b \in Views /\ Moves(t, {Step("base", b)} \cup K, K)
    <2>1. t \in Threads /\ b \in Views /\ Moves(t, JoinSet(b), K)
      BY <1>0, RebaseLists
    <2>2. JoinSet(b) = {Step("base", b)} \cup K
      BY DEF JoinSet
    <2> QED BY <2>1, <2>2
  <1>2. p \in Stored /\ p \in Bats /\ p # b /\ p \notin Views
    BY <1>1, Constants
  <1>3. Step("base", b) \notin K
    BY StepsEqual
  <1>4. /\ Has("base", t, b) /\ Has("desc", t, b) /\ Has("use", t, b) /\ Clears("LOADING", t, b)
        /\ \A o : ~Has(o, t, p) /\ \A f : ~Clears(f, t, p) /\ ~Holds(f, t, p)
        /\ ~Writes(t, p)
    <2>1. Todo(t) = {Step("base", b)} \cup K
      BY <1>1 DEF Moves
    <2>2. \A o, f : Step(o, p) \notin Todo(t) /\ Off(p, f) \notin Todo(t) /\ Write(p, f) \notin Todo(t)
      BY <1>2, <2>1, StepParts
    <2> QED BY <2>1, <2>2 DEF Has, Clears, Holds, Writes
  <1>5. Drops(t, "base", b)
    <2> HIDE DEF K
    <2> QED BY <1>1, <1>3, Dropped
  <1> HIDE DEF K
  <1>6. /\ \A u \in Actors : \A c : c # p => (Serves(u, c)' <=> Serves(u, c))
        /\ \A u \in Actors : u # t => (Serves(u, p)' <=> Serves(u, p))
        /\ Serves(t, p)
    BY <1>1, <1>4, <1>5 DEF Drops, Serves
  <1>7. \A u \in Actors : \A c : c # p /\ c # b => SameSteps(u, c)
    BY <1>5, <1>6 DEF Drops, SameSteps, Window
  <1>8. /\ status' = status /\ refs' = refs /\ lrefs' = lrefs /\ share' = share /\ desc' = desc /\ cache' = cache
        /\ dirty' = dirty /\ mem' = mem /\ disk' = disk /\ val' = val
        /\ fixes' = fixes /\ keeps' = keeps /\ persistent' = persistent /\ trimLock' = trimLock
        /\ base' = [base EXCEPT ![b] = Rebased(b)]
    BY DEF Rebase, bbp, users
  \* The parent is in memory, and the view had an offset.
  <1>9. /\ Loads(t, b) /\ refs[b] = 1 /\ base[b] = "offset" /\ "LOADING" \in status[b]
        /\ \A u \in Threads : Loads(u, b) => u = t
    BY <1>0, <1>1, <1>4 DEF Loads, Entry, Loading
  <1>10. cache[p]
    <2>1. Opened(t, p)
      BY <1>4, <1>6 DEF Opened, Window
    <2> QED BY <1>0, <1>1, <1>2, <2>1 DEF Entry, Needed
  <1>11. base'[b] = "pointer" /\ \A v \in Views : v # b => base'[v] = base[v]
    BY <1>0, <1>1, <1>8, <1>9, <1>10 DEF Rebased, TypeOK
  <1>12. TypeOK' /\ Shaped'
    <2>1. base' \in [Views -> {"offset", "pointer", "wrong"}]
      BY <1>0, <1>8 DEF TypeOK, Rebased
    <2> QED BY <1>0, <1>1, <1>8, <2>1 DEF Moves, TypeOK, ListsOK, Steps
  <1>13. \A v \in Views : Joined(v)' <=> Joined(v)
    <2>1. \A u \in Threads : \A v \in Views : Joins(u, v)' <=> Joins(u, v)
      BY <1>0, <1>4, <1>5 DEF Joins, Drops
    <2> QED BY <1>8, <2>1 DEF Joined
  <1>14. Counters'
    <2>1. \A u \in Threads : \A c \in Bats : /\ OwesFix(u, c)' <=> OwesFix(u, c)
                                             /\ OwesKeep(u, c)' <=> OwesKeep(u, c)
                                             /\ Has("unshare", u, c)' <=> Has("unshare", u, c)
                                             /\ Has("use", u, c)' => Has("use", u, c)
      BY <1>0, <1>5 DEF Drops, OwesFix, OwesKeep
    <2> QED BY <1>0, <1>8, <1>13, <2>1, CountersStay
  <1>15. Based'
    <2>1. Joined(b)
      <3>1. \A u \in Threads : ~Joins(u, b)
        BY <1>1, <1>4, <1>9 DEF Joins, Loads
      <3> QED BY <1>9, <3>1 DEF Joined
    <2> QED BY <1>0, <1>8, <1>10, <1>11, <1>13, <2>1 DEF Based
  <1>16. \A c \in Bats : c # b /\ c # p => Entry(c)'
    <2> SUFFICES ASSUME NEW c \in Bats, c # b, c # p PROVE Entry(c)'
      OBVIOUS
    <2>1. keeps[c] \in Nat /\ keeps'[c] \in Nat /\ keeps'[c] >= keeps[c]
      BY <1>0, <1>12, <1>8 DEF TypeOK
    <2>2. Same(c)
      BY <1>7, <1>8, <1>11, <2>1 DEF Same
    <2> QED BY <1>0, <2>1, <2>2, Elsewhere
  <1>17. \A u \in Actors : \A c : /\ \A o : o # "base" => (Has(o, u, c)' <=> Has(o, u, c))
                                  /\ \A f : (Clears(f, u, c)' <=> Clears(f, u, c)) /\ (Holds(f, u, c)' <=> Holds(f, u, c))
                                  /\ Writes(u, c)' <=> Writes(u, c)
    BY <1>5 DEF Drops
  <1>18. \A u \in Actors : \A c : /\ Unloads(u, c)' <=> Unloads(u, c)
                                  /\ Doomed(u, c)' <=> Doomed(u, c)
                                  /\ Frees(u, c)' <=> Frees(u, c)
                                  /\ Loads(u, c)' <=> Loads(u, c)
                                  /\ Late(u, c)' <=> Late(u, c)
    <2>1. \A u \in Actors : \A c : /\ Unloads(u, c)' <=> Unloads(u, c)
                                   /\ Doomed(u, c)' <=> Doomed(u, c)
                                   /\ Frees(u, c)' <=> Frees(u, c)
                                   /\ Late(u, c)' <=> Late(u, c)
      BY <1>8, <1>17 DEF Unloads, Doomed, Frees, Late, Saves
    <2>2. \A u \in Actors : \A c : Loads(u, c)' <=> Loads(u, c)
      <3>1. \A u \in Actors : \A c : (u # t \/ c # b) => (Has("base", u, c)' <=> Has("base", u, c))
        BY <1>5 DEF Drops
      <3>2. Loads(t, b) /\ Loads(t, b)'
        BY <1>1, <1>4, <1>17 DEF Loads
      <3> QED BY <1>17, <3>1, <3>2 DEF Loads
    <2> QED BY <2>1, <2>2
  <1>19. Entry(p)'
    <2>1. Placed(p)
      <3>1. \A u \in Actors : Opened(u, p)' => Opened(u, p) \/ cache[p]
        BY <1>10
      <3>2. \A u \in Actors : Has("incref", u, p)' => Has("incref", u, p) /\ (Serves(u, p) => Serves(u, p)')
        BY <1>4, <1>6, <1>17
      <3>3. \A u \in Actors : Has("base", u, p)' <=> Has("base", u, p)
        BY <1>2, <1>5 DEF Drops
      <3> QED BY <1>2, <1>8, <1>17, <1>18, <3>1, <3>2, <3>3 DEF Placed
    <2>2. \A u \in Actors : OnlySaves(u, p)' => OnlySaves(u, p)
      <3>1. \A u \in Actors : u # t => (Window(u, p)' <=> Window(u, p))
        BY <1>6, <1>17 DEF Window
      <3> QED BY <1>4, <1>8, <1>17, <1>18, <3>1 DEF OnlySaves
    <2>3. \A u \in Actors : Has("spin", u, p)' /\ dirty[p] => "SAVING" \in status'[p]
      BY <1>0, <1>2, <1>8, <1>17 DEF Entry, Heap, Spinning
    <2>4. Settled(p)
      BY <1>8, <1>18, <2>1, <2>2, <2>3 DEF Settled
    <2> QED BY <1>0, <1>2, <2>4, EntryStay
  <1>20. Entry(b)'
    <2>0. Entry(b) /\ b \notin Stored
      BY <1>0, <1>1, Constants
    <2>1. Exist(b)' /\ Begun(b)'
      BY <1>0, <1>2, <1>6, <1>8, <1>17, <2>0 DEF Entry, Exist, Begun
    <2>2. Flagged(b)' /\ Written(b)' /\ Unloading(b)'
      BY <1>0, <1>8, <1>17, <1>18, <2>0 DEF Entry, Flagged, Written, Unloading
    <2>3. Loading(b)'
      <3>1. ~Has("base", t, b)'
        BY <1>0, <1>1, <1>5 DEF Drops
      <3> QED BY <1>0, <1>8, <1>9, <1>11, <1>18, <2>0, <3>1 DEF Loading
    <2>4. Needed(b)'
      <3>1. \A u \in Actors : Opened(u, b)' <=> Opened(u, b)
        BY <1>2, <1>6, <1>17 DEF Opened, Window
      <3> QED BY <1>0, <1>8, <2>0, <3>1 DEF Entry, Needed
    <2> QED BY <2>0, <2>1, <2>2, <2>3, <2>4 DEF Entry, Heap
  <1> QED BY <1>12, <1>14, <1>15, <1>16, <1>19, <1>20 DEF Inv, Pool

----------------------------------------------------------------------------
(***************************************************************************)
(* Counting                                                                *)
(***************************************************************************)
\* What changes for c when t acts, and the view v comes or goes, is counted.
Recounted(t, v, c) ==
    /\ refs'[c] + N(fixes[t][c] > 0) + N(OwesFix(t, c)) + N(v \in JoinedTo(c)) =
           refs[c] + N(fixes'[t][c] > 0) + N(OwesFix(t, c)') + N(v \in JoinedTo(c)')
    /\ lrefs'[c] + keeps[c] + N(OwesKeep(t, c)) + N(v \in ViewsOf(c)) =
           lrefs[c] + keeps'[c] + N(OwesKeep(t, c)') + N(v \in ViewsOf(c)')
    /\ share'[c] + N(Has("unshare", t, c)) + N(v \in ViewsOf(c)) =
           share[c] + N(Has("unshare", t, c)') + N(v \in ViewsOf(c)')

\* What t has counted, when nothing is counted for the others.
Alone(t, v) ==
    /\ \A u \in Threads : u # t => \A c \in Bats : /\ fixes'[u][c] = fixes[u][c]
                                                   /\ OwesFix(u, c)' <=> OwesFix(u, c)
                                                   /\ OwesKeep(u, c)' <=> OwesKeep(u, c)
                                                   /\ Has("unshare", u, c)' <=> Has("unshare", u, c)
                                                   /\ Has("use", u, c)' <=> Has("use", u, c)
    /\ \A w \in Views : w # v => desc'[w] = desc[w] /\ (Joined(w)' <=> Joined(w))
    /\ persistent' = persistent

\* The counters are exact when t counts what it changes.
LEMMA Recount ==
    \A t \in Threads : \A v :
        /\ Counters /\ TypeOK /\ TypeOK' /\ Alone(t, v)
        /\ \A c \in Bats : Recounted(t, v, c) /\ fixes'[t][c] \in {0, 1} /\ (Has("use", t, c)' => fixes'[t][c] = 0)
        => Counters'
  <1> SUFFICES ASSUME NEW t \in Threads, NEW v, Counters, TypeOK, TypeOK', Alone(t, v),
                      \A c \in Bats : Recounted(t, v, c) /\ fixes'[t][c] \in {0, 1} /\ (Has("use", t, c)' => fixes'[t][c] = 0)
               PROVE  Counters'
    OBVIOUS
  <1> DEFINE F == Views \cup {v}
  <1>1. IsFiniteSet(Threads) /\ IsFiniteSet(F)
    <2>1. IsFiniteSet(Threads) /\ IsFiniteSet(Views)
      BY BatsAssumption
    <2> QED BY <2>1, FS_AddElement
  <1>2. v \in F
    OBVIOUS
  <1> HIDE DEF F
  <1>3. \A c \in Bats : /\ refs[c] \in Nat /\ lrefs[c] \in Nat /\ share[c] \in Nat /\ keeps[c] \in Nat
                        /\ refs'[c] \in Nat /\ lrefs'[c] \in Nat /\ share'[c] \in Nat /\ keeps'[c] \in Nat
    BY DEF TypeOK
  <1>4. ASSUME NEW c \in Bats
        PROVE  /\ Cardinality(Holders(c)) \in Nat /\ Cardinality(Holders(c)') \in Nat
               /\ Cardinality(Holders(c)') + N(fixes[t][c] > 0) = Cardinality(Holders(c)) + N(fixes'[t][c] > 0)
    <2>1. Holders(c) \in SUBSET Threads /\ Holders(c)' \in SUBSET Threads
      BY DEF Holders
    <2>2. /\ \A u \in Threads : u # t => (u \in Holders(c) <=> u \in Holders(c)')
          /\ t \in Holders(c) <=> fixes[t][c] > 0
          /\ t \in Holders(c)' <=> fixes'[t][c] > 0
      BY DEF Holders, Alone
    <2>3. /\ Cardinality(Holders(c)) \in Nat /\ Cardinality(Holders(c)') \in Nat
          /\ Cardinality(Holders(c)') + N(t \in Holders(c)) = Cardinality(Holders(c)) + N(t \in Holders(c)')
      BY <1>1, <2>1, <2>2, CardMove
    <2> QED BY <2>2, <2>3 DEF N
  <1>5. ASSUME NEW c \in Bats
        PROVE  /\ Cardinality(FixOwed(c)) \in Nat /\ Cardinality(FixOwed(c)') \in Nat
               /\ Cardinality(FixOwed(c)') + N(OwesFix(t, c)) = Cardinality(FixOwed(c)) + N(OwesFix(t, c)')
    <2>1. FixOwed(c) \in SUBSET Threads /\ FixOwed(c)' \in SUBSET Threads
      BY DEF FixOwed
    <2>2. /\ \A u \in Threads : u # t => (u \in FixOwed(c) <=> u \in FixOwed(c)')
          /\ t \in FixOwed(c) <=> OwesFix(t, c)
          /\ t \in FixOwed(c)' <=> OwesFix(t, c)'
      BY DEF FixOwed, Alone
    <2>3. /\ Cardinality(FixOwed(c)) \in Nat /\ Cardinality(FixOwed(c)') \in Nat
          /\ Cardinality(FixOwed(c)') + N(t \in FixOwed(c)) = Cardinality(FixOwed(c)) + N(t \in FixOwed(c)')
      BY <1>1, <2>1, <2>2, CardMove
    <2> QED BY <2>2, <2>3 DEF N
  <1>6. ASSUME NEW c \in Bats
        PROVE  /\ Cardinality(KeepOwed(c)) \in Nat /\ Cardinality(KeepOwed(c)') \in Nat
               /\ Cardinality(KeepOwed(c)') + N(OwesKeep(t, c)) = Cardinality(KeepOwed(c)) + N(OwesKeep(t, c)')
    <2>1. KeepOwed(c) \in SUBSET Threads /\ KeepOwed(c)' \in SUBSET Threads
      BY DEF KeepOwed
    <2>2. /\ \A u \in Threads : u # t => (u \in KeepOwed(c) <=> u \in KeepOwed(c)')
          /\ t \in KeepOwed(c) <=> OwesKeep(t, c)
          /\ t \in KeepOwed(c)' <=> OwesKeep(t, c)'
      BY DEF KeepOwed, Alone
    <2>3. /\ Cardinality(KeepOwed(c)) \in Nat /\ Cardinality(KeepOwed(c)') \in Nat
          /\ Cardinality(KeepOwed(c)') + N(t \in KeepOwed(c)) = Cardinality(KeepOwed(c)) + N(t \in KeepOwed(c)')
      BY <1>1, <2>1, <2>2, CardMove
    <2> QED BY <2>2, <2>3 DEF N
  <1>7. ASSUME NEW c \in Bats
        PROVE  /\ Cardinality(ShareOwed(c)) \in Nat /\ Cardinality(ShareOwed(c)') \in Nat
               /\ Cardinality(ShareOwed(c)') + N(Has("unshare", t, c)) = Cardinality(ShareOwed(c)) + N(Has("unshare", t, c)')
    <2>1. ShareOwed(c) \in SUBSET Threads /\ ShareOwed(c)' \in SUBSET Threads
      BY DEF ShareOwed
    <2>2. /\ \A u \in Threads : u # t => (u \in ShareOwed(c) <=> u \in ShareOwed(c)')
          /\ t \in ShareOwed(c) <=> Has("unshare", t, c)
          /\ t \in ShareOwed(c)' <=> Has("unshare", t, c)'
      BY DEF ShareOwed, Alone
    <2>3. /\ Cardinality(ShareOwed(c)) \in Nat /\ Cardinality(ShareOwed(c)') \in Nat
          /\ Cardinality(ShareOwed(c)') + N(t \in ShareOwed(c)) = Cardinality(ShareOwed(c)) + N(t \in ShareOwed(c)')
      BY <1>1, <2>1, <2>2, CardMove
    <2> QED BY <2>2, <2>3 DEF N
  <1>8. ASSUME NEW c \in Bats
        PROVE  /\ Cardinality(JoinedTo(c)) \in Nat /\ Cardinality(JoinedTo(c)') \in Nat
               /\ Cardinality(JoinedTo(c)') + N(v \in JoinedTo(c)) = Cardinality(JoinedTo(c)) + N(v \in JoinedTo(c)')
    <2>1. JoinedTo(c) \in SUBSET F /\ JoinedTo(c)' \in SUBSET F
      BY DEF JoinedTo, F
    <2>2. \A u \in F : u # v => (u \in JoinedTo(c) <=> u \in JoinedTo(c)')
      BY DEF JoinedTo, Alone
    <2> QED BY <1>1, <1>2, <2>1, <2>2, CardMove
  <1>9. ASSUME NEW c \in Bats
        PROVE  /\ Cardinality(ViewsOf(c)) \in Nat /\ Cardinality(ViewsOf(c)') \in Nat
               /\ Cardinality(ViewsOf(c)') + N(v \in ViewsOf(c)) = Cardinality(ViewsOf(c)) + N(v \in ViewsOf(c)')
    <2>1. ViewsOf(c) \in SUBSET F /\ ViewsOf(c)' \in SUBSET F
      BY DEF ViewsOf, F
    <2>2. \A u \in F : u # v => (u \in ViewsOf(c) <=> u \in ViewsOf(c)')
      BY DEF ViewsOf, Alone
    <2> QED BY <1>1, <1>2, <2>1, <2>2, CardMove
  <1>10. \A P : N(P) \in {0, 1}
    BY DEF N
  <1>11. RefsExact'
    <2> SUFFICES ASSUME NEW c \in Bats
                 PROVE  refs'[c] = Cardinality(Holders(c)') + Cardinality(FixOwed(c)') + Cardinality(JoinedTo(c)')
      BY DEF RefsExact
    <2>1. refs[c] = Cardinality(Holders(c)) + Cardinality(FixOwed(c)) + Cardinality(JoinedTo(c))
      BY DEF Counters, RefsExact
    <2>2. refs'[c] + N(fixes[t][c] > 0) + N(OwesFix(t, c)) + N(v \in JoinedTo(c)) =
              refs[c] + N(fixes'[t][c] > 0) + N(OwesFix(t, c)') + N(v \in JoinedTo(c)')
      BY DEF Recounted
    <2>3. /\ N(fixes[t][c] > 0) \in Nat /\ N(OwesFix(t, c)) \in Nat /\ N(v \in JoinedTo(c)) \in Nat
          /\ N(fixes'[t][c] > 0) \in Nat /\ N(OwesFix(t, c)') \in Nat /\ N(v \in JoinedTo(c)') \in Nat
      BY DEF N
    <2> QED BY <1>3, <1>4, <1>5, <1>8, <2>1, <2>2, <2>3
  <1>12. LrefsExact'
    <2> SUFFICES ASSUME NEW c \in Bats
                 PROVE  lrefs'[c] = keeps'[c] + Cardinality({c} \cap persistent') + Cardinality(ViewsOf(c)') + Cardinality(KeepOwed(c)')
      BY DEF LrefsExact
    <2>1. lrefs[c] = keeps[c] + Cardinality({c} \cap persistent) + Cardinality(ViewsOf(c)) + Cardinality(KeepOwed(c))
      BY DEF Counters, LrefsExact
    <2>2. lrefs'[c] + keeps[c] + N(OwesKeep(t, c)) + N(v \in ViewsOf(c)) =
              lrefs[c] + keeps'[c] + N(OwesKeep(t, c)') + N(v \in ViewsOf(c)')
      BY DEF Recounted
    <2>3. /\ N(OwesKeep(t, c)) \in Nat /\ N(v \in ViewsOf(c)) \in Nat /\ N(OwesKeep(t, c)') \in Nat /\ N(v \in ViewsOf(c)') \in Nat
      BY DEF N
    <2>4. Cardinality({c} \cap persistent) \in Nat /\ persistent' = persistent
      BY Finite, CardOne DEF Alone
    <2> DEFINE P == Cardinality({c} \cap persistent)
    <2>5. P \in Nat /\ Cardinality({c} \cap persistent') = P
      BY <2>4
    <2> HIDE DEF P
    <2>6. lrefs[c] = keeps[c] + P + Cardinality(ViewsOf(c)) + Cardinality(KeepOwed(c))
      BY <2>1 DEF P
    <2> QED BY <1>3, <1>6, <1>9, <2>2, <2>3, <2>5, <2>6
  <1>13. ShareExact'
    <2> SUFFICES ASSUME NEW c \in Bats
                 PROVE  share'[c] = Cardinality(ViewsOf(c)') + Cardinality(ShareOwed(c)')
      BY DEF ShareExact
    <2>1. share[c] = Cardinality(ViewsOf(c)) + Cardinality(ShareOwed(c))
      BY DEF Counters, ShareExact
    <2>2. share'[c] + N(Has("unshare", t, c)) + N(v \in ViewsOf(c)) =
              share[c] + N(Has("unshare", t, c)') + N(v \in ViewsOf(c)')
      BY DEF Recounted
    <2>3. /\ N(Has("unshare", t, c)) \in Nat /\ N(v \in ViewsOf(c)) \in Nat
          /\ N(Has("unshare", t, c)') \in Nat /\ N(v \in ViewsOf(c)') \in Nat
      BY DEF N
    <2> QED BY <1>3, <1>7, <1>9, <2>1, <2>2, <2>3
  <1>14. FixesOnce'
    BY DEF Counters, FixesOnce, Alone
  <1> QED BY <1>11, <1>12, <1>13, <1>14 DEF Counters

\* Threads that claim nothing of b do nothing with it.
LEMMA Unclaimed ==
    ASSUME Inv, NEW b \in Bats, "UNLOADING" \notin status[b], NEW A \in SUBSET Actors,
           \A u \in A : u \in Threads => ~(fixes[u][b] > 0) /\ ~OwesFix(u, b) /\ (Window(u, b) => Has("incref", u, b))
    PROVE  \A u \in A : /\ ~Unloads(u, b) /\ ~Frees(u, b) /\ ~Doomed(u, b)
                        /\ ~Writes(u, b) /\ ~OnlySaves(u, b) /\ ~Loads(u, b)
  <1> SUFFICES ASSUME NEW u \in A
               PROVE  /\ ~Unloads(u, b) /\ ~Frees(u, b) /\ ~Doomed(u, b)
                      /\ ~Writes(u, b) /\ ~OnlySaves(u, b) /\ ~Loads(u, b)
    OBVIOUS
  <1>0. u \in Actors /\ Entry(b) /\ Sound(u, b) /\ (b \in Stored \/ b \in Views)
    BY Facts, Constants
  <1>1. ~Unloads(u, b) /\ ~Frees(u, b) /\ ~Doomed(u, b)
    BY <1>0 DEF Entry, Unloading, Unloads, Frees, Doomed
  <1>2. ~OnlySaves(u, b)
    <2>1. OnlySaves(u, b) => b \in Stored
      BY <1>0 DEF OnlySaves, Sound, Saves
    <2> QED BY <1>0, <2>1 DEF Entry, Heap, Saving
  <1>3. ~Writes(u, b)
    <2>1. CASE b \in Stored /\ Window(u, b)
      BY <1>0, <2>1 DEF Sound
    <2>2. CASE b \in Views
      BY <1>0, <2>2 DEF Sound, OwesFix
    <2>3. CASE ~Window(u, b)
      BY <1>2, <1>1, <2>3 DEF OnlySaves
    <2> QED BY <1>0, <2>1, <2>2, <2>3
  <1>4. ~Loads(u, b)
    BY <1>0, <1>3 DEF Loads, Sound, OwesFix
  <1> QED BY <1>1, <1>2, <1>3, <1>4

\* Nobody claims anything of a BAT that nobody fixes.
LEMMA Idle ==
    ASSUME Inv, NEW b \in Bats, "UNLOADING" \notin status[b], refs[b] = 0
    PROVE  /\ \A u \in Actors : /\ ~Unloads(u, b) /\ ~Frees(u, b) /\ ~Doomed(u, b)
                                /\ ~Writes(u, b) /\ ~OnlySaves(u, b) /\ ~Loads(u, b)
           /\ \A u \in Threads : ~(fixes[u][b] > 0) /\ ~OwesFix(u, b) /\ (Window(u, b) => Has("incref", u, b))
  <1>1. \A u \in Threads : ~(fixes[u][b] > 0) /\ ~OwesFix(u, b)
    BY Facts, RefsBounds DEF Counters
  <1>2. \A u \in Threads : Window(u, b) => Has("incref", u, b)
    BY Claims
  <1>3. Actors \in SUBSET Actors
    OBVIOUS
  <1> QED BY <1>1, <1>2, <1>3, Unclaimed

\* A thread that gives the last fix back is the only one that claims anything.
LEMMA LastClaim ==
    ASSUME Inv, NEW b \in Bats, refs[b] = 1, NEW t \in Threads, Todo(t) = {Step("decref", b)}
    PROVE  /\ \A u \in Actors : /\ ~Unloads(u, b) /\ ~Frees(u, b) /\ ~Doomed(u, b)
                                /\ ~Writes(u, b) /\ ~OnlySaves(u, b) /\ ~Loads(u, b)
           /\ \A u \in Threads : ~(fixes[u][b] > 0) /\ (u # t => ~OwesFix(u, b)) /\ (Window(u, b) => Has("incref", u, b))
           /\ "UNLOADING" \notin status[b] /\ "LOADING" \notin status[b]
  <1>0. t \in Actors /\ Entry(b) /\ Counters /\ b \in Bats
    BY Facts, Constants
  <1>1. /\ Has("decref", t, b) /\ \A o, c : Has(o, t, c) => o = "decref" /\ c = b
        /\ \A f, c : ~Clears(f, t, c) /\ ~Holds(f, t, c)
    BY StepsEqual DEF Has, Clears, Holds
  <1>2. ~Writes(t, b) /\ ~Window(t, b) /\ OwesFix(t, b)
    BY <1>1 DEF Writes, Window, Serves, OwesFix
  <1>3. \A u \in Threads : ~(fixes[u][b] > 0) /\ (u # t => ~OwesFix(u, b))
    BY <1>0, <1>2, RefsBounds DEF Counters
  <1>4. \A u \in Threads : Window(u, b) => Has("incref", u, b)
    <2> SUFFICES ASSUME NEW u \in Threads, Window(u, b), ~Has("incref", u, b) PROVE FALSE
      OBVIOUS
    <2>1. u # t
      BY <1>2
    <2>2. \A w \in Threads : w # u /\ OwesFix(w, b) => refs[b] >= 2
      BY Claims
    <2> QED BY <1>2, <2>1, <2>2
  <1>5. "UNLOADING" \notin status[b]
    BY <1>0 DEF Entry, Flagged
  <1>6. \A u \in Actors \ {t} : /\ ~Unloads(u, b) /\ ~Frees(u, b) /\ ~Doomed(u, b)
                                /\ ~Writes(u, b) /\ ~OnlySaves(u, b) /\ ~Loads(u, b)
    <2>1. Actors \ {t} \in SUBSET Actors
      OBVIOUS
    <2>2. \A u \in Actors \ {t} : u \in Threads => ~(fixes[u][b] > 0) /\ ~OwesFix(u, b) /\ (Window(u, b) => Has("incref", u, b))
      BY <1>3, <1>4
    <2> QED BY <1>5, <2>1, <2>2, Unclaimed
  <1>7. /\ ~Unloads(t, b) /\ ~Frees(t, b) /\ ~Doomed(t, b) /\ ~OnlySaves(t, b) /\ ~Loads(t, b)
    BY <1>1, <1>2 DEF Unloads, Frees, Doomed, OnlySaves, Loads
  <1>8. "LOADING" \notin status[b]
    <2>1. \A u \in Threads : u \in Actors
      BY Constants
    <2> QED BY <1>0, <1>6, <1>7, <2>1 DEF Entry, Flagged
  <1> QED BY <1>2, <1>3, <1>4, <1>5, <1>6, <1>7, <1>8

----------------------------------------------------------------------------
(***************************************************************************)
(* Steps that only count                                                   *)
(***************************************************************************)
\* A step on b: the other entries are the same.
LEMMA Around ==
    \A b : /\ Inv /\ TypeOK' /\ Shaped' /\ Counters' /\ Based'
           /\ b \in Bats => Entry(b)'
           /\ \A c \in Bats : c # b => Same(c)
           => Inv'
  <1> SUFFICES ASSUME NEW b, Inv, TypeOK', Shaped', Counters', Based', b \in Bats => Entry(b)',
                      \A c \in Bats : c # b => Same(c)
               PROVE  Inv'
    OBVIOUS
  <1>1. \A c \in Bats : keeps[c] \in Nat /\ keeps'[c] \in Nat /\ Entry(c)
    BY Facts DEF TypeOK
  <1>2. \A c \in Bats : c # b => Entry(c)'
    BY <1>1, Elsewhere
  <1> QED BY <1>2 DEF Inv, Pool

\* What t does is counted for b alone, and no view comes or goes.
LEMMA CountAt ==
    \A t \in Threads : \A b \in Bats :
        /\ Counters /\ TypeOK /\ TypeOK' /\ desc' = desc /\ persistent' = persistent
        /\ \A u \in Threads : \A c \in Bats : (u # t \/ c # b) =>
              fixes'[u][c] = fixes[u][c] /\ \A o \in Counted : Has(o, u, c)' <=> Has(o, u, c)
        /\ \A c \in Bats : c # b => refs'[c] = refs[c] /\ lrefs'[c] = lrefs[c] /\ keeps'[c] = keeps[c] /\ share'[c] = share[c]
        /\ \A w \in Views : Joined(w)' <=> Joined(w)
        /\ Recounted(t, b, b) /\ fixes'[t][b] \in {0, 1} /\ (Has("use", t, b)' => fixes'[t][b] = 0)
        => Counters'
  <1> SUFFICES ASSUME NEW t \in Threads, NEW b \in Bats, Counters, TypeOK, TypeOK', desc' = desc, persistent' = persistent,
                      \A u \in Threads : \A c \in Bats : (u # t \/ c # b) =>
                          fixes'[u][c] = fixes[u][c] /\ \A o \in Counted : Has(o, u, c)' <=> Has(o, u, c),
                      \A c \in Bats : c # b => refs'[c] = refs[c] /\ lrefs'[c] = lrefs[c] /\ keeps'[c] = keeps[c] /\ share'[c] = share[c],
                      \A w \in Views : Joined(w)' <=> Joined(w),
                      Recounted(t, b, b), fixes'[t][b] \in {0, 1}, Has("use", t, b)' => fixes'[t][b] = 0
               PROVE  Counters'
    OBVIOUS
  <1>1. \A u \in Threads : \A c \in Bats : (u # t \/ c # b) =>
            /\ OwesFix(u, c)' <=> OwesFix(u, c)
            /\ OwesKeep(u, c)' <=> OwesKeep(u, c)
            /\ Has("unshare", u, c)' <=> Has("unshare", u, c)
            /\ Has("use", u, c)' <=> Has("use", u, c)
    BY DEF OwesFix, OwesKeep, Counted
  <1>2. Alone(t, b)
    BY <1>1 DEF Alone
  <1>3. \A c \in Bats : JoinedTo(c)' = JoinedTo(c) /\ ViewsOf(c)' = ViewsOf(c)
    BY DEF JoinedTo, ViewsOf
  <1>4. \A c \in Bats : Recounted(t, b, c)
    <2> SUFFICES ASSUME NEW c \in Bats, c # b PROVE Recounted(t, b, c)
      OBVIOUS
    <2>1. /\ refs'[c] = refs[c] /\ lrefs'[c] = lrefs[c] /\ share'[c] = share[c] /\ keeps'[c] = keeps[c]
          /\ fixes'[t][c] = fixes[t][c]
      OBVIOUS
    <2>2. /\ N(fixes'[t][c] > 0) = N(fixes[t][c] > 0) /\ N(OwesFix(t, c)') = N(OwesFix(t, c))
          /\ N(OwesKeep(t, c)') = N(OwesKeep(t, c)) /\ N(Has("unshare", t, c)') = N(Has("unshare", t, c))
          /\ N(b \in JoinedTo(c)') = N(b \in JoinedTo(c)) /\ N(b \in ViewsOf(c)') = N(b \in ViewsOf(c))
      BY <1>1, <1>3, <2>1 DEF N
    <2> QED BY <2>1, <2>2 DEF Recounted
  <1>5. \A c \in Bats : fixes'[t][c] \in {0, 1} /\ (Has("use", t, c)' => fixes'[t][c] = 0)
    BY <1>1 DEF Counters, FixesOnce
  <1> QED BY <1>2, <1>4, <1>5, Recount

\* A step of t that is counted for b alone, and concerns no view.
LEMMA CountOne ==
    \A t \in Threads : \A b \in Bats : \A o :
        /\ Inv /\ TypeOK' /\ Drops(t, o, b) /\ o # "base"
        /\ refs' = refs /\ desc' = desc /\ persistent' = persistent
        /\ \A u \in Threads : \A c \in Bats : (u # t \/ c # b) => fixes'[u][c] = fixes[u][c]
        /\ \A c \in Bats : c # b => lrefs'[c] = lrefs[c] /\ keeps'[c] = keeps[c] /\ share'[c] = share[c]
        /\ o # "incref"
        /\ Recounted(t, b, b) /\ fixes'[t][b] \in {0, 1} /\ (Has("use", t, b)' => fixes'[t][b] = 0)
        => Counters' /\ \A w \in Views : Joined(w)' <=> Joined(w)
  <1> SUFFICES ASSUME NEW t \in Threads, NEW b \in Bats, NEW o, Inv, TypeOK', Drops(t, o, b), o # "base",
                      refs' = refs, desc' = desc, persistent' = persistent,
                      \A u \in Threads : \A c \in Bats : (u # t \/ c # b) => fixes'[u][c] = fixes[u][c],
                      \A c \in Bats : c # b => lrefs'[c] = lrefs[c] /\ keeps'[c] = keeps[c] /\ share'[c] = share[c],
                      o # "incref",
                      Recounted(t, b, b), fixes'[t][b] \in {0, 1}, Has("use", t, b)' => fixes'[t][b] = 0
               PROVE  Counters' /\ \A w \in Views : Joined(w)' <=> Joined(w)
    OBVIOUS
  <1>0. TypeOK /\ Counters /\ \A u \in Threads : u \in Actors
    BY Facts, Constants
  <1>1. \A u \in Actors : \A p, c : (u # t \/ c # b) => (Has(p, u, c)' <=> Has(p, u, c))
    BY DEF Drops
  <1>2. \A u \in Actors : \A c : (Has("base", u, c)' <=> Has("base", u, c)) /\ (Has("incref", u, c)' <=> Has("incref", u, c))
    BY DEF Drops
  <1>3. \A w \in Views : Joined(w)' <=> Joined(w)
    <2>1. \A u \in Threads : \A w \in Views : Joins(u, w)' <=> Joins(u, w)
      BY <1>0, <1>2 DEF Joins
    <2> QED BY <2>1 DEF Joined
  <1> QED BY <1>0, <1>1, <1>3, CountAt

\* An entry whose counters go up or down, and stay above nothing.
LEMMA Raised ==
    \A b \in Bats :
        /\ Entry(b) /\ desc[b] /\ "UNLOADING" \notin status[b]
        /\ b \in Views => "LOADING" \notin status[b] \/ (refs'[b] = refs[b] /\ base'[b] = base[b])
        /\ cache[b] => refs'[b] > 0 \/ lrefs'[b] > 0
        /\ status'[b] = status[b] /\ desc' = desc /\ cache' = cache
        /\ dirty' = dirty /\ mem' = mem /\ disk' = disk /\ val' = val
        /\ fixes' = fixes /\ keeps' = keeps /\ persistent' = persistent
        /\ \A u \in Actors : SameSteps(u, b)
        => Entry(b)'
  <1> SUFFICES ASSUME NEW b \in Bats, Entry(b), desc[b], "UNLOADING" \notin status[b],
                      b \in Views => "LOADING" \notin status[b] \/ (refs'[b] = refs[b] /\ base'[b] = base[b]),
                      cache[b] => refs'[b] > 0 \/ lrefs'[b] > 0,
                      status'[b] = status[b], desc' = desc, cache' = cache,
                      dirty' = dirty, mem' = mem, disk' = disk, val' = val,
                      fixes' = fixes, keeps' = keeps, persistent' = persistent,
                      \A u \in Actors : SameSteps(u, b)
               PROVE  Entry(b)'
    OBVIOUS
  <1>1. \A u \in Actors : /\ Unloads(u, b)' <=> Unloads(u, b)
                          /\ Doomed(u, b)' <=> Doomed(u, b)
                          /\ Frees(u, b)' <=> Frees(u, b)
                          /\ Loads(u, b)' <=> Loads(u, b)
                          /\ Late(u, b)' <=> Late(u, b)
                          /\ OnlySaves(u, b)' <=> OnlySaves(u, b)
                          /\ Opened(u, b)' <=> Opened(u, b)
    BY DEF SameSteps, Telling, Unloads, Doomed, Frees, Loads, Late, Saves, OnlySaves, Opened
  <1>2. Eased(b)
    BY <1>1 DEF SameSteps, Telling, Eased
  <1>3. \A u \in Actors : Has("spin", u, b)' /\ b \in Stored /\ dirty[b] => "SAVING" \in status'[b]
    BY DEF SameSteps, Telling, Entry, Heap, Spinning
  <1>4. Lasting(b)
    BY <1>1, <1>2, <1>3 DEF Lasting
  <1> QED BY <1>4, LastingStay

\* The reference that incref counted is the one the caller keeps.
LEMMA KeptKeeps ==
    ASSUME Inv, NEW t \in Actors, NEW b \in Bats, Kept(t, b)
    PROVE  Inv'
  <1>0. TypeOK /\ ListsOK /\ Counters /\ Based
    BY Facts
  <1>1. t \in Threads /\ Moves(t, {Step("kept", b)} \cup {Step("decref", b)}, {Step("decref", b)})
    <2>1. {Step("kept", b), Step("decref", b)} = {Step("kept", b)} \cup {Step("decref", b)}
      OBVIOUS
    <2> QED BY <1>0, <2>1, KeptLists
  <1>2. Drops(t, "kept", b)
    <2>1. Step("kept", b) \notin {Step("decref", b)}
      BY StepsEqual
    <2> QED BY <1>1, <2>1, Dropped
  <1>3. /\ Has("kept", t, b) /\ ~Has("increfl", t, b) /\ ~Has("decrefl", t, b) /\ ~Has("use", t, b) /\ ~Has("unshare", t, b)
    BY <1>1, StepsEqual DEF Moves, Has
  <1>4. /\ status' = status /\ refs' = refs /\ lrefs' = lrefs /\ share' = share /\ desc' = desc /\ cache' = cache
        /\ dirty' = dirty /\ mem' = mem /\ disk' = disk /\ val' = val /\ base' = base
        /\ fixes' = fixes /\ persistent' = persistent /\ trimLock' = trimLock
        /\ keeps' = [keeps EXCEPT ![b] = @ + 1]
    BY DEF Kept, bbp, heaps
  <1>5. TypeOK' /\ Shaped'
    <2>1. keeps' \in [Bats -> Nat]
      BY <1>0, <1>4 DEF TypeOK
    <2> QED BY <1>0, <1>1, <1>4, <2>1 DEF Moves, TypeOK, ListsOK, Steps
  <1>6. \A c \in Bats : /\ keeps[c] \in Nat /\ keeps'[c] \in Nat /\ keeps'[c] >= keeps[c]
                        /\ c # b => keeps'[c] = keeps[c]
                        /\ keeps'[b] = keeps[b] + 1
    BY <1>0, <1>4, SMTT(30) DEF TypeOK
  <1>7. Recounted(t, b, b)
    <2>1. OwesKeep(t, b) /\ ~OwesKeep(t, b)' /\ (OwesFix(t, b)' <=> OwesFix(t, b)) /\ ~Has("unshare", t, b)'
      BY <1>2, <1>3 DEF Drops, OwesKeep, OwesFix
    <2>2. b \notin JoinedTo(b) /\ b \notin JoinedTo(b)' /\ b \notin ViewsOf(b) /\ b \notin ViewsOf(b)'
      BY Constants DEF JoinedTo, ViewsOf
    <2>3. lrefs[b] \in Nat /\ keeps[b] \in Nat /\ refs[b] \in Nat /\ share[b] \in Nat
      BY <1>0 DEF TypeOK
    <2> QED BY <1>3, <1>4, <1>6, <2>1, <2>2, <2>3 DEF Recounted, N
  <1>8. fixes'[t][b] \in {0, 1} /\ ~Has("use", t, b)'
    BY <1>0, <1>1, <1>2, <1>3, <1>4 DEF Drops, Counters, FixesOnce
  <1>9. Counters' /\ \A w \in Views : Joined(w)' <=> Joined(w)
    BY <1>1, <1>2, <1>4, <1>5, <1>6, <1>7, <1>8, CountOne
  <1>10. Based'
    BY <1>0, <1>4, <1>9, BasedFrame
  <1>11. \A u \in Actors : \A c : SameSteps(u, c)
    BY <1>2 DEF Drops, SameSteps, Window, Telling
  <1>12. \A c \in Bats : Same(c)
    BY <1>4, <1>6, <1>11 DEF Same
  <1>13. Entry(b)'
    BY <1>6, <1>12, Elsewhere, Facts
  <1> QED BY <1>5, <1>9, <1>10, <1>12, <1>13, Around

\* A view that is gone gives back what it had counted for its parent.
LEMMA ReleaseShareKeeps ==
    ASSUME Inv, NEW t \in Actors, NEW b \in Bats, ReleaseShare(t, b)
    PROVE  Inv'
  <1>0. TypeOK /\ ListsOK /\ Counters /\ Based
    BY Facts
  <1>1. t \in Threads /\ b \in Stored
    BY <1>0, ReleaseShareLists
  <1>2. PICK K : (K = {Step("decrefl", b)} \/ K = {Step("decrefl", b), Step("decref", b)}) /\ Moves(t, {Step("unshare", b)} \cup K, K)
    BY <1>0, ReleaseShareLists
  <1>3. Drops(t, "unshare", b)
    <2>1. Step("unshare", b) \notin K
      BY <1>2, StepsEqual
    <2> QED BY <1>2, <2>1, Dropped
  <1>4. Has("unshare", t, b) /\ ~Has("use", t, b)
    BY <1>2, StepsEqual DEF Moves, Has
  <1>5. /\ status' = status /\ refs' = refs /\ lrefs' = lrefs /\ desc' = desc /\ cache' = cache
        /\ dirty' = dirty /\ mem' = mem /\ disk' = disk /\ val' = val /\ base' = base
        /\ fixes' = fixes /\ keeps' = keeps /\ persistent' = persistent /\ trimLock' = trimLock
        /\ share' = [share EXCEPT ![b] = @ - 1]
    BY DEF ReleaseShare, heaps, users
  <1>6. share[b] \in Nat /\ share[b] >= 1
    <2>1. t \in ShareOwed(b)
      BY <1>1, <1>4 DEF ShareOwed
    <2>2. Cardinality(ShareOwed(b)) \in Nat /\ Cardinality(ShareOwed(b)) >= 1 /\ Cardinality(ViewsOf(b)) \in Nat
      BY <2>1, Finite, CardOne
    <2>3. share[b] = Cardinality(ViewsOf(b)) + Cardinality(ShareOwed(b))
      BY <1>0 DEF Counters, ShareExact
    <2> QED BY <2>2, <2>3
  <1>7. /\ share' \in [Bats -> Nat] /\ share'[b] = share[b] - 1 /\ share[b] - 1 \in Nat
        /\ \A c \in Bats : c # b => share'[c] = share[c]
    <2>1. share[b] - 1 \in Nat
      BY <1>6
    <2>2. share \in [Bats -> Nat]
      BY <1>0 DEF TypeOK
    <2> QED BY <1>5, <2>1, <2>2
  <1>8. TypeOK' /\ Shaped'
    BY <1>0, <1>2, <1>5, <1>7 DEF Moves, TypeOK, ListsOK, Steps
  <1>9. Recounted(t, b, b)
    <2>1. ~Has("unshare", t, b)' /\ (OwesFix(t, b)' <=> OwesFix(t, b)) /\ (OwesKeep(t, b)' <=> OwesKeep(t, b))
      BY <1>1, <1>3, Constants DEF Drops, OwesKeep, OwesFix
    <2>2. b \notin JoinedTo(b) /\ b \notin JoinedTo(b)' /\ b \notin ViewsOf(b) /\ b \notin ViewsOf(b)'
      BY Constants DEF JoinedTo, ViewsOf
    <2>3. lrefs[b] \in Nat /\ keeps[b] \in Nat /\ refs[b] \in Nat
      BY <1>0 DEF TypeOK
    <2> QED BY <1>4, <1>5, <1>6, <1>7, <2>1, <2>2, <2>3 DEF Recounted, N
  <1>10. fixes'[t][b] \in {0, 1} /\ ~Has("use", t, b)'
    BY <1>0, <1>1, <1>3, <1>4, <1>5, Constants DEF Drops, Counters, FixesOnce
  <1>11. Counters' /\ \A w \in Views : Joined(w)' <=> Joined(w)
    BY <1>1, <1>3, <1>5, <1>7, <1>8, <1>9, <1>10, CountOne
  <1>12. Based'
    BY <1>0, <1>5, <1>11, BasedFrame
  <1>13. \A u \in Actors : \A c : SameSteps(u, c)
    BY <1>3 DEF Drops, SameSteps, Window, Telling
  <1>14. \A c \in Bats : keeps[c] \in Nat /\ keeps'[c] \in Nat /\ keeps'[c] >= keeps[c]
    BY <1>0, <1>5 DEF TypeOK
  <1>15. \A c \in Bats : Same(c)
    BY <1>5, <1>13, <1>14 DEF Same
  <1>16. Entry(b)'
    BY <1>14, <1>15, Elsewhere, Facts
  <1> QED BY <1>8, <1>11, <1>12, <1>15, <1>16, Around

\* incref(logical) counts the reference that kept gives to the caller.
LEMMA increfLogicalKeeps ==
    ASSUME Inv, NEW t \in Actors, NEW b \in Bats, increfLogical(t, b)
    PROVE  Inv'
  <1>0. TypeOK /\ ListsOK /\ Counters /\ Based /\ Entry(b)
    BY Facts
  <1> DEFINE K == {Step("kept", b), Step("decref", b)}
  <1>1. t \in Threads /\ Moves(t, {Step("increfl", b)} \cup K, K)
    <2>1. {Step("increfl", b), Step("kept", b), Step("decref", b)} = {Step("increfl", b)} \cup K
      OBVIOUS
    <2> QED BY <1>0, <2>1, increflLists
  <1>2. Drops(t, "increfl", b)
    <2>1. Step("increfl", b) \notin K
      BY StepsEqual
    <2> HIDE DEF K
    <2> QED BY <1>1, <2>1, Dropped
  <1>3. Has("kept", t, b) /\ Has("increfl", t, b) /\ Has("decref", t, b) /\ ~Has("decrefl", t, b) /\ ~Has("use", t, b) /\ ~Has("unshare", t, b)
    BY <1>1, StepsEqual DEF Moves, Has
  <1> HIDE DEF K
  <1>4. desc[b]
    <2>1. OwesFix(t, b)
      BY <1>3 DEF OwesFix
    <2>2. refs[b] >= 1
      BY <1>0, <1>1, <2>1, RefsBounds DEF Counters
    <2> QED BY <1>0, <2>2 DEF Entry, Exist
  <1>5. /\ status' = status /\ refs' = refs /\ share' = share /\ desc' = desc /\ cache' = cache
        /\ dirty' = dirty /\ mem' = mem /\ disk' = disk /\ val' = val /\ base' = base
        /\ fixes' = fixes /\ keeps' = keeps /\ persistent' = persistent /\ trimLock' = trimLock
        /\ lrefs' = [lrefs EXCEPT ![b] = @ + 1]
        /\ "UNLOADING" \notin status[b] /\ "LOADING" \notin status[b]
    BY <1>4 DEF increfLogical, heaps, users, Stable, UNSTABLE
  <1>6. /\ lrefs' \in [Bats -> Nat] /\ lrefs'[b] = lrefs[b] + 1 /\ lrefs[b] \in Nat
        /\ \A c \in Bats : c # b => lrefs'[c] = lrefs[c]
    BY <1>0, <1>5 DEF TypeOK
  <1>7. TypeOK' /\ Shaped'
    BY <1>0, <1>1, <1>5, <1>6 DEF Moves, TypeOK, ListsOK, Steps
  <1>8. Recounted(t, b, b)
    <2>1. ~OwesKeep(t, b) /\ OwesKeep(t, b)' /\ (OwesFix(t, b)' <=> OwesFix(t, b)) /\ ~Has("unshare", t, b)'
      BY <1>1, <1>2, <1>3, Constants DEF Drops, OwesKeep, OwesFix
    <2>2. b \notin JoinedTo(b) /\ b \notin JoinedTo(b)' /\ b \notin ViewsOf(b) /\ b \notin ViewsOf(b)'
      BY Constants DEF JoinedTo, ViewsOf
    <2>3. share[b] \in Nat /\ keeps[b] \in Nat /\ refs[b] \in Nat
      BY <1>0 DEF TypeOK
    <2> QED BY <1>3, <1>5, <1>6, <2>1, <2>2, <2>3 DEF Recounted, N
  <1>9. fixes'[t][b] \in {0, 1} /\ ~Has("use", t, b)'
    BY <1>0, <1>1, <1>2, <1>3, <1>5, Constants DEF Drops, Counters, FixesOnce
  <1>10. Counters' /\ \A w \in Views : Joined(w)' <=> Joined(w)
    BY <1>1, <1>2, <1>5, <1>6, <1>7, <1>8, <1>9, CountOne
  <1>11. Based'
    BY <1>0, <1>5, <1>10, BasedFrame
  <1>12. \A u \in Actors : \A c : SameSteps(u, c)
    BY <1>2 DEF Drops, SameSteps, Window, Telling
  <1>13. \A c \in Bats : keeps[c] \in Nat /\ keeps'[c] \in Nat /\ keeps'[c] >= keeps[c]
    BY <1>0, <1>5 DEF TypeOK
  <1>14. \A c \in Bats : c # b => Same(c)
    BY <1>5, <1>6, <1>12, <1>13 DEF Same
  <1>15. Entry(b)'
    BY <1>0, <1>4, <1>5, <1>6, <1>12, Raised
  <1> QED BY <1>7, <1>10, <1>11, <1>14, <1>15, Around

\* The fix that incref counted is the caller's when BATdescriptor returns.
LEMMA UseKeeps ==
    ASSUME Inv, NEW t \in Actors, NEW b \in Bats, Use(t, b)
    PROVE  Inv'
  <1>0. TypeOK /\ ListsOK /\ Counters /\ Based /\ Entry(b) /\ \A u \in Threads : u \in Actors
    BY Facts, Constants
  <1>1. t \in Threads /\ Moves(t, {Step("use", b)} \cup {}, {})
    BY <1>0, UseLists
  <1>2. Drops(t, "use", b)
    BY <1>1, Dropped
  <1>3. /\ Has("use", t, b) /\ \A o, c : Has(o, t, c) => o = "use" /\ c = b
        /\ \A f, c : ~Clears(f, t, c) /\ ~Holds(f, t, c)
    BY <1>1, StepsEqual DEF Moves, Has, Clears, Holds
  <1>4. /\ status' = status /\ refs' = refs /\ lrefs' = lrefs /\ share' = share /\ desc' = desc /\ cache' = cache
        /\ dirty' = dirty /\ mem' = mem /\ disk' = disk /\ val' = val /\ base' = base
        /\ keeps' = keeps /\ persistent' = persistent /\ trimLock' = trimLock
        /\ fixes' = [fixes EXCEPT ![t][b] = @ + 1]
    BY DEF Use, bbp, heaps
  <1>5. /\ fixes' \in [Threads -> [Bats -> Nat]] /\ fixes[t][b] = 0 /\ fixes'[t][b] = 1
        /\ \A u \in Threads : \A c \in Bats : (u # t \/ c # b) => fixes'[u][c] = fixes[u][c]
    BY <1>0, <1>1, <1>3, <1>4 DEF TypeOK, Counters, FixesOnce
  <1>6. TypeOK' /\ Shaped'
    BY <1>0, <1>1, <1>4, <1>5 DEF Moves, TypeOK, ListsOK, Steps
  <1>7. Recounted(t, b, b)
    <2>1. OwesFix(t, b) /\ ~OwesFix(t, b)' /\ (OwesKeep(t, b)' <=> OwesKeep(t, b)) /\ ~Has("unshare", t, b) /\ ~Has("unshare", t, b)'
      BY <1>0, <1>1, <1>2, <1>3 DEF Drops, OwesKeep, OwesFix
    <2>2. b \notin JoinedTo(b) /\ b \notin JoinedTo(b)' /\ b \notin ViewsOf(b) /\ b \notin ViewsOf(b)'
      BY Constants DEF JoinedTo, ViewsOf
    <2>3. lrefs[b] \in Nat /\ keeps[b] \in Nat /\ refs[b] \in Nat /\ share[b] \in Nat
      BY <1>0 DEF TypeOK
    <2> QED BY <1>4, <1>5, <2>1, <2>2, <2>3 DEF Recounted, N
  <1>8. ~Has("use", t, b)'
    BY <1>0, <1>1, <1>2 DEF Drops
  <1>9. Counters' /\ \A w \in Views : Joined(w)' <=> Joined(w)
    BY <1>1, <1>2, <1>4, <1>5, <1>6, <1>7, <1>8, CountOne
  <1>10. Based'
    BY <1>0, <1>4, <1>9, BasedFrame
  <1>11. \A u \in Actors : \A c : c # b => SameSteps(u, c)
    BY <1>2, DropSame
  <1>12. \A c \in Bats : keeps[c] \in Nat /\ keeps'[c] \in Nat /\ keeps'[c] >= keeps[c]
    BY <1>0, <1>4 DEF TypeOK
  <1>13. \A c \in Bats : c # b => Same(c)
    BY <1>4, <1>5, <1>11, <1>12 DEF Same
  <1>14. cache[b]
    <2>1. Opened(t, b)
      BY <1>3 DEF Opened, Window
    <2> QED BY <1>0, <1>1, <2>1 DEF Entry, Needed
  <1>15. Entry(b)'
    <2>1. \A u \in Actors : /\ \A o \in Telling : o # "use" => (Has(o, u, b)' <=> Has(o, u, b))
                            /\ \A f : (Clears(f, u, b)' <=> Clears(f, u, b)) /\ (Holds(f, u, b)' <=> Holds(f, u, b))
                            /\ Writes(u, b)' <=> Writes(u, b)
                            /\ Serves(u, b)' <=> Serves(u, b)
                            /\ u # t => (Window(u, b)' <=> Window(u, b))
      BY <1>2 DEF Drops, Window
    <2>2. \A u \in Actors : /\ Unloads(u, b)' <=> Unloads(u, b)
                            /\ Doomed(u, b)' <=> Doomed(u, b)
                            /\ Frees(u, b)' <=> Frees(u, b)
                            /\ Loads(u, b)' <=> Loads(u, b)
                            /\ Late(u, b)' <=> Late(u, b)
      BY <1>4, <2>1 DEF Unloads, Doomed, Frees, Loads, Late, Saves, Telling
    <2>3. \A u \in Actors : OnlySaves(u, b)' => OnlySaves(u, b)
      <3>1. ~OnlySaves(t, b)'
        BY <1>3, <2>1 DEF OnlySaves, Writes, Telling
      <3>2. \A u \in Actors : u # t => (OnlySaves(u, b)' => OnlySaves(u, b))
        BY <1>4, <2>1, <2>2 DEF OnlySaves, Telling
      <3> QED BY <3>1, <3>2
    <2>4. Eased(b)
      BY <1>4, <1>14, <2>1, <2>2 DEF Eased, Telling
    <2>5. \A u \in Actors : Has("spin", u, b)' /\ b \in Stored /\ dirty[b] => "SAVING" \in status'[b]
      BY <1>0, <1>4, <2>1 DEF Entry, Heap, Spinning, Telling
    <2>6. \A u \in Threads : fixes[u][b] > 0 => fixes'[u][b] > 0
      BY <1>5
    <2>7. Lasting(b)
      BY <1>4, <2>2, <2>3, <2>4, <2>5, <2>6 DEF Lasting
    <2> QED BY <1>0, <2>7, LastingStay
  <1> QED BY <1>6, <1>9, <1>10, <1>13, <1>15, Around

----------------------------------------------------------------------------
(***************************************************************************)
(* Calls                                                                   *)
(***************************************************************************)
\* A call of t that is counted for b alone.
LEMMA CallOne ==
    \A t \in Threads : \A b \in Bats : \A Y :
        /\ Inv /\ TypeOK' /\ Moves(t, {}, Y) /\ (\A y \in Y : y.b = b /\ y.op # "base")
        /\ refs' = refs /\ lrefs' = lrefs /\ share' = share /\ desc' = desc /\ persistent' = persistent
        /\ \A u \in Threads : \A c \in Bats : (u # t \/ c # b) => fixes'[u][c] = fixes[u][c]
        /\ \A c \in Bats : c # b => keeps'[c] = keeps[c]
        /\ Recounted(t, b, b) /\ fixes'[t][b] \in {0, 1} /\ (Has("use", t, b)' => fixes'[t][b] = 0)
        => /\ Counters' /\ \A w \in Views : Joined(w)' <=> Joined(w)
           /\ \A u \in Actors : \A c : c # b \/ u # t => SameSteps(u, c)
           /\ \A u \in Actors : \A c : Serves(u, c)' <=> Serves(u, c)
  <1> SUFFICES ASSUME NEW t \in Threads, NEW b \in Bats, NEW Y, Inv, TypeOK', Moves(t, {}, Y),
                      \A y \in Y : y.b = b /\ y.op # "base",
                      refs' = refs, lrefs' = lrefs, share' = share, desc' = desc, persistent' = persistent,
                      \A u \in Threads : \A c \in Bats : (u # t \/ c # b) => fixes'[u][c] = fixes[u][c],
                      \A c \in Bats : c # b => keeps'[c] = keeps[c],
                      Recounted(t, b, b), fixes'[t][b] \in {0, 1}, Has("use", t, b)' => fixes'[t][b] = 0
               PROVE  /\ Counters' /\ \A w \in Views : Joined(w)' <=> Joined(w)
                      /\ \A u \in Actors : \A c : c # b \/ u # t => SameSteps(u, c)
                      /\ \A u \in Actors : \A c : Serves(u, c)' <=> Serves(u, c)
    OBVIOUS
  <1>0. TypeOK /\ Counters /\ t \in Actors /\ \A u \in Threads : u \in Actors
    BY Facts, Constants
  <1> DEFINE x == Step("call", b)
  <1>1. x.b = b /\ x.op # "base"
    BY StepParts
  <1> HIDE DEF x
  <1>2. Table(t, x, Y) /\ \A o, c : ~Has(o, t, c)
    BY <1>0, Calling
  <1>3. /\ \A u \in Actors : \A c : c # b \/ u # t => SameSteps(u, c)
        /\ \A u \in Actors : \A c : Serves(u, c)' <=> Serves(u, c)
    BY <1>0, <1>1, <1>2, TableSame
  <1>4. \A u \in Actors : \A o, c : (u # t \/ c # b) => (Has(o, u, c)' <=> Has(o, u, c))
    <2>1. \A o, c : (c # b => Step(o, c) \notin Y) /\ (x = Step(o, c) => c = b)
      BY <1>1, StepParts
    <2> QED BY <1>2, <2>1 DEF Table
  <1>5. \A w \in Views : Joined(w)' <=> Joined(w)
    <2>1. \A u \in Threads : u # t => \A w \in Views : Joins(u, w)' <=> Joins(u, w)
      BY <1>0, <1>4 DEF Joins
    <2>2. \A w \in Views : ~Joins(t, w) /\ ~Joins(t, w)'
      <3>1. \A w \in Views : Step("base", w) \notin Y
        BY StepParts
      <3>2. \A w \in Views : ~Has("base", t, w)'
        BY <1>0, <1>2, <3>1 DEF Table
      <3> QED BY <1>2, <3>2 DEF Joins
    <2> QED BY <2>1, <2>2 DEF Joined
  <1>6. Counters'
    BY <1>0, <1>4, <1>5, CountAt
  <1> QED BY <1>3, <1>5, <1>6

\* An entry whose users change, while nobody saves it under a fix that goes.
LEMMA Passed ==
    \A b \in Bats :
        /\ Entry(b)
        /\ status' = status /\ refs' = refs /\ lrefs' = lrefs /\ desc' = desc /\ cache' = cache
        /\ dirty' = dirty /\ mem' = mem /\ disk' = disk /\ val' = val /\ base' = base /\ persistent' = persistent
        /\ \A u \in Actors : SameSteps(u, b)
        /\ \A u \in Threads : fixes'[u][b] > 0 => fixes[u][b] > 0
        /\ \A u \in Threads : OnlySaves(u, b) /\ fixes[u][b] > 0 => fixes'[u][b] > 0
        /\ \A u \in Threads : Has("incref", u, b) => keeps'[b] = keeps[b]
        => Entry(b)'
  <1> SUFFICES ASSUME NEW b \in Bats, Entry(b),
                      status' = status, refs' = refs, lrefs' = lrefs, desc' = desc, cache' = cache,
                      dirty' = dirty, mem' = mem, disk' = disk, val' = val, base' = base, persistent' = persistent,
                      \A u \in Actors : SameSteps(u, b),
                      \A u \in Threads : fixes'[u][b] > 0 => fixes[u][b] > 0,
                      \A u \in Threads : OnlySaves(u, b) /\ fixes[u][b] > 0 => fixes'[u][b] > 0,
                      \A u \in Threads : Has("incref", u, b) => keeps'[b] = keeps[b]
               PROVE  Entry(b)'
    OBVIOUS
  <1>0. \A u \in Threads : u \in Actors
    BY Constants
  <1>1. \A u \in Actors : /\ Unloads(u, b)' <=> Unloads(u, b)
                          /\ Doomed(u, b)' <=> Doomed(u, b)
                          /\ Frees(u, b)' <=> Frees(u, b)
                          /\ Loads(u, b)' <=> Loads(u, b)
                          /\ Late(u, b)' <=> Late(u, b)
                          /\ OnlySaves(u, b)' <=> OnlySaves(u, b)
                          /\ Opened(u, b)' <=> Opened(u, b)
    BY DEF SameSteps, Telling, Unloads, Doomed, Frees, Loads, Late, Saves, OnlySaves, Opened
  <1>2. /\ Exist(b)' /\ Flagged(b)' /\ Written(b)' /\ Unloading(b)' /\ Loading(b)'
    <2>1. Exist(b)' /\ Flagged(b)'
      BY <1>0, <1>1 DEF SameSteps, Telling, Entry, Exist, Flagged
    <2>2. Written(b)' /\ Unloading(b)'
      BY <1>0, <1>1 DEF SameSteps, Telling, Entry, Written, Unloading
    <2>3. Loading(b)'
      BY <1>0, <1>1 DEF SameSteps, Telling, Entry, Loading
    <2> QED BY <2>1, <2>2, <2>3
  <1>3. Begun(b)' /\ Needed(b)'
    <2>1. Begun(b)'
      BY <1>0 DEF SameSteps, Telling, Entry, Begun
    <2>2. Needed(b)'
      BY <1>0, <1>1 DEF Entry, Needed
    <2> QED BY <2>1, <2>2
  <1>4. Heap(b)'
    BY <1>1 DEF SameSteps, Telling, Entry, Heap, Clean, Spinning, Saving, Contents
  <1> QED BY <1>2, <1>3, <1>4 DEF Entry

\* A fix of the caller is given back, by BBPkeepref once it has counted a
\* logical reference.
LEMMA BBPunfixKeeps ==
    ASSUME Inv, NEW t \in Threads, NEW b \in Bats, BBPunfix(t, b) \/ BBPkeepref(t, b)
    PROVE  Inv'
  <1>0. TypeOK /\ ListsOK /\ Counters /\ Based /\ Entry(b) /\ t \in Actors /\ \A u \in Threads : u \in Actors
    BY Facts, Constants
  <1>1. PICK Y : /\ Moves(t, {}, Y)
                 /\ Y = {Step("decref", b)} \/ Y = {Step("increfl", b), Step("kept", b), Step("decref", b)}
    BY <1>0, CallLists
  <1>2. /\ \A y \in Y : y.b = b /\ y.op \in {"increfl", "kept", "decref"}
        /\ \A o, c : Step(o, c) \in Y => c = b /\ o \in {"increfl", "kept", "decref"}
        /\ \A f, c : Off(c, f) \notin Y /\ Write(c, f) \notin Y
        /\ Step("decref", b) \in Y
        /\ Step("kept", b) \in Y => Step("increfl", b) \in Y
    BY <1>1, StepParts, StepsEqual
  <1>3. /\ \A o, c : ~Has(o, t, c) /\ (Has(o, t, c)' <=> Step(o, c) \in Y)
        /\ \A f, c : ~Clears(f, t, c) /\ ~Holds(f, t, c) /\ ~Clears(f, t, c)' /\ ~Holds(f, t, c)'
        /\ \A c : ~Writes(t, c) /\ ~Writes(t, c)'
    <2>1. \A o, c : ~Has(o, t, c) /\ (Has(o, t, c)' <=> Step(o, c) \in Y)
      BY <1>1 DEF Moves, Has
    <2>2. \A f, c : ~Clears(f, t, c) /\ ~Holds(f, t, c) /\ ~Clears(f, t, c)' /\ ~Holds(f, t, c)'
      BY <1>1, <1>2 DEF Moves, Clears, Holds
    <2> QED BY <2>1, <2>2 DEF Writes
  <1>4. /\ status' = status /\ refs' = refs /\ lrefs' = lrefs /\ share' = share /\ desc' = desc /\ cache' = cache
        /\ dirty' = dirty /\ mem' = mem /\ disk' = disk /\ val' = val /\ base' = base
        /\ keeps' = keeps /\ persistent' = persistent /\ trimLock' = trimLock
        /\ fixes' = [fixes EXCEPT ![t][b] = @ - 1] /\ fixes[t][b] > 0
    BY DEF BBPunfix, BBPkeepref, bbp, heaps
  <1>5. /\ fixes' \in [Threads -> [Bats -> Nat]] /\ fixes[t][b] = 1 /\ fixes'[t][b] = 0
        /\ \A u \in Threads : \A c \in Bats : (u # t \/ c # b) => fixes'[u][c] = fixes[u][c]
    <2>1. fixes \in [Threads -> [Bats -> Nat]] /\ fixes[t][b] = 1
      BY <1>0, <1>4 DEF TypeOK, Counters, FixesOnce
    <2>2. fixes[t][b] - 1 = 0
      BY <2>1
    <2> QED BY <1>4, <2>1, <2>2
  <1>6. TypeOK' /\ Shaped'
    BY <1>0, <1>1, <1>4, <1>5 DEF Moves, TypeOK, ListsOK, Steps
  <1>7. Recounted(t, b, b)
    <2>1. ~OwesFix(t, b) /\ OwesFix(t, b)' /\ ~OwesKeep(t, b) /\ ~OwesKeep(t, b)' /\ ~Has("unshare", t, b) /\ ~Has("unshare", t, b)'
      BY <1>2, <1>3 DEF OwesKeep, OwesFix
    <2>2. b \notin JoinedTo(b) /\ b \notin JoinedTo(b)' /\ b \notin ViewsOf(b) /\ b \notin ViewsOf(b)'
      BY Constants DEF JoinedTo, ViewsOf
    <2>3. lrefs[b] \in Nat /\ keeps[b] \in Nat /\ refs[b] \in Nat /\ share[b] \in Nat
      BY <1>0 DEF TypeOK
    <2> QED BY <1>4, <1>5, <2>1, <2>2, <2>3 DEF Recounted, N
  <1>8. ~Has("use", t, b)'
    BY <1>2, <1>3
  <1>9. /\ Counters' /\ \A w \in Views : Joined(w)' <=> Joined(w)
        /\ \A u \in Actors : \A c : c # b \/ u # t => SameSteps(u, c)
        /\ \A u \in Actors : \A c : Serves(u, c)' <=> Serves(u, c)
    <2>1. \A y \in Y : y.b = b /\ y.op # "base"
      BY <1>2
    <2> QED BY <1>1, <1>4, <1>5, <1>6, <1>7, <1>8, <2>1, CallOne
  <1>10. Based'
    BY <1>0, <1>4, <1>9, BasedFrame
  <1>11. SameSteps(t, b)
    <2>1. \A o \in Telling : Step(o, b) \notin Y
      BY <1>2 DEF Telling
    <2>2. Step("use", b) \notin Y
      BY <1>2
    <2> QED BY <1>0, <1>3, <1>9, <2>1, <2>2 DEF SameSteps, Window
  <1>12. \A c \in Bats : keeps[c] \in Nat /\ keeps'[c] \in Nat /\ keeps'[c] >= keeps[c]
    BY <1>0, <1>4 DEF TypeOK
  <1>13. \A c \in Bats : c # b => Same(c)
    BY <1>4, <1>5, <1>9, <1>12 DEF Same
  <1>14. Entry(b)'
    <2>1. \A u \in Actors : SameSteps(u, b)
      BY <1>9, <1>11
    <2>2. ~OnlySaves(t, b)
      BY <1>3 DEF OnlySaves
    <2>3. \A u \in Threads : fixes'[u][b] > 0 => fixes[u][b] > 0
      BY <1>5
    <2>4. \A u \in Threads : OnlySaves(u, b) /\ fixes[u][b] > 0 => fixes'[u][b] > 0
      BY <1>5, <2>2
    <2> QED BY <1>0, <1>4, <2>1, <2>3, <2>4, Passed
  <1> QED BY <1>6, <1>9, <1>10, <1>13, <1>14, Around

\* A logical reference of a variable or of the catalog is given back.
LEMMA ReleaseKeeps ==
    ASSUME Inv, NEW t \in Threads, NEW b \in Bats, Release(t, b)
    PROVE  Inv'
  <1>0. TypeOK /\ ListsOK /\ Counters /\ Based /\ Entry(b) /\ t \in Actors /\ \A u \in Threads : u \in Actors
    BY Facts, Constants
  <1> DEFINE Y == {Step("decrefl", b)}
  <1>1. Moves(t, {}, Y)
    BY <1>0, CallLists
  <1>2. /\ \A y \in Y : y.b = b /\ y.op = "decrefl"
        /\ \A o, c : Step(o, c) \in Y <=> c = b /\ o = "decrefl"
        /\ \A f, c : Off(c, f) \notin Y /\ Write(c, f) \notin Y
    BY StepParts, StepsEqual
  <1> HIDE DEF Y
  <1>3. /\ \A o, c : ~Has(o, t, c) /\ (Has(o, t, c)' <=> Step(o, c) \in Y)
        /\ \A f, c : ~Clears(f, t, c) /\ ~Holds(f, t, c) /\ ~Clears(f, t, c)' /\ ~Holds(f, t, c)'
        /\ \A c : ~Writes(t, c) /\ ~Writes(t, c)'
    <2>1. \A o, c : ~Has(o, t, c) /\ (Has(o, t, c)' <=> Step(o, c) \in Y)
      BY <1>1 DEF Moves, Has
    <2>2. \A f, c : ~Clears(f, t, c) /\ ~Holds(f, t, c) /\ ~Clears(f, t, c)' /\ ~Holds(f, t, c)'
      BY <1>1, <1>2 DEF Moves, Clears, Holds
    <2> QED BY <2>1, <2>2 DEF Writes
  <1>4. /\ status' = status /\ refs' = refs /\ lrefs' = lrefs /\ share' = share /\ desc' = desc /\ cache' = cache
        /\ dirty' = dirty /\ mem' = mem /\ disk' = disk /\ val' = val /\ base' = base
        /\ fixes' = fixes /\ persistent' = persistent /\ trimLock' = trimLock
        /\ keeps' = [keeps EXCEPT ![b] = @ - 1] /\ keeps[b] > 0 /\ ~Begins(b)
    BY DEF Release, bbp, heaps
  <1>5. /\ keeps' \in [Bats -> Nat] /\ keeps[b] \in Nat /\ keeps'[b] = keeps[b] - 1
        /\ \A c \in Bats : c # b => keeps'[c] = keeps[c]
    <2>1. keeps \in [Bats -> Nat] /\ keeps[b] \in Nat
      BY <1>0 DEF TypeOK
    <2>2. keeps[b] - 1 \in Nat
      BY <1>4, <2>1
    <2> QED BY <1>4, <2>1, <2>2
  <1>6. TypeOK' /\ Shaped'
    BY <1>0, <1>1, <1>4, <1>5 DEF Moves, TypeOK, ListsOK, Steps
  <1>7. Recounted(t, b, b)
    <2>1. ~OwesFix(t, b) /\ ~OwesFix(t, b)' /\ ~OwesKeep(t, b) /\ OwesKeep(t, b)' /\ ~Has("unshare", t, b) /\ ~Has("unshare", t, b)'
      BY <1>2, <1>3 DEF OwesKeep, OwesFix
    <2>2. b \notin JoinedTo(b) /\ b \notin JoinedTo(b)' /\ b \notin ViewsOf(b) /\ b \notin ViewsOf(b)'
      BY Constants DEF JoinedTo, ViewsOf
    <2>3. lrefs[b] \in Nat /\ refs[b] \in Nat /\ share[b] \in Nat
      BY <1>0 DEF TypeOK
    <2> QED BY <1>4, <1>5, <2>1, <2>2, <2>3 DEF Recounted, N
  <1>8. fixes'[t][b] \in {0, 1} /\ ~Has("use", t, b)'
    BY <1>0, <1>2, <1>3, <1>4 DEF Counters, FixesOnce
  <1>9. /\ Counters' /\ \A w \in Views : Joined(w)' <=> Joined(w)
        /\ \A u \in Actors : \A c : c # b \/ u # t => SameSteps(u, c)
        /\ \A u \in Actors : \A c : Serves(u, c)' <=> Serves(u, c)
    <2>1. \A y \in Y : y.b = b /\ y.op # "base"
      BY <1>2
    <2> QED BY <1>1, <1>4, <1>5, <1>6, <1>7, <1>8, <2>1, CallOne
  <1>10. Based'
    BY <1>0, <1>4, <1>9, BasedFrame
  <1>11. SameSteps(t, b)
    <2>1. \A o \in Telling : Step(o, b) \notin Y
      BY <1>2 DEF Telling
    <2>2. Step("use", b) \notin Y
      BY <1>2
    <2> QED BY <1>0, <1>3, <1>9, <2>1, <2>2 DEF SameSteps, Window
  <1>12. \A c \in Bats : c # b => keeps'[c] >= keeps[c]
    BY <1>0, <1>5 DEF TypeOK
  <1>13. \A c \in Bats : c # b => Same(c)
    BY <1>4, <1>9, <1>12 DEF Same
  <1>14. \A u \in Threads : ~Has("incref", u, b)
    <2> SUFFICES ASSUME NEW u \in Threads, Has("incref", u, b) PROVE FALSE
      OBVIOUS
    <2>1. PICK i \in DOMAIN todo[u] : todo[u][i] = Step("incref", b)
      BY DEF Has, Todo, InList
    <2>2. todo[u][i].b = b /\ todo[u][i].op = "incref"
      BY <2>1, StepParts
    <2> QED BY <1>4, <2>2 DEF Begins
  <1>15. Entry(b)'
    <2>1. \A u \in Actors : SameSteps(u, b)
      BY <1>9, <1>11
    <2> QED BY <1>0, <1>4, <1>14, <2>1, Passed
  <1> QED BY <1>6, <1>9, <1>10, <1>13, <1>15, Around

\* BATdescriptor of a BAT that someone keeps begins with incref.
LEMMA BATdescriptorKeeps ==
    ASSUME Inv, NEW t \in Threads, NEW b \in Bats, BATdescriptor(t, b)
    PROVE  Inv'
  <1>0. TypeOK /\ ListsOK /\ Counters /\ Based /\ Entry(b) /\ t \in Actors /\ \A u \in Threads : u \in Actors
    BY Facts, Constants
  <1> DEFINE Y == {Step("incref", b), Step("desc", b), Step("use", b)}
  <1>1. Moves(t, {}, Y)
    BY <1>0, CallLists
  <1>2. /\ \A y \in Y : y.b = b /\ y.op # "base"
        /\ \A o, c : Step(o, c) \in Y <=> c = b /\ o \in {"incref", "desc", "use"}
        /\ \A f, c : Off(c, f) \notin Y /\ Write(c, f) \notin Y
    BY StepParts, StepsEqual
  <1> HIDE DEF Y
  <1>3. /\ \A o, c : ~Has(o, t, c) /\ (Has(o, t, c)' <=> Step(o, c) \in Y)
        /\ \A f, c : ~Clears(f, t, c) /\ ~Holds(f, t, c) /\ ~Clears(f, t, c)' /\ ~Holds(f, t, c)'
        /\ \A c : ~Writes(t, c) /\ ~Writes(t, c)'
    <2>1. \A o, c : ~Has(o, t, c) /\ (Has(o, t, c)' <=> Step(o, c) \in Y)
      BY <1>1 DEF Moves, Has
    <2>2. \A f, c : ~Clears(f, t, c) /\ ~Holds(f, t, c) /\ ~Clears(f, t, c)' /\ ~Holds(f, t, c)'
      BY <1>1, <1>2 DEF Moves, Clears, Holds
    <2> QED BY <2>1, <2>2 DEF Writes
  <1>4. /\ status' = status /\ refs' = refs /\ lrefs' = lrefs /\ share' = share /\ desc' = desc /\ cache' = cache
        /\ dirty' = dirty /\ mem' = mem /\ disk' = disk /\ val' = val /\ base' = base
        /\ fixes' = fixes /\ keeps' = keeps /\ persistent' = persistent /\ trimLock' = trimLock
        /\ desc[b] /\ fixes[t][b] = 0 /\ (b \in persistent \/ keeps[b] > 0)
    BY DEF BATdescriptor, bbp, heaps, users
  <1>5. TypeOK' /\ Shaped'
    BY <1>0, <1>1, <1>4 DEF Moves, TypeOK, ListsOK, Steps
  <1>6. Recounted(t, b, b)
    <2>1. ~OwesFix(t, b) /\ ~OwesFix(t, b)' /\ ~OwesKeep(t, b) /\ ~OwesKeep(t, b)' /\ ~Has("unshare", t, b) /\ ~Has("unshare", t, b)'
      BY <1>2, <1>3 DEF OwesKeep, OwesFix
    <2>2. b \notin JoinedTo(b) /\ b \notin JoinedTo(b)' /\ b \notin ViewsOf(b) /\ b \notin ViewsOf(b)'
      BY Constants DEF JoinedTo, ViewsOf
    <2> QED BY <1>4, <2>1, <2>2 DEF Recounted, N
  <1>7. /\ Counters' /\ \A w \in Views : Joined(w)' <=> Joined(w)
        /\ \A u \in Actors : \A c : c # b \/ u # t => SameSteps(u, c)
        /\ \A u \in Actors : \A c : Serves(u, c)' <=> Serves(u, c)
    BY <1>1, <1>2, <1>4, <1>5, <1>6, CallOne
  <1>8. Based'
    BY <1>0, <1>4, <1>7, BasedFrame
  <1>9. \A c \in Bats : keeps'[c] >= keeps[c]
    BY <1>0, <1>4 DEF TypeOK
  <1>10. \A c \in Bats : c # b => Same(c)
    BY <1>4, <1>7, <1>9 DEF Same
  <1>11. Entry(b)'
    <2>1. \A u \in Actors : /\ Unloads(u, b)' <=> Unloads(u, b)
                            /\ Doomed(u, b)' <=> Doomed(u, b)
                            /\ Frees(u, b)' <=> Frees(u, b)
                            /\ Loads(u, b)' <=> Loads(u, b)
                            /\ Late(u, b)' <=> Late(u, b)
                            /\ OnlySaves(u, b)' <=> OnlySaves(u, b)
                            /\ Opened(u, b)' => Opened(u, b)
      <3>1. \A u \in Actors : u # t =>
                            /\ Unloads(u, b)' <=> Unloads(u, b)
                            /\ Doomed(u, b)' <=> Doomed(u, b)
                            /\ Frees(u, b)' <=> Frees(u, b)
                            /\ Loads(u, b)' <=> Loads(u, b)
                            /\ Late(u, b)' <=> Late(u, b)
                            /\ OnlySaves(u, b)' <=> OnlySaves(u, b)
                            /\ Opened(u, b)' => Opened(u, b)
        BY <1>4, <1>7 DEF SameSteps, Telling, Unloads, Doomed, Frees, Loads, Late, Saves, OnlySaves, Opened
      <3>2. /\ ~Unloads(t, b) /\ ~Doomed(t, b) /\ ~Frees(t, b) /\ ~Loads(t, b) /\ ~Late(t, b) /\ ~OnlySaves(t, b)
            /\ ~Unloads(t, b)' /\ ~Doomed(t, b)' /\ ~Frees(t, b)' /\ ~Loads(t, b)' /\ ~Late(t, b)' /\ ~OnlySaves(t, b)'
            /\ ~Opened(t, b)'
        BY <1>2, <1>3 DEF Unloads, Doomed, Frees, Loads, Late, Saves, OnlySaves, Opened
      <3> QED BY <3>1, <3>2
    <2>2. /\ \A u \in Actors : \A o \in {"base", "unload", "destroy", "trim", "free", "spin"} : Has(o, u, b)' <=> Has(o, u, b)
          /\ \A u \in Actors : \A s : Holds(s, u, b)' => Holds(s, u, b)
      <3>1. \A o \in {"base", "unload", "destroy", "trim", "free", "spin"} : Has(o, t, b)' <=> Has(o, t, b)
        BY <1>2, <1>3
      <3>2. \A s : Holds(s, t, b)' <=> Holds(s, t, b)
        BY <1>3
      <3>3. \A u \in Actors : u # t => SameSteps(u, b)
        BY <1>7
      <3>4. \A u \in Actors : u # t => \A o \in {"base", "unload", "destroy", "trim", "free", "spin"} : Has(o, u, b)' <=> Has(o, u, b)
        BY <3>3 DEF SameSteps, Telling
      <3>5. \A u \in Actors : u # t => \A s : Holds(s, u, b)' <=> Holds(s, u, b)
        BY <3>3 DEF SameSteps
      <3>6. \A u \in Actors : \A o \in {"base", "unload", "destroy", "trim", "free", "spin"} : Has(o, u, b)' <=> Has(o, u, b)
        BY <3>1, <3>4
      <3>7. \A u \in Actors : \A s : Holds(s, u, b)' => Holds(s, u, b)
        BY <3>2, <3>5
      <3> QED BY <3>6, <3>7
    <2>3. Eased(b)
      BY <1>4, <2>1, <2>2 DEF Eased
    <2>4. Lasting(b)
      BY <1>0, <1>4, <2>1, <2>2, <2>3 DEF Lasting, Entry, Heap, Spinning
    <2> QED BY <1>0, <2>4, LastingStay
  <1> QED BY <1>5, <1>7, <1>8, <1>10, <1>11, Around

----------------------------------------------------------------------------
(***************************************************************************)
(* References given back                                                   *)
(***************************************************************************)
\* t marks an entry that nobody claims, to unload it if it is in memory.
Marking(t, b) ==
    /\ status'[b] = status[b] \cup {"UNLOADING"} /\ "UNLOADING" \notin status[b] /\ "LOADING" \notin status[b]
    /\ refs'[b] = 0 /\ desc[b] /\ desc'[b] = desc[b] /\ cache'[b] = cache[b]
    /\ b \in Views => lrefs'[b] = 0
    /\ dirty'[b] = dirty[b] /\ mem'[b] = mem[b] /\ disk'[b] = disk[b] /\ val'[b] = val[b]
    /\ keeps'[b] = keeps[b] /\ persistent' = persistent
    /\ \A u \in Threads : ~(fixes'[u][b] > 0)
    /\ \A u \in Actors :
          /\ ~Unloads(u, b) /\ ~Frees(u, b) /\ ~Doomed(u, b) /\ ~Writes(u, b) /\ ~OnlySaves(u, b) /\ ~Loads(u, b)
          /\ \A o \in Telling : o # "unload" => (Has(o, u, b)' <=> Has(o, u, b))
          /\ \A f : Clears(f, u, b)' <=> Clears(f, u, b)
          /\ Writes(u, b)' <=> Writes(u, b)
          /\ Serves(u, b)' <=> Serves(u, b)
          /\ Window(u, b)' <=> Window(u, b)
          /\ Has("unload", u, b)' <=> u = t /\ cache[b]

\* An entry that nobody claims may be marked UNLOADING.
LEMMA Marks ==
    \A t \in Actors : \A b \in Bats : Entry(b) /\ Marking(t, b) => Entry(b)'
  <1> SUFFICES ASSUME NEW t \in Actors, NEW b \in Bats, Entry(b), Marking(t, b) PROVE Entry(b)'
    OBVIOUS
  <1>0. \A u \in Threads : u \in Actors
    BY Constants
  <1>1. \A u \in Actors : /\ ~Frees(u, b)' /\ ~Loads(u, b)' /\ ~OnlySaves(u, b)' /\ ~Writes(u, b)'
                          /\ Late(u, b)' <=> Late(u, b)
                          /\ Opened(u, b)' <=> Opened(u, b)
    BY DEF Marking, Telling, Frees, Loads, OnlySaves, Late, Saves, Opened
  <1>2. \A u \in Actors : /\ Doomed(u, b)' <=> u = t /\ cache[b]
                          /\ Unloads(u, b)' => u = t /\ cache[b]
                          /\ \A o \in {"destroy", "trim", "free"} : ~Has(o, u, b)'
    BY <1>1 DEF Marking, Telling, Doomed, Unloads
  <1>3. Exist(b)' /\ Begun(b)'
    BY <1>0 DEF Marking, Telling, Entry, Exist, Begun
  <1>4. Flagged(b)'
    BY <1>0 DEF Marking, Entry, Flagged
  <1>5. Written(b)'
    BY <1>1 DEF Written, Writes
  <1>6. Unloading(b)'
    BY <1>2 DEF Marking, Unloading
  <1>7. Loading(b)'
    BY <1>0, <1>1 DEF Loading
  <1>8. Needed(b)'
    BY <1>0, <1>1 DEF Marking, Entry, Needed
  <1>9. Heap(b)'
    BY <1>1 DEF Marking, Telling, Entry, Heap, Clean, Spinning, Saving, Contents
  <1> QED BY <1>3, <1>4, <1>5, <1>6, <1>7, <1>8, <1>9 DEF Entry

\* decref(logical): without references b is marked, and then destroyed.
LEMMA decrefLogicalKeeps ==
    ASSUME Inv, NEW t \in Actors, NEW b \in Bats, decrefLogical(t, b)
    PROVE  Inv'
  <1>0. TypeOK /\ ListsOK /\ Counters /\ Based /\ Entry(b) /\ \A u \in Threads : u \in Actors
    BY Facts, Constants
  <1> DEFINE G == Goes(b, refs[b], lrefs[b] - 1)
             x == Step("decrefl", b)
             Y == IF G /\ cache[b] THEN {Step("unload", b)} ELSE {}
  <1>1. /\ refs' = refs /\ share' = share /\ desc' = desc /\ cache' = cache
        /\ dirty' = dirty /\ mem' = mem /\ disk' = disk /\ val' = val /\ base' = base
        /\ fixes' = fixes /\ keeps' = keeps /\ persistent' = persistent /\ trimLock' = trimLock
        /\ lrefs' = [lrefs EXCEPT ![b] = @ - 1]
        /\ status' = [status EXCEPT ![b] = IF G THEN status[b] \cup {"UNLOADING"} ELSE status[b]]
        /\ "UNLOADING" \notin status[b] /\ lrefs[b] > 0
    BY DEF decrefLogical, heaps, users, Marked
  <1>2. t \in Threads /\ (Step("decref", b) \in Todo(t) => ~G)
    <2>1. t \in Threads
      <3>1. Ready(t, "decrefl", b)
        BY DEF decrefLogical
      <3>2. t # Trimmer
        BY <1>0, <3>1, Popped, Following
      <3> QED BY <3>2, Constants
    <2>2. Step("decref", b) \in Todo(t) => refs[b] >= 1
      BY <1>0, <2>1, RefsBounds DEF OwesFix, Has, Counters
    <2> QED BY <1>0, <2>1, <2>2 DEF Goes, Stays, TypeOK
  <1>3. PICK K : /\ K = {} \/ K = {Step("decref", b)}
                 /\ Moves(t, {x} \cup K, Y \cup K)
    <2>1. PICK K : /\ K = {} \/ K = {Step("decref", b)}
                   /\ IF G /\ cache[b] THEN K = {} /\ Moves(t, {x}, {Step("unload", b)})
                                       ELSE Moves(t, {x} \cup K, K)
      BY <1>0, <1>2, decreflLists
    <2>2. {x} \cup {} = {x} /\ {Step("unload", b)} \cup {} = {Step("unload", b)} /\ {} \cup K = K
      OBVIOUS
    <2> HIDE DEF x, G
    <2>3. CASE G /\ cache[b]
      BY <2>1, <2>2, <2>3
    <2>4. CASE ~(G /\ cache[b])
      BY <2>1, <2>2, <2>4
    <2> QED BY <2>3, <2>4
  <1>4. /\ \A o, c : (x = Step(o, c) <=> o = "decrefl" /\ c = b) /\ \A f : x # Off(c, f) /\ x # Write(c, f)
        /\ \A o, c : Step(o, c) \in Y <=> o = "unload" /\ c = b /\ G /\ cache[b]
        /\ \A f, c : Off(c, f) \notin Y /\ Write(c, f) \notin Y
        /\ x \notin K /\ x \notin Y
        /\ x.b = b /\ x.op = "decrefl" /\ \A y \in Y : y.b = b /\ y.op = "unload"
    <2> HIDE DEF G
    <2>1. \A o, c : (x = Step(o, c) <=> o = "decrefl" /\ c = b) /\ \A f : x # Off(c, f) /\ x # Write(c, f)
      BY StepsEqual
    <2>2. /\ \A o, c : Step(o, c) \in Y <=> o = "unload" /\ c = b /\ G /\ cache[b]
          /\ \A f, c : Off(c, f) \notin Y /\ Write(c, f) \notin Y
      BY StepsEqual
    <2>3. x \notin K /\ x \notin Y
      BY <1>3, StepsEqual
    <2>4. x.b = b /\ x.op = "decrefl" /\ \A y \in Y : y.b = b /\ y.op = "unload"
      BY StepParts
    <2> QED BY <2>1, <2>2, <2>3, <2>4
  <1>5. Table(t, x, Y)
    <2> HIDE DEF x, Y
    <2> QED BY <1>3, <1>4, Replace
  <1>6. /\ Has("decrefl", t, b)
        /\ \A o, c : Has(o, t, c) => o \in {"decrefl", "decref"} /\ c = b
    <2>1. Todo(t) = {x} \cup K
      BY <1>3 DEF Moves
    <2>2. \A o, c : Step(o, c) \in {x} \cup K => o \in {"decrefl", "decref"} /\ c = b
      BY <1>3, StepsEqual
    <2> QED BY <2>1, <2>2 DEF Has
  <1> HIDE DEF x, Y
  <1>7. /\ \A u \in Actors : \A c : c # b \/ u # t => SameSteps(u, c)
        /\ \A u \in Actors : \A c : Serves(u, c)' <=> Serves(u, c)
    BY <1>4, <1>5, TableSame
  <1>8. /\ \A u \in Actors : \A o, c : (u # t \/ c # b \/ o \notin {"decrefl", "unload"}) => (Has(o, u, c)' <=> Has(o, u, c))
        /\ ~Has("decrefl", t, b)' /\ (Has("unload", t, b)' <=> G /\ cache[b])
        /\ \A u \in Actors : \A f, c : (Clears(f, u, c)' <=> Clears(f, u, c)) /\ (Holds(f, u, c)' <=> Holds(f, u, c))
    <2> HIDE DEF G
    <2>1. \A u \in Actors : \A o, c : (u # t \/ c # b \/ o \notin {"decrefl", "unload"}) => (Has(o, u, c)' <=> Has(o, u, c))
      BY <1>4, <1>5 DEF Table
    <2>2. ~Has("decrefl", t, b)' /\ (Has("unload", t, b)' <=> Has("unload", t, b) \/ (G /\ cache[b]))
      BY <1>0, <1>2, <1>4, <1>5 DEF Table
    <2>3. \A f, c : x # Off(c, f) /\ x # Write(c, f) /\ Off(c, f) \notin Y /\ Write(c, f) \notin Y
      BY <1>4
    <2>4. \A u \in Actors : \A f, c : Clears(f, u, c)' <=> Clears(f, u, c)
      BY <1>5, <2>3 DEF Table
    <2>5. \A u \in Actors : \A f, c : Holds(f, u, c)' <=> Holds(f, u, c)
      BY <1>5, <2>3 DEF Table
    <2> QED BY <1>6, <2>1, <2>2, <2>4, <2>5
  <1>9. \A u \in Actors : \A c : (Writes(u, c)' <=> Writes(u, c)) /\ (Window(u, c)' <=> Window(u, c))
    BY <1>7, <1>8 DEF Writes, Window
  <1>10. /\ lrefs[b] \in Nat /\ lrefs'[b] = lrefs[b] - 1 /\ lrefs' \in [Bats -> Nat]
         /\ \A c \in Bats : c # b => lrefs'[c] = lrefs[c] /\ status'[c] = status[c]
         /\ status'[b] = (IF G THEN status[b] \cup {"UNLOADING"} ELSE status[b])
         /\ status' \in [Bats -> SUBSET Flags]
    <2>1. lrefs \in [Bats -> Nat] /\ lrefs[b] \in Nat /\ status \in [Bats -> SUBSET Flags]
      BY <1>0 DEF TypeOK
    <2>2. lrefs[b] - 1 \in Nat
      BY <1>1, <2>1
    <2>3. status[b] \cup {"UNLOADING"} \in SUBSET Flags /\ status[b] \in SUBSET Flags
      BY <2>1 DEF Flags, WAITING
    <2> HIDE DEF G
    <2> QED BY <1>1, <2>1, <2>2, <2>3
  <1>11. TypeOK' /\ Shaped'
    BY <1>0, <1>1, <1>3, <1>10 DEF Moves, TypeOK, ListsOK, Steps
  <1>12. \A w \in Views : Joined(w)' <=> Joined(w)
    <2>1. \A u \in Threads : \A w \in Views : Joins(u, w)' <=> Joins(u, w)
      BY <1>0, <1>8 DEF Joins
    <2> QED BY <1>1, <2>1 DEF Joined
  <1>13. Recounted(t, b, b)
    <2>1. OwesKeep(t, b) /\ ~OwesKeep(t, b)'
      BY <1>0, <1>2, <1>6, <1>8 DEF OwesKeep
    <2>2. (OwesFix(t, b)' <=> OwesFix(t, b)) /\ (Has("unshare", t, b)' <=> Has("unshare", t, b))
      BY <1>0, <1>2, <1>8 DEF OwesFix
    <2>3. b \notin JoinedTo(b) /\ b \notin JoinedTo(b)' /\ b \notin ViewsOf(b) /\ b \notin ViewsOf(b)'
      BY Constants DEF JoinedTo, ViewsOf
    <2>4. keeps[b] \in Nat /\ refs[b] \in Nat /\ share[b] \in Nat
      BY <1>0 DEF TypeOK
    <2> QED BY <1>1, <1>10, <2>1, <2>2, <2>3, <2>4 DEF Recounted, N
  <1>14. Counters'
    <2>1. \A u \in Threads : \A c \in Bats : (u # t \/ c # b) => \A o \in Counted : Has(o, u, c)' <=> Has(o, u, c)
      BY <1>0, <1>8
    <2>2. fixes'[t][b] \in {0, 1} /\ ~Has("use", t, b)'
      BY <1>0, <1>1, <1>2, <1>6, <1>8 DEF Counters, FixesOnce
    <2> QED BY <1>0, <1>1, <1>2, <1>10, <1>11, <1>12, <1>13, <2>1, <2>2, CountAt
  <1>15. Based'
    <2>1. \A v \in Views : "LOADING" \in status[v] => "LOADING" \in status'[v]
      BY <1>10, Constants
    <2> QED BY <1>0, <1>1, <1>12, <2>1, BasedFrame
  <1>16. \A c \in Bats : c # b => Same(c)
    <2>1. \A c \in Bats : keeps'[c] >= keeps[c]
      BY <1>0, <1>1 DEF TypeOK
    <2> QED BY <1>1, <1>7, <1>10, <2>1 DEF Same
  <1>17. desc[b] /\ refs[b] \in Nat
    BY <1>0, <1>1, <1>10 DEF Entry, Exist, TypeOK
  <1>18. CASE ~G
    <2>1. \A u \in Actors : SameSteps(u, b)
      <3>1. SameSteps(t, b)
        BY <1>0, <1>2, <1>6, <1>7, <1>8, <1>9, <1>18 DEF SameSteps, Telling
      <3> QED BY <1>7, <3>1
    <2>2. cache[b] => refs'[b] > 0 \/ lrefs'[b] > 0
      BY <1>1, <1>10, <1>17, <1>18 DEF Goes, Stays
    <2>3. status'[b] = status[b]
      BY <1>10, <1>18
    <2>5. Entry(b)'
      BY <1>0, <1>1, <1>17, <2>1, <2>2, <2>3, Raised
    <2> QED BY <1>11, <1>14, <1>15, <1>16, <2>5, Around
  <1>19. CASE G
    <2>1. refs[b] = 0
      BY <1>17, <1>19 DEF Goes, Stays
    <2>2. \A u \in Actors : /\ ~Unloads(u, b) /\ ~Frees(u, b) /\ ~Doomed(u, b)
                            /\ ~Writes(u, b) /\ ~OnlySaves(u, b) /\ ~Loads(u, b)
      BY <1>1, <2>1, Idle
    <2>3. "LOADING" \notin status[b]
      BY <1>0, <2>2 DEF Entry, Flagged
    <2>4. b \in Views => lrefs'[b] = 0
      BY <1>10, <1>19 DEF Goes, Stays, BATdirty, IsView
    <2>5. \A u \in Threads : ~(fixes'[u][b] > 0)
      BY <1>1, <2>1, Idle
    <2>6. Marking(t, b)
      <3> HIDE DEF G
      <3>1. \A u \in Actors : /\ \A o \in Telling : o # "unload" => (Has(o, u, b)' <=> Has(o, u, b))
                              /\ Has("unload", u, b)' <=> u = t /\ cache[b]
        BY <1>8, <1>19, <2>2 DEF Telling, Doomed
      <3> QED BY <1>1, <1>7, <1>8, <1>9, <1>10, <1>17, <1>19, <2>1, <2>2, <2>3, <2>4, <2>5, <3>1 DEF Marking
    <2> QED BY <1>0, <1>11, <1>14, <1>15, <1>16, <2>6, Marks, Around
  <1> QED BY <1>18, <1>19

\* decref: without fixes b is marked, and then unloaded or destroyed; a view
\* unfixes its parent.
LEMMA decrefPhysicalKeeps ==
    ASSUME Inv, NEW t \in Actors, NEW b \in Bats, decrefPhysical(t, b)
    PROVE  Inv'
  <1>0. TypeOK /\ ListsOK /\ Counters /\ Based /\ Entry(b) /\ \A u \in Threads : u \in Actors
    BY Facts, Constants
  <1> DEFINE G == Goes(b, refs[b] - 1, lrefs[b])
             L == LastOfView(b)
             x == Step("decref", b)
             Y == UnloadSet(b, refs[b] - 1, lrefs[b]) \cup ParentSet(b)
  <1>1. /\ lrefs' = lrefs /\ share' = share /\ desc' = desc /\ cache' = cache
        /\ dirty' = dirty /\ mem' = mem /\ disk' = disk /\ val' = val
        /\ fixes' = fixes /\ keeps' = keeps /\ persistent' = persistent /\ trimLock' = trimLock
        /\ refs' = [refs EXCEPT ![b] = @ - 1]
        /\ base' = IF L THEN [base EXCEPT ![b] = Relative(b)] ELSE base
        /\ status' = [status EXCEPT ![b] = IF G THEN status[b] \cup {"UNLOADING"} ELSE status[b]]
        /\ "UNLOADING" \notin status[b] /\ refs[b] > 0
    BY DEF decrefPhysical, users, Marked
  <1>2. t \in Threads /\ Moves(t, {x}, Y)
    BY <1>0, decrefLists
  <1>3. L <=> b \in Views /\ cache[b] /\ refs[b] = 1
    BY DEF LastOfView, IsView
  <1>4. /\ \A o, c : (x = Step(o, c) <=> o = "decref" /\ c = b) /\ \A f : x # Off(c, f) /\ x # Write(c, f)
        /\ \A o, c : Step(o, c) \in Y <=> (o = "unload" /\ c = b /\ G /\ cache[b]) \/ (o = "decref" /\ L /\ c = Parent[b])
        /\ \A f, c : Off(c, f) \notin Y /\ Write(c, f) \notin Y
        /\ L => Parent[b] # b /\ Parent[b] \in Bats
    <2> HIDE DEF G, L
    <2>1. \A o, c : (x = Step(o, c) <=> o = "decref" /\ c = b) /\ \A f : x # Off(c, f) /\ x # Write(c, f)
      BY StepsEqual
    <2>2. Y = (IF G /\ cache[b] THEN {Step("unload", b)} ELSE {}) \cup (IF L THEN {Step("decref", Parent[b])} ELSE {})
      BY DEF UnloadSet, ParentSet, G, L
    <2>3. \A o, c : Step(o, c) \in Y <=> (o = "unload" /\ c = b /\ G /\ cache[b]) \/ (o = "decref" /\ L /\ c = Parent[b])
      BY <2>2, StepsEqual
    <2>4. \A f, c : Off(c, f) \notin Y /\ Write(c, f) \notin Y
      BY <2>2, StepsEqual
    <2>5. L => Parent[b] # b /\ Parent[b] \in Bats
      BY <1>3, Constants
    <2> QED BY <2>1, <2>3, <2>4, <2>5
  <1>5. Todo(t) = {x}
    BY <1>2 DEF Moves
  <1> HIDE DEF x, Y, G, L
  <1>6. Table(t, x, Y)
    <2>1. x \notin {} /\ {x} \cup {} = {x} /\ Y \cup {} = Y
      OBVIOUS
    <2>2. x \notin Y
      BY <1>4 DEF x
    <2> QED BY <1>2, <2>1, <2>2, Replace
  <1>7. /\ Has("decref", t, b) /\ \A o, c : Has(o, t, c) => o = "decref" /\ c = b
        /\ \A f, c : ~Clears(f, t, c) /\ ~Holds(f, t, c)
    BY <1>4, <1>5 DEF Has, Clears, Holds, x
  <1>8. /\ \A u \in Actors : \A o, c : (u # t \/ o \notin {"decref", "unload"}) => (Has(o, u, c)' <=> Has(o, u, c))
        /\ \A c : (Has("unload", t, c)' <=> c = b /\ G /\ cache[b])
        /\ \A c : (Has("decref", t, c)' <=> L /\ c = Parent[b])
        /\ \A u \in Actors : \A f, c : (Clears(f, u, c)' <=> Clears(f, u, c)) /\ (Holds(f, u, c)' <=> Holds(f, u, c))
    <2>1. \A u \in Actors : \A o, c : (u # t \/ o \notin {"decref", "unload"}) => (Has(o, u, c)' <=> Has(o, u, c))
      BY <1>4, <1>6 DEF Table
    <2>2. \A c : (Has("unload", t, c)' <=> c = b /\ G /\ cache[b]) /\ (Has("decref", t, c)' <=> L /\ c = Parent[b])
      BY <1>4, <1>6, <1>7 DEF Table
    <2>3. \A f, c : x # Off(c, f) /\ x # Write(c, f) /\ Off(c, f) \notin Y /\ Write(c, f) \notin Y
      BY <1>4
    <2>4. \A u \in Actors : \A f, c : Clears(f, u, c)' <=> Clears(f, u, c)
      BY <1>6, <2>3 DEF Table
    <2>5. \A u \in Actors : \A f, c : Holds(f, u, c)' <=> Holds(f, u, c)
      BY <1>6, <2>3 DEF Table
    <2> QED BY <2>1, <2>2, <2>4, <2>5
  <1>9. \A u \in Actors : \A c : (Writes(u, c)' <=> Writes(u, c)) /\ (Serves(u, c)' <=> Serves(u, c)) /\ (Window(u, c)' <=> Window(u, c))
    BY <1>8 DEF Writes, Window, Serves
  <1>10. \A u \in Actors : \A c : c # b \/ u # t \/ ~(G /\ cache[b]) => SameSteps(u, c)
    <2>1. \A o \in Telling : o # "decref" /\ (o \in {"decref", "unload"} => o = "unload")
      BY DEF Telling
    <2>2. \A u \in Actors : \A c : \A o \in Telling : (c # b \/ u # t \/ ~(G /\ cache[b])) => (Has(o, u, c)' <=> Has(o, u, c))
      BY <1>7, <1>8, <2>1
    <2> QED BY <1>8, <1>9, <2>2 DEF SameSteps
  <1>11. /\ refs[b] \in Nat /\ refs[b] >= 1 /\ refs'[b] = refs[b] - 1 /\ refs' \in [Bats -> Nat]
         /\ \A c \in Bats : c # b => refs'[c] = refs[c] /\ status'[c] = status[c]
         /\ status'[b] = (IF G THEN status[b] \cup {"UNLOADING"} ELSE status[b])
         /\ status' \in [Bats -> SUBSET Flags]
    <2>1. refs \in [Bats -> Nat] /\ refs[b] \in Nat /\ status \in [Bats -> SUBSET Flags]
      BY <1>0 DEF TypeOK
    <2>2. refs[b] - 1 \in Nat /\ refs[b] >= 1
      BY <1>1, <2>1
    <2>3. status[b] \cup {"UNLOADING"} \in SUBSET Flags /\ status[b] \in SUBSET Flags
      BY <2>1 DEF Flags, WAITING
    <2> QED BY <1>1, <2>1, <2>2, <2>3
  <1>12. /\ base' \in [Views -> {"offset", "pointer", "wrong"}]
         /\ \A w \in Views : w # b => base'[w] = base[w]
         /\ L => base'[b] = Relative(b)
         /\ ~L => base' = base
    <2>1. base \in [Views -> {"offset", "pointer", "wrong"}] /\ Relative(b) \in {"offset", "pointer", "wrong"}
      BY <1>0 DEF TypeOK, Relative
    <2> QED BY <1>1, <1>3, <2>1
  <1>13. TypeOK' /\ Shaped'
    BY <1>0, <1>1, <1>2, <1>11, <1>12 DEF Moves, TypeOK, ListsOK, Steps
  <1>14. desc[b] /\ (b \in Views => cache[b] /\ (L \/ refs[b] >= 2))
    BY <1>0, <1>3, <1>11 DEF Entry, Exist
  <1>15. refs[b] = 1 => /\ \A u \in Actors : /\ ~Unloads(u, b) /\ ~Frees(u, b) /\ ~Doomed(u, b)
                                             /\ ~Writes(u, b) /\ ~OnlySaves(u, b) /\ ~Loads(u, b)
                        /\ \A u \in Threads : ~(fixes[u][b] > 0)
                        /\ "LOADING" \notin status[b]
    <2> SUFFICES ASSUME refs[b] = 1
                 PROVE  /\ \A u \in Actors : /\ ~Unloads(u, b) /\ ~Frees(u, b) /\ ~Doomed(u, b)
                                             /\ ~Writes(u, b) /\ ~OnlySaves(u, b) /\ ~Loads(u, b)
                        /\ \A u \in Threads : ~(fixes[u][b] > 0)
                        /\ "LOADING" \notin status[b]
      OBVIOUS
    <2> QED BY <1>2, <1>5, LastClaim DEF x
  <1>16. b \in Views => "LOADING" \notin status[b]
    <2>1. refs[b] >= 2 => refs[b] # 1
      BY <1>11
    <2> QED BY <1>0, <1>3, <1>14, <1>15, <2>1 DEF Entry, Flagged, Loading
  <1>17. /\ \A w \in Views : w # b => (Joined(w)' <=> Joined(w))
         /\ b \in Views /\ ~L => (Joined(b)' <=> Joined(b))
         /\ L => Joined(b) /\ ~Joined(b)'
    <2>1. \A u \in Threads : \A w \in Views : Joins(u, w)' <=> Joins(u, w)
      BY <1>0, <1>8 DEF Joins
    <2>2. \A w \in Views : w # b => (Joined(w)' <=> Joined(w))
      BY <1>11, <2>1, Constants DEF Joined
    <2>3. b \in Views /\ ~L => (Joined(b)' <=> Joined(b))
      BY <1>11, <1>14, <2>1 DEF Joined
    <2>4. L => ~Joined(b)'
      BY <1>3, <1>11 DEF Joined
    <2>5. L => Joined(b)
      BY <1>0, <1>3, <1>15 DEF Joined, Joins, Loads
    <2> QED BY <2>2, <2>3, <2>4, <2>5
  <1>18. /\ OwesFix(t, b) /\ ~OwesFix(t, b)'
         /\ \A c : c # b => ~OwesFix(t, c)
         /\ \A c : OwesFix(t, c)' <=> L /\ c = Parent[b]
         /\ \A c : (OwesKeep(t, c)' <=> OwesKeep(t, c)) /\ (Has("unshare", t, c)' <=> Has("unshare", t, c)) /\ ~Has("use", t, c)'
    <2>1. \A c : ~Has("use", t, c)' /\ ~Has("use", t, c)
      BY <1>0, <1>2, <1>7, <1>8
    <2> QED BY <1>0, <1>2, <1>4, <1>7, <1>8, <2>1 DEF OwesFix, OwesKeep
  <1>19. ASSUME NEW c \in Bats PROVE Recounted(t, b, c)
    <2>1. /\ lrefs'[c] = lrefs[c] /\ share'[c] = share[c] /\ keeps'[c] = keeps[c] /\ fixes'[t][c] = fixes[t][c]
          /\ refs[c] \in Nat /\ lrefs[c] \in Nat /\ share[c] \in Nat /\ keeps[c] \in Nat
      BY <1>0, <1>1 DEF TypeOK
    <2>2. /\ N(OwesKeep(t, c)') = N(OwesKeep(t, c)) /\ N(Has("unshare", t, c)') = N(Has("unshare", t, c))
          /\ N(b \in ViewsOf(c)') = N(b \in ViewsOf(c)) /\ N(fixes'[t][c] > 0) = N(fixes[t][c] > 0)
          /\ N(fixes[t][c] > 0) \in Nat
      BY <1>1, <1>18, <2>1 DEF N, ViewsOf
    <2>3. CASE c = b
      <3>1. b \notin JoinedTo(b) /\ b \notin JoinedTo(b)'
        BY Constants DEF JoinedTo
      <3>2. N(OwesFix(t, b)) = 1 /\ N(OwesFix(t, b)') = 0 /\ N(b \in JoinedTo(b)) = 0 /\ N(b \in JoinedTo(b)') = 0
        BY <1>18, <3>1 DEF N
      <3> QED BY <1>11, <2>1, <2>2, <2>3, <3>2 DEF Recounted
    <2>4. CASE c # b /\ L /\ c = Parent[b]
      <3>1. b \in JoinedTo(c) /\ b \notin JoinedTo(c)'
        BY <1>3, <1>17, <2>4 DEF JoinedTo
      <3>2. N(OwesFix(t, c)) = 0 /\ N(OwesFix(t, c)') = 1 /\ N(b \in JoinedTo(c)) = 1 /\ N(b \in JoinedTo(c)') = 0
        BY <1>18, <2>4, <3>1 DEF N
      <3>3. refs'[c] = refs[c]
        BY <1>11, <2>4
      <3> QED BY <2>1, <2>2, <3>2, <3>3 DEF Recounted
    <2>5. CASE c # b /\ ~(L /\ c = Parent[b])
      <3>1. b \in JoinedTo(c) <=> b \in JoinedTo(c)'
        BY <1>17, <2>5 DEF JoinedTo
      <3>2. N(OwesFix(t, c)) = 0 /\ N(OwesFix(t, c)') = 0 /\ N(b \in JoinedTo(c)) = N(b \in JoinedTo(c)') /\ N(b \in JoinedTo(c)) \in Nat
        BY <1>18, <2>5, <3>1 DEF N
      <3>3. refs'[c] = refs[c]
        BY <1>11, <2>5
      <3> QED BY <2>1, <2>2, <3>2, <3>3 DEF Recounted
    <2> QED BY <2>3, <2>4, <2>5
  <1>20. Counters'
    <2>1. Alone(t, b)
      BY <1>0, <1>1, <1>8, <1>17 DEF Alone, OwesFix, OwesKeep
    <2>2. \A c \in Bats : fixes'[t][c] \in {0, 1} /\ ~Has("use", t, c)'
      BY <1>0, <1>1, <1>2, <1>18 DEF Counters, FixesOnce
    <2> QED BY <1>0, <1>2, <1>13, <1>19, <2>1, <2>2, Recount
  <1>21. Based'
    <2> SUFFICES ASSUME NEW w \in Views
                 PROVE  /\ base'[w] # "wrong"
                        /\ base'[w] = "pointer" => Joined(w)' /\ cache'[Parent[w]]
                        /\ base'[w] = "offset" => refs'[w] = 0 \/ "LOADING" \in status'[w]
      BY DEF Based
    <2>1. /\ base[w] # "wrong"
          /\ base[w] = "pointer" => Joined(w) /\ cache[Parent[w]]
          /\ base[w] = "offset" => refs[w] = 0 \/ "LOADING" \in status[w]
          /\ base[w] \in {"offset", "pointer", "wrong"}
      BY <1>0 DEF Based, TypeOK
    <2>2. CASE w # b
      BY <1>1, <1>11, <1>12, <1>17, <2>1, <2>2, Constants
    <2>3. CASE w = b /\ L
      <3>1. base[b] = "pointer"
        BY <1>3, <1>16, <2>1, <2>3
      <3> QED BY <1>3, <1>11, <1>12, <2>3, <3>1 DEF Relative
    <2>4. CASE w = b /\ ~L
      <3>1. refs[b] # 0
        BY <1>11
      <3> QED BY <1>1, <1>12, <1>16, <1>17, <2>1, <2>4, <3>1
    <2> QED BY <2>2, <2>3, <2>4
  <1>22. \A c \in Bats : c # b => Same(c)
    <2>1. \A c \in Bats : keeps'[c] >= keeps[c]
      BY <1>0, <1>1 DEF TypeOK
    <2> QED BY <1>1, <1>10, <1>11, <1>12, <2>1 DEF Same
  <1>23. CASE ~G
    <2>1. \A u \in Actors : SameSteps(u, b)
      BY <1>10, <1>23
    <2>2. cache[b] => refs'[b] > 0 \/ lrefs'[b] > 0
      BY <1>1, <1>11, <1>23 DEF Goes, Stays, G
    <2>3. status'[b] = status[b]
      BY <1>11, <1>23
    <2>4. Entry(b)'
      BY <1>0, <1>1, <1>14, <1>16, <2>1, <2>2, <2>3, Raised
    <2> QED BY <1>13, <1>20, <1>21, <1>22, <2>4, Around
  <1>24. CASE G
    <2>1. refs[b] = 1 /\ refs'[b] = 0
      BY <1>11, <1>24 DEF Goes, Stays, G
    <2>2. b \in Views => lrefs'[b] = 0
      <3>1. lrefs[b] \in Nat
        BY <1>0 DEF TypeOK
      <3> QED BY <1>1, <1>24, <3>1 DEF Goes, Stays, BATdirty, IsView, G
    <2>3. \A u \in Actors : /\ \A o \in Telling : o # "unload" => (Has(o, u, b)' <=> Has(o, u, b))
                            /\ Has("unload", u, b)' <=> u = t /\ cache[b]
      <3>1. "decref" \notin Telling
        BY DEF Telling
      <3>2. \A u \in Actors : ~Has("unload", u, b)
        BY <1>15, <2>1 DEF Doomed
      <3> QED BY <1>8, <1>24, <3>1, <3>2
    <2>4. Marking(t, b)
      BY <1>1, <1>8, <1>9, <1>11, <1>14, <1>15, <1>24, <2>1, <2>2, <2>3 DEF Marking
    <2> QED BY <1>0, <1>13, <1>20, <1>21, <1>22, <2>4, Marks, Around
  <1> QED BY <1>23, <1>24

\* BBPdestroy removes b, which nobody refers to.
LEMMA BBPdestroyKeeps ==
    ASSUME Inv, NEW t \in Actors, NEW b \in Bats, BBPdestroy(t, b)
    PROVE  Inv'
  <1>0. TypeOK /\ ListsOK /\ Counters /\ Based /\ Entry(b) /\ \A u \in Threads : u \in Actors
    BY Facts, Constants
  <1> DEFINE x == Step("destroy", b)
             Y == UnshareSet(b)
  <1>1. /\ share' = share /\ val' = val
        /\ fixes' = fixes /\ keeps' = keeps /\ persistent' = persistent /\ trimLock' = trimLock
        /\ status' = [status EXCEPT ![b] = {}]
        /\ refs' = [refs EXCEPT ![b] = 0] /\ lrefs' = [lrefs EXCEPT ![b] = 0]
        /\ desc' = [desc EXCEPT ![b] = FALSE] /\ cache' = [cache EXCEPT ![b] = FALSE]
        /\ mem' = [mem EXCEPT ![b] = 0] /\ disk' = [disk EXCEPT ![b] = 0] /\ dirty' = [dirty EXCEPT ![b] = FALSE]
        /\ base' = [v \in Views |-> IF v = b THEN "offset" ELSE IF Parent[v] = b /\ base[v] = "pointer" THEN "wrong" ELSE base[v]]
    BY DEF BBPdestroy, users
  <1>2. t \in Threads /\ \E K : ViewTail(b, K) /\ Moves(t, {x} \cup K, Y \cup K)
    BY <1>0, BBPdestroyLists
  <1>3. PICK K : (K = {} \/ (b \in Views /\ K = {Step("decref", Parent[b])})) /\ Moves(t, {x} \cup K, Y \cup K)
    BY <1>2 DEF ViewTail
  <1>4. /\ \A o, c : (x = Step(o, c) <=> o = "destroy" /\ c = b) /\ \A f : x # Off(c, f) /\ x # Write(c, f)
        /\ \A o, c : Step(o, c) \in Y <=> b \in Views /\ c = Parent[b] /\ o \in {"unshare", "decrefl"}
        /\ \A f, c : Off(c, f) \notin Y /\ Write(c, f) \notin Y
        /\ x \notin K /\ x \notin Y
        /\ b \in Views => Parent[b] # b /\ Parent[b] \in Bats
    <2>1. \A o, c : (x = Step(o, c) <=> o = "destroy" /\ c = b) /\ \A f : x # Off(c, f) /\ x # Write(c, f)
      BY StepsEqual
    <2>2. \A o, c : Step(o, c) \in Y <=> b \in Views /\ c = Parent[b] /\ o \in {"unshare", "decrefl"}
      BY StepsEqual DEF UnshareSet
    <2>3. \A f, c : Off(c, f) \notin Y /\ Write(c, f) \notin Y
      BY StepsEqual DEF UnshareSet
    <2>4. x \notin K /\ x \notin Y
      BY <1>3, <2>2, StepsEqual
    <2>5. b \in Views => Parent[b] # b /\ Parent[b] \in Bats
      BY Constants
    <2> QED BY <2>1, <2>2, <2>3, <2>4, <2>5
  <1>5. /\ Has("destroy", t, b)
        /\ \A o, c : Has(o, t, c) => (o = "destroy" /\ c = b) \/ (o = "decref" /\ b \in Views /\ c = Parent[b])
        /\ \A f, c : ~Clears(f, t, c) /\ ~Holds(f, t, c)
    <2>1. Todo(t) = {x} \cup K
      BY <1>3 DEF Moves
    <2>2. \A o, c : Step(o, c) \in K => o = "decref" /\ b \in Views /\ c = Parent[b]
      BY <1>3, StepsEqual
    <2>3. \A f, c : Off(c, f) \notin K /\ Write(c, f) \notin K
      BY <1>3, StepsEqual
    <2> QED BY <1>4, <2>1, <2>2, <2>3 DEF Has, Clears, Holds
  <1> HIDE DEF x, Y
  <1>6. Table(t, x, Y)
    BY <1>3, <1>4, Replace
  <1>7. /\ \A u \in Actors : \A o, c : (u # t \/ o \notin {"destroy", "unshare", "decrefl"}) => (Has(o, u, c)' <=> Has(o, u, c))
        /\ \A c : c # b => (Has("destroy", t, c)' <=> Has("destroy", t, c))
        /\ ~Has("destroy", t, b)'
        /\ \A o \in {"unshare", "decrefl"} : \A c : (Has(o, t, c)' <=> b \in Views /\ c = Parent[b])
        /\ \A u \in Actors : \A f, c : (Clears(f, u, c)' <=> Clears(f, u, c)) /\ (Holds(f, u, c)' <=> Holds(f, u, c))
    <2>1. \A u \in Actors : \A o, c : (u # t \/ o \notin {"destroy", "unshare", "decrefl"}) => (Has(o, u, c)' <=> Has(o, u, c))
      BY <1>4, <1>6 DEF Table
    <2>2. /\ \A c : c # b => (Has("destroy", t, c)' <=> Has("destroy", t, c))
          /\ ~Has("destroy", t, b)'
      BY <1>4, <1>6 DEF Table
    <2>3. \A o \in {"unshare", "decrefl"} : \A c : (Has(o, t, c)' <=> b \in Views /\ c = Parent[b])
      BY <1>4, <1>5, <1>6 DEF Table
    <2>4. \A f, c : x # Off(c, f) /\ x # Write(c, f) /\ Off(c, f) \notin Y /\ Write(c, f) \notin Y
      BY <1>4
    <2>5. \A u \in Actors : \A f, c : Clears(f, u, c)' <=> Clears(f, u, c)
      BY <1>6, <2>4 DEF Table
    <2>6. \A u \in Actors : \A f, c : Holds(f, u, c)' <=> Holds(f, u, c)
      BY <1>6, <2>4 DEF Table
    <2> QED BY <2>1, <2>2, <2>3, <2>5, <2>6
  <1>8. \A u \in Actors : \A c : (Writes(u, c)' <=> Writes(u, c)) /\ (Serves(u, c)' <=> Serves(u, c)) /\ (Window(u, c)' <=> Window(u, c))
    BY <1>7 DEF Writes, Window, Serves
  <1>9. \A u \in Actors : \A c : c # b \/ u # t => SameSteps(u, c)
    <2>1. \A o \in Telling : o \notin {"unshare", "decrefl"}
      BY DEF Telling
    <2>2. \A u \in Actors : \A c : \A o \in Telling : (c # b \/ u # t) => (Has(o, u, c)' <=> Has(o, u, c))
      BY <1>7, <2>1
    <2> QED BY <1>7, <1>8, <2>2 DEF SameSteps
  <1>10. /\ "UNLOADING" \in status[b] /\ cache[b] /\ desc[b] /\ lrefs[b] = 0 /\ refs[b] = 0 /\ "LOADING" \notin status[b]
         /\ \A u \in Actors : Unloads(u, b) => u = t
    <2>1. Unloads(t, b) /\ Doomed(t, b)
      BY <1>5 DEF Unloads, Doomed
    <2>2. Unloading(b) /\ Flagged(b) /\ Exist(b) /\ desc[b] \in BOOLEAN
      BY <1>0 DEF Entry, TypeOK
    <2>3. "UNLOADING" \in status[b] /\ cache[b] /\ lrefs[b] = 0 /\ \A u \in Actors : Unloads(u, b) => u = t
      BY <1>5, <2>1, <2>2 DEF Unloading
    <2> QED BY <2>2, <2>3 DEF Flagged, Exist
  <1>11. /\ \A u \in Threads : ~(fixes[u][b] > 0) /\ ~OwesFix(u, b)
         /\ \A u \in Threads : Window(u, b) => Has("incref", u, b)
         /\ \A w \in Views : Parent[w] = b => ~Joined(w)
    <2>1. \A u \in Threads : Window(u, b) => Has("incref", u, b)
      BY <1>10, Claims
    <2> QED BY <1>0, <1>10, <2>1, RefsBounds DEF Counters
  <1>12. /\ b \notin persistent /\ ~(keeps[b] > 0)
         /\ \A w \in Views : Parent[w] = b => ~desc[w]
         /\ \A u \in Threads : ~OwesKeep(u, b)
    <2>1. keeps[b] \in Nat
      BY <1>0 DEF TypeOK
    <2> QED BY <1>0, <1>10, <2>1, LrefsBounds DEF Counters
  <1>13. \A u \in Actors : ~Serves(u, b)
    <2> SUFFICES ASSUME NEW u \in Actors, NEW w \in Views, Parent[w] = b, Has("base", u, w) PROVE FALSE
      BY DEF Serves
    <2>1. w \in Bats /\ Entry(w) /\ Sound(u, w) /\ refs[w] \in Nat
      BY <1>0, Constants, Facts DEF TypeOK
    <2>2. u \in Threads /\ Loads(u, w)
      BY <2>1 DEF Sound, Loads
    <2>3. refs[w] = 1
      BY <2>1, <2>2 DEF Entry, Loading
    <2>4. desc[w]
      BY <2>1, <2>3 DEF Entry, Exist
    <2> QED BY <1>12, <2>4
  <1>14. \A u \in Threads : ~Has("incref", u, b)
    BY <1>0, <1>12, <1>13 DEF Entry, Begun
  <1>15. \A u \in Threads : ~Window(u, b)
    BY <1>11, <1>14
  <1>16. \A u \in Actors : ~Writes(u, b)
    <2>1. \A u \in Actors : Sound(u, b)
      BY Facts
    <2>2. \A u \in Actors : Writes(u, b) => u = t
      BY <1>10 DEF Unloads
    <2>3. ~Writes(t, b)
      BY <1>5 DEF Writes
    <2> QED BY <2>2, <2>3
  <1>17. \A u \in Actors : ~OnlySaves(u, b)
    BY <1>0, <1>5, <1>11, <1>16, Constants, Facts DEF Entry, Heap, Saving, OnlySaves, Sound, Saves
  <1>18. \A u \in Threads : ~Loads(u, b)
    BY <1>0, <1>10 DEF Entry, Loading
  <1>19. /\ \A c \in Bats : c # b => /\ status'[c] = status[c] /\ refs'[c] = refs[c] /\ lrefs'[c] = lrefs[c]
                                     /\ desc'[c] = desc[c] /\ cache'[c] = cache[c] /\ dirty'[c] = dirty[c]
                                     /\ mem'[c] = mem[c] /\ disk'[c] = disk[c]
         /\ status'[b] = {} /\ refs'[b] = 0 /\ lrefs'[b] = 0 /\ ~desc'[b] /\ ~cache'[b] /\ ~dirty'[b]
         /\ desc'[b] = FALSE /\ cache'[b] = FALSE
    BY <1>0, <1>1 DEF TypeOK
  <1>20. \A w \in Views : base'[w] = (IF w = b THEN "offset" ELSE base[w])
    BY <1>0, <1>1, <1>11 DEF Based
  <1>21. TypeOK' /\ Shaped'
    <2>1. /\ status' \in [Bats -> SUBSET Flags] /\ refs' \in [Bats -> Nat] /\ lrefs' \in [Bats -> Nat]
          /\ desc' \in [Bats -> BOOLEAN] /\ cache' \in [Bats -> BOOLEAN] /\ dirty' \in [Bats -> BOOLEAN]
      BY <1>0, <1>1 DEF TypeOK
    <2>2. mem' \in [Bats -> 0..MaxVal] /\ disk' \in [Bats -> 0..MaxVal]
      <3>1. 0 \in 0..MaxVal
        BY BatsAssumption
      <3> QED BY <1>0, <1>1, <3>1 DEF TypeOK
    <2>3. base' \in [Views -> {"offset", "pointer", "wrong"}]
      BY <1>0, <1>1 DEF TypeOK
    <2> QED BY <1>0, <1>1, <1>3, <2>1, <2>2, <2>3 DEF Moves, TypeOK, ListsOK, Steps
  <1>22. /\ \A w \in Views : w # b => (Joined(w)' <=> Joined(w))
         /\ \A c : b \notin JoinedTo(c) /\ b \notin JoinedTo(c)'
    <2>1. \A u \in Threads : \A w \in Views : Joins(u, w)' <=> Joins(u, w)
      BY <1>0, <1>7 DEF Joins
    <2>2. \A w \in Views : w # b => (Joined(w)' <=> Joined(w))
      BY <1>19, <2>1, Constants DEF Joined
    <2> QED BY <1>10, <1>19, <2>2 DEF JoinedTo, Joined
  <1>23. /\ \A c : OwesFix(t, c)' <=> OwesFix(t, c)
         /\ \A c : ~OwesKeep(t, c) /\ ~Has("unshare", t, c) /\ ~Has("use", t, c)'
         /\ \A c : (OwesKeep(t, c)' <=> b \in Views /\ c = Parent[b]) /\ (Has("unshare", t, c)' <=> b \in Views /\ c = Parent[b])
    <2>1. \A c : ~Has("use", t, c)' /\ ~Has("use", t, c) /\ ~Has("kept", t, c)' /\ ~Has("kept", t, c)
      BY <1>0, <1>2, <1>5, <1>7
    <2>2. \A c : (Has("decref", t, c)' <=> Has("decref", t, c)) /\ ~Has("decrefl", t, c) /\ ~Has("unshare", t, c)
      BY <1>0, <1>2, <1>5, <1>7
    <2>3. \A c : (Has("decrefl", t, c)' <=> b \in Views /\ c = Parent[b]) /\ (Has("unshare", t, c)' <=> b \in Views /\ c = Parent[b])
      BY <1>7
    <2> QED BY <2>1, <2>2, <2>3 DEF OwesFix, OwesKeep
  <1>24. ASSUME NEW c \in Bats PROVE Recounted(t, b, c)
    <2>1. /\ refs'[c] = refs[c] /\ lrefs'[c] = lrefs[c] /\ share'[c] = share[c] /\ keeps'[c] = keeps[c] /\ fixes'[t][c] = fixes[t][c]
          /\ refs[c] \in Nat /\ lrefs[c] \in Nat /\ share[c] \in Nat /\ keeps[c] \in Nat
      BY <1>0, <1>1, <1>10, <1>19 DEF TypeOK
    <2>2. /\ N(OwesFix(t, c)') = N(OwesFix(t, c)) /\ N(fixes'[t][c] > 0) = N(fixes[t][c] > 0)
          /\ N(b \in JoinedTo(c)') = 0 /\ N(b \in JoinedTo(c)) = 0 /\ N(fixes[t][c] > 0) \in Nat /\ N(OwesFix(t, c)) \in Nat
      BY <1>22, <1>23, <2>1 DEF N
    <2>3. CASE b \in Views /\ c = Parent[b]
      <3>1. b \in ViewsOf(c) /\ b \notin ViewsOf(c)'
        BY <1>10, <1>19, <2>3 DEF ViewsOf
      <3>2. /\ N(OwesKeep(t, c)) = 0 /\ N(OwesKeep(t, c)') = 1 /\ N(b \in ViewsOf(c)) = 1 /\ N(b \in ViewsOf(c)') = 0
            /\ N(Has("unshare", t, c)) = 0 /\ N(Has("unshare", t, c)') = 1
        BY <1>23, <2>3, <3>1 DEF N
      <3> QED BY <2>1, <2>2, <3>2 DEF Recounted
    <2>4. CASE ~(b \in Views /\ c = Parent[b])
      <3>1. b \notin ViewsOf(c) /\ b \notin ViewsOf(c)'
        BY <2>4 DEF ViewsOf
      <3>2. /\ N(OwesKeep(t, c)) = 0 /\ N(OwesKeep(t, c)') = 0 /\ N(b \in ViewsOf(c)) = 0 /\ N(b \in ViewsOf(c)') = 0
            /\ N(Has("unshare", t, c)) = 0 /\ N(Has("unshare", t, c)') = 0
        BY <1>23, <2>4, <3>1 DEF N
      <3> QED BY <2>1, <2>2, <3>2 DEF Recounted
    <2> QED BY <2>3, <2>4
  <1>25. Counters'
    <2>1. Alone(t, b)
      <3>1. \A w \in Views : w # b => desc'[w] = desc[w]
        BY <1>19, Constants
      <3> QED BY <1>0, <1>1, <1>7, <1>22, <3>1 DEF Alone, OwesFix, OwesKeep
    <2>2. \A c \in Bats : fixes'[t][c] \in {0, 1} /\ ~Has("use", t, c)'
      BY <1>0, <1>1, <1>2, <1>23 DEF Counters, FixesOnce
    <2> QED BY <1>0, <1>2, <1>21, <1>24, <2>1, <2>2, Recount
  <1>26. Based'
    <2> SUFFICES ASSUME NEW w \in Views
                 PROVE  /\ base'[w] # "wrong"
                        /\ base'[w] = "pointer" => Joined(w)' /\ cache'[Parent[w]]
                        /\ base'[w] = "offset" => refs'[w] = 0 \/ "LOADING" \in status'[w]
      BY DEF Based
    <2>1. CASE w = b
      BY <1>19, <1>20, <2>1
    <2>2. CASE w # b
      <3>1. /\ base[w] # "wrong"
            /\ base[w] = "pointer" => Joined(w) /\ cache[Parent[w]]
            /\ base[w] = "offset" => refs[w] = 0 \/ "LOADING" \in status[w]
        BY <1>0 DEF Based
      <3>2. base[w] = "pointer" => Parent[w] # b
        BY <1>11, <3>1
      <3> QED BY <1>19, <1>20, <1>22, <2>2, <3>1, <3>2, Constants
    <2> QED BY <2>1, <2>2
  <1>27. \A c \in Bats : c # b => Same(c)
    <2>1. \A c \in Bats : keeps'[c] >= keeps[c]
      BY <1>0, <1>1 DEF TypeOK
    <2> QED BY <1>1, <1>9, <1>19, <1>20, <2>1 DEF Same
  <1>28. Entry(b)'
    <2>1. \A u \in Threads : ~Has("incref", u, b)' /\ ~Window(u, b)'
      BY <1>0, <1>7, <1>8, <1>14, <1>15
    <2>2. \A u \in Actors : ~Writes(u, b)'
      BY <1>8, <1>16
    <2>3. \A u \in Actors : ~Unloads(u, b)'
      <3>1. \A u \in Actors : u # t => ~Unloads(u, b)'
        BY <1>9, <1>10, <2>2 DEF SameSteps, Telling, Unloads, Doomed
      <3>2. ~Unloads(t, b)'
        BY <1>5, <1>7, <2>2 DEF Unloads, Doomed
      <3> QED BY <3>1, <3>2
    <2>4. \A u \in Threads : ~Loads(u, b)'
      BY <1>0, <1>7, <1>8, <1>18 DEF Loads
    <2>5. \A u \in Actors : ~OnlySaves(u, b)'
      <3>1. \A u \in Actors : u # t => ~OnlySaves(u, b)'
        BY <1>9, <1>17, <2>2 DEF SameSteps, Telling, OnlySaves, Frees
      <3>2. ~OnlySaves(t, b)'
        BY <1>5, <1>7, <2>2 DEF OnlySaves
      <3> QED BY <3>1, <3>2
    <2>6. Exist(b)' /\ Begun(b)' /\ Flagged(b)'
      BY <1>19, <2>1 DEF Exist, Begun, Flagged
    <2>7. Written(b)'
      BY <2>2 DEF Written, Writes
    <2>8. Unloading(b)' /\ Loading(b)'
      BY <2>3, <2>4 DEF Unloading, Loading
    <2>9. Needed(b)'
      BY <1>1, <1>11, <2>1 DEF Needed, Opened
    <2>10. Heap(b)'
      BY <1>19, <2>5 DEF Heap, Clean, Spinning, Saving, Contents
    <2> QED BY <2>6, <2>7, <2>8, <2>9, <2>10 DEF Entry
  <1> QED BY <1>21, <1>25, <1>26, <1>27, <1>28, Around

----------------------------------------------------------------------------
(***************************************************************************)
(* Fixes taken                                                             *)
(***************************************************************************)
\* What a thread fixes is there, and so is the parent of a view it loads.
LEMMA Fixable ==
    ASSUME Inv, NEW t \in Threads, NEW b \in Bats, Has("incref", t, b)
    PROVE  desc[b] /\ lrefs[b] >= 1
  <1>0. TypeOK /\ Counters /\ Entry(b) /\ t \in Actors
    BY Facts, Constants
  <1>1. keeps[b] \in Nat /\ lrefs[b] \in Nat
    BY <1>0 DEF TypeOK
  <1>2. ASSUME Serves(t, b) PROVE lrefs[b] >= 1
    <2>1. PICK w \in Views : Parent[w] = b /\ Has("base", t, w)
      BY <1>2 DEF Serves
    <2>2. w \in Bats /\ Entry(w) /\ Loads(t, w)
      BY <1>0, <2>1, Constants, Facts DEF Loads
    <2>3. refs[w] = 1
      BY <2>1, <2>2 DEF Entry, Loading
    <2>4. desc[w]
      BY <2>2, <2>3 DEF Entry, Exist
    <2> QED BY <1>0, <1>1, <2>1, <2>4, LrefsBounds DEF Counters
  <1>3. lrefs[b] >= 1
    BY <1>0, <1>1, <1>2, LrefsBounds DEF Counters, Entry, Begun
  <1> QED BY <1>0, <1>1, <1>3 DEF Entry, Exist

\* A fix that is only counted.
LEMMA increfCounts ==
    ASSUME Inv, NEW t \in Actors, NEW b \in Bats, increfPhysical(t, b), ~LoadsParent(b)
    PROVE  Inv'
  <1>0. TypeOK /\ ListsOK /\ Counters /\ Based /\ Entry(b) /\ \A u \in Threads : u \in Actors
    BY Facts, Constants
  <1>1. PICK K : /\ t \in Threads /\ AfterDescSet(b, K)
                 /\ Moves(t, {Step("incref", b), Step("desc", b)} \cup K, {Step("desc", b)} \cup K)
    BY <1>0, increfLists
  <1> DEFINE D == {Step("desc", b)} \cup K
  <1>2. Moves(t, {Step("incref", b)} \cup D, D)
    <2>1. {Step("incref", b), Step("desc", b)} \cup K = {Step("incref", b)} \cup D
      OBVIOUS
    <2> QED BY <1>1, <2>1
  <1>3. Step("incref", b) \notin D
    BY <1>1, StepsEqual DEF AfterDescSet, UseSet, JoinSet
  <1>4. Todo(t) = {Step("incref", b)} \cup D /\ Step("desc", b) \in D
    BY <1>2 DEF Moves
  <1>5. Has("incref", t, b) /\ Has("desc", t, b)
    BY <1>4 DEF Has
  <1>6. \/ /\ Has("use", t, b)
           /\ \A c : ~Has("base", t, c)
        \/ \E v \in Views : /\ Parent[v] = b /\ Has("base", t, v)
                            /\ \A c : (Has("base", t, c) => c = v) /\ (Has("use", t, c) => c = v)
    <2>1. CASE K = UseSet(b)
      BY <1>4, <2>1, StepsEqual DEF UseSet, Has
    <2>2. ASSUME NEW v \in Views, Parent[v] = b, K = JoinSet(v)
          PROVE  /\ Has("base", t, v)
                 /\ \A c : (Has("base", t, c) => c = v) /\ (Has("use", t, c) => c = v)
      BY <1>4, <2>2, StepsEqual DEF JoinSet, Has
    <2> QED BY <1>1, <2>1, <2>2 DEF AfterDescSet
  <1>7. \A c : ~Has("decref", t, c) /\ ~Has("decrefl", t, c) /\ ~Has("kept", t, c) /\ ~Has("unshare", t, c)
    BY <1>1, <1>4, StepsEqual DEF AfterDescSet, UseSet, JoinSet, Has
  <1> HIDE DEF D
  <1>8. Drops(t, "incref", b)
    BY <1>2, <1>3, Dropped
  <1>9. desc[b]
    BY <1>1, <1>5, Fixable
  <1>10. /\ status' = status /\ lrefs' = lrefs /\ share' = share /\ desc' = desc /\ cache' = cache
         /\ dirty' = dirty /\ mem' = mem /\ disk' = disk /\ val' = val /\ base' = base
         /\ fixes' = fixes /\ keeps' = keeps /\ persistent' = persistent /\ trimLock' = trimLock
         /\ refs' = [refs EXCEPT ![b] = @ + 1]
         /\ "UNLOADING" \notin status[b] /\ "LOADING" \notin status[b]
         /\ ~(b \in Views /\ refs[b] = 0)
    BY <1>9 DEF increfPhysical, heaps, users, Stable, UNSTABLE, LoadsParent, IsView
  <1>11. /\ refs' \in [Bats -> Nat] /\ refs'[b] = refs[b] + 1 /\ refs[b] \in Nat /\ refs'[b] > 0
         /\ \A c \in Bats : c # b => refs'[c] = refs[c]
    BY <1>0, <1>10 DEF TypeOK
  <1>12. TypeOK' /\ Shaped'
    BY <1>0, <1>1, <1>10, <1>11 DEF Moves, TypeOK, ListsOK, Steps
  <1>13. \A c : /\ OwesKeep(t, c)' <=> OwesKeep(t, c)
                /\ ~Has("unshare", t, c)' /\ ~Has("unshare", t, c)
                /\ Has("use", t, c)' <=> Has("use", t, c)
                /\ c # b => (OwesFix(t, c)' <=> OwesFix(t, c))
                /\ ~OwesFix(t, b)
                /\ OwesFix(t, b)' <=> Has("use", t, b)
    BY <1>0, <1>1, <1>5, <1>7, <1>8 DEF Drops, OwesFix, OwesKeep
  <1>14. \A u \in Threads : \A w \in Views : Joins(u, w)' <=> (Joins(u, w) /\ ~(u = t /\ Parent[w] = b))
    BY <1>0, <1>8 DEF Drops, Joins
  <1>15. \A w \in Views : ~Has("base", t, w) => (Joined(w)' <=> Joined(w))
    <2> SUFFICES ASSUME NEW w \in Views, ~Has("base", t, w) PROVE Joined(w)' <=> Joined(w)
      OBVIOUS
    <2>1. \A u \in Threads : Joins(u, w)' <=> Joins(u, w)
      BY <1>14 DEF Joins
    <2>2. refs'[w] > 0 <=> refs[w] > 0
      <3>1. w \in Bats /\ refs[w] \in Nat
        BY <1>0, Constants DEF TypeOK
      <3>2. CASE w = b
        BY <1>10, <1>11, <3>1, <3>2
      <3>3. CASE w # b
        BY <1>11, <3>1, <3>3
      <3> QED BY <3>2, <3>3
    <2> QED BY <2>1, <2>2 DEF Joined
  <1>16. PICK z \in Bats : /\ \A w \in Views : w # z => (Joined(w)' <=> Joined(w))
                           /\ \/ z = b /\ Has("use", t, b) /\ \A w \in Views : Joined(w)' <=> Joined(w)
                              \/ /\ z \in Views /\ Parent[z] = b /\ ~Has("use", t, b)
                                 /\ ~Joined(z) /\ Joined(z)'
    <2>1. CASE Has("use", t, b) /\ \A c : ~Has("base", t, c)
      <3>1. \A w \in Views : Joined(w)' <=> Joined(w)
        BY <1>15, <2>1
      <3> QED BY <2>1, <3>1
    <2>2. ASSUME NEW v \in Views, Parent[v] = b, Has("base", t, v),
                 \A c : (Has("base", t, c) => c = v) /\ (Has("use", t, c) => c = v)
          PROVE  /\ v \in Bats /\ ~Has("use", t, b) /\ ~Joined(v) /\ Joined(v)'
                 /\ \A w \in Views : w # v => (Joined(w)' <=> Joined(w))
      <3>1. v \in Bats /\ v # b /\ Loads(t, v) /\ Entry(v)
        BY <2>2, Constants, Facts DEF Loads
      <3>2. refs[v] = 1 /\ \A u \in Threads : Loads(u, v) => u = t
        BY <1>1, <2>2, <3>1 DEF Entry, Loading
      <3>3. ~Joined(v)
        BY <1>1, <1>5, <2>2 DEF Joined, Joins
      <3>4. \A u \in Threads : ~Joins(u, v)'
        BY <1>14, <2>2, <3>2 DEF Joins, Loads
      <3>5. Joined(v)'
        BY <1>11, <3>1, <3>2, <3>4 DEF Joined
      <3> QED BY <1>15, <2>2, <3>1, <3>3, <3>5
    <2>3. CASE \E v \in Views : /\ Parent[v] = b /\ Has("base", t, v)
                                /\ \A c : (Has("base", t, c) => c = v) /\ (Has("use", t, c) => c = v)
      <3>1. PICK v \in Views : /\ Parent[v] = b /\ Has("base", t, v)
                               /\ \A c : (Has("base", t, c) => c = v) /\ (Has("use", t, c) => c = v)
        BY <2>3
      <3>2. v \in Bats /\ ~Has("use", t, b) /\ ~Joined(v) /\ Joined(v)' /\ \A w \in Views : w # v => (Joined(w)' <=> Joined(w))
        BY <2>2, <3>1
      <3> QED BY <3>1, <3>2
    <2> QED BY <1>6, <2>1, <2>3
  <1>17. ASSUME NEW c \in Bats PROVE Recounted(t, z, c)
    <2>1. /\ lrefs'[c] = lrefs[c] /\ share'[c] = share[c] /\ keeps'[c] = keeps[c] /\ fixes'[t][c] = fixes[t][c]
          /\ refs[c] \in Nat /\ lrefs[c] \in Nat /\ share[c] \in Nat /\ keeps[c] \in Nat
          /\ c # b => refs'[c] = refs[c]
      BY <1>0, <1>10, <1>11 DEF TypeOK
    <2>2. /\ N(OwesKeep(t, c)') = N(OwesKeep(t, c)) /\ N(Has("unshare", t, c)') = N(Has("unshare", t, c))
          /\ N(z \in ViewsOf(c)') = N(z \in ViewsOf(c)) /\ N(fixes'[t][c] > 0) = N(fixes[t][c] > 0)
          /\ N(fixes[t][c] > 0) \in Nat /\ N(OwesFix(t, c)) \in Nat /\ N(z \in JoinedTo(c)) \in Nat
          /\ c # b => N(OwesFix(t, c)') = N(OwesFix(t, c))
      BY <1>10, <1>13, <2>1 DEF N, ViewsOf
    <2>3. CASE z = b /\ Has("use", t, b) /\ \A w \in Views : Joined(w)' <=> Joined(w)
      <3>1. N(z \in JoinedTo(c)') = N(z \in JoinedTo(c))
        BY <2>3 DEF N, JoinedTo
      <3>2. N(OwesFix(t, b)) = 0 /\ N(OwesFix(t, b)') = 1
        BY <1>13, <2>3 DEF N
      <3> QED BY <1>11, <2>1, <2>2, <3>1, <3>2 DEF Recounted
    <2>4. CASE z \in Views /\ Parent[z] = b /\ ~Has("use", t, b) /\ ~Joined(z) /\ Joined(z)'
      <3>1. N(OwesFix(t, c)') = N(OwesFix(t, c))
        BY <1>13, <2>4 DEF N
      <3>2. N(z \in JoinedTo(c)) = 0 /\ N(z \in JoinedTo(c)') = IF c = b THEN 1 ELSE 0
        BY <2>4 DEF N, JoinedTo
      <3> QED BY <1>11, <2>1, <2>2, <3>1, <3>2 DEF Recounted
    <2> QED BY <1>16, <2>3, <2>4
  <1>18. Counters'
    <2>1. Alone(t, z)
      BY <1>0, <1>8, <1>10, <1>16 DEF Drops, Alone, OwesFix, OwesKeep
    <2>2. \A c \in Bats : fixes'[t][c] \in {0, 1} /\ (Has("use", t, c)' => fixes'[t][c] = 0)
      BY <1>0, <1>1, <1>10, <1>13 DEF Counters, FixesOnce
    <2> QED BY <1>0, <1>1, <1>12, <1>17, <2>1, <2>2, Recount
  <1>19. Based'
    <2> SUFFICES ASSUME NEW w \in Views
                 PROVE  /\ base'[w] # "wrong"
                        /\ base'[w] = "pointer" => Joined(w)' /\ cache'[Parent[w]]
                        /\ base'[w] = "offset" => refs'[w] = 0 \/ "LOADING" \in status'[w]
      BY DEF Based
    <2>1. /\ base[w] # "wrong"
          /\ base[w] = "pointer" => Joined(w) /\ cache[Parent[w]]
          /\ base[w] = "offset" => refs[w] = 0 \/ "LOADING" \in status[w]
      BY <1>0 DEF Based
    <2>2. Joined(w) => Joined(w)'
      BY <1>16
    <2>3. base[w] = "offset" => w # b \/ "LOADING" \in status[w]
      BY <1>10, <2>1
    <2> QED BY <1>10, <1>11, <2>1, <2>2, <2>3, Constants
  <1>20. \A c \in Bats : c # b => Same(c)
    <2>1. \A c \in Bats : keeps'[c] >= keeps[c]
      BY <1>0, <1>10 DEF TypeOK
    <2>2. \A u \in Actors : \A c : c # b => SameSteps(u, c)
      BY <1>8, DropSame
    <2> QED BY <1>10, <1>11, <2>1, <2>2 DEF Same
  <1>21. Entry(b)'
    <2>1. \A u \in Actors : /\ \A o \in Telling : o # "incref" => (Has(o, u, b)' <=> Has(o, u, b))
                            /\ \A f : (Clears(f, u, b)' <=> Clears(f, u, b)) /\ (Holds(f, u, b)' <=> Holds(f, u, b))
                            /\ Writes(u, b)' <=> Writes(u, b)
                            /\ Serves(u, b)' <=> Serves(u, b)
                            /\ Window(u, b)' <=> Window(u, b)
                            /\ Has("incref", u, b)' => Has("incref", u, b)
                            /\ u # t => (Has("incref", u, b)' <=> Has("incref", u, b))
      BY <1>8 DEF Drops, Window
    <2>2. \A u \in Actors : /\ Unloads(u, b)' <=> Unloads(u, b)
                            /\ Doomed(u, b)' <=> Doomed(u, b)
                            /\ Frees(u, b)' <=> Frees(u, b)
                            /\ Loads(u, b)' <=> Loads(u, b)
                            /\ Late(u, b)' <=> Late(u, b)
      BY <1>10, <2>1 DEF Unloads, Doomed, Frees, Loads, Late, Saves, Telling
    <2>3. \A u \in Actors : OnlySaves(u, b)' <=> OnlySaves(u, b)
      BY <1>10, <2>1, <2>2 DEF OnlySaves, Telling
    <2>4. \A u \in Actors : Opened(u, b)' => Opened(u, b)
      BY <1>5, <2>1 DEF Opened, Telling
    <2>5. Eased(b)
      BY <1>9, <1>10, <1>11, <2>1, <2>2, <2>4 DEF Eased, Telling
    <2>6. \A u \in Actors : Has("spin", u, b)' /\ b \in Stored /\ dirty[b] => "SAVING" \in status'[b]
      BY <1>0, <1>10, <2>1 DEF Entry, Heap, Spinning, Telling
    <2>7. Lasting(b)
      BY <1>10, <2>2, <2>3, <2>5, <2>6 DEF Lasting
    <2> QED BY <1>0, <2>7, LastingStay
  <1> QED BY <1>12, <1>18, <1>19, <1>20, <1>21, Around

\* The first fix of a view, which has to load the parent.
LEMMA increfLoads ==
    ASSUME Inv, NEW t \in Actors, NEW b \in Bats, increfPhysical(t, b), LoadsParent(b)
    PROVE  Inv'
  <1>0. TypeOK /\ ListsOK /\ Counters /\ Based /\ Entry(b) /\ \A u \in Threads : u \in Actors
    BY Facts, Constants
  <1> DEFINE p == Parent[b]
             x == Step("incref", b)
             Y == {Step("incref", p), Step("desc", p), Step("base", b), Off(b, {"LOADING"})}
             K == {Step("desc", b), Step("use", b)}
  <1>1. b \in Views /\ refs[b] = 0 /\ b \notin Stored /\ p \in Stored /\ p \in Bats /\ p \notin Views /\ p # b
    BY Constants DEF LoadsParent, IsView
  <1>2. t \in Threads /\ Has("incref", t, b)
    <2>1. t \in Threads
      BY <1>0, increfLists
    <2>2. Ready(t, "incref", b)
      BY DEF increfPhysical
    <2> QED BY <1>0, <2>1, <2>2, Popped DEF Has
  <1>3. desc[b]
    BY <1>2, Fixable
  <1>4. Moves(t, {x} \cup K, Y \cup K)
    <2>1. Moves(t, {Step("incref", b), Step("desc", b), Step("use", b)},
                   {Step("incref", p), Step("desc", p), Step("base", b), Off(b, {"LOADING"}), Step("desc", b), Step("use", b)})
      BY <1>0, <1>3, increfLists
    <2>2. {Step("incref", b), Step("desc", b), Step("use", b)} = {x} \cup K
      OBVIOUS
    <2>3. {Step("incref", p), Step("desc", p), Step("base", b), Off(b, {"LOADING"}), Step("desc", b), Step("use", b)} = Y \cup K
      OBVIOUS
    <2> HIDE DEF Y, K, x, p
    <2> QED BY <2>1, <2>2, <2>3
  <1>5. /\ lrefs' = lrefs /\ share' = share /\ desc' = desc /\ cache' = cache
        /\ dirty' = dirty /\ mem' = mem /\ disk' = disk /\ val' = val /\ base' = base
        /\ fixes' = fixes /\ keeps' = keeps /\ persistent' = persistent /\ trimLock' = trimLock
        /\ refs' = [refs EXCEPT ![b] = @ + 1]
        /\ status' = [status EXCEPT ![b] = @ \cup {"LOADING"}]
        /\ "UNLOADING" \notin status[b] /\ "LOADING" \notin status[b] /\ "DELETING" \notin status[b]
    BY <1>3 DEF increfPhysical, heaps, users, Stable, UNSTABLE
  <1>6. /\ \A o, c : (x = Step(o, c) <=> o = "incref" /\ c = b) /\ \A f : x # Off(c, f) /\ x # Write(c, f)
        /\ \A o, c : Step(o, c) \in Y <=> (o \in {"incref", "desc"} /\ c = p) \/ (o = "base" /\ c = b)
        /\ \A f, c : (Off(c, f) \in Y <=> c = b /\ f = {"LOADING"}) /\ Write(c, f) \notin Y
        /\ \A o, c : Step(o, c) \in K <=> o \in {"desc", "use"} /\ c = b
        /\ \A f, c : Off(c, f) \notin K /\ Write(c, f) \notin K
        /\ x \notin K /\ x \notin Y
    <2> HIDE DEF p
    <2>1. \A o, c : (x = Step(o, c) <=> o = "incref" /\ c = b) /\ \A f : x # Off(c, f) /\ x # Write(c, f)
      BY StepsEqual
    <2>2. \A o, c : Step(o, c) \in Y <=> (o \in {"incref", "desc"} /\ c = p) \/ (o = "base" /\ c = b)
      <3>1. \A o, c : Step(o, c) # Off(b, {"LOADING"})
        BY StepsEqual
      <3>2. \A o, c : Step(o, c) \in Y <=> \/ Step(o, c) = Step("incref", p) \/ Step(o, c) = Step("desc", p)
                                           \/ Step(o, c) = Step("base", b)
        BY <3>1
      <3> QED BY <3>2, StepsEqual
    <2>3. \A f, c : (Off(c, f) \in Y <=> c = b /\ f = {"LOADING"}) /\ Write(c, f) \notin Y
      BY StepsEqual
    <2>4. \A o, c : Step(o, c) \in K <=> o \in {"desc", "use"} /\ c = b
      BY StepsEqual
    <2>5. \A f, c : Off(c, f) \notin K /\ Write(c, f) \notin K
      BY StepsEqual
    <2>6. x \notin K /\ x \notin Y
      BY <1>1, <2>2, <2>4
    <2> QED BY <2>1, <2>2, <2>3, <2>4, <2>5, <2>6
  <1>7. Todo(t) = {x} \cup K
    BY <1>4 DEF Moves
  <1> HIDE DEF x, Y, K, p
  <1>8. Table(t, x, Y)
    BY <1>4, <1>6, Replace
  <1>9. /\ \A o, c : Has(o, t, c) <=> o \in {"incref", "desc", "use"} /\ c = b
        /\ \A f, c : ~Clears(f, t, c) /\ ~Holds(f, t, c)
    BY <1>6, <1>7, SMTT(30) DEF Has, Clears, Holds, x
  <1>10. /\ \A u \in Actors : \A o, c : (u # t \/ o \notin {"incref", "desc", "base"}) => (Has(o, u, c)' <=> Has(o, u, c))
         /\ \A o, c : Has(o, t, c)' <=> (o \in {"incref", "desc"} /\ c = p) \/ (o \in {"base", "desc", "use"} /\ c = b)
         /\ \A u \in Actors : \A f, c : (u # t \/ c # b \/ f # "LOADING") => (Clears(f, u, c)' <=> Clears(f, u, c))
         /\ \A u \in Actors : \A s, c : Holds(s, u, c)' <=> Holds(s, u, c)
         /\ Clears("LOADING", t, b)'
    <2>1. \A u \in Actors : \A o, c : (u # t \/ o \notin {"incref", "desc", "base"}) => (Has(o, u, c)' <=> Has(o, u, c))
      BY <1>6, <1>8 DEF Table
    <2>2. \A o, c : Has(o, t, c)' <=> (o \in {"incref", "desc"} /\ c = p) \/ (o \in {"base", "desc", "use"} /\ c = b)
      BY <1>6, <1>8, <1>9 DEF Table
    <2>3. \A f : {f} = {"LOADING"} <=> f = "LOADING"
      OBVIOUS
    <2>4. \A f, c : x # Off(c, f) /\ x # Write(c, f) /\ (Off(c, f) \in Y <=> c = b /\ f = {"LOADING"}) /\ Write(c, f) \notin Y
      BY <1>6
    <2>5. ASSUME NEW u \in Actors, NEW f, NEW c, u # t \/ c # b \/ f # "LOADING"
          PROVE  Clears(f, u, c)' <=> Clears(f, u, c)
      <3>1. Clears(f, u, c)' <=> (Clears(f, u, c) /\ ~(u = t /\ x = Off(c, {f}))) \/ (u = t /\ Off(c, {f}) \in Y)
        BY <1>8 DEF Table
      <3>2. x # Off(c, {f}) /\ (Off(c, {f}) \in Y <=> c = b /\ {f} = {"LOADING"})
        BY <2>4
      <3> QED BY <2>3, <2>5, <3>1, <3>2
    <2>6. \A u \in Actors : \A s, c : Holds(s, u, c)' <=> Holds(s, u, c)
      BY <1>8, <2>4 DEF Table
    <2>7. Clears("LOADING", t, b)'
      BY <1>8, <2>4 DEF Table
    <2> QED BY <2>1, <2>2, <2>5, <2>6, <2>7
  <1>11. /\ \A u \in Actors : \A c : Writes(u, c)' <=> Writes(u, c)
         /\ \A u \in Actors : \A c : (u # t \/ c # p) => (Serves(u, c)' <=> Serves(u, c)) /\ (Window(u, c)' <=> Window(u, c))
         /\ Serves(t, p)' /\ Window(t, p)' /\ ~Window(t, p)
         /\ \A c \in Views : \A u : ~Serves(u, c)
    <2>1. \A u \in Actors : \A c : Writes(u, c)' <=> Writes(u, c)
      BY <1>10 DEF Writes
    <2>2. \A u \in Actors : \A c : (u # t \/ c # p) => (Serves(u, c)' <=> Serves(u, c))
      BY <1>9, <1>10 DEF Serves, p
    <2>3. \A u \in Actors : \A c : Has("use", u, c)' <=> Has("use", u, c)
      BY <1>10
    <2>4. Serves(t, p)' /\ ~Serves(t, p) /\ ~Has("use", t, p)
      BY <1>1, <1>9, <1>10 DEF Serves, p
    <2>5. \A c \in Views : \A u : ~Serves(u, c)
      BY Constants DEF Serves
    <2> QED BY <2>1, <2>2, <2>3, <2>4, <2>5 DEF Window
  <1>12. \A u \in Actors : \A c : u # t \/ (c # b /\ c # p) => SameSteps(u, c)
    <2>1. \A u \in Actors : \A c : \A o \in Telling : u # t \/ (c # b /\ c # p) => (Has(o, u, c)' <=> Has(o, u, c))
      BY <1>9, <1>10
    <2> QED BY <1>10, <1>11, <2>1 DEF SameSteps
  <1>13. /\ refs' \in [Bats -> Nat] /\ refs'[b] = 1
         /\ \A c \in Bats : c # b => refs'[c] = refs[c] /\ status'[c] = status[c]
         /\ status'[b] = status[b] \cup {"LOADING"} /\ status' \in [Bats -> SUBSET Flags]
    <2>1. refs \in [Bats -> Nat] /\ status \in [Bats -> SUBSET Flags] /\ "LOADING" \in Flags
      BY <1>0 DEF TypeOK, Flags, WAITING
    <2> QED BY <1>1, <1>5, <2>1
  <1>14. TypeOK' /\ Shaped'
    BY <1>0, <1>4, <1>5, <1>13 DEF Moves, TypeOK, ListsOK, Steps
  <1>15. /\ \A u \in Actors : /\ ~Unloads(u, b) /\ ~Frees(u, b) /\ ~Doomed(u, b)
                              /\ ~Writes(u, b) /\ ~OnlySaves(u, b) /\ ~Loads(u, b)
         /\ \A u \in Threads : ~(fixes[u][b] > 0) /\ ~OwesFix(u, b) /\ (Window(u, b) => Has("incref", u, b))
    BY <1>1, <1>5, Idle
  <1>16. \A w \in Views : Joined(w)' <=> Joined(w)
    <2>1. \A u \in Threads : \A w \in Views : w # b => (Joins(u, w)' <=> Joins(u, w))
      BY <1>0, <1>9, <1>10 DEF Joins
    <2>2. \A w \in Views : w # b => (Joined(w)' <=> Joined(w))
      BY <1>13, <2>1, Constants DEF Joined
    <2>3. ~Joined(b)
      BY <1>1 DEF Joined
    <2>4. ~Joined(b)'
      BY <1>2, <1>10 DEF Joined, Joins, p
    <2> QED BY <2>2, <2>3, <2>4
  <1>17. Recounted(t, b, b)
    <2>1. ~OwesFix(t, b) /\ OwesFix(t, b)' /\ ~OwesKeep(t, b) /\ ~OwesKeep(t, b)'
      BY <1>1, <1>9, <1>10 DEF OwesFix, OwesKeep
    <2>2. ~Has("unshare", t, b) /\ ~Has("unshare", t, b)'
      BY <1>9, <1>10
    <2>3. b \notin JoinedTo(b) /\ b \notin JoinedTo(b)' /\ b \notin ViewsOf(b) /\ b \notin ViewsOf(b)'
      BY Constants DEF JoinedTo, ViewsOf
    <2>4. lrefs[b] \in Nat /\ keeps[b] \in Nat /\ share[b] \in Nat
      BY <1>0 DEF TypeOK
    <2> QED BY <1>1, <1>5, <1>13, <2>1, <2>2, <2>3, <2>4 DEF Recounted, N
  <1>18. Counters'
    <2>1. \A u \in Threads : \A c \in Bats : (u # t \/ c # b) =>
              /\ OwesFix(u, c)' <=> OwesFix(u, c)
              /\ OwesKeep(u, c)' <=> OwesKeep(u, c)
              /\ Has("unshare", u, c)' <=> Has("unshare", u, c)
              /\ Has("use", u, c)' <=> Has("use", u, c)
      BY <1>0, <1>9, <1>10 DEF OwesFix, OwesKeep
    <2>2. Alone(t, b)
      BY <1>5, <1>16, <2>1 DEF Alone
    <2>3. \A c \in Bats : c # b => Recounted(t, b, c)
      <3> SUFFICES ASSUME NEW c \in Bats, c # b PROVE Recounted(t, b, c)
        OBVIOUS
      <3>1. /\ refs'[c] = refs[c] /\ lrefs'[c] = lrefs[c] /\ share'[c] = share[c] /\ keeps'[c] = keeps[c]
            /\ fixes'[t][c] = fixes[t][c]
        BY <1>5, <1>13
      <3>2. /\ N(fixes'[t][c] > 0) = N(fixes[t][c] > 0) /\ N(OwesFix(t, c)') = N(OwesFix(t, c))
            /\ N(OwesKeep(t, c)') = N(OwesKeep(t, c)) /\ N(Has("unshare", t, c)') = N(Has("unshare", t, c))
            /\ N(b \in JoinedTo(c)') = N(b \in JoinedTo(c)) /\ N(b \in ViewsOf(c)') = N(b \in ViewsOf(c))
        BY <1>2, <1>5, <1>16, <2>1, <3>1 DEF N, JoinedTo, ViewsOf
      <3> QED BY <3>1, <3>2 DEF Recounted
    <2>4. \A c \in Bats : fixes'[t][c] \in {0, 1} /\ (Has("use", t, c)' => fixes'[t][c] = 0)
      BY <1>0, <1>2, <1>5, <1>10 DEF Counters, FixesOnce
    <2> QED BY <1>0, <1>2, <1>14, <1>17, <2>2, <2>3, <2>4, Recount
  <1>19. base[b] = "offset"
    <2>1. ~Joined(b)
      BY <1>1 DEF Joined
    <2> QED BY <1>0, <1>1, <2>1 DEF Based, TypeOK
  <1>20. Based'
    <2> SUFFICES ASSUME NEW w \in Views
                 PROVE  /\ base'[w] # "wrong"
                        /\ base'[w] = "pointer" => Joined(w)' /\ cache'[Parent[w]]
                        /\ base'[w] = "offset" => refs'[w] = 0 \/ "LOADING" \in status'[w]
      BY DEF Based
    <2>1. /\ base[w] # "wrong"
          /\ base[w] = "pointer" => Joined(w) /\ cache[Parent[w]]
          /\ base[w] = "offset" => refs[w] = 0 \/ "LOADING" \in status[w]
      BY <1>0 DEF Based
    <2>2. w = b => "LOADING" \in status'[w]
      BY <1>13
    <2> QED BY <1>5, <1>13, <1>16, <2>1, <2>2, Constants
  <1>21. \A c \in Bats : c # b /\ c # p => Entry(c)'
    <2>1. \A c \in Bats : keeps'[c] >= keeps[c] /\ keeps[c] \in Nat /\ keeps'[c] \in Nat
      BY <1>0, <1>5 DEF TypeOK
    <2>2. \A c \in Bats : c # b /\ c # p => Same(c)
      BY <1>5, <1>12, <1>13, <2>1 DEF Same
    <2> QED BY <2>1, <2>2, Elsewhere, Facts
  <1>22. Entry(p)'
    <2>1. \A u \in Actors : /\ \A o \in Telling : o \notin {"incref", "desc"} => (Has(o, u, p)' <=> Has(o, u, p))
                            /\ \A f : (Clears(f, u, p)' <=> Clears(f, u, p)) /\ (Holds(f, u, p)' <=> Holds(f, u, p))
                            /\ Writes(u, p)' <=> Writes(u, p)
                            /\ Window(u, p) => Window(u, p)'
      BY <1>1, <1>9, <1>10, <1>11
    <2>2. \A u \in Actors : /\ Unloads(u, p)' <=> Unloads(u, p)
                            /\ Doomed(u, p)' <=> Doomed(u, p)
                            /\ Frees(u, p)' <=> Frees(u, p)
                            /\ Loads(u, p)' <=> Loads(u, p)
                            /\ Late(u, p)' <=> Late(u, p)
      BY <1>1, <1>13, <2>1 DEF Unloads, Doomed, Frees, Loads, Late, Saves, Telling
    <2>3. \A u \in Actors : OnlySaves(u, p)' => OnlySaves(u, p)
      BY <1>1, <1>13, <2>1, <2>2 DEF OnlySaves, Telling
    <2>4. \A u \in Actors : Opened(u, p)' => Opened(u, p)
      <3>1. ~Opened(t, p)'
        BY <1>10 DEF Opened
      <3>2. \A u \in Actors : u # t => (Opened(u, p)' => Opened(u, p))
        BY <1>12 DEF Opened, SameSteps, Telling
      <3> QED BY <3>1, <3>2
    <2>5. \A u \in Actors : Has("incref", u, p)' =>
              Serves(u, p)' \/ (Has("incref", u, p) /\ (Serves(u, p)' <=> Serves(u, p)))
      BY <1>10, <1>11
    <2>6. /\ Entry(p) /\ refs'[p] = refs[p] /\ status'[p] = status[p]
      BY <1>1, <1>13, Facts
    <2>7. Eased(p)
      <3>1. \A u \in Actors : Has("incref", u, p)' =>
                \/ p \in persistent' \/ keeps'[p] > 0 \/ Serves(u, p)'
                \/ Has("incref", u, p) /\ p \notin persistent /\ ~(keeps[p] > 0) /\ ~Serves(u, p)
        BY <1>5, <2>5
      <3>2. \A o \in {"base", "unload", "destroy", "trim", "free"} : o \in Telling /\ o \notin {"incref", "desc"}
        BY DEF Telling
      <3> QED BY <1>1, <1>5, <2>1, <2>2, <2>4, <2>6, <3>1, <3>2 DEF Eased
    <2>8. \A u \in Actors : Has("spin", u, p)' /\ p \in Stored /\ dirty[p] => "SAVING" \in status'[p]
      BY <1>1, <2>1, <2>6 DEF Entry, Heap, Spinning, Telling
    <2>9. Lasting(p)
      BY <1>5, <2>2, <2>3, <2>7, <2>8 DEF Lasting
    <2> QED BY <1>1, <2>6, <2>9, LastingStay
  <1>23. Entry(b)'
    <2>1. \A u \in Actors : ~Writes(u, b)' /\ ~Doomed(u, b)'
      BY <1>10, <1>11, <1>15 DEF Doomed
    <2>2. \A u \in Actors : ~Unloads(u, b)'
      BY <1>10, <1>15, <2>1 DEF Unloads
    <2>3. Loads(t, b)' /\ \A u \in Threads : Loads(u, b)' => u = t
      <3>1. Loads(t, b)'
        BY <1>1, <1>10 DEF Loads
      <3>2. \A u \in Threads : u # t => ~Loads(u, b)'
        BY <1>0, <1>10, <1>15, <2>1 DEF Loads
      <3> QED BY <3>1, <3>2
    <2>4. Exist(b)'
      BY <1>0, <1>3, <1>5 DEF Entry, Exist
    <2>5. Begun(b)'
      <3>1. \A u \in Threads : Has("incref", u, b)' => Has("incref", u, b)
        BY <1>0, <1>1, <1>10
      <3>2. \A u \in Threads : ~Serves(u, b)
        BY <1>1, <1>11
      <3> QED BY <1>0, <1>5, <3>1, <3>2 DEF Entry, Begun
    <2>6. Flagged(b)'
      BY <1>2, <1>5, <1>13, <2>3 DEF Flagged
    <2>7. Written(b)'
      BY <2>1 DEF Written, Writes
    <2>8. Unloading(b)'
      BY <2>2 DEF Unloading
    <2>9. Loading(b)'
      <3>1. Has("base", t, b)'
        BY <1>10
      <3> QED BY <1>1, <1>5, <1>13, <1>19, <2>3, <3>1 DEF Loading
    <2>10. Needed(b)'
      <3>1. ~Opened(t, b)'
        BY <1>10 DEF Opened
      <3>2. \A u \in Threads : u # t => ~Opened(u, b)'
        BY <1>0, <1>1, <1>10, <1>11, <1>15 DEF Opened
      <3> QED BY <1>5, <1>15, <3>1, <3>2 DEF Needed
    <2>11. Heap(b)'
      BY <1>1 DEF Heap
    <2> QED BY <2>4, <2>5, <2>6, <2>7, <2>8, <2>9, <2>10, <2>11 DEF Entry
  <1> QED BY <1>14, <1>18, <1>20, <1>21, <1>22, <1>23 DEF Inv, Pool

\* incref of a BAT in memory fixes it; a view that is loaded sets LOADING and
\* goes on with its parent.
LEMMA increfPhysicalKeeps ==
    ASSUME Inv, NEW t \in Actors, NEW b \in Bats, increfPhysical(t, b)
    PROVE  Inv'
  BY increfCounts, increfLoads

----------------------------------------------------------------------------
(***************************************************************************)
(* New BATs                                                                *)
(***************************************************************************)
\* A thread has no steps for an entry that is new.
LEMMA FreshIdle ==
    ASSUME Inv, NEW b \in Bats, Fresh(b)
    PROVE  /\ \A u \in Actors : /\ \A o : ~Has(o, u, b)
                                /\ \A f : ~Clears(f, u, b) /\ ~Holds(f, u, b)
                                /\ ~Writes(u, b)
           /\ ~desc[b] /\ ~cache[b] /\ refs[b] = 0 /\ lrefs[b] = 0
           /\ \A u \in Threads : ~(fixes[u][b] > 0)
  <1>0. TypeOK /\ Counters /\ Entry(b)
    BY Facts
  <1>1. \A u \in Actors : \A y \in Todo(u) : y.b # b
    BY DEF Fresh, Todo, InList
  <1>2. \A u \in Actors : \A o : ~Has(o, u, b) /\ ~Clears(o, u, b) /\ ~Holds(o, u, b)
    BY <1>1, StepParts DEF Has, Clears, Holds
  <1>3. \A u \in Actors : ~Writes(u, b)
    BY <1>2 DEF Writes
  <1>4. ~desc[b] /\ ~cache[b] /\ refs[b] = 0 /\ lrefs[b] = 0
    BY <1>0 DEF Fresh, Entry, Exist
  <1>5. \A u \in Threads : ~(fixes[u][b] > 0)
    BY <1>0, <1>4, RefsBounds DEF Counters
  <1> QED BY <1>2, <1>3, <1>4, <1>5

\* The entry that a thread makes and fixes.
LEMMA Entered ==
    ASSUME Inv, NEW t \in Threads, NEW b \in Bats, Fresh(b), Enter(t, b), todo' = todo,
           b \in Stored => mem'[b] = val'[b] /\ dirty'[b] = TRUE
    PROVE  Entry(b)'
  <1>0. \A u \in Threads : u \in Actors
    BY Constants
  <1>1. /\ \A u \in Actors : \A c : SameSteps(u, c)
        /\ \A u \in Actors : Todo(u)' = Todo(u)
    BY TodoStays
  <1>2. \A u \in Actors : \A o : ~Has(o, u, b)' /\ ~Clears(o, u, b)' /\ ~Holds(o, u, b)'
    BY <1>1, FreshIdle DEF Has, Clears, Holds
  <1>3. \A u \in Actors : ~Writes(u, b)'
    BY <1>2 DEF Writes
  <1>4. /\ status'[b] = {"LOADED"} /\ refs'[b] = 1 /\ desc'[b] = TRUE /\ cache'[b] = TRUE
    <2>1. /\ status \in [Bats -> SUBSET Flags] /\ refs \in [Bats -> Nat] /\ desc \in [Bats -> BOOLEAN] /\ cache \in [Bats -> BOOLEAN]
      BY Facts DEF TypeOK
    <2>2. b \in Views => Parent[b] # b
      BY Constants
    <2> QED BY <2>1, <2>2 DEF Enter, IsView
  <1>5. \A u \in Actors : ~Unloads(u, b)' /\ ~Loads(u, b)' /\ ~Late(u, b)' /\ ~OnlySaves(u, b)'
    BY <1>2, <1>3 DEF Unloads, Doomed, Loads, Late, Frees, OnlySaves
  <1>6. Exist(b)' /\ Begun(b)' /\ Flagged(b)' /\ Needed(b)'
    <2>1. Exist(b)'
      BY <1>4 DEF Exist
    <2>2. Begun(b)'
      BY <1>0, <1>2 DEF Begun
    <2>3. Flagged(b)'
      BY <1>4 DEF Flagged
    <2>4. Needed(b)'
      BY <1>4 DEF Needed
    <2> QED BY <2>1, <2>2, <2>3, <2>4
  <1>7. Written(b)' /\ Unloading(b)' /\ Loading(b)'
    BY <1>0, <1>2, <1>5 DEF Written, Unloading, Loading
  <1>8. Heap(b)'
    BY <1>2, <1>4, <1>5 DEF Heap, Clean, Spinning, Saving, Contents
  <1> QED BY <1>6, <1>7, <1>8 DEF Entry

\* A new BAT, fixed by its creator, comes in the place of none.
LEMMA BATnewKeeps ==
    ASSUME Inv, NEW t \in Threads, NEW b \in Bats, BATnew(t, b)
    PROVE  Inv'
  <1>0. TypeOK /\ ListsOK /\ Counters /\ Based /\ Entry(b) /\ t \in Actors
    BY Facts, Constants
  <1>1. /\ Fresh(b) /\ Enter(t, b) /\ b \in Stored /\ b \notin Views /\ ~IsView(b)
        /\ lrefs' = lrefs /\ share' = share /\ disk' = disk /\ base' = base
        /\ keeps' = keeps /\ persistent' = persistent /\ todo' = todo /\ trimLock' = trimLock
        /\ mem' = [mem EXCEPT ![b] = 1] /\ val' = [val EXCEPT ![b] = 1] /\ dirty' = [dirty EXCEPT ![b] = TRUE]
    BY Constants DEF BATnew, IsView
  <1>2. /\ status' = [status EXCEPT ![b] = {"LOADED"}] /\ refs' = [refs EXCEPT ![b] = 1]
        /\ desc' = [desc EXCEPT ![b] = TRUE] /\ cache' = [cache EXCEPT ![b] = TRUE]
        /\ fixes' = [fixes EXCEPT ![t][b] = 1]
    BY <1>1 DEF Enter
  <1>3. /\ ~desc[b] /\ ~cache[b] /\ refs[b] = 0 /\ lrefs[b] = 0 /\ ~(fixes[t][b] > 0)
    BY <1>1, FreshIdle
  <1>4. /\ SameCounted /\ \A u \in Actors : \A c : SameSteps(u, c)
        /\ \A u \in Actors : Todo(u)' = Todo(u)
    BY <1>1, TodoStays
  <1>5. TypeOK' /\ Shaped'
    <2>1. /\ status' \in [Bats -> SUBSET Flags] /\ refs' \in [Bats -> Nat] /\ desc' \in [Bats -> BOOLEAN]
          /\ cache' \in [Bats -> BOOLEAN] /\ dirty' \in [Bats -> BOOLEAN]
      BY <1>0, <1>1, <1>2 DEF TypeOK, Flags
    <2>2. mem' \in [Bats -> 0..MaxVal] /\ val' \in [Bats -> 0..MaxVal]
      <3>1. 1 \in 0..MaxVal
        BY BatsAssumption
      <3> QED BY <1>0, <1>1, <3>1 DEF TypeOK
    <2>3. fixes' \in [Threads -> [Bats -> Nat]]
      BY <1>0, <1>2 DEF TypeOK
    <2> QED BY <1>0, <1>1, <2>1, <2>2, <2>3 DEF TypeOK, ListsOK, Shaped
  <1>6. /\ \A c \in Bats : c # b => /\ status'[c] = status[c] /\ refs'[c] = refs[c] /\ desc'[c] = desc[c] /\ cache'[c] = cache[c]
                                    /\ dirty'[c] = dirty[c] /\ mem'[c] = mem[c] /\ val'[c] = val[c]
                                    /\ \A u \in Threads : fixes'[u][c] = fixes[u][c]
        /\ refs'[b] = 1 /\ cache'[b] = TRUE /\ fixes'[t][b] = 1 /\ mem'[b] = val'[b] /\ dirty'[b] = TRUE
        /\ \A u \in Threads : u # t => fixes'[u] = fixes[u]
    BY <1>0, <1>1, <1>2 DEF TypeOK
  <1>7. \A w \in Views : w # b /\ (Joined(w)' <=> Joined(w))
    <2>1. \A u \in Threads : \A w : Joins(u, w)' <=> Joins(u, w)
      BY <1>4, Constants DEF SameSteps, Telling, Joins
    <2> QED BY <1>1, <1>6, <2>1, Constants DEF Joined
  <1>8. \A u \in Threads : \A c : /\ OwesFix(u, c)' <=> OwesFix(u, c)
                                  /\ OwesKeep(u, c)' <=> OwesKeep(u, c)
                                  /\ Has("unshare", u, c)' <=> Has("unshare", u, c)
                                  /\ Has("use", u, c)' <=> Has("use", u, c)
    BY <1>4, Constants DEF SameCounted, Counted, OwesFix, OwesKeep
  <1>9. ASSUME NEW c \in Bats PROVE Recounted(t, b, c)
    <2>1. /\ lrefs'[c] = lrefs[c] /\ share'[c] = share[c] /\ keeps'[c] = keeps[c]
          /\ lrefs[c] \in Nat /\ share[c] \in Nat /\ keeps[c] \in Nat /\ refs[c] \in Nat
      BY <1>0, <1>1 DEF TypeOK
    <2>2. /\ N(OwesFix(t, c)') = N(OwesFix(t, c)) /\ N(OwesKeep(t, c)') = N(OwesKeep(t, c))
          /\ N(Has("unshare", t, c)') = N(Has("unshare", t, c))
          /\ N(b \in JoinedTo(c)') = 0 /\ N(b \in JoinedTo(c)) = 0 /\ N(b \in ViewsOf(c)') = 0 /\ N(b \in ViewsOf(c)) = 0
          /\ N(OwesFix(t, c)) \in Nat
      BY <1>1, <1>8 DEF N, JoinedTo, ViewsOf
    <2>3. CASE c = b
      <3>1. N(fixes[t][c] > 0) = 0 /\ N(fixes'[t][c] > 0) = 1
        BY <1>3, <1>6, <2>3 DEF N
      <3> QED BY <1>3, <1>6, <2>1, <2>2, <2>3, <3>1 DEF Recounted
    <2>4. CASE c # b
      <3>1. refs'[c] = refs[c] /\ fixes'[t][c] = fixes[t][c]
        BY <1>6, <2>4
      <3>2. N(fixes'[t][c] > 0) = N(fixes[t][c] > 0)
        BY <3>1 DEF N
      <3> QED BY <2>1, <2>2, <3>1, <3>2 DEF Recounted
    <2> QED BY <2>3, <2>4
  <1>10. Counters'
    <2>1. Alone(t, b)
      <3>1. \A w \in Views : w # b => desc'[w] = desc[w]
        BY <1>6, Constants
      <3>2. \A u \in Threads : u # t => \A c \in Bats : fixes'[u][c] = fixes[u][c]
        BY <1>6
      <3> QED BY <1>1, <1>7, <1>8, <3>1, <3>2 DEF Alone
    <2>2. \A c \in Bats : fixes'[t][c] \in {0, 1} /\ (Has("use", t, c)' => fixes'[t][c] = 0)
      <3>1. ~Has("use", t, b)
        BY <1>0, <1>1, FreshIdle
      <3> QED BY <1>0, <1>6, <1>8, <3>1 DEF Counters, FixesOnce
    <2> QED BY <1>0, <1>5, <1>9, <2>1, <2>2, Recount
  <1>11. Based'
    <2> SUFFICES ASSUME NEW w \in Views
                 PROVE  /\ base'[w] # "wrong"
                        /\ base'[w] = "pointer" => Joined(w)' /\ cache'[Parent[w]]
                        /\ base'[w] = "offset" => refs'[w] = 0 \/ "LOADING" \in status'[w]
      BY DEF Based
    <2>1. /\ base[w] # "wrong"
          /\ base[w] = "pointer" => Joined(w) /\ cache[Parent[w]]
          /\ base[w] = "offset" => refs[w] = 0 \/ "LOADING" \in status[w]
      BY <1>0 DEF Based
    <2> QED BY <1>1, <1>6, <1>7, <2>1, Constants
  <1>12. \A c \in Bats : c # b => Same(c)
    <2>1. \A c \in Bats : keeps'[c] >= keeps[c]
      BY <1>0, <1>1 DEF TypeOK
    <2> QED BY <1>1, <1>4, <1>6, <2>1 DEF Same
  <1>13. Entry(b)'
    BY <1>1, <1>6, Entered
  <1> QED BY <1>5, <1>10, <1>11, <1>12, <1>13, Around

\* A new view counts for its parent a logical reference, a share and a fix.
LEMMA VIEWcreateKeeps ==
    ASSUME Inv, NEW t \in Threads, NEW v \in Bats, VIEWcreate(t, v)
    PROVE  Inv'
  <1>0. TypeOK /\ ListsOK /\ Counters /\ Based /\ Entry(v) /\ t \in Actors
    BY Facts, Constants
  <1> DEFINE p == Parent[v]
  <1>1. /\ Fresh(v) /\ Enter(t, v) /\ v \in Views /\ v \notin Stored /\ IsView(v)
        /\ p \in Stored /\ p \in Bats /\ p \notin Views /\ p # v /\ fixes[t][p] > 0
        /\ dirty' = dirty /\ mem' = mem /\ disk' = disk /\ val' = val
        /\ keeps' = keeps /\ persistent' = persistent /\ todo' = todo /\ trimLock' = trimLock
        /\ lrefs' = [lrefs EXCEPT ![p] = @ + 1] /\ share' = [share EXCEPT ![p] = @ + 1]
        /\ base' = [base EXCEPT ![v] = "pointer"]
    BY Constants DEF VIEWcreate, IsView
  <1>2. /\ status' = [status EXCEPT ![v] = {"LOADED"}] /\ refs' = [refs EXCEPT ![v] = 1, ![p] = @ + 1]
        /\ desc' = [desc EXCEPT ![v] = TRUE] /\ cache' = [cache EXCEPT ![v] = TRUE]
        /\ fixes' = [fixes EXCEPT ![t][v] = 1]
    BY <1>1 DEF Enter
  <1> HIDE DEF p
  <1>3. /\ ~desc[v] /\ ~cache[v] /\ refs[v] = 0 /\ lrefs[v] = 0 /\ ~(fixes[t][v] > 0)
        /\ \A u \in Actors : \A o : ~Has(o, u, v)
    BY <1>1, FreshIdle
  <1>4. /\ SameCounted /\ \A u \in Actors : \A c : SameSteps(u, c)
        /\ \A u \in Actors : Todo(u)' = Todo(u)
    BY <1>1, TodoStays
  <1>5. TypeOK' /\ Shaped'
    <2>1. /\ status' \in [Bats -> SUBSET Flags] /\ refs' \in [Bats -> Nat] /\ desc' \in [Bats -> BOOLEAN]
          /\ cache' \in [Bats -> BOOLEAN] /\ lrefs' \in [Bats -> Nat] /\ share' \in [Bats -> Nat]
      <3>1. status' \in [Bats -> SUBSET Flags] /\ desc' \in [Bats -> BOOLEAN] /\ cache' \in [Bats -> BOOLEAN]
        BY <1>0, <1>2 DEF TypeOK, Flags
      <3>2. refs \in [Bats -> Nat] /\ lrefs \in [Bats -> Nat] /\ share \in [Bats -> Nat]
        BY <1>0 DEF TypeOK
      <3>3. p \in Bats
        BY <1>1
      <3>4. refs[p] + 1 \in Nat /\ lrefs[p] + 1 \in Nat /\ share[p] + 1 \in Nat
        <4>1. refs[p] \in Nat /\ lrefs[p] \in Nat /\ share[p] \in Nat
          BY <3>2, <3>3
        <4> QED BY <4>1
      <3>5. refs' \in [Bats -> Nat]
        BY <1>2, <3>4, <3>2
      <3>6. lrefs' \in [Bats -> Nat] /\ share' \in [Bats -> Nat]
        BY <1>1, <3>4, <3>2
      <3> QED BY <3>1, <3>5, <3>6
    <2>2. base' \in [Views -> {"offset", "pointer", "wrong"}]
      BY <1>0, <1>1 DEF TypeOK
    <2>3. fixes' \in [Threads -> [Bats -> Nat]]
      BY <1>0, <1>2 DEF TypeOK
    <2> QED BY <1>0, <1>1, <2>1, <2>2, <2>3 DEF TypeOK, ListsOK, Shaped
  <1>6. /\ \A c \in Bats : c # v => /\ status'[c] = status[c] /\ desc'[c] = desc[c] /\ cache'[c] = cache[c]
                                    /\ c # p => refs'[c] = refs[c] /\ lrefs'[c] = lrefs[c] /\ share'[c] = share[c]
                                    /\ \A u \in Threads : fixes'[u][c] = fixes[u][c]
        /\ refs'[v] = 1 /\ cache'[v] = TRUE /\ desc'[v] = TRUE /\ fixes'[t][v] = 1
        /\ lrefs'[v] = lrefs[v] /\ share'[v] = share[v]
        /\ refs'[p] = refs[p] + 1 /\ lrefs'[p] = lrefs[p] + 1 /\ share'[p] = share[p] + 1
        /\ \A u \in Threads : u # t => fixes'[u] = fixes[u]
        /\ base'[v] = "pointer" /\ \A w \in Views : w # v => base'[w] = base[w]
    <2>1. /\ \A c \in Bats : c # v => status'[c] = status[c] /\ desc'[c] = desc[c] /\ cache'[c] = cache[c]
          /\ cache'[v] = TRUE /\ desc'[v] = TRUE
      BY <1>0, <1>2 DEF TypeOK
    <2>2. /\ \A c \in Bats : c # v /\ c # p => refs'[c] = refs[c]
          /\ refs'[v] = 1 /\ refs'[p] = refs[p] + 1
      <3>1. refs \in [Bats -> Nat]
        BY <1>0 DEF TypeOK
      <3> QED BY <1>1, <1>2, <3>1
    <2>3. /\ \A c \in Bats : c # p => lrefs'[c] = lrefs[c] /\ share'[c] = share[c]
          /\ lrefs'[p] = lrefs[p] + 1 /\ share'[p] = share[p] + 1
      BY <1>0, <1>1 DEF TypeOK
    <2>4. /\ \A c \in Bats : c # v => \A u \in Threads : fixes'[u][c] = fixes[u][c]
          /\ \A u \in Threads : u # t => fixes'[u] = fixes[u]
          /\ fixes'[t][v] = 1
      BY <1>0, <1>2 DEF TypeOK
    <2>5. base'[v] = "pointer" /\ \A w \in Views : w # v => base'[w] = base[w]
      BY <1>0, <1>1 DEF TypeOK
    <2> QED BY <1>1, <2>1, <2>2, <2>3, <2>4, <2>5
  <1>7. /\ cache[p] /\ desc[p] /\ refs[p] >= 1 /\ refs[p] \in Nat /\ lrefs[p] \in Nat /\ share[p] \in Nat
        /\ "UNLOADING" \notin status[p] /\ Entry(p)
    <2>1. Entry(p) /\ refs[p] \in Nat /\ lrefs[p] \in Nat /\ share[p] \in Nat
      BY <1>0, <1>1, Facts DEF TypeOK
    <2>2. refs[p] >= 1
      BY <1>0, <1>1, RefsBounds DEF Counters
    <2> QED BY <1>1, <2>1, <2>2 DEF Entry, Needed, Exist, Flagged
  <1>8. /\ \A w \in Views : w # v => (Joined(w)' <=> Joined(w))
        /\ ~Joined(v) /\ Joined(v)'
    <2>1. \A u \in Threads : \A w : Joins(u, w)' <=> Joins(u, w)
      BY <1>4, Constants DEF SameSteps, Telling, Joins
    <2>2. \A w \in Views : w # v => (Joined(w)' <=> Joined(w))
      BY <1>1, <1>6, <2>1, Constants DEF Joined
    <2>3. \A u \in Threads : ~Joins(u, v)
      BY <1>3, Constants DEF Joins
    <2> QED BY <1>3, <1>6, <2>1, <2>2, <2>3 DEF Joined
  <1>9. \A u \in Threads : \A c : /\ OwesFix(u, c)' <=> OwesFix(u, c)
                                  /\ OwesKeep(u, c)' <=> OwesKeep(u, c)
                                  /\ Has("unshare", u, c)' <=> Has("unshare", u, c)
                                  /\ Has("use", u, c)' <=> Has("use", u, c)
    BY <1>4, Constants DEF SameCounted, Counted, OwesFix, OwesKeep
  <1>10. ASSUME NEW c \in Bats PROVE Recounted(t, v, c)
    <2>1. /\ keeps'[c] = keeps[c]
          /\ lrefs[c] \in Nat /\ share[c] \in Nat /\ keeps[c] \in Nat /\ refs[c] \in Nat
      BY <1>0, <1>1 DEF TypeOK
    <2>2. /\ N(OwesFix(t, c)') = N(OwesFix(t, c)) /\ N(OwesKeep(t, c)') = N(OwesKeep(t, c))
          /\ N(Has("unshare", t, c)') = N(Has("unshare", t, c))
          /\ N(OwesFix(t, c)) \in Nat /\ N(OwesKeep(t, c)) \in Nat /\ N(Has("unshare", t, c)) \in Nat
      BY <1>9 DEF N
    <2>3. /\ v \notin JoinedTo(c) /\ v \notin ViewsOf(c)
          /\ (v \in JoinedTo(c)' <=> c = p) /\ (v \in ViewsOf(c)' <=> c = p)
      BY <1>1, <1>3, <1>6, <1>8 DEF JoinedTo, ViewsOf, p
    <2>4. CASE c = v
      <3>1. /\ N(fixes[t][c] > 0) = 0 /\ N(fixes'[t][c] > 0) = 1
            /\ N(v \in JoinedTo(c)) = 0 /\ N(v \in ViewsOf(c)) = 0 /\ N(v \in JoinedTo(c)') = 0 /\ N(v \in ViewsOf(c)') = 0
        BY <1>1, <1>3, <1>6, <2>3, <2>4 DEF N
      <3> QED BY <1>3, <1>6, <2>1, <2>2, <2>4, <3>1 DEF Recounted
    <2>5. CASE c = p
      <3>1. fixes'[t][c] = fixes[t][c]
        BY <1>1, <1>6, <2>5
      <3>2. /\ N(fixes'[t][c] > 0) = N(fixes[t][c] > 0) /\ N(fixes[t][c] > 0) \in Nat
            /\ N(v \in JoinedTo(c)) = 0 /\ N(v \in ViewsOf(c)) = 0 /\ N(v \in JoinedTo(c)') = 1 /\ N(v \in ViewsOf(c)') = 1
        BY <2>3, <2>5, <3>1 DEF N
      <3> QED BY <1>6, <2>1, <2>2, <2>5, <3>2 DEF Recounted
    <2>6. CASE c # v /\ c # p
      <3>1. refs'[c] = refs[c] /\ lrefs'[c] = lrefs[c] /\ share'[c] = share[c] /\ fixes'[t][c] = fixes[t][c]
        BY <1>6, <2>6
      <3>2. /\ N(fixes'[t][c] > 0) = N(fixes[t][c] > 0) /\ N(fixes[t][c] > 0) \in Nat
            /\ N(v \in JoinedTo(c)) = 0 /\ N(v \in ViewsOf(c)) = 0 /\ N(v \in JoinedTo(c)') = 0 /\ N(v \in ViewsOf(c)') = 0
        BY <2>3, <2>6, <3>1 DEF N
      <3> QED BY <2>1, <2>2, <3>1, <3>2 DEF Recounted
    <2> QED BY <2>4, <2>5, <2>6
  <1>11. Counters'
    <2>1. Alone(t, v)
      <3>1. \A w \in Views : w # v => desc'[w] = desc[w]
        BY <1>6, Constants
      <3>2. \A u \in Threads : u # t => \A c \in Bats : fixes'[u][c] = fixes[u][c]
        BY <1>6
      <3> QED BY <1>1, <1>8, <1>9, <3>1, <3>2 DEF Alone
    <2>2. \A c \in Bats : fixes'[t][c] \in {0, 1} /\ (Has("use", t, c)' => fixes'[t][c] = 0)
      <3>1. ~Has("use", t, v)
        BY <1>0, <1>3
      <3> QED BY <1>0, <1>6, <1>9, <3>1 DEF Counters, FixesOnce
    <2> QED BY <1>0, <1>5, <1>10, <2>1, <2>2, Recount
  <1>12. Based'
    <2> SUFFICES ASSUME NEW w \in Views
                 PROVE  /\ base'[w] # "wrong"
                        /\ base'[w] = "pointer" => Joined(w)' /\ cache'[Parent[w]]
                        /\ base'[w] = "offset" => refs'[w] = 0 \/ "LOADING" \in status'[w]
      BY DEF Based
    <2>1. /\ base[w] # "wrong"
          /\ base[w] = "pointer" => Joined(w) /\ cache[Parent[w]]
          /\ base[w] = "offset" => refs[w] = 0 \/ "LOADING" \in status[w]
      BY <1>0 DEF Based
    <2>2. Parent[w] \in Bats /\ Parent[w] # v /\ w \in Bats /\ w # p /\ Parent[v] = p
      BY <1>1, Constants DEF p
    <2>3. CASE w = v
      BY <1>6, <1>7, <1>8, <2>2, <2>3
    <2>4. CASE w # v
      BY <1>6, <1>8, <2>1, <2>2, <2>4
    <2> QED BY <2>3, <2>4
  <1>13. Entry(v)'
    BY <1>1, Entered
  <1>14. \A c \in Bats : c # v /\ c # p => Entry(c)'
    <2>1. \A c \in Bats : keeps'[c] >= keeps[c] /\ keeps[c] \in Nat /\ keeps'[c] \in Nat
      BY <1>0, <1>1 DEF TypeOK
    <2>2. \A c \in Bats : c # v /\ c # p => Same(c)
      BY <1>1, <1>4, <1>6, <2>1 DEF Same
    <2> QED BY <2>1, <2>2, Elsewhere, Facts
  <1>15. Entry(p)'
    <2>1. \A u \in Actors : SameSteps(u, p)
      BY <1>4
    <2>2. status'[p] = status[p] /\ desc'[p] = desc[p] /\ cache'[p] = cache[p] /\ \A u \in Threads : fixes'[u][p] = fixes[u][p]
      BY <1>1, <1>6
    <2>3. refs'[p] > 0
      BY <1>6, <1>7
    <2>4. \A u \in Actors : /\ Unloads(u, p)' <=> Unloads(u, p)
                            /\ Doomed(u, p)' <=> Doomed(u, p)
                            /\ Frees(u, p)' <=> Frees(u, p)
                            /\ Loads(u, p)' <=> Loads(u, p)
                            /\ Late(u, p)' <=> Late(u, p)
                            /\ OnlySaves(u, p)' <=> OnlySaves(u, p)
                            /\ Opened(u, p)' <=> Opened(u, p)
      BY <2>1, <2>2 DEF SameSteps, Telling, Unloads, Doomed, Frees, Loads, Late, Saves, OnlySaves, Opened
    <2>5. Eased(p)
      BY <1>1, <1>7, <2>1, <2>2, <2>3, <2>4 DEF SameSteps, Telling, Eased
    <2>6. \A u \in Actors : Has("spin", u, p)' /\ dirty[p] => "SAVING" \in status'[p]
      BY <1>1, <1>7, <2>1, <2>2 DEF SameSteps, Telling, Entry, Heap, Spinning
    <2>7. Lasting(p)
      BY <1>1, <2>2, <2>4, <2>5, <2>6 DEF Lasting
    <2> QED BY <1>1, <1>7, <2>7, LastingStay
  <1> QED BY <1>5, <1>11, <1>12, <1>13, <1>14, <1>15 DEF Inv, Pool

----------------------------------------------------------------------------
(***************************************************************************)
(* The invariant                                                           *)
(***************************************************************************)
\* Threads that have nothing to do owe nothing.
LEMMA NothingToDo ==
    ASSUME \A u \in Actors : todo[u] = <<>>
    PROVE  \A u \in Actors : /\ \A o, c : ~Has(o, u, c) /\ ~Clears(o, u, c) /\ ~Holds(o, u, c)
                             /\ \A c : /\ ~Writes(u, c) /\ ~Serves(u, c) /\ ~Window(u, c) /\ ~Frees(u, c)
                                       /\ ~Doomed(u, c) /\ ~Unloads(u, c) /\ ~Loads(u, c) /\ ~Late(u, c) /\ ~OnlySaves(u, c)
  <1>1. \A u \in Actors : Todo(u) = {}
    BY DEF Todo, InList
  <1>2. \A u \in Actors : \A o, c : ~Has(o, u, c) /\ ~Clears(o, u, c) /\ ~Holds(o, u, c)
    BY <1>1 DEF Has, Clears, Holds
  <1>3. \A u \in Actors : \A c : ~Writes(u, c) /\ ~Serves(u, c) /\ ~Window(u, c) /\ ~Frees(u, c) /\ ~Doomed(u, c)
    BY <1>2 DEF Writes, Serves, Window, Frees, Doomed
  <1>4. \A u \in Actors : \A c : ~Unloads(u, c) /\ ~Loads(u, c) /\ ~Late(u, c) /\ ~OnlySaves(u, c)
    BY <1>2, <1>3 DEF Unloads, Loads, Late, OnlySaves
  <1> QED BY <1>2, <1>3, <1>4

\* With no call under way nothing is owed.
LEMMA QuietOwes ==
    ASSUME \A u \in Actors : todo[u] = <<>>, NEW b
    PROVE  /\ FixOwed(b) = {} /\ KeepOwed(b) = {} /\ ShareOwed(b) = {}
           /\ \A v \in Views : Joined(v) <=> refs[v] > 0
  <1>1. \A u \in Threads : \A o, c : ~Has(o, u, c)
    BY NothingToDo, Constants
  <1> QED BY <1>1 DEF FixOwed, OwesFix, KeepOwed, OwesKeep, ShareOwed, Joined, Joins

\* The pool after BBPinit.
LEMMA InitInv == Init => Inv
  <1> SUFFICES ASSUME Init PROVE Inv
    OBVIOUS
  <1>0. /\ \A u \in Actors : todo[u] = <<>>
        /\ persistent \subseteq Stored /\ persistent \subseteq Bats
        /\ \A u \in Threads : u \in Actors
    BY Constants DEF Init
  <1>1. \A c \in Bats : /\ status[c] = {} /\ refs[c] = 0 /\ lrefs[c] = (IF c \in persistent THEN 1 ELSE 0) /\ share[c] = 0
                        /\ desc[c] = (c \in persistent) /\ cache[c] = FALSE /\ dirty[c] = FALSE
                        /\ disk[c] = (IF c \in persistent THEN 1 ELSE 0) /\ val[c] = (IF c \in persistent THEN 1 ELSE 0)
                        /\ keeps[c] = 0 /\ \A u \in Threads : fixes[u][c] = 0
    BY DEF Init
  <1>2. TypeOK
    <2>1. 0 \in 0..MaxVal /\ 1 \in 0..MaxVal
      BY BatsAssumption
    <2>2. /\ mem \in [Bats -> 0..MaxVal] /\ disk \in [Bats -> 0..MaxVal] /\ val \in [Bats -> 0..MaxVal]
      BY <2>1 DEF Init
    <2>3. /\ status \in [Bats -> SUBSET Flags] /\ refs \in [Bats -> Nat] /\ lrefs \in [Bats -> Nat] /\ share \in [Bats -> Nat]
          /\ desc \in [Bats -> BOOLEAN] /\ cache \in [Bats -> BOOLEAN] /\ dirty \in [Bats -> BOOLEAN]
          /\ base \in [Views -> {"offset", "pointer", "wrong"}]
          /\ fixes \in [Threads -> [Bats -> Nat]] /\ keeps \in [Bats -> Nat]
      BY DEF Init
    <2>4. todo \in [Actors -> Seq([op : Ops, b : Bats, set : SUBSET Flags])]
      BY EmptyList DEF Init, Steps
    <2> QED BY <1>0, <2>2, <2>3, <2>4 DEF TypeOK, Init
  <1>3. Shaped
    BY <1>0, FormedCons DEF Shaped
  <1>4. \A v \in Views : v \in Bats /\ refs[v] = 0 /\ desc[v] = FALSE /\ ~Joined(v) /\ base[v] = "offset"
    <2>1. \A v \in Views : v \in Bats /\ v \notin persistent
      BY <1>0, Constants
    <2>2. ASSUME NEW v \in Views PROVE refs[v] = 0 /\ desc[v] = FALSE
      <3>1. v \in Bats /\ v \notin persistent
        BY <2>1
      <3>2. refs[v] = 0 /\ desc[v] = (v \in persistent)
        BY <1>1, <3>1, Zenon
      <3>3. (v \in persistent) = FALSE
        BY <3>1
      <3> QED BY <3>2, <3>3, Zenon
    <2>3. \A v \in Views : ~Joined(v)
      <3> SUFFICES ASSUME NEW v \in Views, refs[v] > 0 PROVE FALSE
        BY DEF Joined
      <3>1. refs[v] = 0
        BY <2>2
      <3> QED BY <3>1
    <2> QED BY <2>1, <2>2, <2>3 DEF Init
  <1>5. Counters
    <2>1. ASSUME NEW c \in Bats
          PROVE  /\ Holders(c) = {} /\ FixOwed(c) = {} /\ JoinedTo(c) = {}
                 /\ ViewsOf(c) = {} /\ KeepOwed(c) = {} /\ ShareOwed(c) = {}
      <3>1. Holders(c) = {}
        BY <1>1 DEF Holders
      <3>2. JoinedTo(c) = {} /\ ViewsOf(c) = {}
        BY <1>4 DEF JoinedTo, ViewsOf
      <3> QED BY <1>0, <3>1, <3>2, QuietOwes
    <2>2. Cardinality({}) = 0
      BY FS_EmptySet
    <2>3. \A c \in Bats : Cardinality({c} \cap persistent) = IF c \in persistent THEN 1 ELSE 0
      <3>1. \A c \in persistent : {c} \cap persistent = {c} /\ Cardinality({c}) = 1
        BY FS_Singleton
      <3>2. \A c : c \notin persistent => {c} \cap persistent = {}
        OBVIOUS
      <3> QED BY <2>2, <3>1, <3>2
    <2>4. RefsExact /\ ShareExact
      <3>1. \A c \in Bats : /\ Cardinality(Holders(c)) = 0 /\ Cardinality(FixOwed(c)) = 0 /\ Cardinality(JoinedTo(c)) = 0
                            /\ Cardinality(ViewsOf(c)) = 0 /\ Cardinality(ShareOwed(c)) = 0
        BY <2>1, <2>2
      <3> QED BY <1>1, <3>1 DEF RefsExact, ShareExact
    <2>5. LrefsExact
      <3> SUFFICES ASSUME NEW c \in Bats
                   PROVE  lrefs[c] = keeps[c] + Cardinality({c} \cap persistent) + Cardinality(ViewsOf(c)) + Cardinality(KeepOwed(c))
        BY DEF LrefsExact
      <3>1. Cardinality(ViewsOf(c)) = 0 /\ Cardinality(KeepOwed(c)) = 0 /\ keeps[c] = 0
        BY <1>1, <2>1, <2>2
      <3>2. lrefs[c] = Cardinality({c} \cap persistent) /\ lrefs[c] \in Nat
        BY <1>1, <2>3
      <3> QED BY <3>1, <3>2
    <2>6. FixesOnce
      BY <1>1 DEF FixesOnce
    <2> QED BY <2>4, <2>5, <2>6 DEF Counters
  <1>6. ASSUME NEW c \in Bats PROVE Entry(c)
    <2>1. Exist(c) /\ Begun(c) /\ Flagged(c) /\ Needed(c)
      <3>1. Exist(c)
        BY <1>1, <1>4 DEF Exist
      <3>2. Begun(c) /\ Needed(c)
        BY <1>0, <1>1, NothingToDo DEF Begun, Needed, Opened
      <3>3. Flagged(c)
        BY <1>1 DEF Flagged
      <3> QED BY <3>1, <3>2, <3>3
    <2>2. Written(c) /\ Unloading(c) /\ Loading(c)
      BY <1>0, NothingToDo DEF Written, Unloading, Loading
    <2>3. Heap(c)
      <3>1. Clean(c) /\ Spinning(c) /\ Saving(c)
        BY <1>0, NothingToDo DEF Clean, Spinning, Saving
      <3>2. Contents(c)
        BY <1>1 DEF Contents
      <3> QED BY <3>1, <3>2 DEF Heap
    <2> QED BY <2>1, <2>2, <2>3 DEF Entry
  <1>7. Based
    BY <1>4 DEF Based
  <1> QED BY <1>2, <1>3, <1>5, <1>6, <1>7 DEF Inv, Pool

\* A commit clears flags in one step, or nothing commits.
FlagsLocked == LocksFlags \/ ~May("commit")

\* Every step of a call that is under way.
LEMMA ContinueKeeps ==
    ASSUME FlagsLocked, Inv, NEW t \in Actors, Continue(t)
    PROVE  Inv'
  <1>1. PICK b \in Bats :
        \/ StatusRead(t, b) \/ StatusWrite(t, b)
        \/ increfLogical(t, b) \/ increfPhysical(t, b) \/ Rebase(t, b)
        \/ Cached(t, b) \/ MustLoad(t, b) \/ Load(t, b)
        \/ decrefLogical(t, b) \/ decrefPhysical(t, b) \/ UnloadOrDestroy(t, b)
        \/ BBPdestroy(t, b) \/ ReleaseShare(t, b)
        \/ BBPsave(t, b) \/ BBPspin(t, b) \/ BATsave(t, b) \/ BBPfree(t, b)
        \/ Use(t, b) \/ Kept(t, b) \/ dirty_bat(t, b) \/ epilogue(t, b) \/ Committed(t, b)
    BY DEF Continue
  <1>2. CASE StatusRead(t, b) \/ StatusWrite(t, b)
    BY <1>2, StatusReadKeeps, StatusWriteKeeps
  <1>3. CASE increfLogical(t, b) \/ increfPhysical(t, b) \/ Rebase(t, b)
    BY <1>3, increfLogicalKeeps, increfPhysicalKeeps, RebaseKeeps
  <1>4. CASE Cached(t, b) \/ MustLoad(t, b) \/ Load(t, b)
    BY <1>4, CachedKeeps, MustLoadKeeps, LoadKeeps
  <1>5. CASE decrefLogical(t, b) \/ decrefPhysical(t, b) \/ UnloadOrDestroy(t, b)
    BY <1>5, decrefLogicalKeeps, decrefPhysicalKeeps, UnloadOrDestroyKeeps
  <1>6. CASE BBPdestroy(t, b) \/ ReleaseShare(t, b)
    BY <1>6, BBPdestroyKeeps, ReleaseShareKeeps
  <1>7. CASE BBPsave(t, b) \/ BBPspin(t, b) \/ BATsave(t, b) \/ BBPfree(t, b)
    BY <1>7, BBPsaveKeeps, BBPspinKeeps, BATsaveKeeps, BBPfreeKeeps
  <1>8. CASE Use(t, b) \/ Kept(t, b)
    BY <1>8, UseKeeps, KeptKeeps
  <1>9. CASE dirty_bat(t, b) \/ epilogue(t, b) \/ Committed(t, b)
    BY <1>9, dirty_batKeeps, epilogueKeeps, CommittedKeeps DEF FlagsLocked
  <1> QED BY <1>1, <1>2, <1>3, <1>4, <1>5, <1>6, <1>7, <1>8, <1>9

\* Every call that begins.
LEMMA StartKeeps ==
    ASSUME Inv, NEW t \in Threads, Start(t)
    PROVE  Inv'
  <1>1. PICK b \in Bats :
        \/ BATdescriptor(t, b) \/ BBPunfix(t, b) \/ BBPkeepref(t, b) \/ Release(t, b)
        \/ BATnew(t, b) \/ VIEWcreate(t, b) \/ Update(t, b) \/ Save(t, b) \/ TMsubcommit(t, b)
    BY DEF Start
  <1>2. CASE BATdescriptor(t, b) \/ BBPunfix(t, b) \/ BBPkeepref(t, b) \/ Release(t, b)
    BY <1>2, BATdescriptorKeeps, BBPunfixKeeps, ReleaseKeeps
  <1>3. CASE BATnew(t, b) \/ VIEWcreate(t, b)
    BY <1>3, BATnewKeeps, VIEWcreateKeeps
  <1>4. CASE Update(t, b) \/ Save(t, b) \/ TMsubcommit(t, b)
    BY <1>4, UpdateKeeps, SaveKeeps, TMsubcommitKeeps
  <1> QED BY <1>1, <1>2, <1>3, <1>4

\* The invariant is inductive.
LEMMA NextInv == FlagsLocked /\ Inv /\ [Next]_vars => Inv'
  <1> SUFFICES ASSUME FlagsLocked, Inv, [Next]_vars PROVE Inv'
    OBVIOUS
  <1>1. ASSUME NEW t \in Actors, Continue(t) PROVE Inv'
    BY <1>1, ContinueKeeps
  <1>2. ASSUME NEW t \in Threads, Start(t) PROVE Inv'
    BY <1>2, StartKeeps
  <1>3. CASE Trim
    <2>1. ASSUME NEW S \in SUBSET Stored, BBPtrim(S) PROVE Inv'
      BY <2>1, BBPtrimKeeps
    <2>2. ASSUME NEW b \in Stored, TrimOne(b) PROVE Inv'
      BY <2>2, TrimOneKeeps
    <2>3. CASE TrimDone
      BY <2>3, TrimDoneKeeps
    <2> QED BY <1>3, <2>1, <2>2, <2>3 DEF Trim
  <1>4. CASE UNCHANGED vars
    <2>1. UNCHANGED <<bbp, heaps, users, todo>> /\ trimLock' = trimLock
      BY <1>4 DEF vars
    <2>2. trimLock' \in Actors \cup {"none"}
      BY <2>1, Facts DEF TypeOK
    <2> QED BY <2>1, <2>2, StutterKeeps
  <1> QED BY <1>1, <1>2, <1>3, <1>4 DEF Next

----------------------------------------------------------------------------
(***************************************************************************)
(* What it says                                                            *)
(***************************************************************************)
\* A view that is in use has a pointer into the heap of its parent: while a
\* thread loads it, nobody else has a fix on it.
LEMMA ViewsUsable ==
    ASSUME Inv, NEW t \in Threads, NEW v \in Views, fixes[t][v] > 0
    PROVE  base[v] = "pointer" /\ cache[Parent[v]]
  <1>0. v \in Bats /\ Entry(v) /\ Based /\ TypeOK /\ Counters
    BY Facts, Constants
  <1>1. refs[v] >= 1 /\ refs[v] \in Nat
    BY <1>0, RefsBounds DEF Counters, TypeOK
  <1>2. "LOADING" \notin status[v]
    <2> SUFFICES ASSUME "LOADING" \in status[v] PROVE FALSE
      OBVIOUS
    <2>1. PICK u \in Threads : Loads(u, v)
      BY <1>0 DEF Entry, Flagged
    <2>2. refs[v] = 1
      BY <1>0, <2>1 DEF Entry, Loading
    <2>3. Has("use", u, v) /\ ~Has("incref", u, v)
      <3>1. Sound(u, v) /\ v \notin Stored
        BY Facts, Constants
      <3> QED BY <2>1, <3>1 DEF Sound, Loads
    <2>4. Window(u, v)
      BY <2>3 DEF Window
    <2>5. refs[v] >= 2
      BY <1>0, <2>3, <2>4, Claims
    <2> QED BY <2>2, <2>5
  <1>3. refs[v] # 0
    BY <1>1
  <1> QED BY <1>0, <1>2, <1>3 DEF Based, TypeOK

\* What a thread has fixed is in memory; a view needs its parent too.
LEMMA InvUse == Inv => UseSafe
  <1> SUFFICES ASSUME Inv, NEW t \in Threads, NEW b \in Bats, fixes[t][b] > 0
               PROVE  /\ cache[b]
                      /\ b \in Stored => mem[b] = val[b]
                      /\ b \in Views => base[b] = "pointer" /\ cache[Parent[b]]
    BY DEF UseSafe
  <1>1. cache[b] /\ (b \in Stored => mem[b] = val[b])
    BY Facts DEF Entry, Needed, Heap, Contents
  <1> QED BY <1>1, ViewsUsable

\* What is in memory is right, and so is the file of what is not.
LEMMA InvNothing == Inv => NothingLost
  <1> SUFFICES ASSUME Inv, NEW b \in Stored, lrefs[b] > 0
               PROVE  mem[b] = val[b] \/ disk[b] = val[b]
    BY DEF NothingLost
  <1>1. b \in Bats /\ Entry(b) /\ desc[b] \in BOOLEAN
    BY Facts, Constants DEF TypeOK
  <1> QED BY <1>1 DEF Entry, Exist, Heap, Contents

\* With nothing owed, the counters are what the holders have.
LEMMA InvCounters == Inv => CountersExact
  <1> SUFFICES ASSUME Inv, Quiet, NEW b \in Bats
               PROVE  /\ refs[b] = Cardinality(Holders(b)) + Cardinality({v \in ViewsOf(b) : refs[v] > 0})
                      /\ lrefs[b] = keeps[b] + Cardinality({b} \cap persistent) + Cardinality(ViewsOf(b))
                      /\ share[b] = Cardinality(ViewsOf(b))
    BY DEF CountersExact
  <1>1. \A u \in Actors : todo[u] = <<>>
    BY DEF Quiet
  <1>2. FixOwed(b) = {} /\ KeepOwed(b) = {} /\ ShareOwed(b) = {} /\ \A v \in Views : Joined(v) <=> refs[v] > 0
    BY <1>1, QuietOwes
  <1>3. \A v \in Views : refs[v] > 0 => desc[v]
    BY Facts, Constants DEF Entry, Exist
  <1>4. JoinedTo(b) = {v \in ViewsOf(b) : refs[v] > 0}
    BY <1>2, <1>3 DEF JoinedTo, ViewsOf
  <1>5. Cardinality({}) = 0
    BY FS_EmptySet
  <1>6. Cardinality(Holders(b)) \in Nat /\ Cardinality(JoinedTo(b)) \in Nat /\ Cardinality(ViewsOf(b)) \in Nat /\ Cardinality({b} \cap persistent) \in Nat
    BY Finite, CardOne
  <1>7. Cardinality(FixOwed(b)) = 0 /\ Cardinality(KeepOwed(b)) = 0 /\ Cardinality(ShareOwed(b)) = 0
    BY <1>2, <1>5
  <1>8. /\ refs[b] = Cardinality(Holders(b)) + Cardinality(FixOwed(b)) + Cardinality(JoinedTo(b))
        /\ lrefs[b] = keeps[b] + Cardinality({b} \cap persistent) + Cardinality(ViewsOf(b)) + Cardinality(KeepOwed(b))
        /\ share[b] = Cardinality(ViewsOf(b)) + Cardinality(ShareOwed(b))
        /\ keeps[b] \in Nat
    BY Facts DEF TypeOK, Counters, RefsExact, LrefsExact, ShareExact
  <1>9. /\ refs[b] = Cardinality(Holders(b)) + Cardinality(JoinedTo(b))
        /\ lrefs[b] = keeps[b] + Cardinality({b} \cap persistent) + Cardinality(ViewsOf(b))
        /\ share[b] = Cardinality(ViewsOf(b))
    BY <1>6, <1>7, <1>8
  <1> QED BY <1>4, <1>9

----------------------------------------------------------------------------
(***************************************************************************)
(* The theorems.  The epilogue of a commit reads the flags of a BAT and    *)
(* writes them back without the lock, and loses those set in between; the  *)
(* theorems are about the pool without it, or with the lock taken.         *)
(***************************************************************************)
\* The invariant holds in every state.
THEOREM Invariance == ASSUME FlagsLocked PROVE Spec => []Inv
  <1>1. Init => Inv
    BY InitInv
  <1>2. Inv /\ [Next]_vars => Inv'
    BY NextInv
  <1> QED BY <1>1, <1>2, PTL DEF Spec

\* No counter goes below zero, and a status holds known flags only.
THEOREM TypeCorrect == ASSUME FlagsLocked PROVE Spec => []TypeOK
  <1>1. Inv => TypeOK
    BY DEF Inv
  <1> QED BY <1>1, Invariance, PTL

\* A descriptor is usable from BATdescriptor to BBPunfix: decref, BBPtrim and
\* BBPdestroy never unload what a thread has fixed, nor the parent of a view.
THEOREM UseIsSafe == ASSUME FlagsLocked PROVE Spec => []UseSafe
  <1>1. Inv => UseSafe
    BY InvUse
  <1> QED BY <1>1, Invariance, PTL

\* What a BAT with logical references holds is in memory or in its file, at
\* every moment of BBPsave, BBPfree and getBBPdescriptor.
THEOREM NothingIsLost == ASSUME FlagsLocked PROVE Spec => []NothingLost
  <1>1. Inv => NothingLost
    BY InvNothing
  <1> QED BY <1>1, Invariance, PTL

\* With no call under way, BBP_refs, BBP_lrefs and batSharecnt are what
\* threads, variables, the catalog and views hold.
THEOREM CountersAreExact == ASSUME FlagsLocked PROVE Spec => []CountersExact
  <1>1. Inv => CountersExact
    BY InvCounters
  <1> QED BY <1>1, Invariance, PTL
==============================================================================
