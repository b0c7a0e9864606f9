------------------------------- MODULE BBPrefs -------------------------------
(***************************************************************************)
(* The BAT buffer pool as the threads of the server share it: physical     *)
(* references (fixes) and logical references, loading on demand, unloading *)
(* and destruction when the last reference goes, views on the heap of a    *)
(* parent BAT, and the thread that trims the pool (gdk_bbp.c).             *)
(*                                                                         *)
(* Every critical section of a swap lock is one step: none of them takes   *)
(* another lock, except BBPtrim, which takes them all.  What a function    *)
(* does outside the locks is a step of its own; clearing a status bit is   *)
(* then a read and a write, between which others may run.  A thread has a  *)
(* list of steps to do; a step may put others in front of the rest.        *)
(***************************************************************************)
EXTENDS Naturals, Sequences, FiniteSets

CONSTANTS
    Threads,    \* threads that work on BATs
    Trimmer,    \* the thread of GDKvmtrim, not in Threads
    Stored,     \* BATs with heaps of their own
    Views,      \* BATs that are views
    Parent,     \* the BAT whose heap a view uses
    MaxVal,     \* bound on the contents of a BAT
    Operations, \* the calls the threads make, out of AllOperations
    LocksFlags  \* whether the epilogue of a commit clears flags in one step

AllOperations == {"fix", "unfix", "keep", "release", "create", "view", "update", "save", "trim", "commit"}

Bats == Stored \cup Views

ASSUME BatsAssumption ==
    /\ Stored \cap Views = {}
    /\ Parent \in [Views -> Stored]
    /\ Trimmer \notin Threads
    /\ Operations \subseteq AllOperations
    /\ IsFiniteSet(Threads) /\ IsFiniteSet(Stored) /\ IsFiniteSet(Views)
    /\ MaxVal \in Nat \ {0}
    /\ LocksFlags \in BOOLEAN

VARIABLES
    status,     \* the flags of BBP_status
    refs,       \* BBP_refs: fixes
    lrefs,      \* BBP_lrefs: logical references
    share,      \* batSharecnt of a parent
    desc,       \* whether BBP_desc is there
    cache,      \* whether BBP_cache is there: the BAT is in memory
    dirty,      \* BATdirty
    mem,        \* the contents in memory, 0 when there is none
    disk,       \* the contents in the file, 0 when there is none
    base,       \* the heap pointer of a view: an offset, a pointer, or worthless
    val,        \* what was last written into the BAT
    fixes,      \* the descriptors each thread uses
    persistent, \* the BATs with status BBPEXISTING; the catalog keeps a reference
    keeps,      \* the logical references that the variables of programs hold
    todo,       \* the steps each thread has to do
    trimLock    \* the owner of the GDKtrimLocks, or "none"

bbp   == <<status, refs, lrefs, share, desc, cache>>
heaps == <<dirty, mem, disk, base, val>>
users == <<fixes, keeps, persistent>>
vars  == <<bbp, heaps, users, todo, trimLock>>

UNSTABLE == {"UNLOADING", "DELETING"}
WAITING  == {"UNLOADING", "LOADING", "SAVING", "DELETING"}
Flags    == {"LOADED", "SWAPPED", "TMP"} \cup WAITING

Actors == Threads \cup {Trimmer}
IsView(b) == b \in Views

\* BATdirty: a view is never copied to disk.
BATdirty(b) == IsView(b) \/ dirty[b]

(***************************************************************************)
(* Steps.  Do(t, o) runs the first step of t, of kind o, and Then(t, s)    *)
(* puts the steps s in its place.                                          *)
(***************************************************************************)
Step(o, b)   == [op |-> o, b |-> b, set |-> {}]
Off(b, f)    == [op |-> "off", b |-> b, set |-> f]
Write(b, s)  == [op |-> "write", b |-> b, set |-> s]
Ready(t, o, b) == todo[t] # <<>> /\ Head(todo[t]).op = o /\ Head(todo[t]).b = b
Then(t, s)   == todo' = [todo EXCEPT ![t] = s \o Tail(@)]
Call(t, s)   == todo[t] = <<>> /\ todo' = [todo EXCEPT ![t] = s]

\* Clearing bits without the lock: read the status, write it back later.
StatusRead(t, b) ==
    /\ Ready(t, "off", b)
    /\ Then(t, <<Write(b, status[b] \ Head(todo[t]).set)>>)
    /\ UNCHANGED <<bbp, heaps, users, trimLock>>

StatusWrite(t, b) ==
    /\ Ready(t, "write", b)
    /\ status' = [status EXCEPT ![b] = Head(todo[t]).set]
    /\ Then(t, <<>>)
    /\ UNCHANGED <<refs, lrefs, share, desc, cache, heaps, users, trimLock>>

(***************************************************************************)
(* incref.  The first fix of a view loads the parent outside the lock and  *)
(* then makes the offset in the view's heap a pointer again.               *)
(***************************************************************************)
\* Mutant: a fix does not wait for an unload.
StableButUnloading(b) == "LOADING" \notin status[b]

Stable(b) == status[b] \cap (UNSTABLE \cup {"LOADING"}) = {}

increfLogical(t, b) ==
    /\ Ready(t, "increfl", b)
    /\ Stable(b)
    /\ lrefs' = IF desc[b] THEN [lrefs EXCEPT ![b] = @ + 1] ELSE lrefs
    /\ Then(t, <<>>)
    /\ UNCHANGED <<status, refs, share, desc, cache, heaps, users, trimLock>>

LoadsParent(b) == IsView(b) /\ refs[b] = 0

increfPhysical(t, b) ==
    /\ Ready(t, "incref", b)
    /\ Stable(b)
    /\ refs' = IF desc[b] THEN [refs EXCEPT ![b] = @ + 1] ELSE refs
    /\ IF desc[b] /\ LoadsParent(b)
         THEN /\ status' = [status EXCEPT ![b] = @ \cup {"LOADING"}]
              /\ Then(t, <<Step("incref", Parent[b]), Step("desc", Parent[b]), Step("base", b), Off(b, {"LOADING"})>>)
         ELSE /\ Then(t, <<>>)
              /\ UNCHANGED status
    /\ UNCHANGED <<lrefs, share, desc, cache, heaps, users, trimLock>>

\* The pointer is right if the heap of the parent is there and an offset was.
Rebased(b) == IF base[b] = "offset" /\ cache[Parent[b]] THEN "pointer" ELSE "wrong"

Rebase(t, b) ==
    /\ Ready(t, "base", b)
    /\ base' = [base EXCEPT ![b] = Rebased(b)]
    /\ Then(t, <<>>)
    /\ UNCHANGED <<bbp, dirty, mem, disk, val, users, trimLock>>

(***************************************************************************)
(* getBBPdescriptor: the BAT is there, or this thread loads it, or it      *)
(* waits for the thread that does.                                         *)
(***************************************************************************)
Cached(t, b) ==
    /\ Ready(t, "desc", b)
    /\ cache[b]
    /\ Then(t, <<>>)
    /\ UNCHANGED <<bbp, heaps, users, trimLock>>

MustLoad(t, b) ==
    /\ Ready(t, "desc", b)
    /\ ~cache[b]
    /\ status[b] \cap WAITING = {}
    /\ desc[b]
    /\ status' = [status EXCEPT ![b] = @ \cup {"LOADING"}]
    /\ Then(t, <<Step("load", b), Off(b, {"LOADING"})>>)
    /\ UNCHANGED <<refs, lrefs, share, desc, cache, heaps, users, trimLock>>

\* BATload_intern reads the heaps and BBPcacheit enters the BAT.
Load(t, b) ==
    /\ Ready(t, "load", b)
    /\ mem' = [mem EXCEPT ![b] = disk[b]]
    /\ dirty' = [dirty EXCEPT ![b] = FALSE]
    /\ cache' = [cache EXCEPT ![b] = TRUE]
    /\ status' = [status EXCEPT ![b] = (@ \cup {"LOADED"}) \ {"LOADING", "DELETING"}]
    /\ Then(t, <<>>)
    /\ UNCHANGED <<refs, lrefs, share, desc, disk, base, val, users, trimLock>>

(***************************************************************************)
(* decref.  With the last fix of a view its pointer becomes an offset and  *)
(* the fix on the parent is given up last.  Decided under the lock: a BAT  *)
(* that nobody fixes goes, unless it has logical references and is dirty   *)
(* or transient.                                                           *)
(***************************************************************************)
Stays(b, r, l) == r > 0 \/ (l > 0 /\ (~cache[b] \/ BATdirty(b) \/ b \notin persistent))
Goes(b, r, l)  == ~Stays(b, r, l) /\ (cache[b] \/ "TMP" \in status[b])

Marked(b, r, l) == IF Goes(b, r, l) THEN status[b] \cup {"UNLOADING"} ELSE status[b]
UnloadSteps(b, r, l) == IF Goes(b, r, l) /\ cache[b] THEN <<Step("unload", b)>> ELSE <<>>

decrefLogical(t, b) ==
    /\ Ready(t, "decrefl", b)
    /\ "UNLOADING" \notin status[b]
    /\ lrefs[b] > 0
    /\ lrefs' = [lrefs EXCEPT ![b] = @ - 1]
    /\ status' = [status EXCEPT ![b] = Marked(b, refs[b], lrefs[b] - 1)]
    /\ Then(t, UnloadSteps(b, refs[b], lrefs[b] - 1))
    /\ UNCHANGED <<refs, share, desc, cache, heaps, users, trimLock>>

LastOfView(b) == IsView(b) /\ cache[b] /\ refs[b] = 1
\* Mutant: the fix on the parent is kept.
NoParentSteps(b) == <<>>

ParentSteps(b) == IF LastOfView(b) THEN <<Step("decref", Parent[b])>> ELSE <<>>
Relative(b) == IF base[b] = "pointer" THEN "offset" ELSE "wrong"

decrefPhysical(t, b) ==
    /\ Ready(t, "decref", b)
    /\ "UNLOADING" \notin status[b]
    /\ refs[b] > 0
    /\ refs' = [refs EXCEPT ![b] = @ - 1]
    /\ base' = IF LastOfView(b) THEN [base EXCEPT ![b] = Relative(b)] ELSE base
    /\ status' = [status EXCEPT ![b] = Marked(b, refs[b] - 1, lrefs[b])]
    /\ Then(t, UnloadSteps(b, refs[b] - 1, lrefs[b]) \o ParentSteps(b))
    /\ UNCHANGED <<lrefs, share, desc, cache, dirty, mem, disk, val, users, trimLock>>

\* The parent is released when the view is gone.
Unshare(b) == IF IsView(b) THEN <<Step("unshare", Parent[b]), Step("decrefl", Parent[b])>> ELSE <<>>

\* Mutant: an unloaded BAT stays marked.
FreeAndStayMarked(b) == <<Step("save", b), Step("free", b)>> \o Unshare(b)

FreeSteps(b) == <<Step("save", b), Step("free", b), Off(b, {"UNLOADING"})>> \o Unshare(b)

\* After the lock: destroy the BAT or save it and free its memory.
UnloadOrDestroy(t, b) ==
    /\ Ready(t, "unload", b)
    /\ Then(t, IF lrefs[b] = 0 THEN <<Step("destroy", b)>> ELSE FreeSteps(b))
    /\ UNCHANGED <<bbp, heaps, users, trimLock>>

\* BBPdestroy: delete the files, clear the entry, then release the parent.
BBPdestroy(t, b) ==
    /\ Ready(t, "destroy", b)
    /\ status' = [status EXCEPT ![b] = {}]
    /\ refs' = [refs EXCEPT ![b] = 0]
    /\ lrefs' = [lrefs EXCEPT ![b] = 0]
    /\ desc' = [desc EXCEPT ![b] = FALSE]
    /\ cache' = [cache EXCEPT ![b] = FALSE]
    /\ mem' = [mem EXCEPT ![b] = 0]
    /\ disk' = [disk EXCEPT ![b] = 0]
    /\ dirty' = [dirty EXCEPT ![b] = FALSE]
    /\ base' = [v \in Views |-> IF v = b THEN "offset" ELSE IF Parent[v] = b /\ base[v] = "pointer" THEN "wrong" ELSE base[v]]
    /\ Then(t, Unshare(b))
    /\ UNCHANGED <<share, val, users, trimLock>>

\* GDKunshare, first half: decref with releaseShare.
ReleaseShare(t, b) ==
    /\ Ready(t, "unshare", b)
    /\ share' = [share EXCEPT ![b] = @ - 1]
    /\ Then(t, <<>>)
    /\ UNCHANGED <<status, refs, lrefs, desc, cache, heaps, users, trimLock>>

(***************************************************************************)
(* BBPfree: BBPsave, BATfree, BBPuncacheit, and the UNLOADING bit.  BBPsave *)
(* spins while another thread saves the BAT; the writing is unlocked.      *)
(***************************************************************************)
\* Mutant: only persistent BATs are saved.
NothingTransientToSave(b) == b \notin persistent \/ ~dirty[b]

NothingToSave(b) == lrefs[b] = 0 \/ IsView(b) \/ ~dirty[b]

BBPsave(t, b) ==
    /\ Ready(t, "save", b)
    /\ IF NothingToSave(b) THEN Then(t, <<>>) /\ UNCHANGED status
       ELSE IF "SAVING" \in status[b] THEN Then(t, <<Step("spin", b)>>) /\ UNCHANGED status
       ELSE /\ status' = [status EXCEPT ![b] = @ \cup {"SAVING", "SWAPPED"} \cup (IF b \in persistent THEN {} ELSE {"TMP"})]
            /\ Then(t, <<Step("batsave", b), Off(b, {"SAVING"})>>)
    /\ UNCHANGED <<refs, lrefs, share, desc, cache, heaps, users, trimLock>>

BBPspin(t, b) ==
    /\ Ready(t, "spin", b)
    /\ "SAVING" \notin status[b]
    /\ Then(t, <<>>)
    /\ UNCHANGED <<bbp, heaps, users, trimLock>>

BATsave(t, b) ==
    /\ Ready(t, "batsave", b)
    /\ disk' = IF dirty[b] THEN [disk EXCEPT ![b] = mem[b]] ELSE disk
    /\ dirty' = [dirty EXCEPT ![b] = FALSE]
    /\ Then(t, <<>>)
    /\ UNCHANGED <<bbp, mem, base, val, users, trimLock>>

\* The memory goes, and with it what views point to.
BBPfree(t, b) ==
    /\ Ready(t, "free", b)
    /\ mem' = [mem EXCEPT ![b] = 0]
    /\ cache' = [cache EXCEPT ![b] = FALSE]
    /\ base' = [v \in Views |-> IF Parent[v] = b /\ base[v] = "pointer" THEN "wrong" ELSE base[v]]
    /\ Then(t, <<Off(b, {"LOADED"})>>)
    /\ UNCHANGED <<status, refs, lrefs, share, desc, dirty, disk, val, users, trimLock>>

(***************************************************************************)
(* What a thread calls.  BATdescriptor fixes a BAT that a variable, the    *)
(* catalog or the thread itself keeps alive; a variable is released when   *)
(* no thread is about to use it (the scheduler's promise).                 *)
(***************************************************************************)
Begins(b) == \E u \in Threads : \E i \in DOMAIN todo[u] : todo[u][i].b = b /\ todo[u][i].op \in {"incref", "increfl", "desc"}
May(o) == o \in Operations

BATdescriptor(t, b) ==
    /\ May("fix")
    /\ desc[b]
    /\ b \in persistent \/ keeps[b] > 0
    /\ fixes[t][b] = 0
    /\ Call(t, <<Step("incref", b), Step("desc", b), Step("use", b)>>)
    /\ UNCHANGED <<bbp, heaps, users, trimLock>>

Use(t, b) ==
    /\ Ready(t, "use", b)
    /\ fixes' = [fixes EXCEPT ![t][b] = @ + 1]
    /\ Then(t, <<>>)
    /\ UNCHANGED <<bbp, heaps, keeps, persistent, trimLock>>

BBPunfix(t, b) ==
    /\ May("unfix")
    /\ fixes[t][b] > 0
    /\ fixes' = [fixes EXCEPT ![t][b] = @ - 1]
    /\ Call(t, <<Step("decref", b)>>)
    /\ UNCHANGED <<bbp, heaps, keeps, persistent, trimLock>>

\* The result of an instruction: its fix becomes a logical reference.
BBPkeepref(t, b) ==
    /\ May("keep")
    /\ fixes[t][b] > 0
    /\ keeps[b] = 0
    /\ fixes' = [fixes EXCEPT ![t][b] = @ - 1]
    /\ Call(t, <<Step("increfl", b), Step("kept", b), Step("decref", b)>>)
    /\ UNCHANGED <<bbp, heaps, keeps, persistent, trimLock>>

Kept(t, b) ==
    /\ Ready(t, "kept", b)
    /\ keeps' = [keeps EXCEPT ![b] = @ + 1]
    /\ Then(t, <<>>)
    /\ UNCHANGED <<bbp, heaps, fixes, persistent, trimLock>>

Release(t, b) ==
    /\ May("release")
    /\ keeps[b] > 0
    /\ ~Begins(b)
    /\ keeps' = [keeps EXCEPT ![b] = @ - 1]
    /\ Call(t, <<Step("decrefl", b)>>)
    /\ UNCHANGED <<bbp, heaps, fixes, persistent, trimLock>>

Fresh(b) == ~desc[b] /\ \A t \in Actors : \A i \in DOMAIN todo[t] : todo[t][i].b # b

\* BATnew: BBPinsert, which takes a trim lock, and BBPcacheit give the BAT one
\* fix.
Enter(t, b) ==
    /\ trimLock = "none"
    /\ status' = [status EXCEPT ![b] = {"LOADED"}]
    /\ refs' = IF IsView(b) THEN [refs EXCEPT ![b] = 1, ![Parent[b]] = @ + 1] ELSE [refs EXCEPT ![b] = 1]
    /\ desc' = [desc EXCEPT ![b] = TRUE]
    /\ cache' = [cache EXCEPT ![b] = TRUE]
    /\ fixes' = [fixes EXCEPT ![t][b] = 1]

BATnew(t, b) ==
    /\ May("create")
    /\ b \in Stored \ persistent
    /\ Fresh(b)
    /\ Enter(t, b)
    /\ mem' = [mem EXCEPT ![b] = 1]
    /\ val' = [val EXCEPT ![b] = 1]
    /\ dirty' = [dirty EXCEPT ![b] = TRUE]
    /\ todo[t] = <<>>
    /\ UNCHANGED <<lrefs, share, disk, base, keeps, persistent, todo, trimLock>>

\* VIEWcreate with BBPshare: the view takes a fix and a logical reference
\* of the parent, which its caller has fixed.
VIEWcreate(t, v) ==
    /\ May("view")
    /\ IsView(v)
    /\ Fresh(v)
    /\ fixes[t][Parent[v]] > 0
    /\ Enter(t, v)
    /\ lrefs' = [lrefs EXCEPT ![Parent[v]] = @ + 1]
    /\ share' = [share EXCEPT ![Parent[v]] = @ + 1]
    /\ base' = [base EXCEPT ![v] = "pointer"]
    /\ todo[t] = <<>>
    /\ UNCHANGED <<dirty, mem, disk, val, keeps, persistent, todo, trimLock>>

\* Contents change under the only fix, while no thread saves the BAT.
Update(t, b) ==
    /\ May("update")
    /\ b \in Stored
    /\ todo[t] = <<>>
    /\ fixes[t][b] > 0 /\ refs[b] = 1
    /\ "SAVING" \notin status[b]
    /\ val[b] < MaxVal
    /\ val' = [val EXCEPT ![b] = @ + 1]
    /\ mem' = [mem EXCEPT ![b] = val[b] + 1]
    /\ dirty' = [dirty EXCEPT ![b] = TRUE]
    /\ UNCHANGED <<bbp, disk, base, users, todo, trimLock>>

\* bat.save
Save(t, b) ==
    /\ May("save")
    /\ b \in Stored
    /\ fixes[t][b] > 0
    /\ Call(t, <<Step("save", b)>>)
    /\ UNCHANGED <<bbp, heaps, users, trimLock>>

(***************************************************************************)
(* BBPtrim takes every trim lock, then, with every swap lock, marks BATs   *)
(* it may unload, and unloads them without the swap locks.                 *)
(***************************************************************************)
\* The order of the unload list, that of the last use.
Orders(S) == {f \in [1..Cardinality(S) -> S] : \A i, j \in DOMAIN f : f[i] = f[j] => i = j}

BBPtrimmable(b) == cache[b] /\ refs[b] = 0 /\ ~IsView(b) /\ status[b] \cap WAITING = {}

BBPtrim(S) ==
    /\ May("trim")
    /\ trimLock = "none"
    /\ S # {}
    /\ \A b \in S : BBPtrimmable(b)
    /\ trimLock' = Trimmer
    /\ status' = [b \in Bats |-> IF b \in S THEN status[b] \cup {"UNLOADING"} ELSE status[b]]
    /\ \E order \in Orders(S) : Call(Trimmer, [i \in DOMAIN order |-> Step("trim", order[i])])
    /\ UNCHANGED <<refs, lrefs, share, desc, cache, heaps, users>>

\* BBPfree, for a BAT that is still there.
TrimOne(b) ==
    /\ Ready(Trimmer, "trim", b)
    /\ Then(Trimmer, IF cache[b] /\ "UNLOADING" \in status[b]
                       THEN FreeSteps(b) ELSE <<>>)
    /\ UNCHANGED <<bbp, heaps, users, trimLock>>

TrimDone ==
    /\ trimLock = Trimmer
    /\ todo[Trimmer] = <<>>
    /\ trimLock' = "none"
    /\ UNCHANGED <<bbp, heaps, users, todo>>

(***************************************************************************)
(* A subcommit of b by t, as far as the pool sees it: dirty_bat waits for  *)
(* a save, BATsave writes the BAT, and the epilogue clears SWAPPED.        *)
(***************************************************************************)
TMsubcommit(t, b) ==
    /\ May("commit")
    /\ b \in persistent
    /\ trimLock = "none"
    /\ trimLock' = t
    /\ Call(t, <<Step("dirty_bat", b), Step("epilogue", b), Step("end", b)>>)
    /\ UNCHANGED <<bbp, heaps, users>>

dirty_bat(t, b) ==
    /\ Ready(t, "dirty_bat", b)
    /\ "SAVING" \notin status[b]
    /\ Then(t, IF cache[b] THEN <<Step("batsave", b)>> ELSE <<>>)
    /\ UNCHANGED <<bbp, heaps, users, trimLock>>

\* The code has no lock here: LocksFlags is FALSE of it.
epilogue(t, b) ==
    /\ Ready(t, "epilogue", b)
    /\ IF LocksFlags
         THEN /\ status' = [status EXCEPT ![b] = @ \ {"SWAPPED"}]
              /\ Then(t, <<>>)
         ELSE /\ Then(t, <<Write(b, status[b] \ {"SWAPPED"})>>)
              /\ UNCHANGED status
    /\ UNCHANGED <<refs, lrefs, share, desc, cache, heaps, users, trimLock>>

Committed(t, b) ==
    /\ Ready(t, "end", b)
    /\ trimLock' = "none"
    /\ Then(t, <<>>)
    /\ UNCHANGED <<bbp, heaps, users>>

(***************************************************************************)
(* The pool after BBPinit: the persistent BATs, none of them loaded.       *)
(***************************************************************************)
Init ==
    /\ persistent \in SUBSET Stored
    /\ status = [b \in Bats |-> {}]
    /\ refs = [b \in Bats |-> 0]
    /\ lrefs = [b \in Bats |-> IF b \in persistent THEN 1 ELSE 0]
    /\ share = [b \in Bats |-> 0]
    /\ desc = [b \in Bats |-> b \in persistent]
    /\ cache = [b \in Bats |-> FALSE]
    /\ dirty = [b \in Bats |-> FALSE]
    /\ mem = [b \in Bats |-> 0]
    /\ disk = [b \in Bats |-> IF b \in persistent THEN 1 ELSE 0]
    /\ base = [v \in Views |-> "offset"]
    /\ val = [b \in Bats |-> IF b \in persistent THEN 1 ELSE 0]
    /\ fixes = [t \in Threads |-> [b \in Bats |-> 0]]
    /\ keeps = [b \in Bats |-> 0]
    /\ todo = [t \in Actors |-> <<>>]
    /\ trimLock = "none"

\* A thread goes on with what it has to do.
Continue(t) ==
    \E b \in Bats :
        \/ StatusRead(t, b) \/ StatusWrite(t, b)
        \/ increfLogical(t, b) \/ increfPhysical(t, b) \/ Rebase(t, b)
        \/ Cached(t, b) \/ MustLoad(t, b) \/ Load(t, b)
        \/ decrefLogical(t, b) \/ decrefPhysical(t, b) \/ UnloadOrDestroy(t, b)
        \/ BBPdestroy(t, b) \/ ReleaseShare(t, b)
        \/ BBPsave(t, b) \/ BBPspin(t, b) \/ BATsave(t, b) \/ BBPfree(t, b)
        \/ Use(t, b) \/ Kept(t, b) \/ dirty_bat(t, b) \/ epilogue(t, b) \/ Committed(t, b)

Start(t) ==
    \E b \in Bats :
        \/ BATdescriptor(t, b) \/ BBPunfix(t, b) \/ BBPkeepref(t, b) \/ Release(t, b)
        \/ BATnew(t, b) \/ VIEWcreate(t, b) \/ Update(t, b) \/ Save(t, b) \/ TMsubcommit(t, b)

Trim == (\E S \in SUBSET Stored : BBPtrim(S)) \/ (\E b \in Stored : TrimOne(b)) \/ TrimDone

Next == (\E t \in Actors : Continue(t)) \/ (\E t \in Threads : Start(t)) \/ Trim

Spec == Init /\ [][Next]_vars

(***************************************************************************)
(* Properties.                                                             *)
(***************************************************************************)
Ops == {"incref", "increfl", "desc", "base", "load", "decref", "decrefl", "unload", "destroy", "unshare",
        "save", "spin", "batsave", "free", "use", "kept", "trim", "dirty_bat", "epilogue", "end", "off", "write"}

\* The variables have their types: no counter goes below zero, and a status
\* holds known flags only.
TypeOK ==
    /\ status \in [Bats -> SUBSET Flags]
    /\ refs \in [Bats -> Nat] /\ lrefs \in [Bats -> Nat] /\ share \in [Bats -> Nat]
    /\ desc \in [Bats -> BOOLEAN] /\ cache \in [Bats -> BOOLEAN] /\ dirty \in [Bats -> BOOLEAN]
    /\ mem \in [Bats -> 0..MaxVal] /\ disk \in [Bats -> 0..MaxVal] /\ val \in [Bats -> 0..MaxVal]
    /\ base \in [Views -> {"offset", "pointer", "wrong"}]
    /\ fixes \in [Threads -> [Bats -> Nat]] /\ keeps \in [Bats -> Nat]
    /\ todo \in [Actors -> Seq([op : Ops, b : Bats, set : SUBSET Flags])]
    /\ persistent \subseteq Stored
    /\ trimLock \in Actors \cup {"none"}

\* A descriptor that a thread uses (between BATdescriptor and BBPunfix) is
\* in memory with the contents last written, and a view's pointer leads
\* into the heap its parent has now.
UseSafe ==
    \A t \in Threads, b \in Bats : fixes[t][b] > 0 =>
        /\ cache[b]
        /\ b \in Stored => mem[b] = val[b]
        /\ b \in Views => base[b] = "pointer" /\ cache[Parent[b]]

\* Unloading never loses contents: what a BAT with logical references holds
\* is in memory or in its file at every moment, also while BBPfree saves it.
NothingLost ==
    \A b \in Stored : lrefs[b] > 0 => mem[b] = val[b] \/ disk[b] = val[b]

Quiet == \A t \in Actors : todo[t] = <<>>
ViewsOf(b) == {v \in Views : Parent[v] = b /\ desc[v]}
Holders(b) == {t \in Threads : fixes[t][b] > 0}

\* When no call is under way the counters of the pool are exactly what
\* threads, variables, the catalog and views hold, through any interleaving
\* of incref and decref, of the nested calls for parents included.
CountersExact ==
    Quiet => \A b \in Bats :
        /\ refs[b] = Cardinality(Holders(b)) + Cardinality({v \in ViewsOf(b) : refs[v] > 0})
        /\ lrefs[b] = keeps[b] + Cardinality({b} \cap persistent) + Cardinality(ViewsOf(b))
        /\ share[b] = Cardinality(ViewsOf(b))

\* The threads never all wait for a flag that none of them will clear.
SomeoneRuns == ~Quiet => ENABLED (\E t \in Actors : Continue(t) \/ \E b \in Stored : TrimOne(b))

\* "free memory (if loaded) and delete from disk (if transient but saved)":
\* when no call is under way, a BAT nobody refers to is gone.
UnreferencedGone ==
    Quiet => \A b \in Bats : desc[b] => refs[b] + lrefs[b] > 0
==============================================================================
