--------------------------- MODULE DataflowProofs ---------------------------
(***************************************************************************)
(* The dataflow scheduler for any number of workers, sessions and calls    *)
(* and for any blocks: its types and the accounting of its permits; every  *)
(* instruction of a block is queued, or at a worker, at most once; a flow  *)
(* is released only when nothing of it is left anywhere; the workers of    *)
(* the pool are those it should have.  The counter of every instruction    *)
(* that still waits is exact, and therefore the scheduler implements       *)
(* DataflowSpec, the execution of the block one instruction at a time.     *)
(***************************************************************************)
EXTENDS Dataflow, FiniteSetTheorems, SequenceTheorems, FunctionTheorems, TLAPS

Handling == {"got", "admit", "run", "error", "grab", "enqueue", "up"}

\* A scheduler inside a loop has something left to do in it.
WorkOK == \A f \in Flows : fpc[f] \in {"seed", "walk"} => work[f] # <<>>

\* A worker that handles an instruction has one.
ItemsOK == \A i \in Slots : wpc[i] \in Handling => fe[i] \in Items

\* The permits a worker is about to post on the done queue of f.
Posting(f) == {i \in Slots : wpc[i] = "up" /\ fe[i][1] = f}

Shape == TypeOK /\ WorkOK /\ ItemsOK

\* The slot a call joins is its own until the join is done.
JoiningOK ==
    \A f \in Flows : fpc[f] = "joining" =>
        /\ slot[f] \in Slots
        /\ flag[slot[f]] = "JOINING"
        /\ wpc[slot[f]] = "none"
        /\ \A g \in Flows : fpc[g] = "joining" /\ slot[g] = slot[f] => g = f

\* The shutdown begins when no call is active, and none begins after it.
StopOK == /\ exiting => \A f \in Flows : ~Active(f)
          /\ stop # 0 => exiting

\* A recursive call is made from within a running instruction.
HostOK == \A f \in Flows : Host[f] # NoItem /\ Active(f) => RunnersOf(Host[f]) # {}

Threading == SlotsFree /\ JoiningOK /\ StopOK /\ HostOK

IInv == Shape /\ Threading /\ DonePermits

----------------------------------------------------------------------------
\* There are finitely many worker slots.
LEMMA SlotsFinite == IsFiniteSet(Slots)
BY FS_Interval, ThreadsAssumption DEF Slots

\* The wakeup lists of a flow name instructions of that flow.
LEMMA WakeupType ==
    ASSUME NEW f \in Flows, NEW n \in Instrs(f)
    PROVE  Wakeup[f][n] \in Seq(Instrs(f))
<1>1. Wakeup[f] \in Seq(Seq(Nat)) /\ n \in 1..Len(Wakeup[f])
  BY WakeupAssumption DEF Instrs
<1>2. Wakeup[f][n] \in Seq(Nat)
  BY <1>1
<1>3. \A e \in 1..Len(Wakeup[f][n]) : Wakeup[f][n][e] \in Instrs(f)
  <2> TAKE e \in 1..Len(Wakeup[f][n])
  <2>1. Wakeup[f][n][e] \in (n + 1)..Len(Wakeup[f])
    BY WakeupAssumption
  <2> QED BY <2>1, <1>1 DEF Instrs
<1> QED BY <1>2, <1>3

\* An item and its parts.
LEMMA ItemType ==
    ASSUME NEW it \in Items
    PROVE  /\ it[1] \in Flows
           /\ it[2] \in Instrs(it[1])
           /\ it \in {it[1]} \X Instrs(it[1])
BY DEF Items

\* An instruction of a flow, paired with the flow, is an item.
LEMMA ItemMake ==
    ASSUME NEW f \in Flows, NEW n \in Instrs(f)
    PROVE  <<f, n>> \in Items
BY DEF Items

\* What is left of a sequence without one of its elements.
LEMMA SeqFacts ==
    ASSUME NEW S, NEW s \in Seq(S), s # <<>>
    PROVE  /\ Len(s) \in Nat \ {0}
           /\ Head(s) \in S
           /\ Tail(s) \in Seq(S)
           /\ s[Len(s)] \in S
           /\ SubSeq(s, 1, Len(s) - 1) \in Seq(S)
           /\ Len(SubSeq(s, 1, Len(s) - 1)) = Len(s) - 1
<1>1. Len(s) \in Nat \ {0}
  OBVIOUS
<1>2. Head(s) \in S /\ Tail(s) \in Seq(S) /\ s[Len(s)] \in S
  BY <1>1
<1>3. /\ SubSeq(s, 1, Len(s) - 1) \in Seq(S)
      /\ Len(SubSeq(s, 1, Len(s) - 1)) = Len(s) - 1
  <2> DEFINE n == Len(s) - 1
  <2>1. n \in Nat /\ n + 1 = Len(s) /\ \A i \in 1..n : s[i] \in S
    BY <1>1
  <2> HIDE DEF n
  <2>2. /\ SubSeq(s, 1, n) \in Seq(S)
        /\ Len(SubSeq(s, 1, n)) = IF 1 <= n THEN n - 1 + 1 ELSE 0
    BY <2>1, SubSeqProperties
  <2>3. Len(SubSeq(s, 1, n)) = n
    BY <2>1, <2>2
  <2> QED BY <2>2, <2>3 DEF n
<1> QED BY <1>1, <1>2, <1>3

\* Changing one entry of a table with a row for each flow.
LEMMA TableUpdate ==
    ASSUME NEW S, NEW t, DOMAIN t = Flows, \A f \in Flows : t[f] \in [Instrs(f) -> S],
           NEW g \in Flows, NEW n \in Instrs(g), NEW v \in S
    PROVE  /\ DOMAIN [t EXCEPT ![g][n] = v] = Flows
           /\ \A f \in Flows : [t EXCEPT ![g][n] = v][f] \in [Instrs(f) -> S]
<1> DEFINE u == [t EXCEPT ![g][n] = v]
<1>1. DOMAIN u = Flows
  OBVIOUS
<1>2. ASSUME NEW f \in Flows PROVE u[f] \in [Instrs(f) -> S]
  <2>1. CASE f = g
    <3>1. u[f] = [t[g] EXCEPT ![n] = v]
      BY <2>1
    <3> QED BY <3>1, <2>1
  <2>2. CASE f # g
    <3>1. u[f] = t[f]
      BY <2>2
    <3> QED BY <3>1
  <2> QED BY <2>1, <2>2
<1> QED BY <1>1, <1>2

\* q_enqueue keeps the type of a queue.
LEMMA AppendType ==
    ASSUME NEW S, NEW s \in Seq(S), NEW e \in S
    PROVE  Append(s, e) \in Seq(S) /\ Len(Append(s, e)) = Len(s) + 1
OBVIOUS

\* Likewise for the sequence of one flow.
LEMMA QueueUpdate ==
    ASSUME NEW t, DOMAIN t = Flows, \A f \in Flows : t[f] \in Seq({f} \X Instrs(f)),
           NEW g \in Flows, NEW s \in Seq({g} \X Instrs(g))
    PROVE  /\ DOMAIN [t EXCEPT ![g] = s] = Flows
           /\ \A f \in Flows : [t EXCEPT ![g] = s][f] \in Seq({f} \X Instrs(f))
OBVIOUS

----------------------------------------------------------------------------
\* q_requeue puts the instruction before those queued, with one more permit.
LEMMA RequeueFacts ==
    ASSUME Shape, NEW i \in Slots, Requeue(i)
    PROVE  /\ fe[i] \in Items
           /\ todo' \in Seq(Items)
           /\ Len(todo') = Len(todo) + 1
           /\ todo'[1] = fe[i]
           /\ \A j \in 1..Len(todo) : todo'[j + 1] = todo[j]
           /\ tsema' = tsema + 1
           /\ wpc[i] = "admit"
           /\ wpc' = [wpc EXCEPT ![i] = "fetch"]
           /\ fe' = [fe EXCEPT ![i] = NoItem]
<1>1. wpc[i] = "admit" /\ todo' = <<fe[i]>> \o todo /\ tsema' = tsema + 1
      /\ wpc' = [wpc EXCEPT ![i] = "fetch"] /\ fe' = [fe EXCEPT ![i] = NoItem]
  BY DEF Requeue, Refused, PutBack
<1>2. fe[i] \in Items /\ todo \in Seq(Items)
  BY <1>1 DEF Shape, ItemsOK, Handling, TypeOK, QueueOK
<1>3. <<fe[i]>> \in Seq(Items) /\ Len(<<fe[i]>>) = 1 /\ <<fe[i]>>[1] = fe[i]
  BY <1>2
<1>4. /\ todo' \in Seq(Items)
      /\ Len(todo') = 1 + Len(todo)
      /\ \A j \in 1..(1 + Len(todo)) :
            todo'[j] = IF j <= 1 THEN <<fe[i]>>[j] ELSE todo[j - 1]
  BY <1>1, <1>2, <1>3, ConcatProperties
<1>5. Len(todo) \in Nat
  BY <1>2
<1>6. todo'[1] = fe[i]
  BY <1>3, <1>4, <1>5
<1>7. \A j \in 1..Len(todo) : todo'[j + 1] = todo[j]
  <2> TAKE j \in 1..Len(todo)
  <2>1. j + 1 \in 1..(1 + Len(todo)) /\ ~(j + 1 <= 1) /\ (j + 1) - 1 = j
    BY <1>5
  <2> QED BY <1>4, <2>1
<1> QED BY <1>1, <1>2, <1>4, <1>5, <1>6, <1>7

----------------------------------------------------------------------------
\* The pool DFLOWinitialize leaves behind satisfies the invariant.
LEMMA InitIInv == Init => IInv
<1> SUFFICES ASSUME Init PROVE IInv
  OBVIOUS
<1> USE DEF Init
<1>1. PoolOK
  BY ThreadsAssumption DEF PoolOK, Slots
<1>2. LocalsOK
  BY DEF LocalsOK, WorkerPCs
<1>3. QueueOK
  <2>1. todo \in Seq(Items)
    <3>1. <<>> \in Seq(Items)
      OBVIOUS
    <3> QED BY <3>1
  <2>2. stop \in 0..(Threads + 1)
    BY ThreadsAssumption
  <2> QED BY <2>1, <2>2 DEF QueueOK
<1>4. CallsOK
  BY ThreadsAssumption, WakeupAssumption DEF CallsOK, CallPCs
<1>5. FlowsOK
  BY DEF FlowsOK
<1>6. WorkOK
  BY DEF WorkOK
<1>7. ItemsOK
  BY DEF ItemsOK, Handling
<1>8. DonePermits
  <2>1. \A f \in Flows : Posting(f) = {}
    BY DEF Posting
  <2>2. \A f \in Flows : dsema[f] = 0 /\ Len(done[f]) = 0
    OBVIOUS
  <2>3. Cardinality({}) = 0
    BY FS_EmptySet
  <2> SUFFICES ASSUME NEW f \in Flows
               PROVE  dsema[f] + Cardinality(Posting(f)) = Len(done[f])
    BY DEF DonePermits, Posting
  <2>4. Cardinality(Posting(f)) = 0
    BY <2>1, <2>3
  <2> QED BY <2>2, <2>4
<1>9. Threading
  BY DEF Threading, SlotsFree, JoiningOK, StopOK, HostOK, Active
<1> QED BY <1>1, <1>2, <1>3, <1>4, <1>5, <1>6, <1>7, <1>8, <1>9 DEF IInv, Shape, TypeOK

\* The counters of a block start as natural numbers.
LEMMA InitialBlocksType ==
    ASSUME NEW f \in Flows, NEW n
    PROVE  InitialBlocks(f, n) \in Nat
<1> DEFINE Out(p) == {p} \X (1..Len(Wakeup[f][p]))
           g == [p \in Instrs(f) |-> Out(p)]
           R == {Out(p) : p \in Instrs(f)}
           E == {e \in UNION R : Wakeup[f][e[1]][e[2]] = n}
<1>1. IsFiniteSet(Instrs(f))
  <2>1. Len(Wakeup[f]) \in Nat
    BY WakeupAssumption
  <2> QED BY <2>1, FS_Interval DEF Instrs
<1>2. \A p \in Instrs(f) : IsFiniteSet(Out(p))
  <2> TAKE p \in Instrs(f)
  <2>1. Len(Wakeup[f][p]) \in Nat
    BY WakeupType
  <2>2. IsFiniteSet(1..Len(Wakeup[f][p]))
    BY <2>1, FS_Interval
  <2>3. IsFiniteSet({p})
    BY FS_Singleton
  <2> QED BY <2>2, <2>3, FS_Product
<1>3. IsFiniteSet(R)
  <2>1. g \in Surjection(Instrs(f), R)
    BY DEF Surjection
  <2> QED BY <2>1, <1>1, FS_Surjection
<1>4. IsFiniteSet(UNION R)
  BY <1>2, <1>3, FS_UNION
<1>5. IsFiniteSet(E)
  BY <1>4, FS_Subset
<1>6. Cardinality(E) \in Nat
  BY <1>5, FS_CardinalityType
<1> QED BY <1>6 DEF InitialBlocks

----------------------------------------------------------------------------
(***************************************************************************)
(* Shape is preserved                                                      *)
(***************************************************************************)
\* A step of DFLOWworker keeps the types, and the facts about the
\* instruction the worker has at hand that they need.
LEMMA WorkerShape ==
    ASSUME IInv, NEW w \in Slots, Worker(w)
    PROVE  Shape'
<1> USE DEF poolVars, localVars, queueVars, stopVars, callVars, flowVars, doneVars,
            IInv, Shape, TypeOK, PoolOK, LocalsOK, QueueOK, CallsOK, FlowsOK, WorkOK,
            ItemsOK, WorkerPCs, CallPCs, Handling
<1>1. ASSUME NEW i \in Slots, WorkerStart(i) PROVE Shape'
  BY <1>1, ItemType DEF WorkerStart
<1>2. ASSUME NEW i \in Slots, WorkerWait(i) PROVE Shape'
  BY <1>2, ItemType DEF WorkerWait
<1>3. ASSUME NEW i \in Slots, WorkerFetch(i) PROVE Shape'
  BY <1>3, ItemType DEF WorkerFetch
<1>4. ASSUME NEW i \in Slots, WorkerDown(i) PROVE Shape'
  <2>1. LocalsOK' /\ ItemsOK'
    BY <1>4 DEF WorkerDown
  <2>2. QueueOK'
    BY <1>4 DEF WorkerDown
  <2>3. PoolOK' /\ CallsOK' /\ FlowsOK' /\ WorkOK'
    BY <1>4 DEF WorkerDown
  <2> QED BY <2>1, <2>2, <2>3
<1>5. ASSUME NEW i \in Slots, TakeSpecific(i) PROVE Shape'
  <2>1. PoolOK' /\ CallsOK' /\ FlowsOK' /\ WorkOK' /\ UNCHANGED <<client, fnxt, tsema, exitcount, exiting, stop>>
    BY <1>5 DEF TakeSpecific
  <2>2. CASE wpc' = [wpc EXCEPT ![i] = "compensate"] /\ UNCHANGED <<fe, todo>>
    BY <2>1, <2>2
  <2>3. ASSUME NEW k \in 1..Len(todo),
               fe' = [fe EXCEPT ![i] = todo[k]],
               todo' = [j \in 1..(Len(todo) - 1) |-> IF j < k THEN todo[j] ELSE todo[j + 1]],
               wpc' = [wpc EXCEPT ![i] = "got"]
        PROVE  Shape'
    <3>1. todo[k] \in Items
      OBVIOUS
    <3>2. todo' \in Seq(Items)
      <4>1. Len(todo) - 1 \in Nat
        OBVIOUS
      <4>2. \A j \in 1..(Len(todo) - 1) : todo'[j] \in Items
        BY <2>3
      <4> QED BY <2>3, <4>1, <4>2
    <3>3. LocalsOK' /\ ItemsOK'
      BY <2>1, <2>3, <3>1
    <3>4. QueueOK'
      BY <2>1, <3>2
    <3> QED BY <2>1, <3>3, <3>4
  <2> QED BY <1>5, <2>2, <2>3 DEF TakeSpecific
<1>6. ASSUME NEW i \in Slots, WorkerCompensate(i) PROVE Shape'
  BY <1>6, ItemType DEF WorkerCompensate
<1>7. ASSUME NEW i \in Slots, TakeGeneric(i) PROVE Shape'
  <2>1. PoolOK' /\ CallsOK' /\ FlowsOK' /\ WorkOK' /\ UNCHANGED <<client, fnxt, tsema, exiting, stop>>
    BY <1>7 DEF TakeGeneric
  <2>2. CASE /\ exitcount > 0 /\ exitcount' = exitcount - 1
             /\ wpc' = [wpc EXCEPT ![i] = "exit"] /\ UNCHANGED <<todo, fe>>
    BY <2>1, <2>2
  <2>3. CASE /\ Len(todo) > 0
             /\ fe' = [fe EXCEPT ![i] = todo[Len(todo)]]
             /\ todo' = SubSeq(todo, 1, Len(todo) - 1)
             /\ wpc' = [wpc EXCEPT ![i] = "got"] /\ UNCHANGED exitcount
    <3>1. todo # <<>>
      BY <2>3
    <3>2. todo[Len(todo)] \in Items /\ SubSeq(todo, 1, Len(todo) - 1) \in Seq(Items)
      BY <3>1, SeqFacts
    <3>3. QueueOK'
      BY <2>1, <2>3, <3>2
    <3>4. LocalsOK' /\ ItemsOK'
      BY <2>1, <2>3, <3>2
    <3> QED BY <2>1, <3>3, <3>4
  <2> QED BY <1>7, <2>2, <2>3 DEF TakeGeneric
<1>8. ASSUME NEW i \in Slots, WorkerCheck(i) PROVE Shape'
  BY <1>8, ItemType DEF WorkerCheck
<1>9. ASSUME NEW i \in Slots, WorkerRun(i) PROVE Shape'
  <2>1. fe[i][1] \in Flows /\ fe[i][2] \in Instrs(fe[i][1])
    BY <1>9, ItemType DEF WorkerRun
  <2>2. PICK r \in {"ok", "err"} :
          /\ stk' = [stk EXCEPT ![fe[i][1]][fe[i][2]] = r]
          /\ wpc' = [wpc EXCEPT ![i] = IF r = "err" THEN "error" ELSE "grab"]
    BY <1>9 DEF WorkerRun
  <2>3. FlowsOK'
    BY <1>9, <2>1, <2>2 DEF WorkerRun
  <2>4. LocalsOK' /\ ItemsOK'
    BY <1>9, <2>2 DEF WorkerRun
  <2>5. PoolOK' /\ QueueOK' /\ CallsOK' /\ WorkOK'
    BY <1>9 DEF WorkerRun
  <2> QED BY <2>3, <2>4, <2>5
<1>10. ASSUME NEW i \in Slots, WorkerError(i) PROVE Shape'
  <2>1. fe[i][1] \in Flows
    BY <1>10, ItemType DEF WorkerError
  <2>2. FlowsOK'
    BY <1>10, <2>1 DEF WorkerError
  <2>3. LocalsOK' /\ ItemsOK'
    BY <1>10 DEF WorkerError
  <2>4. PoolOK' /\ QueueOK' /\ CallsOK' /\ WorkOK'
    BY <1>10 DEF WorkerError
  <2> QED BY <2>2, <2>3, <2>4
<1>11. ASSUME NEW i \in Slots, WorkerGrab(i) PROVE Shape'
  <2> DEFINE f == fe[i][1]
             list == Wakeup[f][fe[i][2]]
  <2>1. f \in Flows /\ fe[i][2] \in Instrs(f)
    BY <1>11, ItemType DEF WorkerGrab
  <2>2. list \in Seq(Instrs(f))
    BY <2>1, WakeupType
  <2>3. /\ wpc' = [wpc EXCEPT ![i] = "enqueue"]
        /\ UNCHANGED <<poolVars, client, fe, queueVars, stopVars, callVars, error, doneVars, stk>>
    BY <1>11 DEF WorkerGrab
  <2>4. \/ UNCHANGED <<state, blocks, fnxt>>
        \/ \E k \in 1..Len(list) :
             /\ Claim(f, list[k])
             /\ fnxt' = [fnxt EXCEPT ![i] = <<f, list[k]>>]
    BY <1>11, Zenon DEF WorkerGrab
  <2>5. PoolOK' /\ QueueOK' /\ CallsOK' /\ WorkOK'
    BY <2>3
  <2>6. ASSUME fnxt' \in [Slots -> Items \cup {NoItem}]
        PROVE  LocalsOK' /\ ItemsOK'
    <3>1. LocalsOK'
      BY <2>3, <2>6
    <3>2. ItemsOK'
      BY <1>11, <2>3 DEF WorkerGrab
    <3> QED BY <3>1, <3>2
  <2>7. CASE UNCHANGED <<state, blocks, fnxt>>
    <3>1. FlowsOK'
      BY <2>3, <2>7
    <3>2. LocalsOK' /\ ItemsOK'
      BY <2>6, <2>7
    <3> QED BY <2>5, <3>1, <3>2
  <2>8. ASSUME NEW k \in 1..Len(list), Claim(f, list[k]),
               fnxt' = [fnxt EXCEPT ![i] = <<f, list[k]>>]
        PROVE  Shape'
    <3> HIDE DEF list
    <3>1. PICK m \in Instrs(f) : m = list[k]
      BY <2>2
    <3>2. <<f, m>> \in Items
      BY <2>1, ItemMake
    <3>3. state' = [state EXCEPT ![f][m] = "running"] /\ blocks' = [blocks EXCEPT ![f][m] = 0]
      BY <2>8, <3>1 DEF Claim
    <3>4. DOMAIN state' = Flows /\ \A g \in Flows : state'[g] \in [Instrs(g) -> {"pending", "running", "wrapup"}]
      <4>1. /\ DOMAIN state = Flows
            /\ \A g \in Flows : state[g] \in [Instrs(g) -> {"pending", "running", "wrapup"}]
        OBVIOUS
      <4> HIDE DEF IInv, Shape, TypeOK, FlowsOK
      <4> QED BY <2>1, <3>3, <4>1, TableUpdate
    <3>5. DOMAIN blocks' = Flows /\ \A g \in Flows : blocks'[g] \in [Instrs(g) -> Int]
      <4>1. DOMAIN blocks = Flows /\ \A g \in Flows : blocks[g] \in [Instrs(g) -> Int]
        OBVIOUS
      <4> HIDE DEF IInv, Shape, TypeOK, FlowsOK
      <4> QED BY <2>1, <3>3, <4>1, TableUpdate
    <3>6. FlowsOK'
      BY <2>3, <3>4, <3>5
    <3>7. fnxt' \in [Slots -> Items \cup {NoItem}]
      BY <2>8, <3>1, <3>2
    <3>8. LocalsOK' /\ ItemsOK'
      BY <2>6, <3>7
    <3> QED BY <2>5, <3>6, <3>8
  <2> QED BY <2>4, <2>7, <2>8
<1>12. ASSUME NEW i \in Slots, WorkerEnqueue(i) PROVE Shape'
  <2>1. PICK f \in Flows : f = fe[i][1] /\ fe[i] \in {f} \X Instrs(f)
    BY <1>12, ItemType DEF WorkerEnqueue
  <2>2. Append(done[f], fe[i]) \in Seq({f} \X Instrs(f))
    <3>1. done[f] \in Seq({f} \X Instrs(f))
      OBVIOUS
    <3> QED BY <2>1, <3>1, AppendType
  <2>3. DOMAIN done' = Flows /\ \A g \in Flows : done'[g] \in Seq({g} \X Instrs(g))
    BY <1>12, <2>1, <2>2, QueueUpdate DEF WorkerEnqueue
  <2>4. FlowsOK'
    BY <1>12, <2>3 DEF WorkerEnqueue
  <2>5. LocalsOK' /\ ItemsOK'
    BY <1>12 DEF WorkerEnqueue
  <2>6. PoolOK' /\ QueueOK' /\ CallsOK' /\ WorkOK'
    BY <1>12 DEF WorkerEnqueue
  <2> QED BY <2>4, <2>5, <2>6
<1>13. ASSUME NEW i \in Slots, WorkerUp(i) PROVE Shape'
  <2>1. fe[i][1] \in Flows
    BY <1>13, ItemType DEF WorkerUp
  <2>2. FlowsOK'
    <3>1. dsema' \in [Flows -> Nat]
      BY <1>13, <2>1 DEF WorkerUp, Post
    <3>2. UNCHANGED <<flowVars, done, stk>>
      BY <1>13 DEF WorkerUp
    <3> QED BY <3>1, <3>2
  <2>3. LocalsOK' /\ ItemsOK'
    BY <1>13 DEF WorkerUp
  <2>4. PoolOK' /\ QueueOK' /\ CallsOK' /\ WorkOK'
    BY <1>13 DEF WorkerUp
  <2> QED BY <2>2, <2>3, <2>4
<1>14. ASSUME NEW i \in Slots, WorkerExit(i) PROVE Shape'
  BY <1>14, ItemType DEF WorkerExit
<1>15. ASSUME NEW i \in Slots, Admit(i) PROVE Shape'
  BY <1>15, ItemType DEF Admit
<1>16. ASSUME NEW i \in Slots, Requeue(i) PROVE Shape'
  <2>1. /\ todo' \in Seq(Items) /\ tsema' = tsema + 1
        /\ wpc' = [wpc EXCEPT ![i] = "fetch"] /\ fe' = [fe EXCEPT ![i] = NoItem]
    BY <1>16, RequeueFacts
  <2>2. QueueOK'
    BY <1>16, <2>1 DEF Requeue
  <2>3. LocalsOK' /\ ItemsOK'
    BY <1>16, <2>1 DEF Requeue
  <2>4. PoolOK' /\ CallsOK' /\ FlowsOK' /\ WorkOK'
    BY <1>16 DEF Requeue
  <2> QED BY <2>2, <2>3, <2>4
<1> HIDE DEF IInv, Shape
<1> QED BY <1>1, <1>2, <1>3, <1>4, <1>5, <1>6, <1>7, <1>8, <1>9, <1>10, <1>11, <1>12, <1>13,
           <1>14, <1>15, <1>16 DEF Worker

\* So does a step of runMALdataflow or DFLOWscheduler.
LEMMA CallShape ==
    ASSUME IInv, NEW c \in Flows, Call(c) \/ Scheduler(c)
    PROVE  Shape'
<1> USE DEF poolVars, localVars, queueVars, stopVars, callVars, flowVars, doneVars,
            IInv, Shape, TypeOK, PoolOK, LocalsOK, QueueOK, CallsOK, FlowsOK, WorkOK,
            ItemsOK, WorkerPCs, CallPCs, Handling
<1>1. ASSUME NEW f \in Flows, Call(f) PROVE Shape'
  BY <1>1 DEF Call
<1>2. ASSUME NEW f \in Flows, JoinExited(f) PROVE Shape'
  <2>1. PICK i \in Slots : /\ flag' = [flag EXCEPT ![i] = "JOINING"]
                           /\ cntxt' = [cntxt EXCEPT ![i] = NoClient]
                           /\ slot' = [slot EXCEPT ![f] = i]
    BY <1>2 DEF JoinExited
  <2>2. /\ fpc' = [fpc EXCEPT ![f] = "joining"]
        /\ UNCHANGED <<wsema, localVars, queueVars, stopVars, work, tasks, ret, flowVars, doneVars, stk>>
    BY <1>2 DEF JoinExited
  <2>3. i \in 0..Threads
    BY ThreadsAssumption DEF Slots
  <2>4. PoolOK'
    BY <2>1, <2>2
  <2>5. CallsOK' /\ WorkOK'
    BY <2>1, <2>2, <2>3
  <2>6. LocalsOK' /\ QueueOK' /\ FlowsOK' /\ ItemsOK'
    BY <2>2
  <2> QED BY <2>4, <2>5, <2>6
<1>3. ASSUME NEW f \in Flows, Joined(f) PROVE Shape'
  BY <1>3 DEF Joined
<1>4. ASSUME NEW f \in Flows, CreateWorker(f) PROVE Shape'
  <2>1. Specificity(f) \in Clients \cup {NoClient}
    <3>1. CASE Host[f] # NoItem
      <4>1. RunnersOf(Host[f]) # {}
        BY <1>4, <3>1 DEF CreateWorker, Threading, HostOK, Active
      <4>2. (CHOOSE i \in RunnersOf(Host[f]) : TRUE) \in Slots
        BY <4>1 DEF RunnersOf
      <4> QED BY <3>1, <4>2 DEF Specificity
    <3>2. CASE Host[f] = NoItem
      BY <3>2, ClientOfAssumption DEF Specificity
    <3> QED BY <3>1, <3>2
  <2>2. PoolOK'
    <3>1. PICK i \in Slots : /\ cntxt' = [cntxt EXCEPT ![i] = Specificity(f)]
                             /\ flag' = [flag EXCEPT ![i] = "RUNNING"] \/ flag' = flag
      BY <1>4 DEF CreateWorker
    <3>2. wsema' = wsema
      BY <1>4 DEF CreateWorker
    <3> QED BY <2>1, <3>1, <3>2
  <2>3. UNCHANGED <<wsema, client, fe, fnxt, todo, tsema, exitcount, exiting, stop, work, tasks, ret,
                    state, blocks, error, done, dsema, stk>>
    BY <1>4 DEF CreateWorker
  <2>4. PICK i \in Slots :
          \/ /\ wpc' = [wpc EXCEPT ![i] = "start"]
             /\ slot' = [slot EXCEPT ![f] = i]
             /\ fpc' = [fpc EXCEPT ![f] = "alloc"]
          \/ fpc' = [fpc EXCEPT ![f] = "serial"] /\ UNCHANGED <<wpc, slot>>
    BY <1>4 DEF CreateWorker
  <2>5. LocalsOK' /\ ItemsOK'
    <3>1. CASE UNCHANGED wpc
      BY <2>3, <3>1
    <3>2. CASE wpc' = [wpc EXCEPT ![i] = "start"]
      BY <2>3, <3>2
    <3> QED BY <2>4, <3>1, <3>2
  <2>6. QueueOK' /\ FlowsOK'
    BY <2>3
  <2>7. i \in 0..Threads
    BY ThreadsAssumption DEF Slots
  <2>8. CallsOK' /\ WorkOK'
    <3>1. CASE fpc' = [fpc EXCEPT ![f] = "serial"] /\ UNCHANGED slot
      BY <2>3, <3>1
    <3>2. CASE slot' = [slot EXCEPT ![f] = i] /\ fpc' = [fpc EXCEPT ![f] = "alloc"]
      BY <2>3, <2>7, <3>2
    <3> QED BY <2>4, <3>1, <3>2
  <2> QED BY <2>2, <2>5, <2>6, <2>8
<1>5. ASSUME NEW f \in Flows, NoSlot(f) PROVE Shape'
  BY <1>5 DEF NoSlot
<1>6. ASSUME NEW f \in Flows, RunSerially(f) PROVE Shape'
  <2>1. PoolOK' /\ LocalsOK' /\ QueueOK' /\ ItemsOK'
    BY <1>6 DEF RunSerially
  <2>2. FlowsOK'
    <3>1. PICK k \in 0..Len(Wakeup[f]) :
             stk' = [stk EXCEPT ![f] = [n \in Instrs(f) |->
                        IF n <= k THEN "ok" ELSE IF n = k + 1 THEN "err" ELSE "none"]]
      BY <1>6 DEF RunSerially
    <3>2. [n \in Instrs(f) |-> IF n <= k THEN "ok" ELSE IF n = k + 1 THEN "err" ELSE "none"]
             \in [Instrs(f) -> {"none", "ok", "err"}]
      OBVIOUS
    <3>3. UNCHANGED <<flowVars, doneVars>>
      BY <1>6 DEF RunSerially
    <3> HIDE DEF IInv, Shape, TypeOK
    <3>4. FlowsOK
      BY DEF IInv, Shape, TypeOK
    <3> QED BY <3>1, <3>2, <3>3, <3>4
  <2>3. CallsOK' /\ WorkOK'
    BY <1>6 DEF RunSerially
  <2> QED BY <2>1, <2>2, <2>3
<1>7. ASSUME NEW f \in Flows, AllocFails(f) PROVE Shape'
  BY <1>7 DEF AllocFails
<1>8. ASSUME NEW f \in Flows, InitFails(f) PROVE Shape'
  BY <1>8 DEF InitFails
<1>9. ASSUME NEW f \in Flows, InitBlk(f) PROVE Shape'
  <2>1. [n \in Instrs(f) |-> InitialBlocks(f, n)] \in [Instrs(f) -> Int]
    BY InitialBlocksType
  <2>2. /\ [n \in Instrs(f) |-> n] \in Seq(Instrs(f))
        /\ [n \in Instrs(f) |-> n] # <<>>
    <3>1. Len(Wakeup[f]) \in Nat
      BY WakeupAssumption
    <3> QED BY <1>9, <3>1 DEF InitBlk, Instrs
  <2>3. FlowsOK'
    BY <1>9, <2>1 DEF InitBlk
  <2>4. CallsOK' /\ WorkOK'
    BY <1>9, <2>2 DEF InitBlk
  <2>5. PoolOK' /\ LocalsOK' /\ QueueOK' /\ ItemsOK'
    BY <1>9 DEF InitBlk
  <2> QED BY <2>3, <2>4, <2>5
<1>10. ASSUME NEW f \in Flows, Seed(f) PROVE Shape'
  <2>1. PICK n \in Instrs(f) : n = Head(work[f]) /\ Tail(work[f]) \in Seq(Instrs(f))
    BY <1>10, SeqFacts DEF Seed
  <2>2. Append(todo, <<f, n>>) \in Seq(Items)
    <3>1. <<f, n>> \in Items
      BY ItemMake
    <3> QED BY <3>1
  <2>3. DOMAIN state' = Flows /\ \A g \in Flows : state'[g] \in [Instrs(g) -> {"pending", "running", "wrapup"}]
    <3>1. state' = state \/ state' = [state EXCEPT ![f][n] = "running"]
      BY <1>10, <2>1 DEF Seed
    <3>2. "running" \in {"pending", "running", "wrapup"}
      OBVIOUS
    <3>3. /\ DOMAIN state = Flows
          /\ \A g \in Flows : state[g] \in [Instrs(g) -> {"pending", "running", "wrapup"}]
      OBVIOUS
    <3> HIDE DEF IInv
    <3>4. CASE state' = [state EXCEPT ![f][n] = "running"]
      BY <3>2, <3>3, <3>4, TableUpdate
    <3> QED BY <3>1, <3>3, <3>4
  <2>4. blocks' = blocks
    BY <1>10 DEF Seed
  <2>5. FlowsOK'
    BY <1>10, <2>3, <2>4 DEF Seed
  <2>6. CallsOK' /\ WorkOK'
    BY <1>10, <2>1 DEF Seed
  <2>7. QueueOK'
    <3>1. /\ todo' = todo \/ todo' = Append(todo, <<f, n>>)
          /\ tsema' = tsema \/ tsema' = tsema + 1
          /\ UNCHANGED <<exitcount, exiting, stop>>
      BY <1>10, <2>1 DEF Seed
    <3>2. todo' \in Seq(Items)
      BY <2>2, <3>1
    <3>3. tsema' \in Nat
      BY <3>1
    <3> QED BY <3>1, <3>2, <3>3
  <2>8. PoolOK' /\ LocalsOK' /\ ItemsOK'
    BY <1>10 DEF Seed
  <2> QED BY <2>5, <2>6, <2>7, <2>8
<1>11. ASSUME NEW f \in Flows, Signal(f) PROVE Shape'
  <2>1. PoolOK'
    <3>1. CASE slot[f] \in Slots
      BY <1>11, <3>1 DEF Signal
    <3>2. CASE slot[f] \notin Slots
      <4>1. wsema' = wsema
        BY <1>11, <3>2 DEF Signal
      <4> QED BY <1>11, <4>1 DEF Signal
    <3> QED BY <3>1, <3>2
  <2> QED BY <1>11, <2>1 DEF Signal
<1>12. ASSUME NEW f \in Flows, Finished(f) PROVE Shape'
  <2> DEFINE it == done[f][Len(done[f])]
  <2>1. done[f] # <<>>
    <3>1. Cardinality(Posting(f)) \in Nat
      BY SlotsFinite, FS_Subset, FS_CardinalityType DEF Posting
    <3>2. dsema[f] + Cardinality(Posting(f)) = Len(done[f]) /\ dsema[f] > 0
      BY <1>12 DEF Finished, DonePermits, Posting
    <3> QED BY <3>1, <3>2
  <2>2. /\ it \in {f} \X Instrs(f)
        /\ SubSeq(done[f], 1, Len(done[f]) - 1) \in Seq({f} \X Instrs(f))
    BY <2>1, SeqFacts
  <2>3. Wakeup[f][it[2]] \in Seq(Instrs(f))
    BY <2>2, WakeupType
  <2>4. Len(Wakeup[f]) \in Nat
    BY WakeupAssumption
  <2>5. FlowsOK'
    <3>1. DOMAIN done' = Flows /\ \A g \in Flows : done'[g] \in Seq({g} \X Instrs(g))
      BY <1>12, <2>2, QueueUpdate DEF Finished
    <3>2. dsema' \in [Flows -> Nat]
      <4>1. dsema[f] - 1 \in Nat
        <5>1. dsema[f] > 0
          BY <1>12 DEF Finished
        <5>2. dsema[f] \in Nat
          OBVIOUS
        <5> QED BY <5>1, <5>2
      <4>2. dsema' = [dsema EXCEPT ![f] = dsema[f] - 1]
        BY <1>12 DEF Finished
      <4> QED BY <4>1, <4>2
    <3> QED BY <1>12, <3>1, <3>2 DEF Finished
  <2>6. CallsOK' /\ WorkOK'
    <3>1. tasks[f] + 1 \in 0..Len(Wakeup[f])
      <4>1. tasks[f] # Len(Wakeup[f])
        BY <1>12 DEF Finished, AllBack
      <4>2. tasks[f] \in 0..Len(Wakeup[f])
        OBVIOUS
      <4> QED BY <2>4, <4>1, <4>2
    <3>2. DOMAIN tasks' = Flows /\ \A g \in Flows : tasks'[g] \in 0..Len(Wakeup[g])
      BY <1>12, <3>1 DEF Finished
    <3>3. DOMAIN work' = Flows /\ \A g \in Flows : work'[g] \in Seq(Instrs(g))
      BY <1>12, <2>3 DEF Finished
    <3>4. WorkOK'
      BY <1>12, <2>3 DEF Finished
    <3>5. fpc' \in [Flows -> CallPCs] /\ UNCHANGED <<slot, ret>>
      BY <1>12 DEF Finished
    <3> QED BY <3>2, <3>3, <3>4, <3>5
  <2>7. PoolOK' /\ LocalsOK' /\ QueueOK' /\ ItemsOK'
    BY <1>12 DEF Finished
  <2> QED BY <2>5, <2>6, <2>7
<1>13. ASSUME NEW f \in Flows, Walk(f) PROVE Shape'
  <2>1. PICK n \in Instrs(f) : n = Head(work[f]) /\ Tail(work[f]) \in Seq(Instrs(f))
    BY <1>13, SeqFacts DEF Walk
  <2>2. Append(todo, <<f, n>>) \in Seq(Items)
    <3>1. <<f, n>> \in Items
      BY ItemMake
    <3> QED BY <3>1
  <2>3. DOMAIN state' = Flows /\ \A g \in Flows : state'[g] \in [Instrs(g) -> {"pending", "running", "wrapup"}]
    <3>1. state' = state \/ state' = [state EXCEPT ![f][n] = "running"]
      BY <1>13, <2>1 DEF Walk
    <3>2. "running" \in {"pending", "running", "wrapup"}
      OBVIOUS
    <3>3. /\ DOMAIN state = Flows
          /\ \A g \in Flows : state[g] \in [Instrs(g) -> {"pending", "running", "wrapup"}]
      OBVIOUS
    <3> HIDE DEF IInv
    <3>4. CASE state' = [state EXCEPT ![f][n] = "running"]
      BY <3>2, <3>3, <3>4, TableUpdate
    <3> QED BY <3>1, <3>3, <3>4
  <2>4. DOMAIN blocks' = Flows /\ \A g \in Flows : blocks'[g] \in [Instrs(g) -> Int]
    <3>1. PICK v \in Int : v = blocks[f][n] - 1
      OBVIOUS
    <3>2. blocks' = blocks \/ blocks' = [blocks EXCEPT ![f][n] = v]
      BY <1>13, <2>1, <3>1 DEF Walk, Waits
    <3>3. DOMAIN blocks = Flows /\ \A g \in Flows : blocks[g] \in [Instrs(g) -> Int]
      OBVIOUS
    <3>4. CASE blocks' = [blocks EXCEPT ![f][n] = v]
      BY <3>3, <3>4, TableUpdate
    <3> QED BY <3>2, <3>3, <3>4
  <2>5. FlowsOK'
    BY <1>13, <2>3, <2>4 DEF Walk
  <2>6. CallsOK' /\ WorkOK'
    BY <1>13, <2>1 DEF Walk
  <2>7. QueueOK'
    <3>1. /\ todo' = todo \/ todo' = Append(todo, <<f, n>>)
          /\ tsema' = tsema \/ tsema' = tsema + 1
          /\ UNCHANGED <<exitcount, exiting, stop>>
      BY <1>13, <2>1 DEF Walk
    <3>2. todo' \in Seq(Items)
      BY <2>2, <3>1
    <3>3. tsema' \in Nat
      BY <3>1
    <3> QED BY <3>1, <3>2, <3>3
  <2>8. PoolOK' /\ LocalsOK' /\ ItemsOK'
    BY <1>13 DEF Walk
  <2> QED BY <2>5, <2>6, <2>7, <2>8
<1>14. ASSUME NEW f \in Flows, Release(f) PROVE Shape'
  BY <1>14 DEF Release, Unbind
<1>15. ASSUME NEW f \in Flows, Token(f) PROVE Shape'
  BY <1>15 DEF Token
<1> HIDE DEF IInv, Shape
<1> QED BY <1>1, <1>2, <1>3, <1>4, <1>5, <1>6, <1>7, <1>8, <1>9, <1>10, <1>11, <1>12, <1>13, <1>14, <1>15 DEF Scheduler

\* So does a step of stopMALdataflow.
LEMMA StopShape ==
    ASSUME IInv, Stop \/ StopMark \/ StopJoin \/ Stopped
    PROVE  Shape'
<1> USE DEF poolVars, localVars, queueVars, stopVars, callVars, flowVars, doneVars,
            IInv, Shape, TypeOK, PoolOK, LocalsOK, QueueOK, CallsOK, FlowsOK, WorkOK,
            ItemsOK, WorkerPCs, CallPCs, Handling
<1>1. CASE Stop
  BY <1>1, ThreadsAssumption DEF Stop
<1>2. CASE StopMark
  BY <1>2 DEF StopMark
<1>3. CASE StopJoin
  BY <1>3, ThreadsAssumption DEF StopJoin, Slots
<1>4. CASE Stopped
  BY <1>4 DEF Stopped, vars
<1> HIDE DEF IInv, Shape
<1> QED BY <1>1, <1>2, <1>3, <1>4

----------------------------------------------------------------------------
(***************************************************************************)
(* Threading is preserved                                                  *)
(***************************************************************************)

\* What a step of the worker in slot i leaves alone.
WorkerFrame(i) ==
    /\ UNCHANGED <<fpc, slot, exiting, stop>>
    /\ wpc[i] # "none"
    /\ \A j \in Slots \ {i} : wpc'[j] = wpc[j] /\ fe'[j] = fe[j] /\ flag'[j] = flag[j]
    /\ wpc'[i] = "none" \/ flag'[i] = flag[i]
    /\ wpc[i] = "run" => \A g \in Nested(fe[i]) : fpc[g] = "returned"

\* What a step of a worker leaves alone: the flags and threads of the other
\* slots, and where the calls are.
LEMMA WorkerKeeps ==
    ASSUME Shape, NEW i \in Slots, Worker(i)
    PROVE  WorkerFrame(i)
<1> USE DEF Shape, TypeOK, PoolOK, LocalsOK, poolVars, localVars, queueVars, stopVars,
            callVars, flowVars, doneVars, WorkerFrame
<1>1. CASE WorkerStart(i)
  BY <1>1 DEF WorkerStart
<1>2. CASE WorkerWait(i)
  BY <1>2 DEF WorkerWait
<1>3. CASE WorkerFetch(i)
  BY <1>3 DEF WorkerFetch
<1>4. CASE WorkerDown(i)
  BY <1>4 DEF WorkerDown
<1>5. CASE TakeSpecific(i)
  BY <1>5 DEF TakeSpecific
<1>6. CASE WorkerCompensate(i)
  BY <1>6 DEF WorkerCompensate
<1>7. CASE TakeGeneric(i)
  BY <1>7 DEF TakeGeneric
<1>8. CASE WorkerCheck(i)
  BY <1>8 DEF WorkerCheck
<1>9. CASE WorkerRun(i)
  BY <1>9 DEF WorkerRun
<1>10. CASE WorkerError(i)
  BY <1>10 DEF WorkerError
<1>11. CASE WorkerGrab(i)
  BY <1>11 DEF WorkerGrab
<1>12. CASE WorkerEnqueue(i)
  BY <1>12 DEF WorkerEnqueue
<1>13. CASE WorkerUp(i)
  BY <1>13 DEF WorkerUp
<1>14. CASE WorkerExit(i)
  BY <1>14 DEF WorkerExit
<1>15. CASE Admit(i)
  BY <1>15 DEF Admit
<1>16. CASE Requeue(i)
  BY <1>16 DEF Requeue, Refused
<1> QED BY <1>1, <1>2, <1>3, <1>4, <1>5, <1>6, <1>7, <1>8, <1>9, <1>10, <1>11, <1>12, <1>13,
           <1>14, <1>15, <1>16 DEF Worker

\* A worker step keeps slots and threads in agreement.
LEMMA WorkerThreading ==
    ASSUME IInv, NEW i \in Slots, Worker(i)
    PROVE  Threading'
<1>1. WorkerFrame(i)
  BY WorkerKeeps DEF IInv
<1> USE <1>1 DEF IInv, Threading, WorkerFrame
<1>2. SlotsFree'
  BY DEF SlotsFree
<1>3. JoiningOK'
  BY DEF JoiningOK
<1>4. StopOK'
  BY DEF StopOK, Active
<1>5. HostOK'
  <2> SUFFICES ASSUME NEW f \in Flows, Host[f] # NoItem, Active(f)'
               PROVE  RunnersOf(Host[f])' # {}
    BY DEF HostOK
  <2>1. Active(f) /\ RunnersOf(Host[f]) # {}
    BY DEF HostOK, Active
  <2>2. PICK j \in Slots : wpc[j] = "run" /\ fe[j] = Host[f]
    BY <2>1 DEF RunnersOf
  <2>3. j # i
    <3>1. ~\A g \in Nested(Host[f]) : fpc[g] = "returned"
      BY <2>1 DEF Nested, Active
    <3> QED BY <2>2, <3>1
  <2> QED BY <2>2, <2>3 DEF RunnersOf
<1> QED BY <1>2, <1>3, <1>4, <1>5

\* A step of a call that only moves on, and not into a join.
LEMMA PlainCall ==
    ASSUME IInv, NEW f \in Flows, NEW p, p # "joining",
           UNCHANGED <<flag, wpc, fe, slot, exiting, stop>>,
           fpc' = [fpc EXCEPT ![f] = p],
           ~exiting,
           Active(f) \/ Host[f] = NoItem \/ RunnersOf(Host[f]) # {}
    PROVE  Threading'
<1> USE DEF IInv, Threading, Shape, TypeOK, CallsOK
<1>1. SlotsFree'
  BY DEF SlotsFree
<1>2. JoiningOK'
  BY DEF JoiningOK
<1>3. StopOK'
  BY DEF StopOK
<1>4. HostOK'
  <2> SUFFICES ASSUME NEW g \in Flows, Host[g] # NoItem, Active(g)'
               PROVE  RunnersOf(Host[g])' # {}
    BY DEF HostOK
  <2>1. RunnersOf(Host[g]) # {}
    BY DEF HostOK, Active
  <2> QED BY <2>1 DEF RunnersOf
<1> QED BY <1>1, <1>2, <1>3, <1>4

\* A step of a call keeps slots and threads in agreement, in particular when
\* it joins with a thread or starts one.
LEMMA CallThreading ==
    ASSUME IInv, NEW f \in Flows, Call(f) \/ Scheduler(f)
    PROVE  Threading'
<1> USE DEF poolVars, localVars, queueVars, stopVars, callVars, flowVars, doneVars
<1>1. CASE Call(f)
  <2>1. /\ UNCHANGED <<flag, wpc, fe, slot, exiting, stop>> /\ ~exiting
        /\ fpc' = [fpc EXCEPT ![f] = "join"]
        /\ Host[f] = NoItem \/ RunnersOf(Host[f]) # {}
    BY <1>1 DEF Call
  <2> QED BY <2>1, PlainCall
<1>2. ASSUME Active(f) PROVE ~exiting
  BY <1>2 DEF IInv, Threading, StopOK
<1>3. ASSUME UNCHANGED <<flag, wpc, fe, slot, exiting, stop>>, Active(f),
             \E p : p # "joining" /\ fpc' = [fpc EXCEPT ![f] = p]
      PROVE  Threading'
  BY <1>2, <1>3, PlainCall
<1>4. CASE JoinExited(f)
  <2>1. PICK i \in Slots : /\ flag[i] = "EXITED"
                           /\ flag' = [flag EXCEPT ![i] = "JOINING"]
                           /\ slot' = [slot EXCEPT ![f] = i]
    BY <1>4 DEF JoinExited, LowestWith
  <2>2. /\ fpc[f] = "join" /\ fpc' = [fpc EXCEPT ![f] = "joining"]
        /\ UNCHANGED <<wpc, fe, exiting, stop>>
    BY <1>4 DEF JoinExited
  <2> USE <2>1, <2>2 DEF IInv, Shape, TypeOK, PoolOK, CallsOK, Threading
  <2>3. wpc[i] = "none"
    BY DEF SlotsFree
  <2>4. SlotsFree'
    BY DEF SlotsFree
  <2>5. JoiningOK'
    <3> SUFFICES ASSUME NEW g \in Flows, fpc'[g] = "joining"
                 PROVE  /\ slot'[g] \in Slots /\ flag'[slot'[g]] = "JOINING"
                        /\ wpc'[slot'[g]] = "none"
                        /\ \A h \in Flows : fpc'[h] = "joining" /\ slot'[h] = slot'[g] => h = g
      BY DEF JoiningOK
    <3>1. \A h \in Flows \ {f} : /\ fpc'[h] = "joining" => fpc[h] = "joining"
                                /\ slot'[h] = slot[h]
      OBVIOUS
    <3>2. \A h \in Flows \ {f} : fpc[h] = "joining" =>
             slot[h] \in Slots /\ flag[slot[h]] = "JOINING" /\ wpc[slot[h]] = "none" /\ slot[h] # i
      BY DEF JoiningOK
    <3>3. slot'[f] = i
      OBVIOUS
    <3>4. CASE g = f
      BY <2>3, <3>1, <3>2, <3>3, <3>4
    <3>5. CASE g # f
      BY <3>1, <3>2, <3>3, <3>5 DEF JoiningOK
    <3> QED BY <3>4, <3>5
  <2>6. StopOK'
    BY DEF StopOK, Active
  <2>7. HostOK'
    BY DEF HostOK, Active, RunnersOf
  <2> QED BY <2>4, <2>5, <2>6, <2>7
<1>5. CASE Joined(f)
  <2>1. /\ fpc[f] = "joining" /\ fpc' = [fpc EXCEPT ![f] = "join"]
        /\ flag' = [flag EXCEPT ![slot[f]] = "IDLE"]
        /\ UNCHANGED <<wpc, fe, slot, exiting, stop>>
    BY <1>5 DEF Joined
  <2> USE <2>1 DEF IInv, Shape, TypeOK, PoolOK, CallsOK, Threading
  <2>2. slot[f] \in Slots /\ wpc[slot[f]] = "none"
    BY DEF JoiningOK
  <2>3. SlotsFree'
    BY <2>2 DEF SlotsFree
  <2>4. JoiningOK'
    BY <2>2 DEF JoiningOK
  <2>5. StopOK'
    BY DEF StopOK, Active
  <2>6. HostOK'
    BY DEF HostOK, Active, RunnersOf
  <2> QED BY <2>3, <2>4, <2>5, <2>6
<1>6. CASE CreateWorker(f)
  <2>1. PICK i \in Slots :
          /\ flag[i] = "IDLE"
          /\ \/ /\ flag' = [flag EXCEPT ![i] = "RUNNING"]
                /\ wpc' = [wpc EXCEPT ![i] = "start"]
                /\ slot' = [slot EXCEPT ![f] = i]
                /\ fpc' = [fpc EXCEPT ![f] = "alloc"]
             \/ fpc' = [fpc EXCEPT ![f] = "serial"] /\ UNCHANGED <<flag, wpc, slot>>
    BY <1>6 DEF CreateWorker, LowestWith
  <2>2. fpc[f] = "join" /\ UNCHANGED <<fe, exiting, stop>>
    BY <1>6 DEF CreateWorker
  <2>3. CASE fpc' = [fpc EXCEPT ![f] = "serial"] /\ UNCHANGED <<flag, wpc, slot>>
    BY <1>3, <2>2, <2>3 DEF Active
  <2>4. CASE /\ flag' = [flag EXCEPT ![i] = "RUNNING"]
             /\ wpc' = [wpc EXCEPT ![i] = "start"]
             /\ slot' = [slot EXCEPT ![f] = i]
             /\ fpc' = [fpc EXCEPT ![f] = "alloc"]
    <3> USE <2>2, <2>4 DEF IInv, Shape, TypeOK, PoolOK, LocalsOK, CallsOK, Threading
    <3>1. wpc[i] = "none" /\ flag[i] = "IDLE"
      BY <2>1 DEF SlotsFree
    <3>2. SlotsFree'
      BY DEF SlotsFree
    <3>3. JoiningOK'
      BY <3>1 DEF JoiningOK
    <3>4. StopOK'
      BY DEF StopOK, Active
    <3>5. HostOK'
      <4> SUFFICES ASSUME NEW g \in Flows, Host[g] # NoItem, Active(g)'
                   PROVE  RunnersOf(Host[g])' # {}
        BY DEF HostOK
      <4>1. RunnersOf(Host[g]) # {}
        BY DEF HostOK, Active
      <4>2. PICK j \in Slots : wpc[j] = "run" /\ fe[j] = Host[g]
        BY <4>1 DEF RunnersOf
      <4>3. j # i
        BY <3>1, <4>2
      <4> QED BY <4>2, <4>3 DEF RunnersOf
    <3> QED BY <3>2, <3>3, <3>4, <3>5
  <2> QED BY <2>1, <2>3, <2>4
<1>7. CASE NoSlot(f)
  BY <1>3, <1>7 DEF NoSlot, Active
<1>8. CASE RunSerially(f)
  BY <1>3, <1>8 DEF RunSerially, Active
<1>9. CASE AllocFails(f)
  BY <1>3, <1>9 DEF AllocFails, Active
<1>10. CASE InitFails(f)
  BY <1>3, <1>10 DEF InitFails, Active
<1>11. CASE InitBlk(f)
  BY <1>3, <1>11 DEF InitBlk, Active
<1>12. CASE Seed(f)
  BY <1>3, <1>12 DEF Seed, Active
<1>13. CASE Signal(f)
  BY <1>3, <1>13 DEF Signal, Active
<1>14. CASE Finished(f)
  BY <1>3, <1>14 DEF Finished, Active
<1>15. CASE Walk(f)
  BY <1>3, <1>15 DEF Walk, Active
<1>16. CASE Release(f)
  BY <1>3, <1>16 DEF Release, Active
<1>17. CASE Token(f)
  BY <1>3, <1>17 DEF Token, Active
<1> QED BY <1>1, <1>4, <1>5, <1>6, <1>7, <1>8, <1>9, <1>10, <1>11, <1>12, <1>13, <1>14, <1>15,
           <1>16, <1>17 DEF Scheduler

\* The shutdown keeps slots and threads in agreement.
LEMMA StopThreading ==
    ASSUME IInv, Stop \/ StopMark \/ StopJoin \/ Stopped
    PROVE  Threading'
<1> USE DEF poolVars, localVars, queueVars, stopVars, callVars, flowVars, doneVars,
            IInv, Shape, TypeOK, PoolOK, QueueOK, Threading
<1>1. CASE Stop
  <2>1. UNCHANGED <<flag, wpc, fe, fpc, slot>> /\ exiting' = TRUE /\ \A f \in Flows : ~Active(f)
    BY <1>1 DEF Stop
  <2> QED BY <2>1 DEF SlotsFree, JoiningOK, StopOK, HostOK, Active, RunnersOf
<1>2. CASE StopMark \/ StopJoin
  <2>1. /\ stop \in Slots /\ UNCHANGED <<wpc, fe, fpc, slot, exiting>>
        /\ \/ flag' = [flag EXCEPT ![stop] = "JOINING"] /\ UNCHANGED stop
           \/ /\ flag' = [flag EXCEPT ![stop] = "IDLE"] /\ stop' = stop + 1
              /\ wpc[stop] = "none"
    BY <1>2 DEF StopMark, StopJoin, SlotsFree
  <2>2. exiting /\ \A f \in Flows : ~Active(f)
    BY <2>1 DEF StopOK, Slots
  <2>3. SlotsFree'
    BY <2>1 DEF SlotsFree
  <2>4. JoiningOK' /\ StopOK' /\ HostOK'
    BY <2>1, <2>2 DEF JoiningOK, StopOK, HostOK, Active
  <2> QED BY <2>3, <2>4
<1>3. CASE Stopped
  BY <1>3 DEF Stopped, vars, SlotsFree, JoiningOK, StopOK, HostOK, Active, RunnersOf
<1> QED BY <1>1, <1>2, <1>3

----------------------------------------------------------------------------
(***************************************************************************)
(* DonePermits is preserved                                                *)
(***************************************************************************)

\* A set of slots that gains or loses one.
LEMMA SlotCount ==
    ASSUME NEW S \in SUBSET Slots, NEW i \in Slots
    PROVE  /\ Cardinality(S) \in Nat
           /\ i \notin S => Cardinality(S \cup {i}) = Cardinality(S) + 1
           /\ i \in S => Cardinality(S \ {i}) = Cardinality(S) - 1
<1>1. IsFiniteSet(S)
  BY SlotsFinite, FS_Subset
<1> QED BY <1>1, FS_CardinalityType, FS_AddElement, FS_RemoveElement

\* A step that touches neither a done queue nor a worker that posts on one.
LEMMA DoneFrame ==
    ASSUME IInv, UNCHANGED <<done, dsema>>, \A f \in Flows : Posting(f)' = Posting(f)
    PROVE  DonePermits'
BY DEF IInv, DonePermits, Posting

\* A worker step keeps the permits of the done queues exact.
LEMMA WorkerDone ==
    ASSUME IInv, NEW i \in Slots, Worker(i)
    PROVE  DonePermits'
<1> USE DEF poolVars, localVars, queueVars, stopVars, callVars, flowVars, doneVars,
            IInv, Shape, TypeOK, LocalsOK, FlowsOK, ItemsOK, Handling
<1>1. WorkerFrame(i)
  BY WorkerKeeps
<1>2. CASE WorkerEnqueue(i)
  <2>1. PICK f \in Flows : f = fe[i][1] /\ fe[i] \in {f} \X Instrs(f)
    BY <1>2, ItemType DEF WorkerEnqueue
  <2>2. /\ wpc[i] = "enqueue" /\ wpc' = [wpc EXCEPT ![i] = "up"]
        /\ done' = [done EXCEPT ![f] = Append(done[f], fe[i])]
        /\ UNCHANGED <<fe, dsema>>
    BY <1>2, <2>1 DEF WorkerEnqueue
  <2> SUFFICES ASSUME NEW g \in Flows
               PROVE  dsema'[g] + Cardinality(Posting(g)') = Len(done'[g])
    BY DEF DonePermits, Posting
  <2>3. dsema[g] + Cardinality(Posting(g)) = Len(done[g])
    BY DEF DonePermits, Posting
  <2>4. CASE g = f
    <3>1. Posting(g)' = Posting(g) \cup {i} /\ i \notin Posting(g)
      BY <2>1, <2>2, <2>4 DEF Posting
    <3>2. Cardinality(Posting(g)') = Cardinality(Posting(g)) + 1 /\ Cardinality(Posting(g)) \in Nat
      BY <3>1, SlotCount DEF Posting
    <3>3. done[f] \in Seq({f} \X Instrs(f))
      OBVIOUS
    <3>4. Len(done'[g]) = Len(done[g]) + 1
      BY <2>1, <2>2, <2>4, <3>3, AppendType
    <3>5. dsema'[g] = dsema[g] /\ dsema[g] \in Nat
      BY <2>2
    <3> QED BY <2>3, <3>2, <3>4, <3>5
  <2>5. CASE g # f
    <3>1. Posting(g)' = Posting(g)
      BY <2>1, <2>2, <2>5 DEF Posting
    <3>2. done'[g] = done[g] /\ dsema'[g] = dsema[g]
      BY <2>2, <2>5
    <3> QED BY <2>3, <3>1, <3>2
  <2> QED BY <2>4, <2>5
<1>3. CASE WorkerUp(i)
  <2>1. PICK f \in Flows : f = fe[i][1]
    BY <1>3, ItemType DEF WorkerUp
  <2>2. /\ wpc[i] = "up" /\ wpc'[i] # "up" /\ done' = done
        /\ dsema' = [dsema EXCEPT ![f] = dsema[f] + 1]
    BY <1>3, <2>1 DEF WorkerUp, Post
  <2> SUFFICES ASSUME NEW g \in Flows
               PROVE  dsema'[g] + Cardinality(Posting(g)') = Len(done'[g])
    BY DEF DonePermits, Posting
  <2>3. dsema[g] + Cardinality(Posting(g)) = Len(done[g])
    BY DEF DonePermits, Posting
  <2>4. CASE g = f
    <3>1. Posting(g)' = Posting(g) \ {i} /\ i \in Posting(g)
      BY <1>1, <2>1, <2>2, <2>4 DEF Posting, WorkerFrame
    <3>2. Cardinality(Posting(g)') = Cardinality(Posting(g)) - 1 /\ Cardinality(Posting(g)) \in Nat
      BY <3>1, SlotCount DEF Posting
    <3>3. dsema'[g] = dsema[g] + 1 /\ dsema[g] \in Nat
      BY <2>2, <2>4
    <3> QED BY <2>2, <2>3, <3>2, <3>3
  <2>5. CASE g # f
    <3>1. Posting(g)' = Posting(g)
      BY <1>1, <2>1, <2>2, <2>5 DEF Posting, WorkerFrame
    <3>2. dsema'[g] = dsema[g]
      BY <2>2, <2>5
    <3> QED BY <2>2, <2>3, <3>1, <3>2
  <2> QED BY <2>4, <2>5
<1>4. ASSUME UNCHANGED <<done, dsema>>, wpc[i] # "up", wpc'[i] # "up"
      PROVE  DonePermits'
  <2>1. \A f \in Flows : Posting(f)' = Posting(f)
    BY <1>1, <1>4 DEF Posting, WorkerFrame
  <2> QED BY <1>4, <2>1, DoneFrame
<1>5. CASE WorkerStart(i)
  BY <1>4, <1>5 DEF WorkerStart
<1>6. CASE WorkerWait(i)
  BY <1>4, <1>6 DEF WorkerWait
<1>7. CASE WorkerFetch(i)
  BY <1>4, <1>7 DEF WorkerFetch
<1>8. CASE WorkerDown(i)
  BY <1>4, <1>8 DEF WorkerDown
<1>9. CASE TakeSpecific(i)
  BY <1>4, <1>9 DEF TakeSpecific
<1>10. CASE WorkerCompensate(i)
  BY <1>4, <1>10 DEF WorkerCompensate
<1>11. CASE TakeGeneric(i)
  BY <1>4, <1>11 DEF TakeGeneric
<1>12. CASE WorkerCheck(i)
  BY <1>4, <1>12 DEF WorkerCheck
<1>13. CASE WorkerRun(i)
  BY <1>4, <1>13 DEF WorkerRun
<1>14. CASE WorkerError(i)
  BY <1>4, <1>14 DEF WorkerError
<1>15. CASE WorkerGrab(i)
  BY <1>4, <1>15 DEF WorkerGrab
<1>16. CASE WorkerExit(i)
  BY <1>4, <1>16 DEF WorkerExit
<1>17. CASE Admit(i)
  BY <1>4, <1>17 DEF Admit
<1>18. CASE Requeue(i)
  BY <1>4, <1>18 DEF Requeue, Refused
<1> QED BY <1>2, <1>3, <1>5, <1>6, <1>7, <1>8, <1>9, <1>10, <1>11, <1>12, <1>13, <1>14, <1>15,
           <1>16, <1>17, <1>18 DEF Worker

\* A step of a call keeps the permits of the done queues exact.
LEMMA CallDone ==
    ASSUME IInv, NEW f \in Flows, Call(f) \/ Scheduler(f)
    PROVE  DonePermits'
<1> USE DEF poolVars, localVars, queueVars, stopVars, callVars, flowVars, doneVars
<1>1. CASE Finished(f)
  <2> USE DEF IInv, Shape, TypeOK, FlowsOK
  <2>1. /\ dsema[f] > 0 /\ dsema' = [dsema EXCEPT ![f] = dsema[f] - 1]
        /\ done' = [done EXCEPT ![f] = SubSeq(done[f], 1, Len(done[f]) - 1)]
        /\ UNCHANGED <<wpc, fe>>
    BY <1>1 DEF Finished
  <2> SUFFICES ASSUME NEW g \in Flows
               PROVE  dsema'[g] + Cardinality(Posting(g)') = Len(done'[g])
    BY DEF DonePermits, Posting
  <2>2. dsema[g] + Cardinality(Posting(g)) = Len(done[g])
    BY DEF DonePermits, Posting
  <2>3. Posting(g)' = Posting(g)
    BY <2>1 DEF Posting
  <2>4. Cardinality(Posting(g)) \in Nat
    BY SlotsFinite, FS_Subset, FS_CardinalityType DEF Posting
  <2>5. dsema[g] \in Nat /\ done[g] \in Seq({g} \X Instrs(g))
    OBVIOUS
  <2>6. CASE g = f
    <3>1. done[f] # <<>>
      BY <2>1, <2>2, <2>4, <2>5, <2>6
    <3>2. Len(done'[g]) = Len(done[g]) - 1
      BY <2>1, <2>5, <2>6, <3>1, SeqFacts
    <3>3. dsema'[g] = dsema[g] - 1
      BY <2>1, <2>6
    <3>4. Len(done[g]) \in Nat
      BY <2>5
    <3> QED BY <2>2, <2>3, <2>4, <2>5, <3>2, <3>3, <3>4
  <2>7. CASE g # f
    BY <2>1, <2>2, <2>3, <2>7
  <2> QED BY <2>6, <2>7
<1>2. CASE CreateWorker(f)
  <2>1. PICK i \in Slots : /\ flag[i] = "IDLE"
                           /\ wpc' = [wpc EXCEPT ![i] = "start"] \/ wpc' = wpc
    BY <1>2 DEF CreateWorker, LowestWith
  <2>2. wpc[i] # "up"
    BY <2>1 DEF IInv, Threading, SlotsFree
  <2>3. UNCHANGED <<fe, done, dsema>>
    BY <1>2 DEF CreateWorker
  <2>4. \A g \in Flows : Posting(g)' = Posting(g)
    BY <2>1, <2>2, <2>3 DEF Posting, IInv, Shape, TypeOK, LocalsOK
  <2> QED BY <2>3, <2>4, DoneFrame
<1>3. ASSUME UNCHANGED <<wpc, fe, done, dsema>> PROVE DonePermits'
  <2>1. \A g \in Flows : Posting(g)' = Posting(g)
    BY <1>3 DEF Posting
  <2> QED BY <1>3, <2>1, DoneFrame
<1>4. CASE Call(f) \/ JoinExited(f) \/ Joined(f) \/ NoSlot(f) \/ RunSerially(f)
           \/ AllocFails(f) \/ InitFails(f) \/ InitBlk(f)
  BY <1>3, <1>4 DEF Call, JoinExited, Joined, NoSlot, RunSerially, AllocFails, InitFails, InitBlk
<1>5. CASE Seed(f) \/ Signal(f) \/ Walk(f) \/ Release(f) \/ Token(f)
  BY <1>3, <1>5 DEF Seed, Signal, Walk, Release, Token
<1> QED BY <1>1, <1>2, <1>4, <1>5 DEF Scheduler

\* The shutdown touches no done queue.
LEMMA StopDone ==
    ASSUME IInv, Stop \/ StopMark \/ StopJoin \/ Stopped
    PROVE  DonePermits'
<1>1. UNCHANGED <<wpc, fe, done, dsema>>
  BY DEF Stop, StopMark, StopJoin, Stopped, vars, localVars, doneVars
<1>2. \A f \in Flows : Posting(f)' = Posting(f)
  BY <1>1 DEF Posting
<1> QED BY <1>1, <1>2, DoneFrame

----------------------------------------------------------------------------
(***************************************************************************)
(* The theorems                                                            *)
(***************************************************************************)

\* The inductive step.
LEMMA NextIInv == IInv /\ [Next]_vars => IInv'
<1> SUFFICES ASSUME IInv, [Next]_vars PROVE Shape' /\ Threading' /\ DonePermits'
  BY DEF IInv
<1>1. ASSUME NEW i \in Slots, Worker(i) PROVE Shape' /\ Threading' /\ DonePermits'
  BY <1>1, WorkerShape, WorkerThreading, WorkerDone
<1>2. ASSUME NEW f \in Flows, Call(f) \/ Scheduler(f) PROVE Shape' /\ Threading' /\ DonePermits'
  BY <1>2, CallShape, CallThreading, CallDone
<1>3. CASE Stop \/ StopMark \/ StopJoin \/ Stopped
  BY <1>3, StopShape, StopThreading, StopDone
<1>4. CASE UNCHANGED vars
  <2>2. Shape'
    BY <1>4 DEF vars, poolVars, localVars, queueVars, stopVars, callVars, flowVars, doneVars,
            IInv, Shape, TypeOK, PoolOK, LocalsOK, QueueOK, CallsOK, FlowsOK, WorkOK, ItemsOK
  <2>3. Threading'
    BY <1>4 DEF vars, poolVars, localVars, queueVars, stopVars, callVars, IInv, Threading,
            SlotsFree, JoiningOK, StopOK, HostOK, Active, RunnersOf
  <2>4. DonePermits'
    <3>1. UNCHANGED <<wpc, fe, done, dsema>>
      BY <1>4 DEF vars, localVars, doneVars
    <3>2. \A f \in Flows : Posting(f)' = Posting(f)
      BY <3>1 DEF Posting
    <3> QED BY <3>1, <3>2, DoneFrame
  <2> QED BY <2>2, <2>3, <2>4
<1> QED BY <1>1, <1>2, <1>3, <1>4 DEF Next

\* The invariant holds in every reachable state.
THEOREM Invariance == Spec => []IInv
BY InitIInv, NextIInv, PTL DEF Spec

\* Every variable of the scheduler keeps its type for any pool, any sessions
\* and any blocks: no permit count drops below zero, a scheduler that takes
\* a finished instruction finds one, and it counts no more instructions
\* back than its block has.
THEOREM TypeCorrect == Spec => []TypeOK
<1>1. IInv => TypeOK
  BY DEF IInv, Shape
<1> QED BY Invariance, <1>1, PTL

\* The slot handed to a new worker has no thread: the join of an exited
\* worker outside the lock, in runMALdataflow and in stopMALdataflow, never
\* leaves two threads in one slot.
THEOREM SlotSafety == Spec => []SlotsFree
<1>1. IInv => SlotsFree
  BY DEF IInv, Threading
<1> QED BY Invariance, <1>1, PTL

\* The done queue of every flow has exactly the permits it needs: q_dequeue
\* by the scheduler never meets an empty queue.
THEOREM DoneQueueSafety == Spec => []DonePermits
<1>1. IInv => DonePermits
  BY DEF IInv
<1> QED BY Invariance, <1>1, PTL

----------------------------------------------------------------------------
(***************************************************************************)
(* The permit accounting of the shared queue todo                          *)
(***************************************************************************)

\* What the accounting reads; a step that changes none of it preserves it.
LEMMA PermitFrame ==
    ASSUME PermitAccounting, UNCHANGED <<todo, tsema, exitcount, exiting>>,
           Locked' = Locked, PermitHolders' = PermitHolders
    PROVE  PermitAccounting'
BY DEF PermitAccounting

\* The counts are natural numbers and the workers about to take something
\* are among those that hold a permit.
LEMMA PermitCounts ==
    ASSUME Shape
    PROVE  /\ tsema \in Nat /\ exitcount \in Nat /\ Len(todo) \in Nat /\ exiting \in BOOLEAN
           /\ Cardinality(Locked) \in Nat /\ Cardinality(PermitHolders) \in Nat
           /\ Cardinality(Locked) <= Cardinality(PermitHolders)
<1>1. tsema \in Nat /\ exitcount \in Nat /\ Len(todo) \in Nat /\ exiting \in BOOLEAN
  BY DEF Shape, TypeOK, QueueOK
<1>2. IsFiniteSet(PermitHolders) /\ Locked \subseteq PermitHolders
  BY SlotsFinite, FS_Subset DEF PermitHolders, Locked
<1>3. IsFiniteSet(Locked) /\ Cardinality(Locked) <= Cardinality(PermitHolders)
  BY <1>2, FS_Subset
<1> QED BY <1>1, <1>2, <1>3, FS_CardinalityType

\* A worker that enters or leaves the set of those holding a permit.
LEMMA WorkerPermits ==
    ASSUME IInv, PermitAccounting, NEW i \in Slots, Worker(i)
    PROVE  PermitAccounting'
<1> USE DEF poolVars, localVars, queueVars, stopVars, callVars, flowVars, doneVars
<1>1. WorkerFrame(i)
  BY WorkerKeeps DEF IInv
<1>2. \A j \in Slots \ {i} : wpc'[j] = wpc[j]
  BY <1>1 DEF WorkerFrame
<1>3. exiting' = exiting
  BY <1>1 DEF WorkerFrame
<1>4. /\ tsema \in Nat /\ exitcount \in Nat /\ Len(todo) \in Nat /\ exiting \in BOOLEAN
      /\ Cardinality(Locked) \in Nat /\ Cardinality(PermitHolders) \in Nat
  BY PermitCounts DEF IInv
<1>5. /\ i \notin Locked => Cardinality(Locked \cup {i}) = Cardinality(Locked) + 1
      /\ i \in Locked => Cardinality(Locked \ {i}) = Cardinality(Locked) - 1
      /\ i \notin PermitHolders => Cardinality(PermitHolders \cup {i}) = Cardinality(PermitHolders) + 1
      /\ i \in PermitHolders => Cardinality(PermitHolders \ {i}) = Cardinality(PermitHolders) - 1
  BY SlotCount DEF Locked, PermitHolders
<1>6. ASSUME wpc[i] = "locked", wpc'[i] \notin {"locked", "compensate"}, tsema' = tsema,
             Len(todo') + exitcount' = Len(todo) + exitcount - 1
      PROVE  PermitAccounting'
  <2>1. Locked' = Locked \ {i} /\ i \in Locked
    BY <1>2, <1>6 DEF Locked
  <2>2. PermitHolders' = PermitHolders \ {i} /\ i \in PermitHolders
    BY <1>2, <1>6 DEF PermitHolders
  <2> QED BY <1>3, <1>4, <1>5, <1>6, <2>1, <2>2 DEF PermitAccounting
<1>7. CASE WorkerDown(i)
  <2>1. wpc[i] = "down" /\ tsema > 0 /\ tsema' = tsema - 1 /\ UNCHANGED <<todo, exitcount>>
    BY <1>7 DEF WorkerDown
  <2>2. CASE exiting
    <3>1. wpc'[i] \in {"compensate", "exit"}
      BY <1>7, <2>2 DEF WorkerDown, IInv, Shape, TypeOK, LocalsOK
    <3>2. Locked' = Locked
      BY <1>2, <2>1, <3>1 DEF Locked
    <3> QED BY <1>3, <2>1, <2>2, <3>2 DEF PermitAccounting
  <2>3. CASE ~exiting
    <3>1. wpc'[i] = "locked"
      BY <1>7, <2>3 DEF WorkerDown, IInv, Shape, TypeOK, LocalsOK
    <3>2. PermitHolders' = PermitHolders \cup {i} /\ i \notin PermitHolders
      BY <1>2, <2>1, <3>1 DEF PermitHolders
    <3> QED BY <1>3, <1>4, <1>5, <2>1, <2>3, <3>2 DEF PermitAccounting
  <2> QED BY <2>2, <2>3
<1>8. CASE WorkerCompensate(i)
  <2>1. /\ wpc[i] = "compensate" /\ wpc'[i] = "fetch" /\ tsema' = tsema + 1
        /\ UNCHANGED <<todo, exitcount>>
    BY <1>8 DEF WorkerCompensate, IInv, Shape, TypeOK, LocalsOK
  <2>2. Locked' = Locked
    BY <1>2, <2>1 DEF Locked
  <2>3. PermitHolders' = PermitHolders \ {i} /\ i \in PermitHolders
    BY <1>2, <2>1 DEF PermitHolders
  <2> QED BY <1>3, <1>4, <1>5, <2>1, <2>2, <2>3 DEF PermitAccounting
<1>9. CASE TakeSpecific(i)
  <2>1. wpc[i] = "locked" /\ UNCHANGED <<tsema, exitcount>>
    BY <1>9 DEF TakeSpecific
  <2>2. CASE wpc' = [wpc EXCEPT ![i] = "compensate"] /\ UNCHANGED todo
    <3>1. wpc'[i] = "compensate"
      BY <2>2 DEF IInv, Shape, TypeOK, LocalsOK
    <3>2. Locked' = Locked \ {i} /\ i \in Locked
      BY <1>2, <2>1, <3>1 DEF Locked
    <3>3. PermitHolders' = PermitHolders
      BY <1>2, <2>1, <3>1 DEF PermitHolders
    <3> QED BY <1>3, <1>4, <1>5, <2>1, <2>2, <3>2, <3>3 DEF PermitAccounting
  <2>3. ASSUME NEW k \in 1..Len(todo), wpc' = [wpc EXCEPT ![i] = "got"],
               todo' = [j \in 1..(Len(todo) - 1) |-> IF j < k THEN todo[j] ELSE todo[j + 1]]
        PROVE  PermitAccounting'
    <3>1. wpc'[i] = "got"
      BY <2>3 DEF IInv, Shape, TypeOK, LocalsOK
    <3>2. Len(todo) - 1 \in Nat
      BY <1>4
    <3>3. Len(todo') = Len(todo) - 1
      BY <2>3, <3>2
    <3> QED BY <1>4, <1>6, <2>1, <3>1, <3>3
  <2> QED BY <1>9, <2>2, <2>3 DEF TakeSpecific
<1>10. CASE TakeGeneric(i)
  <2>1. wpc[i] = "locked" /\ UNCHANGED tsema
    BY <1>10 DEF TakeGeneric
  <2>2. wpc'[i] \in {"exit", "got"}
    BY <1>10 DEF TakeGeneric, IInv, Shape, TypeOK, LocalsOK
  <2>3. CASE exitcount' = exitcount - 1 /\ UNCHANGED todo
    BY <1>4, <1>6, <2>1, <2>2, <2>3
  <2>4. CASE Len(todo) > 0 /\ todo' = SubSeq(todo, 1, Len(todo) - 1) /\ UNCHANGED exitcount
    <3>1. todo \in Seq(Items) /\ todo # <<>>
      BY <2>4 DEF IInv, Shape, TypeOK, QueueOK
    <3>2. Len(todo') = Len(todo) - 1
      BY <2>4, <3>1, SeqFacts
    <3> QED BY <1>4, <1>6, <2>1, <2>2, <2>4, <3>2
  <2> QED BY <1>10, <2>3, <2>4 DEF TakeGeneric
<1>11. ASSUME UNCHANGED <<todo, tsema, exitcount>>, wpc[i] \notin {"locked", "compensate"},
              wpc'[i] \notin {"locked", "compensate"}
       PROVE  PermitAccounting'
  <2>1. Locked' = Locked /\ PermitHolders' = PermitHolders
    BY <1>2, <1>11 DEF Locked, PermitHolders
  <2> QED BY <1>3, <1>11, <2>1, PermitFrame
<1> USE DEF IInv, Shape, TypeOK, LocalsOK
<1>12. CASE WorkerStart(i)
  BY <1>11, <1>12 DEF WorkerStart
<1>13. CASE WorkerWait(i)
  BY <1>11, <1>13 DEF WorkerWait
<1>14. CASE WorkerFetch(i)
  BY <1>11, <1>14 DEF WorkerFetch
<1>15. CASE WorkerCheck(i)
  BY <1>11, <1>15 DEF WorkerCheck
<1>16. CASE WorkerRun(i)
  BY <1>11, <1>16 DEF WorkerRun
<1>17. CASE WorkerError(i)
  BY <1>11, <1>17 DEF WorkerError
<1>18. CASE WorkerGrab(i)
  BY <1>11, <1>18 DEF WorkerGrab
<1>19. CASE WorkerEnqueue(i)
  BY <1>11, <1>19 DEF WorkerEnqueue
<1>20. CASE WorkerUp(i)
  BY <1>11, <1>20 DEF WorkerUp
<1>21. CASE WorkerExit(i)
  BY <1>11, <1>21 DEF WorkerExit
<1>22. CASE Admit(i)
  BY <1>11, <1>22 DEF Admit
<1> HIDE DEF IInv, Shape, TypeOK
<1>23. CASE Requeue(i)
  <2>1. /\ wpc[i] = "admit" /\ Len(todo') = Len(todo) + 1 /\ tsema' = tsema + 1
        /\ wpc' = [wpc EXCEPT ![i] = "fetch"]
    BY <1>23, RequeueFacts DEF IInv
  <2>2. wpc'[i] = "fetch" /\ exitcount' = exitcount
    BY <1>23, <2>1 DEF Requeue, IInv, Shape, TypeOK, LocalsOK
  <2>3. Locked' = Locked /\ PermitHolders' = PermitHolders
    BY <1>2, <2>1, <2>2 DEF Locked, PermitHolders
  <2> QED BY <1>3, <1>4, <2>1, <2>2, <2>3 DEF PermitAccounting
<1> QED BY <1>7, <1>8, <1>9, <1>10, <1>12, <1>13, <1>14, <1>15, <1>16, <1>17, <1>18, <1>19, <1>20,
           <1>21, <1>22, <1>23 DEF Worker

\* A call posts one permit with each instruction it queues and with its
\* request to exit.
LEMMA CallPermits ==
    ASSUME IInv, PermitAccounting, NEW f \in Flows, Call(f) \/ Scheduler(f)
    PROVE  PermitAccounting'
<1> USE DEF poolVars, localVars, queueVars, stopVars, callVars, flowVars, doneVars
<1>1. /\ tsema \in Nat /\ exitcount \in Nat /\ Len(todo) \in Nat /\ exiting \in BOOLEAN
      /\ Cardinality(Locked) \in Nat /\ Cardinality(PermitHolders) \in Nat
  BY PermitCounts DEF IInv
<1>2. ASSUME Active(f) PROVE ~exiting
  BY <1>2 DEF IInv, Threading, StopOK
<1>3. ASSUME UNCHANGED <<wpc, exiting>>, tsema' = tsema + 1, ~exiting,
             Len(todo') + exitcount' = Len(todo) + exitcount + 1
      PROVE  PermitAccounting'
  <2>1. PermitHolders' = PermitHolders
    BY <1>3 DEF PermitHolders
  <2> QED BY <1>1, <1>3, <2>1 DEF PermitAccounting
<1>4. ASSUME NEW n \in Instrs(f), todo' = Append(todo, <<f, n>>)
      PROVE  Len(todo') = Len(todo) + 1
  <2>1. todo \in Seq(Items) /\ <<f, n>> \in Items
    BY ItemMake DEF IInv, Shape, TypeOK, QueueOK
  <2> QED BY <1>4, <2>1, AppendType
<1>5. ASSUME UNCHANGED <<wpc, todo, tsema, exitcount, exiting>> PROVE PermitAccounting'
  <2>1. Locked' = Locked /\ PermitHolders' = PermitHolders
    BY <1>5 DEF Locked, PermitHolders
  <2> QED BY <1>5, <2>1, PermitFrame
<1>6. ASSUME fpc[f] \in {"seed", "walk"} PROVE Head(work[f]) \in Instrs(f)
  BY <1>6, SeqFacts DEF IInv, Shape, TypeOK, CallsOK, WorkOK
<1>7. CASE Seed(f)
  <2>1. Active(f) /\ Head(work[f]) \in Instrs(f) /\ UNCHANGED <<wpc, exitcount, exiting>>
    BY <1>6, <1>7 DEF Seed, Active
  <2>2. CASE UNCHANGED <<todo, tsema>>
    BY <1>5, <2>1, <2>2
  <2>3. CASE todo' = Append(todo, <<f, Head(work[f])>>) /\ tsema' = tsema + 1
    BY <1>1, <1>2, <1>3, <1>4, <2>1, <2>3
  <2> QED BY <1>7, <2>2, <2>3 DEF Seed
<1>8. CASE Walk(f)
  <2>1. Active(f) /\ Head(work[f]) \in Instrs(f) /\ UNCHANGED <<wpc, exitcount, exiting>>
    BY <1>6, <1>8 DEF Walk, Active
  <2>2. CASE UNCHANGED <<todo, tsema>>
    BY <1>5, <2>1, <2>2
  <2>3. CASE todo' = Append(todo, <<f, Head(work[f])>>) /\ tsema' = tsema + 1
    BY <1>1, <1>2, <1>3, <1>4, <2>1, <2>3
  <2> QED BY <1>8, <2>2, <2>3 DEF Walk
<1>9. CASE Token(f)
  <2>1. /\ Active(f) /\ UNCHANGED <<wpc, todo, exiting>>
        /\ tsema' = tsema + 1 /\ exitcount' = exitcount + 1
    BY <1>9 DEF Token, Active
  <2> QED BY <1>1, <1>2, <1>3, <2>1
<1>10. CASE CreateWorker(f)
  <2>1. PICK i \in Slots : /\ flag[i] = "IDLE"
                           /\ wpc' = [wpc EXCEPT ![i] = "start"] \/ wpc' = wpc
    BY <1>10 DEF CreateWorker, LowestWith
  <2>2. wpc[i] = "none"
    BY <2>1 DEF IInv, Threading, SlotsFree
  <2>3. UNCHANGED <<todo, tsema, exitcount, exiting>>
    BY <1>10 DEF CreateWorker
  <2>4. Locked' = Locked /\ PermitHolders' = PermitHolders
    BY <2>1, <2>2 DEF Locked, PermitHolders, IInv, Shape, TypeOK, LocalsOK
  <2> QED BY <2>3, <2>4, PermitFrame
<1>11. CASE Call(f) \/ JoinExited(f) \/ Joined(f) \/ NoSlot(f) \/ RunSerially(f)
            \/ AllocFails(f) \/ InitFails(f) \/ InitBlk(f)
  BY <1>5, <1>11 DEF Call, JoinExited, Joined, NoSlot, RunSerially, AllocFails, InitFails, InitBlk
<1>12. CASE Signal(f) \/ Finished(f) \/ Release(f)
  BY <1>5, <1>12 DEF Signal, Finished, Release
<1> QED BY <1>7, <1>8, <1>9, <1>10, <1>11, <1>12 DEF Scheduler

\* The shutdown posts permits for all slots: from then on those that already
\* hold one still find what it stands for.
LEMMA StopPermits ==
    ASSUME IInv, PermitAccounting, Stop \/ StopMark \/ StopJoin \/ Stopped \/ UNCHANGED vars
    PROVE  PermitAccounting'
<1>1. CASE Stop
  <2>1. UNCHANGED <<wpc, todo, exitcount>> /\ ~exiting /\ exiting' = TRUE
    BY <1>1 DEF Stop, localVars
  <2>2. Locked' = Locked
    BY <2>1 DEF Locked
  <2> QED BY <2>1, <2>2, PermitCounts DEF PermitAccounting, IInv
<1>2. CASE StopMark \/ StopJoin \/ Stopped \/ UNCHANGED vars
  <2>1. UNCHANGED <<wpc, todo, tsema, exitcount, exiting>>
    BY <1>2 DEF StopMark, StopJoin, Stopped, vars, localVars, queueVars, stopVars
  <2>2. Locked' = Locked /\ PermitHolders' = PermitHolders
    BY <2>1 DEF Locked, PermitHolders
  <2> QED BY <2>1, <2>2, PermitFrame
<1> QED BY <1>1, <1>2

\* At every moment the permits of todo->s, free or in a worker's hands, are
\* as many as the instructions and exit requests queued, and after the
\* shutdown began no fewer than the workers that will still look: the
\* assertion q->last > 0 in q_dequeue never fails, whatever the number of
\* workers, sessions and blocks and however specific workers hand permits
\* back.
THEOREM PermitSafety == Spec => []PermitAccounting
<1>1. Init => PermitAccounting
  <2> SUFFICES ASSUME Init PROVE PermitAccounting
    OBVIOUS
  <2>1. PermitHolders = {}
    BY DEF Init, PermitHolders
  <2>2. Cardinality(PermitHolders) = 0
    BY <2>1, FS_EmptySet
  <2>3. tsema = 0 /\ exitcount = 0 /\ todo = <<>> /\ exiting = FALSE
    BY DEF Init
  <2> QED BY <2>2, <2>3 DEF PermitAccounting
<1>2. IInv /\ PermitAccounting /\ [Next]_vars => PermitAccounting'
  <2> SUFFICES ASSUME IInv, PermitAccounting, [Next]_vars PROVE PermitAccounting'
    OBVIOUS
  <2> QED BY WorkerPermits, CallPermits, StopPermits DEF Next
<1> QED BY Invariance, <1>1, <1>2, PTL DEF Spec

\* The number of times x is in s.
Occ(s, x) == Cardinality({k \in 1..Len(s) : s[k] = x})

\* s without its k-th element.
Without(s, k) == [j \in 1..(Len(s) - 1) |-> IF j < k THEN s[j] ELSE s[j + 1]]

\* The scheduler of the call is between DFLOWinitBlk and the release.
Scheduling == {"seed", "signal", "wait", "walk"}

\* The instructions of f that came back: taken from the done queue.
Gone(f) == {n \in Instrs(f) : state[f][n] # "pending" /\ Copies(<<f, n>>) = 0}

\* A worker has an instruction at hand only while it handles it, so that it
\* never drops one for the next.
Held ==
    \A i \in Slots : /\ fe[i] # NoItem => wpc[i] \in Handling
                     /\ fnxt[i] # NoItem => wpc[i] \in {"enqueue", "up"}

\* Only the instructions of a block that is being scheduled are anywhere.
Live == /\ \A it \in Items : Copies(it) > 0 => fpc[it[1]] \in Scheduling
        /\ \A i \in Slots : wpc[i] = "up" => fpc[fe[i][1]] \in Scheduling

\* tasks counts the instructions that came back.
Counted == \A f \in Flows : tasks[f] = Cardinality(Gone(f))

\* A block that is not scheduled yet has all its instructions pending.
Fresh == \A f \in Flows : fpc[f] \in {"idle", "join", "joining", "alloc", "serial"} =>
            \A n \in Instrs(f) : state[f][n] = "pending"

\* The loop that queues the first instructions meets each of them once, still
\* pending.
Seeding ==
    \A f \in Flows : fpc[f] = "seed" =>
        /\ \A j, k \in 1..Len(work[f]) : work[f][j] = work[f][k] => j = k
        /\ \A k \in 1..Len(work[f]) : state[f][work[f][k]] = "pending"

CInv == IInv /\ Held /\ Live /\ SingleCopy /\ Counted /\ Fresh /\ Seeding

----------------------------------------------------------------------------
(***************************************************************************)
(* Counting in sequences                                                   *)
(***************************************************************************)

\* The occurrences are finite in number; an empty sequence has none.
LEMMA OccType ==
    ASSUME NEW S, NEW s \in Seq(S), NEW x
    PROVE  /\ IsFiniteSet({k \in 1..Len(s) : s[k] = x})
           /\ Occ(s, x) \in Nat
           /\ Occ(s, x) > 0 <=> \E k \in 1..Len(s) : s[k] = x
<1> DEFINE K == {k \in 1..Len(s) : s[k] = x}
<1>1. IsFiniteSet(1..Len(s))
  <2>1. Len(s) \in Nat
    OBVIOUS
  <2> QED BY <2>1, FS_Interval
<1>2. IsFiniteSet(K)
  BY <1>1, FS_Subset
<1>3. Cardinality(K) \in Nat
  BY <1>2, FS_CardinalityType
<1>4. Cardinality(K) = 0 <=> K = {}
  BY <1>2, FS_EmptySet
<1>5. (Cardinality(K) > 0) <=> K # {}
  BY <1>3, <1>4
<1> QED BY <1>2, <1>3, <1>5 DEF Occ

\* q_enqueue adds one occurrence of what it queues.
LEMMA OccAppend ==
    ASSUME NEW S, NEW s \in Seq(S), NEW e \in S, NEW x
    PROVE  Occ(Append(s, e), x) = Occ(s, x) + IF x = e THEN 1 ELSE 0
<1> DEFINE K == {k \in 1..Len(s) : s[k] = x}
           u == Append(s, e)
           L == {k \in 1..Len(u) : u[k] = x}
<1>1. /\ Len(s) \in Nat /\ Len(u) = Len(s) + 1
      /\ u[Len(s) + 1] = e /\ \A k \in 1..Len(s) : u[k] = s[k]
  OBVIOUS
<1>2. IsFiniteSet(K) /\ Cardinality(K) \in Nat
  BY OccType, FS_CardinalityType
<1> SUFFICES Cardinality(L) = Cardinality(K) + IF x = e THEN 1 ELSE 0
  BY DEF Occ
<1>3. CASE x = e
  <2>1. L = K \cup {Len(s) + 1} /\ (Len(s) + 1) \notin K
    BY <1>1, <1>3
  <2>2. Cardinality(L) = Cardinality(K) + 1
    BY <1>2, <2>1, FS_AddElement
  <2> QED BY <1>3, <2>2
<1>4. CASE x # e
  <2>1. L = K
    BY <1>1, <1>4
  <2>2. Cardinality(L) = Cardinality(K)
    BY <2>1, Zenon
  <2> HIDE DEF K, L
  <2> QED BY <1>2, <1>4, <2>2
<1> QED BY <1>3, <1>4

\* Taking the k-th element away removes one occurrence of it, wherever the
\* others move.
LEMMA OccWithout ==
    ASSUME NEW S, NEW s \in Seq(S), NEW k \in 1..Len(s), NEW x
    PROVE  /\ Without(s, k) \in Seq(S)
           /\ Occ(Without(s, k), x) = Occ(s, x) - IF x = s[k] THEN 1 ELSE 0
<1> DEFINE u == Without(s, k)
           K == {j \in 1..Len(s) : s[j] = x}
           L == {j \in 1..Len(u) : u[j] = x}
           h == [j \in K \ {k} |-> IF j < k THEN j ELSE j - 1]
<1>1. Len(s) \in Nat /\ Len(s) - 1 \in Nat
  OBVIOUS
<1>2. u \in Seq(S) /\ Len(u) = Len(s) - 1
  <2>1. \A j \in 1..(Len(s) - 1) : (IF j < k THEN s[j] ELSE s[j + 1]) \in S
    BY <1>1
  <2> QED BY <1>1, <2>1 DEF Without
<1>3. \A j \in 1..Len(u) : u[j] = IF j < k THEN s[j] ELSE s[j + 1]
  BY <1>2 DEF Without
<1>4. IsFiniteSet(K) /\ IsFiniteSet(K \ {k}) /\ Cardinality(K) \in Nat
  <2>1. IsFiniteSet(K)
    BY OccType
  <2> QED BY <2>1, FS_RemoveElement, FS_CardinalityType
<1>5. Cardinality(K \ {k}) = Cardinality(K) - IF x = s[k] THEN 1 ELSE 0
  <2>1. CASE x = s[k]
    BY <1>4, <2>1, FS_RemoveElement
  <2>2. CASE x # s[k]
    <3>1. K \ {k} = K
      BY <2>2
    <3>2. Cardinality(K \ {k}) = Cardinality(K)
      BY <3>1, Zenon
    <3> QED BY <1>4, <2>2, <3>2
  <2> QED BY <2>1, <2>2
<1>6. h \in Injection(K \ {k}, L) /\ h \in Surjection(K \ {k}, L)
  <2>1. h \in [K \ {k} -> L]
    BY <1>1, <1>2, <1>3
  <2>2. \A i, j \in K \ {k} : h[i] = h[j] => i = j
    BY <1>1
  <2>3. \A l \in L : \E j \in K \ {k} : h[j] = l
    <3> TAKE l \in L
    <3>1. CASE l < k
      BY <1>1, <1>2, <1>3, <3>1
    <3>2. CASE ~(l < k)
      <4>1. l + 1 \in K \ {k} /\ h[l + 1] = l
        BY <1>1, <1>2, <1>3, <3>2
      <4> QED BY <4>1
    <3> QED BY <3>1, <3>2
  <2> HIDE DEF h, K, L
  <2> QED BY <2>1, <2>2, <2>3 DEF Injection, Surjection, IsInjective
<1>7. Cardinality(K \ {k}) = Cardinality(L)
  <2> HIDE DEF h, K, L
  <2> QED BY <1>4, <1>6, FS_Surjection
<1>8. Occ(s, x) = Cardinality(K) /\ Occ(u, x) = Cardinality(L)
  BY DEF Occ
<1> HIDE DEF K, L
<1> QED BY <1>2, <1>5, <1>7, <1>8

\* The last element, as the queues take it, and the first, as the loops do.
LEMMA WithoutEnds ==
    ASSUME NEW S, NEW s \in Seq(S), s # <<>>
    PROVE  /\ SubSeq(s, 1, Len(s) - 1) = Without(s, Len(s))
           /\ Tail(s) = Without(s, 1)
           /\ Head(s) = s[1]
           /\ Len(s) \in 1..Len(s) /\ 1 \in 1..Len(s)
<1>1. Len(s) \in Nat \ {0}
  OBVIOUS
<1>2. SubSeq(s, 1, Len(s) - 1) = Without(s, Len(s))
  <2> DEFINE n == Len(s) - 1
  <2>1. n \in Nat /\ Len(s) = n + 1
    BY <1>1
  <2>2. SubSeq(s, 1, n) = [j \in 1..n |-> s[j]]
    <3> HIDE DEF n
    <3> QED BY <2>1
  <2>3. Without(s, Len(s)) = [j \in 1..n |-> s[j]]
    BY <2>1 DEF Without
  <2> QED BY <2>2, <2>3
<1>3. Tail(s) = Without(s, 1)
  <2>1. \A j \in 1..(Len(s) - 1) : ~(j < 1)
    BY <1>1
  <2>2. Without(s, 1) = [j \in 1..(Len(s) - 1) |-> s[j + 1]]
    BY <2>1 DEF Without
  <2>3. PICK t \in Seq(S) : t = Tail(s)
    BY HeadTailProperties
  <2>4. Len(t) = Len(s) - 1 /\ \A j \in 1..Len(t) : t[j] = s[j + 1]
    BY <2>3, HeadTailProperties
  <2>5. t = [j \in 1..Len(t) |-> t[j]]
    OBVIOUS
  <2>6. t = [j \in 1..(Len(s) - 1) |-> s[j + 1]]
    BY <2>4, <2>5
  <2> QED BY <2>2, <2>3, <2>6
<1> QED BY <1>1, <1>2, <1>3

----------------------------------------------------------------------------
(***************************************************************************)
(* How the steps move the instructions                                     *)
(***************************************************************************)

\* Whether slot i counts for an item, with the instruction at hand and with
\* the next one.
Has(i, it) == fe[i] = it /\ wpc[i] # "up"
HasNext(i, it) == fnxt[i] = it

\* An item, its flow and its instruction.
LEMMA ItemParts ==
    ASSUME NEW it \in Items
    PROVE  /\ it[1] \in Flows /\ it[2] \in Instrs(it[1])
           /\ it = <<it[1], it[2]>> /\ it # NoItem
BY NoItemAssumption DEF Items

\* The copies of an item as a sum of natural numbers.
LEMMA CopiesParts ==
    ASSUME Shape, NEW it \in Items
    PROVE  /\ Copies(it) = Occ(todo, it) + Occ(done[it[1]], it)
                           + Cardinality(AtWorker(it)) + Cardinality(NextAtWorker(it))
           /\ Occ(todo, it) \in Nat /\ Occ(done[it[1]], it) \in Nat
           /\ Cardinality(AtWorker(it)) \in Nat /\ Cardinality(NextAtWorker(it)) \in Nat
<1>1. Copies(it) = Occ(todo, it) + Occ(done[it[1]], it)
                   + Cardinality(AtWorker(it)) + Cardinality(NextAtWorker(it))
  BY DEF Copies, Occ, InTodo, InDone
<1>2. Occ(todo, it) \in Nat
  BY OccType DEF Shape, TypeOK, QueueOK
<1>3. Occ(done[it[1]], it) \in Nat
  <2>1. done[it[1]] \in Seq({it[1]} \X Instrs(it[1]))
    BY ItemParts DEF Shape, TypeOK, FlowsOK
  <2> QED BY <2>1, OccType
<1>4. IsFiniteSet(AtWorker(it)) /\ IsFiniteSet(NextAtWorker(it))
  BY SlotsFinite, FS_Subset DEF AtWorker, NextAtWorker
<1> QED BY <1>1, <1>2, <1>3, <1>4, FS_CardinalityType

\* A step of one slot changes the count of an item by what that slot has.
LEMMA SlotChange ==
    ASSUME NEW i \in Slots, NEW it,
           \A j \in Slots \ {i} : fe'[j] = fe[j] /\ wpc'[j] = wpc[j] /\ fnxt'[j] = fnxt[j]
    PROVE  /\ Cardinality(AtWorker(it)') + (IF Has(i, it) THEN 1 ELSE 0)
              = Cardinality(AtWorker(it)) + (IF Has(i, it)' THEN 1 ELSE 0)
           /\ Cardinality(NextAtWorker(it)') + (IF HasNext(i, it) THEN 1 ELSE 0)
              = Cardinality(NextAtWorker(it)) + (IF HasNext(i, it)' THEN 1 ELSE 0)
<1> USE DEF Has, HasNext
<1>1. ASSUME NEW S \in SUBSET Slots, NEW T \in SUBSET Slots, S \ {i} = T \ {i}
      PROVE  Cardinality(T) + (IF i \in S THEN 1 ELSE 0)
             = Cardinality(S) + (IF i \in T THEN 1 ELSE 0)
  <2>1. IsFiniteSet(S) /\ IsFiniteSet(T)
    BY SlotsFinite, FS_Subset
  <2>2. /\ Cardinality(S) \in Nat /\ Cardinality(T) \in Nat
        /\ Cardinality(S \ {i}) = IF i \in S THEN Cardinality(S) - 1 ELSE Cardinality(S)
        /\ Cardinality(T \ {i}) = IF i \in T THEN Cardinality(T) - 1 ELSE Cardinality(T)
    BY <2>1, FS_CardinalityType, FS_RemoveElement
  <2>3. Cardinality(S \ {i}) = Cardinality(T \ {i})
    BY <1>1, Zenon
  <2> QED BY <2>2, <2>3
<1>2. /\ AtWorker(it) \in SUBSET Slots /\ AtWorker(it)' \in SUBSET Slots
      /\ AtWorker(it) \ {i} = AtWorker(it)' \ {i}
      /\ i \in AtWorker(it) <=> Has(i, it)
      /\ i \in AtWorker(it)' <=> Has(i, it)'
  BY DEF AtWorker
<1>3. /\ NextAtWorker(it) \in SUBSET Slots /\ NextAtWorker(it)' \in SUBSET Slots
      /\ NextAtWorker(it) \ {i} = NextAtWorker(it)' \ {i}
      /\ i \in NextAtWorker(it) <=> HasNext(i, it)
      /\ i \in NextAtWorker(it)' <=> HasNext(i, it)'
  BY DEF NextAtWorker
<1> HIDE DEF Has, HasNext
<1>4. Cardinality(AtWorker(it)') + (IF i \in AtWorker(it) THEN 1 ELSE 0)
      = Cardinality(AtWorker(it)) + (IF i \in AtWorker(it)' THEN 1 ELSE 0)
  BY <1>1, <1>2
<1>5. Cardinality(NextAtWorker(it)') + (IF i \in NextAtWorker(it) THEN 1 ELSE 0)
      = Cardinality(NextAtWorker(it)) + (IF i \in NextAtWorker(it)' THEN 1 ELSE 0)
  BY <1>1, <1>3
<1> QED BY <1>2, <1>3, <1>4, <1>5

\* What happens to an item in a step: nothing, or it leaves the pending ones
\* for a queue or a worker, or it is taken from the done queue.
Stays(it) == /\ Copies(it)' = Copies(it)
             /\ state'[it[1]][it[2]] = "pending" <=> state[it[1]][it[2]] = "pending"
Enters(it) == /\ Copies(it)' = Copies(it) + 1
              /\ state[it[1]][it[2]] = "pending" /\ state'[it[1]][it[2]] # "pending"
              /\ fpc[it[1]] \in Scheduling
Leaves(it) == /\ Copies(it)' = Copies(it) - 1
              /\ Copies(it) > 0
              /\ state' = state

Quiet == \A it \in Items : Stays(it)
OneEnters(f) == \E it \in Items : it[1] = f /\ Enters(it) /\ \A o \in Items \ {it} : Stays(o)
OneLeaves(f) ==
    /\ tasks' = [tasks EXCEPT ![f] = @ + 1]
    /\ \E it \in Items : it[1] = f /\ Leaves(it) /\ \A o \in Items \ {it} : Stays(o)

\* A step that leaves the queues and what the workers have alone.
LEMMA CopiesFrame ==
    ASSUME UNCHANGED <<todo, done, fe, fnxt>>,
           \A j \in Slots : (wpc'[j] = "up" <=> wpc[j] = "up") \/ fe[j] = NoItem,
           NEW it \in Items
    PROVE  Copies(it)' = Copies(it)
<1>1. InTodo(it)' = InTodo(it) /\ InDone(it)' = InDone(it) /\ NextAtWorker(it)' = NextAtWorker(it)
  BY DEF InTodo, InDone, NextAtWorker
<1>2. AtWorker(it)' = AtWorker(it)
  BY ItemParts DEF AtWorker
<1> QED BY <1>1, <1>2, Zenon DEF Copies

\* The number of copies is a natural number.
LEMMA CopiesNat ==
    ASSUME Shape, NEW it \in Items
    PROVE  Copies(it) \in Nat
BY CopiesParts

\* An item at a worker is somewhere.
LEMMA PresentAtWorker ==
    ASSUME Shape, NEW it \in Items, NEW i \in AtWorker(it)
    PROVE  Copies(it) > 0
<1>1. IsFiniteSet(AtWorker(it))
  BY SlotsFinite, FS_Subset DEF AtWorker
<1>2. Cardinality(AtWorker(it)) # 0
  BY <1>1, FS_EmptySet
<1>3. /\ Copies(it) = Occ(todo, it) + Occ(done[it[1]], it)
                       + Cardinality(AtWorker(it)) + Cardinality(NextAtWorker(it))
      /\ Occ(todo, it) \in Nat /\ Occ(done[it[1]], it) \in Nat
      /\ Cardinality(AtWorker(it)) \in Nat /\ Cardinality(NextAtWorker(it)) \in Nat
  BY CopiesParts
<1> QED BY <1>2, <1>3

\* The same sum in the next state.
CopiesSum ==
    \A it \in Items :
        /\ Copies(it) = Occ(todo, it) + Occ(done[it[1]], it)
                        + Cardinality(AtWorker(it)) + Cardinality(NextAtWorker(it))
        /\ Occ(todo, it) \in Nat /\ Occ(done[it[1]], it) \in Nat
        /\ Cardinality(AtWorker(it)) \in Nat /\ Cardinality(NextAtWorker(it)) \in Nat

\* CopiesParts, primed.
LEMMA CopiesSumNext == Shape' => CopiesSum'
<1>1. Shape => CopiesSum
  BY CopiesParts DEF CopiesSum
<1>2. (Shape => CopiesSum)'
  BY <1>1, PTL
<1> QED BY <1>2

\* The copies of an item after a step of the worker in slot i.
Balance(i, it) ==
    /\ Copies(it)' + Occ(todo, it) + Occ(done[it[1]], it)
         + (IF Has(i, it) THEN 1 ELSE 0) + (IF HasNext(i, it) THEN 1 ELSE 0)
       = Copies(it) + Occ(todo', it) + Occ(done'[it[1]], it)
         + (IF Has(i, it)' THEN 1 ELSE 0) + (IF HasNext(i, it)' THEN 1 ELSE 0)
    /\ Copies(it) \in Nat /\ Copies(it)' \in Nat
    /\ Occ(todo, it) \in Nat /\ Occ(done[it[1]], it) \in Nat

\* A step of one worker keeps the balance.
LEMMA WorkerMove ==
    ASSUME Shape, Shape', NEW i \in Slots, NEW it \in Items,
           \A j \in Slots \ {i} : fe'[j] = fe[j] /\ wpc'[j] = wpc[j] /\ fnxt'[j] = fnxt[j]
    PROVE  Balance(i, it)
<1>1. /\ Cardinality(AtWorker(it)') + (IF Has(i, it) THEN 1 ELSE 0)
         = Cardinality(AtWorker(it)) + (IF Has(i, it)' THEN 1 ELSE 0)
      /\ Cardinality(NextAtWorker(it)') + (IF HasNext(i, it) THEN 1 ELSE 0)
         = Cardinality(NextAtWorker(it)) + (IF HasNext(i, it)' THEN 1 ELSE 0)
  BY SlotChange
<1>2. /\ Copies(it)' = Occ(todo', it) + Occ(done'[it[1]], it)
                        + Cardinality(AtWorker(it)') + Cardinality(NextAtWorker(it)')
      /\ Occ(todo', it) \in Nat /\ Occ(done'[it[1]], it) \in Nat
      /\ Cardinality(AtWorker(it)') \in Nat /\ Cardinality(NextAtWorker(it)') \in Nat
  BY CopiesSumNext DEF CopiesSum, Occ
<1> QED BY <1>1, <1>2, CopiesParts DEF Balance

\* A worker takes an instruction from todo: it is now at hand.
LEMMA TakeMoves ==
    ASSUME Shape, Shape', Held, NEW i \in Slots, NEW k \in 1..Len(todo), wpc[i] = "locked",
           fe' = [fe EXCEPT ![i] = todo[k]], todo' = Without(todo, k),
           wpc' = [wpc EXCEPT ![i] = "got"], UNCHANGED <<done, fnxt, state>>
    PROVE  Quiet
<1> SUFFICES ASSUME NEW it \in Items PROVE Copies(it)' = Copies(it)
  BY DEF Quiet, Stays
<1> USE DEF Shape, TypeOK, LocalsOK, QueueOK
<1>1. fe[i] = NoItem
  BY DEF Held, Handling
<1>2. Occ(todo', it) = Occ(todo, it) - IF it = todo[k] THEN 1 ELSE 0
  BY OccWithout
<1>3. ~Has(i, it)
  BY <1>1, ItemParts DEF Has
<1>4. Has(i, it)' <=> it = todo[k]
  BY DEF Has
<1>5. HasNext(i, it)' <=> HasNext(i, it)
  BY DEF HasNext
<1>6. \A j \in Slots \ {i} : fe'[j] = fe[j] /\ wpc'[j] = wpc[j] /\ fnxt'[j] = fnxt[j]
  OBVIOUS
<1> HIDE DEF Shape
<1>7. Balance(i, it)
  BY <1>6, WorkerMove
<1> QED BY <1>2, <1>3, <1>4, <1>5, <1>7 DEF Balance

\* The worker of f goes on with a pending instruction.
LEMMA GrabMoves ==
    ASSUME CInv, Shape', NEW i \in Slots, WorkerGrab(i)
    PROVE  Quiet \/ \E f \in Flows : ~FlowLocked(f) /\ OneEnters(f)
<1>1. /\ Shape /\ Held /\ Live /\ fe[i] \in Items
      /\ fnxt \in [Slots -> Items \cup {NoItem}] /\ DOMAIN wpc = Slots /\ DOMAIN state = Flows
      /\ \A g \in Flows : DOMAIN state[g] = Instrs(g)
  BY DEF CInv, IInv, Shape, TypeOK, LocalsOK, FlowsOK, WorkerGrab, ItemsOK, Handling
<1>2. PICK f \in Flows : f = fe[i][1] /\ fe[i][2] \in Instrs(f)
  BY <1>1, ItemType
<1>3. PICK list \in Seq(Instrs(f)) : list = Wakeup[f][fe[i][2]]
  BY <1>2, WakeupType
<1>4. /\ wpc[i] = "grab" /\ wpc' = [wpc EXCEPT ![i] = "enqueue"]
      /\ UNCHANGED <<fe, todo, done>>
  BY DEF WorkerGrab, queueVars, doneVars
<1>5. CASE UNCHANGED <<state, fnxt>>
  <2>1. \A j \in Slots : (wpc'[j] = "up" <=> wpc[j] = "up")
    BY <1>1, <1>4
  <2>2. \A it \in Items : Copies(it)' = Copies(it)
    BY <1>4, <1>5, <2>1, CopiesFrame
  <2> QED BY <1>5, <2>2 DEF Quiet, Stays
<1>6. ASSUME NEW k \in 1..Len(list), Eligible(f, list[k]), Claim(f, list[k]),
             fnxt' = [fnxt EXCEPT ![i] = <<f, list[k]>>]
      PROVE  OneEnters(f)
  <2>1. PICK m \in Instrs(f) : m = list[k]
    OBVIOUS
  <2>2. <<f, m>> \in Items
    BY ItemMake
  <2>3. PICK new \in Items : new = <<f, m>>
    BY <2>2
  <2>4. state[f][m] = "pending" /\ state' = [state EXCEPT ![f][m] = "running"]
    BY <1>6, <2>1 DEF Eligible, Claim
  <2>5. fnxt[i] = NoItem
    BY <1>1, <1>4 DEF Held
  <2>6. \A j \in Slots \ {i} : fe'[j] = fe[j] /\ wpc'[j] = wpc[j] /\ fnxt'[j] = fnxt[j]
    BY <1>1, <1>4, <1>6
  <2>7. ASSUME NEW it \in Items
        PROVE  Copies(it)' = Copies(it) + IF it = new THEN 1 ELSE 0
    <3>1. Has(i, it)' <=> Has(i, it)
      BY <1>1, <1>4 DEF Has
    <3>2. ~HasNext(i, it) /\ (HasNext(i, it)' <=> it = new)
      BY <1>1, <1>6, <2>1, <2>3, <2>5, ItemParts DEF HasNext
    <3>3. Balance(i, it)
      BY <1>1, <2>6, WorkerMove
    <3> QED BY <1>4, <3>1, <3>2, <3>3, SMTT(20) DEF Balance
  <2>8. fpc[f] \in Scheduling
    <3>1. i \in AtWorker(fe[i])
      BY <1>4 DEF AtWorker
    <3>2. Copies(fe[i]) > 0
      BY <1>1, <3>1, PresentAtWorker
    <3> QED BY <1>1, <1>2, <3>2 DEF Live
  <2>9. Enters(new)
    <3>1. state'[f][m] = "running"
      BY <1>1, <2>4
    <3>2. Copies(new)' = Copies(new) + 1
      BY <2>7
    <3> QED BY <2>3, <2>4, <2>8, <3>1, <3>2 DEF Enters
  <2>10. ASSUME NEW o \in Items \ {new}
         PROVE  Stays(o)
    <3>1. Copies(o)' = Copies(o)
      <4>1. Copies(o) \in Nat
        BY <1>1, CopiesNat
      <4> QED BY <2>7, <4>1
    <3>2. state'[o[1]][o[2]] = state[o[1]][o[2]]
      BY <1>1, <2>3, <2>4, ItemParts
    <3> QED BY <3>1, <3>2 DEF Stays
  <2> QED BY <2>3, <2>9, <2>10 DEF OneEnters
<1> QED BY <1>2, <1>3, <1>5, <1>6 DEF WorkerGrab

\* A worker appends its instruction to the done queue.
LEMMA EnqueueMoves ==
    ASSUME CInv, Shape', NEW i \in Slots, WorkerEnqueue(i)
    PROVE  Quiet
<1>1. /\ Shape /\ fe[i] \in Items /\ DOMAIN wpc = Slots /\ DOMAIN done = Flows
      /\ \A g \in Flows : done[g] \in Seq({g} \X Instrs(g))
  BY DEF CInv, IInv, Shape, TypeOK, LocalsOK, FlowsOK, WorkerEnqueue, ItemsOK, Handling
<1>2. PICK x \in Items, f \in Flows : x = fe[i] /\ f = x[1] /\ x \in {f} \X Instrs(f)
  BY <1>1, ItemType
<1>3. /\ wpc[i] = "enqueue" /\ wpc' = [wpc EXCEPT ![i] = "up"]
      /\ done' = [done EXCEPT ![f] = Append(done[f], x)]
      /\ UNCHANGED <<fe, fnxt, todo, state>>
  BY <1>2 DEF WorkerEnqueue, queueVars, flowVars
<1> SUFFICES ASSUME NEW it \in Items PROVE Copies(it)' = Copies(it)
  BY <1>3 DEF Quiet, Stays
<1>4. Occ(done'[it[1]], it) = Occ(done[it[1]], it) + IF it = x THEN 1 ELSE 0
  <2>1. CASE it[1] = f
    <3>1. done'[f] = Append(done[f], x)
      BY <1>1, <1>3
    <3>2. Occ(Append(done[f], x), it) = Occ(done[f], it) + IF it = x THEN 1 ELSE 0
      <4> DEFINE S == {f} \X Instrs(f)
      <4>1. done[f] \in Seq(S) /\ x \in S
        BY <1>1, <1>2
      <4> HIDE DEF S
      <4> QED BY <4>1, OccAppend
    <3> QED BY <2>1, <3>1, <3>2
  <2>2. CASE it[1] # f
    <3>1. done'[it[1]] = done[it[1]] /\ it # x
      BY <1>1, <1>2, <1>3, <2>2, ItemParts
    <3>2. Occ(done[it[1]], it) \in Nat
      BY <1>1, CopiesParts
    <3> QED BY <3>1, <3>2
  <2> QED BY <2>1, <2>2
<1>5. (Has(i, it) <=> it = x) /\ ~Has(i, it)' /\ (HasNext(i, it)' <=> HasNext(i, it))
  BY <1>1, <1>2, <1>3 DEF Has, HasNext
<1>6. Balance(i, it)
  <2>1. \A j \in Slots \ {i} : fe'[j] = fe[j] /\ wpc'[j] = wpc[j] /\ fnxt'[j] = fnxt[j]
    BY <1>1, <1>3
  <2> QED BY <1>1, <2>1, WorkerMove
<1> QED BY <1>3, <1>4, <1>5, <1>6 DEF Balance

\* The next instruction becomes the one at hand.
LEMMA UpMoves ==
    ASSUME CInv, Shape', NEW i \in Slots, WorkerUp(i)
    PROVE  Quiet
<1>1. Shape /\ DOMAIN wpc = Slots /\ DOMAIN fe = Slots /\ DOMAIN fnxt = Slots
  BY DEF CInv, IInv, Shape, TypeOK, LocalsOK
<1>2. /\ wpc[i] = "up" /\ wpc' = [wpc EXCEPT ![i] = IF fnxt[i] # NoItem THEN "got" ELSE "fetch"]
      /\ fe' = [fe EXCEPT ![i] = fnxt[i]] /\ fnxt' = [fnxt EXCEPT ![i] = NoItem]
      /\ UNCHANGED <<done, todo, state>>
  BY DEF WorkerUp, queueVars, flowVars
<1> SUFFICES ASSUME NEW it \in Items PROVE Copies(it)' = Copies(it)
  BY <1>2 DEF Quiet, Stays
<1>3. ~Has(i, it) /\ (Has(i, it)' <=> HasNext(i, it)) /\ ~HasNext(i, it)'
  BY <1>1, <1>2, ItemParts DEF Has, HasNext
<1>4. Balance(i, it)
  <2>1. \A j \in Slots \ {i} : fe'[j] = fe[j] /\ wpc'[j] = wpc[j] /\ fnxt'[j] = fnxt[j]
    BY <1>1, <1>2
  <2> QED BY <1>1, <2>1, WorkerMove
<1>5. UNCHANGED <<done, todo>>
  BY <1>2
<1> QED BY <1>3, <1>4, <1>5 DEF Balance

\* A refused instruction goes from the worker to todo.
LEMMA RequeueMoves ==
    ASSUME CInv, Shape', NEW i \in Slots, Requeue(i)
    PROVE  Quiet
<1>1. /\ Shape /\ DOMAIN wpc = Slots /\ DOMAIN fe = Slots /\ todo \in Seq(Items)
      /\ UNCHANGED <<done, fnxt, state>>
  BY DEF CInv, IInv, Shape, TypeOK, LocalsOK, QueueOK, Requeue, flowVars, doneVars
<1>2. /\ fe[i] \in Items /\ todo' \in Seq(Items) /\ Len(todo') = Len(todo) + 1 /\ todo'[1] = fe[i]
      /\ \A j \in 1..Len(todo) : todo'[j + 1] = todo[j]
      /\ wpc[i] = "admit" /\ wpc' = [wpc EXCEPT ![i] = "fetch"]
      /\ fe' = [fe EXCEPT ![i] = NoItem]
  BY <1>1, RequeueFacts
<1> SUFFICES ASSUME NEW it \in Items PROVE Copies(it)' = Copies(it)
  BY <1>1 DEF Quiet, Stays
<1>3. Without(todo', 1) = todo
  <2>1. Len(todo) \in Nat /\ Len(todo') - 1 = Len(todo)
    BY <1>1, <1>2
  <2>2. Without(todo', 1) = [j \in 1..Len(todo) |-> todo'[j + 1]]
    BY <2>1 DEF Without
  <2>3. todo = [j \in 1..Len(todo) |-> todo[j]]
    BY <1>1
  <2> QED BY <1>2, <2>2, <2>3
<1>4. Occ(todo, it) = Occ(todo', it) - IF it = fe[i] THEN 1 ELSE 0
  <2>1. 1 \in 1..Len(todo')
    BY <1>1, <1>2
  <2>2. Occ(Without(todo', 1), it) = Occ(todo', it) - IF it = todo'[1] THEN 1 ELSE 0
    BY <1>2, <2>1, OccWithout
  <2> QED BY <1>2, <1>3, <2>2
<1>5. (Has(i, it) <=> it = fe[i]) /\ ~Has(i, it)' /\ (HasNext(i, it)' <=> HasNext(i, it))
  BY <1>1, <1>2, ItemParts DEF Has, HasNext
<1>6. Balance(i, it)
  <2>1. \A j \in Slots \ {i} : fe'[j] = fe[j] /\ wpc'[j] = wpc[j] /\ fnxt'[j] = fnxt[j]
    BY <1>1, <1>2
  <2> QED BY <1>1, <2>1, WorkerMove
<1>7. Occ(todo', it) \in Nat /\ done' = done
  BY <1>1, <1>2, OccType
<1> QED BY <1>4, <1>5, <1>6, <1>7 DEF Balance

\* A step of a worker moves instructions from one place to the next, or takes
\* a pending one.
LEMMA WorkerTraffic ==
    ASSUME CInv, Shape', NEW i \in Slots, Worker(i)
    PROVE  Quiet \/ \E f \in Flows : ~FlowLocked(f) /\ OneEnters(f)
<1> USE DEF poolVars, localVars, queueVars, stopVars, callVars, flowVars, doneVars
<1>1. /\ Shape /\ Held /\ DOMAIN wpc = Slots /\ todo \in Seq(Items)
      /\ DOMAIN state = Flows /\ \A g \in Flows : DOMAIN state[g] = Instrs(g)
  BY DEF CInv, IInv, Shape, TypeOK, LocalsOK, QueueOK, FlowsOK
<1>2. ASSUME UNCHANGED <<todo, done, fe, fnxt, state>>,
             wpc[i] # "up", \E p : p # "up" /\ wpc' = [wpc EXCEPT ![i] = p]
      PROVE  Quiet
  <2>1. \A j \in Slots : wpc'[j] = "up" <=> wpc[j] = "up"
    BY <1>1, <1>2
  <2>2. \A it \in Items : Copies(it)' = Copies(it)
    BY <1>2, <2>1, CopiesFrame
  <2> QED BY <1>2, <2>2 DEF Quiet, Stays
<1>3. CASE WorkerStart(i)
  BY <1>2, <1>3 DEF WorkerStart
<1>4. CASE WorkerWait(i) \/ WorkerFetch(i) \/ WorkerCompensate(i)
  BY <1>2, <1>4 DEF WorkerWait, WorkerFetch, WorkerCompensate
<1>5. CASE WorkerDown(i) \/ WorkerCheck(i) \/ Admit(i)
  BY <1>2, <1>5 DEF WorkerDown, WorkerCheck, Admit
<1>6. CASE TakeSpecific(i)
  <2>1. ASSUME NEW k \in 1..Len(todo),
               fe' = [fe EXCEPT ![i] = todo[k]],
               todo' = [j \in 1..(Len(todo) - 1) |-> IF j < k THEN todo[j] ELSE todo[j + 1]],
               wpc' = [wpc EXCEPT ![i] = "got"]
        PROVE  Quiet
    <3>1. todo' = Without(todo, k)
      BY <2>1 DEF Without
    <3>2. wpc[i] = "locked" /\ UNCHANGED <<done, fnxt, state>>
      BY <1>6 DEF TakeSpecific
    <3> QED BY <1>1, <2>1, <3>1, <3>2, TakeMoves
  <2>2. ASSUME wpc' = [wpc EXCEPT ![i] = "compensate"], UNCHANGED <<fe, todo>>
        PROVE  Quiet
    BY <1>2, <1>6, <2>2 DEF TakeSpecific
  <2> QED BY <1>6, <2>1, <2>2 DEF TakeSpecific
<1>7. CASE TakeGeneric(i)
  <2>1. ASSUME Len(todo) > 0,
               fe' = [fe EXCEPT ![i] = todo[Len(todo)]],
               todo' = SubSeq(todo, 1, Len(todo) - 1),
               wpc' = [wpc EXCEPT ![i] = "got"]
        PROVE  Quiet
    <3>1. todo # <<>>
      BY <2>1
    <3>2. todo' = Without(todo, Len(todo)) /\ Len(todo) \in 1..Len(todo)
      BY <1>1, <2>1, <3>1, WithoutEnds
    <3>3. wpc[i] = "locked" /\ UNCHANGED <<done, fnxt, state>>
      BY <1>7 DEF TakeGeneric
    <3> QED BY <1>1, <2>1, <3>2, <3>3, TakeMoves
  <2>2. ASSUME wpc' = [wpc EXCEPT ![i] = "exit"], UNCHANGED <<fe, todo>>
        PROVE  Quiet
    BY <1>2, <1>7, <2>2 DEF TakeGeneric
  <2> QED BY <1>7, <2>1, <2>2 DEF TakeGeneric
<1>8. CASE WorkerRun(i)
  <2>1. /\ wpc[i] = "run" /\ state' = [state EXCEPT ![fe[i][1]][fe[i][2]] = "wrapup"]
        /\ UNCHANGED <<todo, done, fe, fnxt>>
        /\ \E p : p # "up" /\ wpc' = [wpc EXCEPT ![i] = p]
    BY <1>8 DEF WorkerRun
  <2>2. fe[i] \in Items
    BY <2>1 DEF CInv, IInv, Shape, ItemsOK, Handling
  <2>3. Copies(fe[i]) > 0
    BY <1>1, <2>1, <2>2, PresentAtWorker DEF AtWorker
  <2>4. state[fe[i][1]][fe[i][2]] # "pending"
    BY <1>1, <2>2, <2>3, CopiesNat DEF CInv, SingleCopy
  <2>5. \A j \in Slots : wpc'[j] = "up" <=> wpc[j] = "up"
    BY <1>1, <2>1
  <2>6. \A it \in Items : Copies(it)' = Copies(it)
    BY <2>1, <2>5, CopiesFrame
  <2>7. \A it \in Items : state'[it[1]][it[2]] = "pending" <=> state[it[1]][it[2]] = "pending"
    BY <1>1, <2>1, <2>2, <2>4, ItemParts
  <2> QED BY <2>6, <2>7 DEF Quiet, Stays
<1>9. CASE WorkerError(i) \/ WorkerExit(i)
  BY <1>2, <1>9 DEF WorkerError, WorkerExit
<1> QED BY <1>3, <1>4, <1>5, <1>6, <1>7, <1>8, <1>9, GrabMoves, EnqueueMoves, UpMoves, RequeueMoves
    DEF Worker

\* The copies of an item after a step that leaves the workers alone.
LEMMA QueueBalance ==
    ASSUME Shape, Shape', UNCHANGED <<fe, fnxt, wpc>>, NEW it \in Items
    PROVE  /\ Copies(it)' + Occ(todo, it) + Occ(done[it[1]], it)
              = Copies(it) + Occ(todo', it) + Occ(done'[it[1]], it)
           /\ Copies(it) \in Nat /\ Copies(it)' \in Nat
           /\ Occ(todo, it) \in Nat /\ Occ(done[it[1]], it) \in Nat
<1>1. AtWorker(it)' = AtWorker(it) /\ NextAtWorker(it)' = NextAtWorker(it)
  BY DEF AtWorker, NextAtWorker
<1>2. /\ Cardinality(AtWorker(it)') = Cardinality(AtWorker(it))
      /\ Cardinality(NextAtWorker(it)') = Cardinality(NextAtWorker(it))
  BY <1>1, Zenon
<1>3. /\ Copies(it)' = Occ(todo', it) + Occ(done'[it[1]], it)
                        + Cardinality(AtWorker(it)') + Cardinality(NextAtWorker(it)')
      /\ Occ(todo', it) \in Nat /\ Occ(done'[it[1]], it) \in Nat
      /\ Cardinality(AtWorker(it)') \in Nat /\ Cardinality(NextAtWorker(it)') \in Nat
  BY CopiesSumNext DEF CopiesSum, Occ
<1>4. /\ Copies(it) = Occ(todo, it) + Occ(done[it[1]], it)
                        + Cardinality(AtWorker(it)) + Cardinality(NextAtWorker(it))
      /\ Occ(todo, it) \in Nat /\ Occ(done[it[1]], it) \in Nat
      /\ Cardinality(AtWorker(it)) \in Nat /\ Cardinality(NextAtWorker(it)) \in Nat
  BY CopiesParts
<1> QED BY <1>2, <1>3, <1>4

\* The scheduler queues a pending instruction.
LEMMA QueueEnters ==
    ASSUME Shape, Shape', NEW f \in Flows, NEW n \in Instrs(f),
           state[f][n] = "pending", fpc[f] \in Scheduling,
           todo' = Append(todo, <<f, n>>), state' = [state EXCEPT ![f][n] = "running"],
           UNCHANGED <<done, fe, fnxt, wpc>>
    PROVE  OneEnters(f)
<1>1. PICK new \in Items : new = <<f, n>>
  BY ItemMake
<1>2. ASSUME NEW it \in Items
      PROVE  Copies(it)' = Copies(it) + IF it = new THEN 1 ELSE 0
  <2>1. todo \in Seq(Items) /\ todo' = Append(todo, new)
    BY <1>1 DEF Shape, TypeOK, QueueOK
  <2>2. Occ(todo', it) = Occ(todo, it) + IF it = new THEN 1 ELSE 0
    BY <2>1, OccAppend
  <2>3. Occ(done'[it[1]], it) = Occ(done[it[1]], it)
    OBVIOUS
  <2>4. /\ Copies(it)' + Occ(todo, it) + Occ(done[it[1]], it)
           = Copies(it) + Occ(todo', it) + Occ(done'[it[1]], it)
        /\ Copies(it) \in Nat /\ Copies(it)' \in Nat
        /\ Occ(todo, it) \in Nat /\ Occ(done[it[1]], it) \in Nat
    BY QueueBalance
  <2> QED BY <2>2, <2>3, <2>4
<1>3. DOMAIN state = Flows /\ \A g \in Flows : DOMAIN state[g] = Instrs(g)
  BY DEF Shape, TypeOK, FlowsOK
<1>4. Enters(new)
  <2>1. state'[f][n] = "running"
    BY <1>3
  <2>2. Copies(new)' = Copies(new) + 1
    BY <1>2
  <2> QED BY <1>1, <2>1, <2>2 DEF Enters
<1>5. ASSUME NEW o \in Items \ {new}
      PROVE  Stays(o)
  <2>1. Copies(o)' = Copies(o)
    <3>1. Copies(o) \in Nat
      BY CopiesNat
    <3> QED BY <1>2, <3>1
  <2>2. state'[o[1]][o[2]] = state[o[1]][o[2]]
    BY <1>1, <1>3, ItemParts
  <2> QED BY <2>1, <2>2 DEF Stays
<1> QED BY <1>1, <1>4, <1>5 DEF OneEnters

\* There is something to take when there is a permit.
LEMMA DoneNotEmpty ==
    ASSUME IInv, NEW f \in Flows, dsema[f] > 0
    PROVE  done[f] # <<>>
<1>1. dsema[f] + Cardinality(Posting(f)) = Len(done[f])
  BY DEF IInv, DonePermits, Posting
<1>2. Cardinality(Posting(f)) \in Nat
  BY SlotsFinite, FS_Subset, FS_CardinalityType DEF Posting
<1>3. dsema[f] \in Nat
  BY DEF IInv, Shape, TypeOK, FlowsOK
<1> QED BY <1>1, <1>2, <1>3

\* The scheduler takes a finished instruction.
LEMMA FinishedLeaves ==
    ASSUME CInv, Shape', NEW f \in Flows, Finished(f)
    PROVE  /\ OneLeaves(f)
           /\ \E x \in Items : /\ x = done[f][Len(done[f])] /\ x[1] = f
                             /\ Leaves(x) /\ \A o \in Items \ {x} : Stays(o)
<1>1. /\ Shape /\ done[f] # <<>> /\ DOMAIN done = Flows
      /\ done[f] \in Seq({f} \X Instrs(f))
  BY DoneNotEmpty DEF CInv, IInv, Shape, TypeOK, FlowsOK, Finished
<1>2. /\ done' = [done EXCEPT ![f] = SubSeq(done[f], 1, Len(done[f]) - 1)]
      /\ tasks' = [tasks EXCEPT ![f] = @ + 1]
      /\ UNCHANGED <<todo, fe, fnxt, wpc, state>>
  BY DEF Finished, localVars, queueVars, flowVars
<1> DEFINE S == {f} \X Instrs(f)
           k == Len(done[f])
<1>3. done[f] \in Seq(S) /\ k \in 1..Len(done[f]) /\ done'[f] = Without(done[f], k)
  <2>1. done[f] \in Seq(S) /\ done'[f] = SubSeq(done[f], 1, Len(done[f]) - 1)
    BY <1>1, <1>2
  <2> HIDE DEF S
  <2> QED BY <1>1, <2>1, WithoutEnds
<1>4. done[f][k] \in S
  <2> HIDE DEF S, k
  <2> QED BY <1>3
<1>5. PICK x \in Items : x = done[f][k] /\ x[1] = f
  BY <1>4 DEF Items
<1>6. ASSUME NEW it \in Items
      PROVE  Copies(it)' = Copies(it) - IF it = x THEN 1 ELSE 0
  <2>1. Occ(done'[it[1]], it) = Occ(done[it[1]], it) - IF it = x THEN 1 ELSE 0
    <3>1. CASE it[1] = f
      <4>1. Occ(Without(done[f], k), it) = Occ(done[f], it) - IF it = done[f][k] THEN 1 ELSE 0
        <5> HIDE DEF S, k
        <5> QED BY <1>3, OccWithout
      <4> HIDE DEF S, k
      <4> QED BY <1>3, <1>5, <3>1, <4>1
    <3>2. CASE it[1] # f
      <4>1. done'[it[1]] = done[it[1]] /\ it # x
        BY <1>1, <1>2, <1>5, <3>2, ItemParts
      <4>2. Occ(done[it[1]], it) \in Nat
        BY <1>1, CopiesParts
      <4> QED BY <4>1, <4>2
    <3> QED BY <3>1, <3>2
  <2>2. Occ(todo', it) = Occ(todo, it)
    BY <1>2
  <2>3. /\ Copies(it)' + Occ(todo, it) + Occ(done[it[1]], it)
           = Copies(it) + Occ(todo', it) + Occ(done'[it[1]], it)
        /\ Copies(it) \in Nat /\ Copies(it)' \in Nat
        /\ Occ(todo, it) \in Nat /\ Occ(done[it[1]], it) \in Nat
    BY <1>1, <1>2, QueueBalance
  <2> QED BY <2>1, <2>2, <2>3
<1>7. Leaves(x)
  <2>1. Copies(x)' = Copies(x) - 1
    BY <1>6
  <2>2. Copies(x)' \in Nat /\ Copies(x) \in Nat
    BY <1>1, <1>2, QueueBalance
  <2> QED BY <1>2, <2>1, <2>2 DEF Leaves
<1>8. ASSUME NEW o \in Items \ {x}
      PROVE  Stays(o)
  <2>1. Copies(o) \in Nat
    BY <1>1, CopiesNat
  <2>2. Copies(o)' = Copies(o)
    BY <1>6, <2>1
  <2> QED BY <1>2, <2>2 DEF Stays
<1> QED BY <1>2, <1>5, <1>7, <1>8 DEF OneLeaves

\* A step of a call moves nothing, queues a pending instruction or takes a
\* finished one.
LEMMA CallTraffic ==
    ASSUME CInv, Shape', NEW f \in Flows, Call(f) \/ Scheduler(f)
    PROVE  \/ Quiet /\ ~Finished(f) /\ tasks' = tasks
           \/ OneEnters(f) /\ tasks' = tasks
           \/ OneLeaves(f)
<1> USE DEF poolVars, localVars, queueVars, stopVars, callVars, flowVars, doneVars
<1>1. /\ Shape /\ Held /\ DOMAIN wpc = Slots /\ work[f] \in Seq(Instrs(f))
      /\ fpc[f] \in {"seed", "walk"} => work[f] # <<>>
  BY DEF CInv, IInv, Shape, TypeOK, LocalsOK, CallsOK, WorkOK
<1>2. ASSUME UNCHANGED <<todo, done, fe, fnxt, state>>,
             \A j \in Slots : (wpc'[j] = "up" <=> wpc[j] = "up") \/ fe[j] = NoItem
      PROVE  Quiet
  <2>1. \A it \in Items : Copies(it)' = Copies(it)
    BY <1>2, CopiesFrame
  <2> QED BY <1>2, <2>1 DEF Quiet, Stays
<1>3. CASE Finished(f)
  BY <1>3, FinishedLeaves
<1>4. CASE CreateWorker(f)
  <2>1. UNCHANGED <<todo, done, fe, fnxt, state, tasks>> /\ ~Finished(f)
    BY <1>4 DEF CreateWorker, Finished
  <2>2. PICK i \in Slots : /\ flag[i] = "IDLE"
                           /\ wpc' = [wpc EXCEPT ![i] = "start"] \/ wpc' = wpc
    BY <1>4 DEF CreateWorker, LowestWith
  <2>3. wpc[i] = "none"
    BY <2>2 DEF CInv, IInv, Threading, SlotsFree
  <2>4. \A j \in Slots : wpc'[j] = "up" <=> wpc[j] = "up"
    BY <1>1, <2>2, <2>3
  <2> QED BY <1>2, <2>1, <2>4
<1>5. ASSUME UNCHANGED <<wpc, todo, done, fe, fnxt, state, tasks>>, ~Finished(f)
      PROVE  Quiet /\ ~Finished(f) /\ tasks' = tasks
  BY <1>2, <1>5
<1>6. CASE Call(f) \/ JoinExited(f) \/ Joined(f) \/ NoSlot(f) \/ RunSerially(f)
           \/ AllocFails(f) \/ InitFails(f) \/ InitBlk(f)
  BY <1>5, <1>6 DEF Call, JoinExited, Joined, NoSlot, RunSerially, AllocFails, InitFails, InitBlk,
                    Finished
<1>7. CASE Signal(f) \/ Release(f) \/ Token(f)
  BY <1>5, <1>7 DEF Signal, Release, Token, Finished
<1>8. CASE Seed(f)
  <2>1. PICK n \in Instrs(f) : n = Head(work[f]) /\ n = work[f][1] /\ 1 \in 1..Len(work[f])
    BY <1>1, <1>8 DEF Seed
  <2>2. /\ UNCHANGED <<wpc, done, fe, fnxt, tasks>> /\ ~Finished(f)
        /\ \/ todo' = Append(todo, <<f, n>>) /\ state' = [state EXCEPT ![f][n] = "running"]
           \/ UNCHANGED <<todo, state>>
    BY <1>8, <2>1 DEF Seed, Finished
  <2>3. state[f][n] = "pending" /\ fpc[f] \in Scheduling
    BY <1>8, <2>1 DEF Seed, CInv, Seeding, Scheduling
  <2>4. CASE UNCHANGED <<todo, state>>
    BY <1>5, <2>2, <2>4
  <2>5. CASE todo' = Append(todo, <<f, n>>) /\ state' = [state EXCEPT ![f][n] = "running"]
    BY <1>1, <2>2, <2>3, <2>5, QueueEnters
  <2> QED BY <2>2, <2>4, <2>5
<1>9. CASE Walk(f)
  <2>1. PICK m \in Instrs(f) : m = Head(work[f])
    BY <1>1, <1>9 DEF Walk
  <2>2. /\ UNCHANGED <<wpc, done, fe, fnxt, tasks>> /\ ~Finished(f)
        /\ \/ /\ todo' = Append(todo, <<f, m>>) /\ state' = [state EXCEPT ![f][m] = "running"]
              /\ state[f][m] = "pending"
           \/ UNCHANGED <<todo, state>>
    BY <1>9, <2>1 DEF Walk, Finished, Waits
  <2>3. fpc[f] \in Scheduling
    BY <1>9 DEF Walk, Scheduling
  <2>4. CASE UNCHANGED <<todo, state>>
    BY <1>5, <2>2, <2>4
  <2>5. CASE /\ todo' = Append(todo, <<f, m>>) /\ state' = [state EXCEPT ![f][m] = "running"]
             /\ state[f][m] = "pending"
    BY <1>1, <2>2, <2>3, <2>5, QueueEnters
  <2> QED BY <2>2, <2>4, <2>5
<1> QED BY <1>3, <1>4, <1>6, <1>7, <1>8, <1>9 DEF Scheduler

----------------------------------------------------------------------------
(***************************************************************************)
(* The parts of the invariant                                              *)
(***************************************************************************)

\* Every step is one of the three.
Traffic ==
    \/ Quiet /\ tasks' = tasks
    \/ tasks' = tasks /\ \E f \in Flows : OneEnters(f)
    \/ \E f \in Flows : OneLeaves(f)

\* A step moves one instruction in, one out, or none.
LEMMA NextTraffic ==
    ASSUME CInv, Shape', [Next]_vars
    PROVE  Traffic
<1>1. ASSUME NEW i \in Slots, Worker(i) PROVE Traffic
  <2>1. tasks' = tasks
    BY <1>1 DEF Worker, WorkerStart, WorkerWait, WorkerFetch, WorkerDown, TakeSpecific,
         WorkerCompensate, TakeGeneric, WorkerCheck, Admit, Requeue, Refused, WorkerRun,
         WorkerError, WorkerGrab,
         WorkerEnqueue, WorkerUp, WorkerExit, callVars
  <2> QED BY <1>1, <2>1, WorkerTraffic DEF Traffic
<1>2. ASSUME NEW f \in Flows, Call(f) \/ Scheduler(f) PROVE Traffic
  BY <1>2, CallTraffic DEF Traffic
<1>3. CASE Stop \/ StopMark \/ StopJoin \/ Stopped \/ UNCHANGED vars
  <2>1. UNCHANGED <<todo, done, fe, fnxt, wpc, state, tasks>>
    BY <1>3 DEF Stop, StopMark, StopJoin, Stopped, vars, localVars, queueVars, callVars, flowVars,
                doneVars
  <2>2. \A it \in Items : Copies(it)' = Copies(it)
    BY <2>1, CopiesFrame
  <2> QED BY <2>1, <2>2 DEF Quiet, Stays, Traffic
<1> QED BY <1>1, <1>2, <1>3 DEF Next

\* Nothing is there twice.
LEMMA SingleCopyNext ==
    ASSUME CInv, Traffic
    PROVE  SingleCopy'
<1> SUFFICES ASSUME NEW o \in Items
             PROVE  Copies(o)' <= IF state'[o[1]][o[2]] = "pending" THEN 0 ELSE 1
  BY DEF SingleCopy
<1>1. Copies(o) \in Nat /\ Copies(o) <= IF state[o[1]][o[2]] = "pending" THEN 0 ELSE 1
  BY CopiesNat DEF CInv, IInv, SingleCopy
<1>2. Stays(o) \/ Enters(o) \/ Leaves(o)
  BY DEF Traffic, Quiet, OneEnters, OneLeaves
<1> QED BY <1>1, <1>2 DEF Stays, Enters, Leaves

\* tasks counts what came back.
LEMMA CountedNext ==
    ASSUME CInv, Traffic
    PROVE  Counted'
<1> SUFFICES ASSUME NEW f \in Flows PROVE tasks'[f] = Cardinality(Gone(f)')
  BY DEF Counted
<1>1. /\ tasks[f] = Cardinality(Gone(f)) /\ tasks[f] \in Nat
      /\ DOMAIN tasks = Flows /\ IsFiniteSet(Gone(f))
  <2>1. Len(Wakeup[f]) \in Nat
    BY WakeupAssumption
  <2>2. IsFiniteSet(Instrs(f))
    BY <2>1, FS_Interval DEF Instrs
  <2>3. IsFiniteSet(Gone(f))
    BY <2>2, FS_Subset DEF Gone
  <2> QED BY <2>1, <2>3 DEF CInv, IInv, Shape, TypeOK, CallsOK, Counted
<1>2. ASSUME NEW n \in Instrs(f), Stays(<<f, n>>)
      PROVE  n \in Gone(f)' <=> n \in Gone(f)
  BY <1>2 DEF Gone, Stays
<1>3. ASSUME NEW n \in Instrs(f), Enters(<<f, n>>)
      PROVE  n \notin Gone(f)' /\ n \notin Gone(f)
  <2>1. Copies(<<f, n>>) \in Nat
    BY ItemMake, CopiesNat DEF CInv, IInv
  <2> QED BY <1>3, <2>1 DEF Gone, Enters
<1>4. ASSUME tasks' = tasks, Gone(f)' = Gone(f)
      PROVE  tasks'[f] = Cardinality(Gone(f)')
  <2>1. Cardinality(Gone(f)') = Cardinality(Gone(f))
    BY <1>4, Zenon
  <2> QED BY <1>1, <1>4, <2>1
<1>5. CASE Quiet /\ tasks' = tasks
  <2>1. \A n \in Instrs(f) : n \in Gone(f)' <=> n \in Gone(f)
    BY <1>2, <1>5, ItemMake DEF Quiet
  <2>2. Gone(f)' = Gone(f)
    BY <2>1 DEF Gone
  <2> QED BY <1>4, <1>5, <2>2
<1>6. CASE tasks' = tasks /\ \E g \in Flows : OneEnters(g)
  <2>1. \A n \in Instrs(f) : n \in Gone(f)' <=> n \in Gone(f)
    BY <1>2, <1>3, <1>6, ItemMake DEF OneEnters
  <2>2. Gone(f)' = Gone(f)
    BY <2>1 DEF Gone
  <2> QED BY <1>4, <1>6, <2>2
<1>7. ASSUME NEW g \in Flows, OneLeaves(g)
      PROVE  tasks'[f] = Cardinality(Gone(f)')
  <2>1. PICK x \in Items : x[1] = g /\ Leaves(x) /\ \A o \in Items \ {x} : Stays(o)
    BY <1>7 DEF OneLeaves
  <2>2. tasks' = [tasks EXCEPT ![g] = @ + 1]
    BY <1>7 DEF OneLeaves
  <2>3. CASE f # g
    <3>1. ASSUME NEW n \in Instrs(f)
          PROVE  n \in Gone(f)' <=> n \in Gone(f)
      <4>1. PICK o \in Items : o = <<f, n>>
        BY ItemMake
      <4>2. o # x
        BY <2>1, <2>3, <4>1
      <4> QED BY <1>2, <2>1, <4>1, <4>2
    <3>2. Gone(f)' = Gone(f)
      BY <3>1 DEF Gone
    <3>3. Cardinality(Gone(f)') = Cardinality(Gone(f))
      BY <3>2, Zenon
    <3> QED BY <1>1, <2>2, <2>3, <3>3
  <2>4. CASE f = g
    <3>1. PICK m \in Instrs(f) : x = <<f, m>>
      BY <2>1, <2>4, ItemParts
    <3>2. \A n \in Instrs(f) \ {m} : n \in Gone(f)' <=> n \in Gone(f)
      BY <1>2, <2>1, <3>1, ItemMake
    <3>3. Copies(x) = 1 /\ state[f][m] # "pending"
      <4>1. Copies(x) \in Nat /\ Copies(x) <= IF state[x[1]][x[2]] = "pending" THEN 0 ELSE 1
        BY CopiesNat DEF CInv, IInv, SingleCopy
      <4> QED BY <2>1, <3>1, <4>1 DEF Leaves
    <3>4. m \notin Gone(f) /\ m \in Gone(f)'
      BY <2>1, <3>1, <3>3 DEF Gone, Leaves
    <3>5. Gone(f)' = Gone(f) \cup {m}
      BY <3>2, <3>4 DEF Gone
    <3>6. Cardinality(Gone(f) \cup {m}) = Cardinality(Gone(f)) + 1
      BY <1>1, <3>4, FS_AddElement
    <3>7. Cardinality(Gone(f)') = Cardinality(Gone(f) \cup {m})
      BY <3>5, Zenon
    <3> QED BY <1>1, <2>2, <2>4, <3>6, <3>7
  <2> QED BY <2>3, <2>4
<1> QED BY <1>5, <1>6, <1>7 DEF Traffic

\* Workers and the shutdown leave the calls where they are, and a call its
\* fellows.
LEMMA OtherCalls ==
    ASSUME Shape, [Next]_vars, NEW f \in Flows
    PROVE  \/ Call(f) \/ Scheduler(f)
           \/ fpc'[f] = fpc[f] /\ work'[f] = work[f]
<1> USE DEF poolVars, localVars, queueVars, stopVars, callVars, flowVars, doneVars
<1>1. ASSUME NEW i \in Slots, Worker(i) PROVE UNCHANGED <<fpc, work>>
  BY <1>1 DEF Worker, WorkerStart, WorkerWait, WorkerFetch, WorkerDown, TakeSpecific,
       WorkerCompensate, TakeGeneric, WorkerCheck, Admit, Requeue, Refused, WorkerRun,
       WorkerError, WorkerGrab,
       WorkerEnqueue, WorkerUp, WorkerExit
<1>2. CASE Stop \/ StopMark \/ StopJoin \/ Stopped \/ UNCHANGED vars
  BY <1>2 DEF Stop, StopMark, StopJoin, Stopped, vars
<1>3. ASSUME NEW g \in Flows, Call(g) \/ Scheduler(g), g # f
      PROVE  fpc'[f] = fpc[f] /\ work'[f] = work[f]
  <2>1. DOMAIN fpc = Flows /\ DOMAIN work = Flows
    BY DEF Shape, TypeOK, CallsOK
  <2>2. /\ fpc' = [fpc EXCEPT ![g] = fpc'[g]]
        /\ work' = work \/ work' = [work EXCEPT ![g] = work'[g]]
    <3>1. CASE Call(g) \/ JoinExited(g) \/ Joined(g) \/ NoSlot(g) \/ RunSerially(g)
      BY <2>1, <3>1 DEF Call, JoinExited, Joined, NoSlot, RunSerially
    <3>2. CASE CreateWorker(g)
      BY <2>1, <3>2 DEF CreateWorker
    <3>3. CASE AllocFails(g) \/ InitFails(g) \/ InitBlk(g) \/ Seed(g) \/ Signal(g)
      BY <2>1, <3>3 DEF AllocFails, InitFails, InitBlk, Seed, Signal
    <3>4. CASE Finished(g) \/ Walk(g) \/ Release(g) \/ Token(g)
      BY <2>1, <3>4 DEF Finished, Walk, Release, Token
    <3> QED BY <1>3, <3>1, <3>2, <3>3, <3>4 DEF Scheduler
  <2> QED BY <1>3, <2>1, <2>2
<1> QED BY <1>1, <1>2, <1>3 DEF Next

\* The phases of a call.
Early == {"idle", "join", "joining", "alloc", "serial"}

\* A call leaves the scheduler by the release only and enters it from
\* DFLOWinitBlk only.
LEMMA Phases ==
    ASSUME Shape, [Next]_vars, NEW f \in Flows
    PROVE  /\ fpc'[f] \in Early => fpc[f] \in Early
           /\ fpc[f] \in Scheduling => fpc'[f] \in Scheduling \/ Release(f)
           /\ fpc'[f] = "seed" => \/ InitBlk(f) \/ Seed(f)
                                  \/ fpc[f] = "seed" /\ work'[f] = work[f]
                                     /\ ~Call(f) /\ ~Scheduler(f)
           /\ fpc'[f] \in {"token", "returned"} =>
                 \/ fpc[f] \in Early \cup {"token", "returned"} \/ Release(f)
<1> USE DEF Early, Scheduling
<1>1. DOMAIN fpc = Flows
  BY DEF Shape, TypeOK, CallsOK
<1>2. CASE Call(f) \/ JoinExited(f) \/ Joined(f) \/ NoSlot(f) \/ RunSerially(f)
  BY <1>1, <1>2 DEF Call, JoinExited, Joined, NoSlot, RunSerially
<1>3. CASE CreateWorker(f)
  BY <1>1, <1>3 DEF CreateWorker
<1>4. CASE AllocFails(f) \/ InitFails(f) \/ InitBlk(f) \/ Seed(f) \/ Signal(f)
  BY <1>1, <1>4 DEF AllocFails, InitFails, InitBlk, Seed, Signal
<1>5. CASE Finished(f) \/ Walk(f) \/ Release(f) \/ Token(f)
  BY <1>1, <1>5 DEF Finished, Walk, Release, Token
<1>6. CASE ~(Call(f) \/ Scheduler(f))
  BY <1>6, OtherCalls
<1> QED BY <1>2, <1>3, <1>4, <1>5, <1>6 DEF Scheduler

\* A worker at an instruction works for a block that is being scheduled, so
\* the shutdown has not begun.
LEMMA WorkerIsLive ==
    ASSUME CInv, NEW i \in Slots, wpc[i] \in Handling
    PROVE  fe[i] \in Items /\ fpc[fe[i][1]] \in Scheduling /\ ~exiting
<1>1. fe[i] \in Items /\ fe[i][1] \in Flows
  BY ItemParts DEF CInv, IInv, Shape, ItemsOK
<1>2. fpc[fe[i][1]] \in Scheduling
  <2>1. CASE wpc[i] = "up"
    BY <2>1 DEF CInv, Live
  <2>2. CASE wpc[i] # "up"
    <3>1. i \in AtWorker(fe[i])
      BY <2>2 DEF AtWorker
    <3>2. Copies(fe[i]) > 0
      BY <1>1, <3>1, PresentAtWorker DEF CInv, IInv
    <3> QED BY <1>1, <3>2 DEF CInv, Live
  <2> QED BY <2>1, <2>2
<1>3. Active(fe[i][1])
  BY <1>2 DEF Active, Scheduling
<1> QED BY <1>1, <1>2, <1>3 DEF CInv, IInv, Threading, StopOK

\* A worker drops nothing it has at hand.
LEMMA HeldNext ==
    ASSUME CInv, [Next]_vars
    PROVE  Held'
<1> USE DEF poolVars, localVars, queueVars, stopVars, callVars, flowVars, doneVars
<1>1. /\ Held /\ DOMAIN wpc = Slots /\ DOMAIN fe = Slots /\ DOMAIN fnxt = Slots
  BY DEF CInv, IInv, Shape, TypeOK, LocalsOK
<1>2. ASSUME NEW i \in Slots, Worker(i) PROVE Held'
  <2>1. \A j \in Slots \ {i} : wpc'[j] = wpc[j] /\ fe'[j] = fe[j] /\ fnxt'[j] = fnxt[j]
    BY <1>1, <1>2 DEF Worker, WorkerStart, WorkerWait, WorkerFetch, WorkerDown, TakeSpecific,
         WorkerCompensate, TakeGeneric, WorkerCheck, Admit, Requeue, Refused, WorkerRun,
         WorkerError, WorkerGrab,
         WorkerEnqueue, WorkerUp, WorkerExit
  <2> SUFFICES /\ fe'[i] # NoItem => wpc'[i] \in Handling
               /\ fnxt'[i] # NoItem => wpc'[i] \in {"enqueue", "up"}
    BY <1>1, <2>1 DEF Held
  <2>2. /\ fe[i] # NoItem => wpc[i] \in Handling
        /\ fnxt[i] # NoItem => wpc[i] \in {"enqueue", "up"}
    BY <1>1 DEF Held
  <2> USE DEF Handling
  <2>3. CASE WorkerStart(i) \/ WorkerWait(i) \/ WorkerFetch(i) \/ WorkerDown(i)
             \/ WorkerCompensate(i) \/ WorkerExit(i)
    BY <1>1, <2>2, <2>3 DEF WorkerStart, WorkerWait, WorkerFetch, WorkerDown, WorkerCompensate,
                            WorkerExit
  <2>4. CASE TakeSpecific(i) \/ TakeGeneric(i)
    BY <1>1, <2>2, <2>4 DEF TakeSpecific, TakeGeneric
  <2>5. CASE WorkerCheck(i)
    <3>1. ~exiting
      BY <2>5, WorkerIsLive DEF WorkerCheck
    <3> QED BY <1>1, <2>2, <2>5, <3>1 DEF WorkerCheck
  <2>6. CASE WorkerRun(i) \/ WorkerError(i) \/ WorkerGrab(i) \/ WorkerEnqueue(i) \/ WorkerUp(i)
    BY <1>1, <2>2, <2>6 DEF WorkerRun, WorkerError, WorkerGrab, WorkerEnqueue, WorkerUp
  <2>7. CASE Admit(i) \/ Requeue(i)
    BY <1>1, <2>2, <2>7 DEF Admit, Requeue, Refused
  <2> QED BY <1>2, <2>3, <2>4, <2>5, <2>6, <2>7 DEF Worker
<1>3. ASSUME NEW f \in Flows, CreateWorker(f) PROVE Held'
  <2>1. /\ UNCHANGED <<fe, fnxt>>
        /\ \/ wpc' = wpc
           \/ \E i \in Slots : flag[i] = "IDLE" /\ wpc' = [wpc EXCEPT ![i] = "start"]
    BY <1>3 DEF CreateWorker, LowestWith
  <2>2. \A i \in Slots : flag[i] = "IDLE" => wpc[i] = "none"
    BY DEF CInv, IInv, Threading, SlotsFree
  <2> QED BY <1>1, <2>1, <2>2 DEF Held, Handling
<1>4. ASSUME UNCHANGED <<wpc, fe, fnxt>> PROVE Held'
  BY <1>1, <1>4 DEF Held
<1>5. ASSUME NEW f \in Flows, Call(f) \/ Scheduler(f), ~CreateWorker(f)
      PROVE  UNCHANGED <<wpc, fe, fnxt>>
  BY <1>5 DEF Call, Scheduler, JoinExited, Joined, NoSlot, RunSerially, AllocFails, InitFails,
       InitBlk, Seed, Signal, Finished, Walk, Release, Token
<1>6. CASE Stop \/ StopMark \/ StopJoin \/ Stopped \/ UNCHANGED vars
  BY <1>4, <1>6 DEF Stop, StopMark, StopJoin, Stopped, vars
<1> QED BY <1>2, <1>3, <1>4, <1>5, <1>6 DEF Next

\* When as many instructions came back as the block has, all did.
LEMMA AllGone ==
    ASSUME CInv, NEW f \in Flows, AllBack(f)
    PROVE  Gone(f) = Instrs(f)
<1>1. Len(Wakeup[f]) \in Nat
  BY WakeupAssumption
<1>2. IsFiniteSet(Instrs(f)) /\ Cardinality(Instrs(f)) = Len(Wakeup[f])
  BY <1>1, FS_Interval DEF Instrs
<1>3. Gone(f) \in SUBSET Instrs(f)
  BY DEF Gone
<1>4. Cardinality(Gone(f)) = Cardinality(Instrs(f))
  <2>1. tasks[f] = Cardinality(Gone(f))
    BY DEF CInv, Counted
  <2>2. tasks[f] = Len(Wakeup[f])
    BY DEF AllBack
  <2> QED BY <1>2, <2>1, <2>2
<1> QED BY <1>2, <1>3, <1>4, FS_Subset

\* Then nothing of the block is left anywhere.
LEMMA AllBackClean ==
    ASSUME CInv, NEW f \in Flows, AllBack(f)
    PROVE  /\ \A it \in Items : it[1] = f => Copies(it) = 0
           /\ done[f] = <<>> /\ dsema[f] = 0 /\ Posting(f) = {}
<1>1. Gone(f) = Instrs(f)
  BY AllGone
<1>2. ASSUME NEW it \in Items, it[1] = f PROVE Copies(it) = 0
  <2>1. it = <<f, it[2]>> /\ it[2] \in Gone(f)
    BY <1>1, <1>2, ItemParts
  <2> QED BY <2>1 DEF Gone
<1>3. done[f] = <<>>
  <2>1. done[f] \in Seq({f} \X Instrs(f))
    BY DEF CInv, IInv, Shape, TypeOK, FlowsOK
  <2>2. SUFFICES ASSUME Len(done[f]) > 0 PROVE FALSE
    <3> DEFINE S == {f} \X Instrs(f)
    <3> HIDE DEF S
    <3>1. done[f] \in Seq(S)
      BY <2>1 DEF S
    <3> QED BY <3>1
  <2>3. PICK x \in {f} \X Instrs(f) : x = done[f][1] /\ 1 \in 1..Len(done[f])
    <3> DEFINE S == {f} \X Instrs(f)
    <3> HIDE DEF S
    <3>1. done[f] \in Seq(S)
      BY <2>1 DEF S
    <3>2. done[f][1] \in S /\ 1 \in 1..Len(done[f])
      BY <2>2, <3>1
    <3> QED BY <3>2 DEF S
  <2>4. x \in Items /\ x[1] = f
    BY ItemMake
  <2>5. Occ(done[f], x) > 0
    <3> DEFINE S == {f} \X Instrs(f)
    <3> HIDE DEF S
    <3>1. done[f] \in Seq(S)
      BY <2>1 DEF S
    <3> QED BY <2>3, <3>1, OccType
  <2>6. Copies(x) > 0
    BY <2>4, <2>5, CopiesParts DEF CInv, IInv
  <2> QED BY <1>2, <2>4, <2>6
<1>4. dsema[f] = 0 /\ Posting(f) = {}
  <2>1. dsema[f] + Cardinality(Posting(f)) = 0
    BY <1>3 DEF CInv, IInv, DonePermits, Posting
  <2>2. IsFiniteSet(Posting(f)) /\ Cardinality(Posting(f)) \in Nat
    BY SlotsFinite, FS_Subset, FS_CardinalityType DEF Posting
  <2>3. dsema[f] \in Nat
    BY DEF CInv, IInv, Shape, TypeOK, FlowsOK
  <2>4. Cardinality(Posting(f)) = 0 /\ dsema[f] = 0
    BY <2>1, <2>2, <2>3
  <2> QED BY <2>2, <2>4, FS_EmptySet
<1> QED BY <1>2, <1>3, <1>4

\* Nothing of a block outlives its scheduling.
LEMMA LiveNext ==
    ASSUME CInv, Traffic, [Next]_vars
    PROVE  Live'
<1>1. Shape /\ DOMAIN wpc = Slots
  BY DEF CInv, IInv, Shape, TypeOK, LocalsOK
<1>2. ASSUME NEW o \in Items, Copies(o)' > 0
      PROVE  fpc'[o[1]] \in Scheduling
  <2>1. o[1] \in Flows
    BY ItemParts
  <2>2. Copies(o) \in Nat
    BY <1>1, CopiesNat
  <2>3. Stays(o) \/ Enters(o) \/ Leaves(o)
    BY DEF Traffic, Quiet, OneEnters, OneLeaves
  <2>4. fpc[o[1]] \in Scheduling
    BY <1>2, <2>2, <2>3 DEF Stays, Enters, Leaves, CInv, Live
  <2>5. ~Release(o[1])
    <3> SUFFICES ASSUME Release(o[1]) PROVE FALSE
      OBVIOUS
    <3>1. AllBack(o[1]) /\ UNCHANGED <<todo, done, fe, fnxt, wpc>>
      BY DEF Release, localVars, queueVars, doneVars
    <3>2. Copies(o) = 0
      BY <2>1, <3>1, AllBackClean
    <3>3. Copies(o)' = Copies(o)
      BY <3>1, CopiesFrame
    <3> QED BY <1>2, <3>2, <3>3
  <2> QED BY <1>1, <2>1, <2>4, <2>5, Phases
<1>3. ASSUME NEW i \in Slots, wpc'[i] = "up"
      PROVE  fpc'[fe'[i][1]] \in Scheduling
  <2>1. wpc[i] \in Handling /\ fe'[i] = fe[i]
    <3>1. ASSUME NEW j \in Slots, Worker(j)
          PROVE  WorkerFrame(j) /\ (j = i => WorkerEnqueue(i))
      <4>1. WorkerFrame(j)
        BY <1>1, <3>1, WorkerKeeps
      <4>2. j = i => WorkerEnqueue(i)
        BY <1>1, <1>3, <3>1 DEF Worker, WorkerStart, WorkerWait, WorkerFetch, WorkerDown,
             TakeSpecific, WorkerCompensate, TakeGeneric, WorkerCheck, Admit, Requeue, Refused,
             WorkerRun, WorkerError,
             WorkerGrab, WorkerUp, WorkerExit
      <4> QED BY <4>1, <4>2
    <3>2. ASSUME NEW j \in Slots, Worker(j) PROVE wpc[i] \in Handling /\ fe'[i] = fe[i]
      <4>1. CASE j = i
        BY <3>1, <3>2, <4>1 DEF WorkerEnqueue, Handling
      <4>2. CASE j # i
        BY <1>3, <3>1, <3>2, <4>2 DEF WorkerFrame, Handling
      <4> QED BY <4>1, <4>2
    <3>3. ASSUME NEW f \in Flows, Call(f) \/ Scheduler(f)
          PROVE  /\ fe' = fe
                 /\ wpc' = wpc \/ \E j \in Slots : wpc' = [wpc EXCEPT ![j] = "start"]
      BY <3>3 DEF Call, Scheduler, JoinExited, Joined, CreateWorker, NoSlot, RunSerially,
           AllocFails, InitFails, InitBlk, Seed, Signal, Finished, Walk, Release, Token, localVars
    <3>4. CASE Stop \/ StopMark \/ StopJoin \/ Stopped \/ UNCHANGED vars
      BY <1>3, <3>4 DEF Stop, StopMark, StopJoin, Stopped, vars, localVars, Handling
    <3>5. ASSUME NEW f \in Flows, Call(f) \/ Scheduler(f)
          PROVE  wpc[i] \in Handling /\ fe'[i] = fe[i]
      BY <1>1, <1>3, <3>3, <3>5 DEF Handling
    <3> QED BY <3>2, <3>4, <3>5 DEF Next
  <2>2. fe[i] \in Items /\ fpc[fe[i][1]] \in Scheduling /\ fe[i][1] \in Flows
    BY <2>1, WorkerIsLive, ItemParts
  <2>3. ~Release(fe[i][1])
    <3> SUFFICES ASSUME Release(fe[i][1]) PROVE FALSE
      OBVIOUS
    <3>1. AllBack(fe[i][1]) /\ UNCHANGED <<wpc, fe>>
      BY DEF Release, localVars
    <3>2. i \in Posting(fe[i][1])
      BY <1>3, <3>1 DEF Posting
    <3> QED BY <2>2, <3>1, <3>2, AllBackClean
  <2> QED BY <1>1, <2>1, <2>2, <2>3, Phases
<1> QED BY <1>2, <1>3 DEF Live

\* Only the scheduler of a block and its workers start its instructions.
LEMMA FreshNext ==
    ASSUME CInv, Traffic, [Next]_vars
    PROVE  Fresh'
<1> SUFFICES ASSUME NEW f \in Flows, fpc'[f] \in Early, NEW n \in Instrs(f)
             PROVE  state'[f][n] = "pending"
  BY DEF Fresh, Early
<1>1. fpc[f] \in Early /\ fpc[f] \notin Scheduling
  BY Phases DEF CInv, IInv, Early, Scheduling
<1>2. state[f][n] = "pending"
  BY <1>1 DEF CInv, Fresh, Early
<1>3. PICK o \in Items : o = <<f, n>> /\ o[1] = f /\ o[2] = n
  BY ItemMake
<1>4. Stays(o) \/ Enters(o) \/ Leaves(o)
  BY DEF Traffic, Quiet, OneEnters, OneLeaves
<1> QED BY <1>1, <1>2, <1>3, <1>4 DEF Stays, Enters, Leaves

\* The block's own scheduler holds the lock across the loop, so what it has
\* not met yet stays pending.
LEMMA SeedingNext ==
    ASSUME CInv, Shape', [Next]_vars
    PROVE  Seeding'
<1> USE DEF poolVars, localVars, queueVars, stopVars, callVars, flowVars, doneVars
<1> SUFFICES ASSUME NEW f \in Flows, fpc'[f] = "seed"
             PROVE  /\ \A j, k \in 1..Len(work'[f]) : work'[f][j] = work'[f][k] => j = k
                    /\ \A k \in 1..Len(work'[f]) : state'[f][work'[f][k]] = "pending"
  BY DEF Seeding
<1>1. /\ Shape /\ DOMAIN fpc = Flows /\ DOMAIN work = Flows /\ work[f] \in Seq(Instrs(f))
      /\ DOMAIN state = Flows /\ DOMAIN state[f] = Instrs(f)
      /\ fpc[f] = "seed" => work[f] # <<>>
  BY DEF CInv, IInv, Shape, TypeOK, CallsOK, FlowsOK, WorkOK
<1>2. CASE InitBlk(f)
  <2>1. work'[f] = [n \in Instrs(f) |-> n] /\ state' = state /\ fpc[f] = "alloc"
    BY <1>1, <1>2 DEF InitBlk
  <2>2. \A n \in Instrs(f) : state[f][n] = "pending"
    BY <2>1 DEF CInv, Fresh
  <2>3. Len(Wakeup[f]) \in Nat
    BY WakeupAssumption
  <2>4. Len(work'[f]) = Len(Wakeup[f]) /\ \A k \in Instrs(f) : work'[f][k] = k
    BY <2>1, <2>3 DEF Instrs
  <2> QED BY <2>1, <2>2, <2>4 DEF Instrs
<1>3. CASE Seed(f)
  <2>1. /\ fpc[f] = "seed" /\ work'[f] = Tail(work[f])
        /\ state' = state \/ state' = [state EXCEPT ![f][Head(work[f])] = "running"]
    BY <1>1, <1>3 DEF Seed
  <2>2. /\ \A j, k \in 1..Len(work[f]) : work[f][j] = work[f][k] => j = k
        /\ \A k \in 1..Len(work[f]) : state[f][work[f][k]] = "pending"
    BY <2>1 DEF CInv, Seeding
  <2>3. /\ Len(work[f]) \in Nat \ {0} /\ Len(work'[f]) = Len(work[f]) - 1
        /\ \A k \in 1..Len(work'[f]) : /\ work'[f][k] = work[f][k + 1]
                                       /\ k + 1 \in 1..Len(work[f])
        /\ Head(work[f]) = work[f][1] /\ \A k \in 1..Len(work[f]) : work[f][k] \in Instrs(f)
    BY <1>1, <2>1
  <2>4. ASSUME NEW k \in 1..Len(work'[f]) PROVE state'[f][work'[f][k]] = "pending"
    <3>1. work[f][k + 1] # work[f][1]
      BY <2>2, <2>3
    <3>2. state'[f][work[f][k + 1]] = state[f][work[f][k + 1]]
      BY <1>1, <2>1, <2>3, <3>1
    <3> QED BY <2>2, <2>3, <3>2
  <2>5. ASSUME NEW j \in 1..Len(work'[f]), NEW k \in 1..Len(work'[f]), work'[f][j] = work'[f][k]
        PROVE  j = k
    <3>1. /\ j + 1 \in 1..Len(work[f]) /\ k + 1 \in 1..Len(work[f])
          /\ work[f][j + 1] = work[f][k + 1]
      BY <2>3, <2>5
    <3>2. j + 1 = k + 1
      BY <2>2, <3>1
    <3> QED BY <3>2
  <2> QED BY <2>4, <2>5
<1>4. CASE fpc[f] = "seed" /\ work'[f] = work[f] /\ ~Call(f) /\ ~Scheduler(f)
  <2>1. /\ \A j, k \in 1..Len(work[f]) : work[f][j] = work[f][k] => j = k
        /\ \A k \in 1..Len(work[f]) : state[f][work[f][k]] = "pending"
    BY <1>4 DEF CInv, Seeding
  <2>2. ASSUME NEW n \in Instrs(f) PROVE state'[f][n] = "pending" <=> state[f][n] = "pending"
    <3>1. PICK o \in Items : o = <<f, n>> /\ o[1] = f /\ o[2] = n
      BY ItemMake
    <3>2. Stays(o) \/ state' = state
      <4>1. ASSUME NEW i \in Slots, Worker(i) PROVE Stays(o)
        <5>1. CASE Quiet
          BY <5>1 DEF Quiet
        <5>2. ASSUME NEW g \in Flows, ~FlowLocked(g), OneEnters(g) PROVE Stays(o)
          <6>1. g # f
            BY <1>4, <5>2 DEF FlowLocked
          <6> QED BY <3>1, <5>2, <6>1 DEF OneEnters
        <5> QED BY <4>1, <5>1, <5>2, WorkerTraffic
      <4>2. ASSUME NEW g \in Flows, Call(g) \/ Scheduler(g) PROVE Stays(o)
        <5>1. g # f
          BY <1>4, <4>2
        <5>2. Quiet \/ OneEnters(g) \/ OneLeaves(g)
          BY <4>2, CallTraffic
        <5> QED BY <3>1, <5>1, <5>2 DEF Quiet, OneEnters, OneLeaves
      <4>3. CASE Stop \/ StopMark \/ StopJoin \/ Stopped \/ UNCHANGED vars
        BY <4>3 DEF Stop, StopMark, StopJoin, Stopped, vars
      <4> QED BY <4>1, <4>2, <4>3 DEF Next
    <3> QED BY <3>1, <3>2 DEF Stays
  <2>3. \A k \in 1..Len(work[f]) : work[f][k] \in Instrs(f)
    BY <1>1
  <2> QED BY <1>4, <2>1, <2>2, <2>3
<1> QED BY <1>1, <1>2, <1>3, <1>4, Phases

----------------------------------------------------------------------------
(***************************************************************************)
(* Conclusion                                                              *)
(***************************************************************************)

\* At first nothing is queued, nobody has anything, all is pending.
LEMMA InitCInv == Init => CInv
<1> SUFFICES ASSUME Init PROVE CInv
  OBVIOUS
<1>1. IInv
  BY InitIInv
<1>2. Held /\ Fresh /\ Seeding
  BY DEF Init, Held, Fresh, Seeding
<1>3. ASSUME NEW it \in Items PROVE Copies(it) = 0
  <2>1. InTodo(it) = {} /\ InDone(it) = {} /\ AtWorker(it) = {} /\ NextAtWorker(it) = {}
    BY ItemParts DEF Init, InTodo, InDone, AtWorker, NextAtWorker
  <2>2. Cardinality({}) = 0
    BY FS_EmptySet
  <2>3. Copies(it) = Cardinality({}) + Cardinality({}) + Cardinality({}) + Cardinality({})
    BY <2>1, Zenon DEF Copies
  <2> QED BY <2>2, <2>3
<1>4. Live
  BY <1>3, ThreadsAssumption DEF Init, Live, Slots
<1>5. SingleCopy
  BY <1>3 DEF SingleCopy
<1>6. Counted
  <2> SUFFICES ASSUME NEW f \in Flows PROVE tasks[f] = Cardinality(Gone(f))
    BY DEF Counted
  <2>1. Gone(f) = {}
    BY DEF Init, Gone
  <2>2. Cardinality(Gone(f)) = 0
    BY <2>1, FS_EmptySet
  <2> QED BY <2>2 DEF Init
<1> QED BY <1>1, <1>2, <1>4, <1>5, <1>6 DEF CInv

\* Every step keeps it.
LEMMA NextCInv == CInv /\ [Next]_vars => CInv'
<1> SUFFICES ASSUME CInv, [Next]_vars PROVE CInv'
  OBVIOUS
<1>1. IInv' /\ Shape'
  BY NextIInv DEF CInv, IInv
<1>2. Traffic
  BY <1>1, NextTraffic
<1> QED BY <1>1, <1>2, HeldNext, LiveNext, SingleCopyNext, CountedNext, FreshNext, SeedingNext
        DEF CInv

\* The invariant holds in every reachable state.
THEOREM Tracking == Spec => []CInv
BY InitCInv, NextCInv, PTL DEF Spec

\* The worker that goes on with a successor and the scheduler that walks the
\* wakeup list never both take an instruction, whatever the dependencies.
THEOREM CopySafety == Spec => []SingleCopy
<1>1. CInv => SingleCopy
  BY DEF CInv
<1> QED BY Tracking, <1>1, PTL

\* What the sum of the copies says of a queue: an item in it has a copy.
LEMMA QueuedCopies ==
    ASSUME Shape, NEW it \in Items,
           \/ \E k \in 1..Len(todo) : todo[k] = it
           \/ \E k \in 1..Len(done[it[1]]) : done[it[1]][k] = it
           \/ \E i \in Slots : fnxt[i] = it
    PROVE  Copies(it) > 0
<1>1. todo \in Seq(Items)
  BY DEF Shape, TypeOK, QueueOK
<1>2. (\E k \in 1..Len(todo) : todo[k] = it) => Occ(todo, it) > 0
  BY <1>1, OccType
<1>3. (\E k \in 1..Len(done[it[1]]) : done[it[1]][k] = it) => Occ(done[it[1]], it) > 0
  <2> DEFINE S == {it[1]} \X Instrs(it[1])
  <2>1. done[it[1]] \in Seq(S)
    BY ItemParts DEF Shape, TypeOK, FlowsOK
  <2> HIDE DEF S
  <2> QED BY <2>1, OccType
<1>4. (\E i \in Slots : fnxt[i] = it) => Cardinality(NextAtWorker(it)) > 0
  <2>1. IsFiniteSet(NextAtWorker(it))
    BY SlotsFinite, FS_Subset DEF NextAtWorker
  <2>2. Cardinality(NextAtWorker(it)) \in Nat
    BY <2>1, FS_CardinalityType
  <2>3. (\E i \in Slots : fnxt[i] = it) => NextAtWorker(it) # {}
    BY DEF NextAtWorker
  <2>4. Cardinality(NextAtWorker(it)) = 0 <=> NextAtWorker(it) = {}
    BY <2>1, FS_EmptySet
  <2> QED BY <2>2, <2>3, <2>4
<1> QED BY <1>2, <1>3, <1>4, CopiesParts

\* A worker never touches a flow that was released: when the scheduler frees
\* the status array and the done queue, nothing of the block is queued, held
\* or being posted, for any pool and any dependencies.
THEOREM ReleaseSafety == Spec => []ReleasedClean
<1>1. CInv => ReleasedClean
  <2> SUFFICES ASSUME CInv, NEW f \in Flows, fpc[f] \in {"token", "returned"}
               PROVE  /\ done[f] = <<>> /\ dsema[f] = 0
                      /\ \A k \in 1..Len(todo) : todo[k][1] # f
                      /\ \A i \in Slots : \A it \in {fe[i], fnxt[i]} : it # NoItem => it[1] # f
    BY DEF ReleasedClean
  <2>1. /\ Shape /\ todo \in Seq(Items) /\ done[f] \in Seq({f} \X Instrs(f))
        /\ fe \in [Slots -> Items \cup {NoItem}] /\ fnxt \in [Slots -> Items \cup {NoItem}]
        /\ dsema[f] \in Nat
    BY DEF CInv, IInv, Shape, TypeOK, QueueOK, FlowsOK, LocalsOK
  <2>2. ASSUME NEW it \in Items, it[1] = f PROVE ~(Copies(it) > 0)
    BY <2>2 DEF CInv, Live, Scheduling
  <2>3. ASSUME NEW i \in Slots, wpc[i] \in Handling PROVE fe[i][1] # f
    BY <2>3, WorkerIsLive DEF Scheduling
  <2>4. ASSUME NEW k \in 1..Len(todo) PROVE todo[k][1] # f
    <3>1. todo[k] \in Items
      BY <2>1
    <3>2. Copies(todo[k]) > 0
      BY <2>1, <3>1, QueuedCopies
    <3> QED BY <2>2, <3>1, <3>2
  <2>5. ASSUME NEW i \in Slots PROVE fnxt[i] # NoItem => fnxt[i][1] # f
    <3>1. fnxt[i] \in Items \cup {NoItem}
      BY <2>1
    <3> QED BY <2>1, <2>2, <3>1, QueuedCopies
  <2>6. ASSUME NEW i \in Slots PROVE fe[i] # NoItem => fe[i][1] # f
    BY <2>3 DEF CInv, Held
  <2>7. done[f] = <<>>
    <3> DEFINE S == {f} \X Instrs(f)
    <3>1. ASSUME NEW x \in S PROVE x \in Items /\ x[1] = f
      BY ItemMake
    <3>2. done[f] \in Seq(S)
      BY <2>1
    <3> HIDE DEF S
    <3>3. \A k \in 1..Len(done[f]) : done[f][k] \in S
      BY <3>2
    <3>4. \A k \in 1..Len(done[f]) : FALSE
      <4> SUFFICES ASSUME NEW k \in 1..Len(done[f]) PROVE FALSE
        OBVIOUS
      <4>1. PICK x \in Items : x = done[f][k] /\ x[1] = f
        BY <3>1, <3>3
      <4>2. Copies(x) > 0
        BY <2>1, <4>1, QueuedCopies
      <4> QED BY <2>2, <4>1, <4>2
    <3>5. Len(done[f]) = 0
      <4>1. Len(done[f]) \in Nat
        BY <3>2
      <4> QED BY <3>4, <4>1
    <3> QED BY <3>2, <3>5
  <2>8. dsema[f] = 0
    <3>1. dsema[f] + Cardinality(Posting(f)) = 0
      BY <2>7 DEF CInv, IInv, DonePermits, Posting
    <3>2. Cardinality(Posting(f)) \in Nat
      BY SlotsFinite, FS_Subset, FS_CardinalityType DEF Posting
    <3> QED BY <2>1, <3>1, <3>2
  <2> QED BY <2>4, <2>5, <2>6, <2>7, <2>8
<1> QED BY Tracking, <1>1, PTL

----------------------------------------------------------------------------
(***************************************************************************)
(* The size of the pool.  A worker that a call creates belongs to its      *)
(* session until the call releases it, and one worker is told to exit for  *)
(* it.                                                                     *)
(***************************************************************************)
\* Every call is made by its session, at calldepth 1: the worker that another
\* call creates may be generic from the start, exit at once and leave its slot,
\* which the call goes on to take for its own, to the worker of another session.
SessionCalls == Deep = {} /\ \A f \in Flows : Host[f] = NoItem

\* Until the release the slot of a call is that of the worker it created.
Bound(f) == fpc[f] \in {"alloc", "seed", "signal", "wait", "walk"}

\* What a worker believes to be specific for was true when it looked, and is
\* so until the release; only generic workers exit before the shutdown.
Binding ==
    /\ \A i \in Slots :
          /\ ~exiting /\ wpc[i] # "none" => flag[i] = "RUNNING"
          /\ wpc[i] \notin {"none", "start"} /\ client[i] = NoClient => cntxt[i] = NoClient
          /\ ~exiting /\ wpc[i] = "exit" => client[i] = NoClient
    /\ \A f \in Flows : Bound(f) =>
          /\ slot[f] \in Slots /\ wpc[slot[f]] # "none" /\ cntxt[slot[f]] = ClientOf[f]
          /\ \A g \in Flows : Bound(g) /\ slot[g] = slot[f] => g = f

\* A session is a client, and a call that is bound keeps the shutdown away.
LEMMA BoundFacts ==
    ASSUME IInv, Binding, NEW f \in Flows, Bound(f)
    PROVE  /\ ClientOf[f] \in Clients /\ ClientOf[f] # NoClient
           /\ ~exiting
           /\ wpc[slot[f]] \notin {"none", "exit"}
           /\ flag[slot[f]] = "RUNNING"
<1>1. ClientOf[f] \in Clients /\ ClientOf[f] # NoClient
  BY ClientOfAssumption, NoClientAssumption
<1>2. ~exiting
  BY DEF IInv, Threading, StopOK, Active, Bound
<1>3. slot[f] \in Slots /\ wpc[slot[f]] # "none" /\ cntxt[slot[f]] = ClientOf[f]
  BY DEF Binding
<1> QED BY <1>1, <1>2, <1>3 DEF Binding

\* No worker is specific at the beginning.
LEMMA InitBinding == Init => Binding
BY DEF Init, Binding, Bound

\* A worker looks at its specificity and never changes it.
LEMMA WorkerBinding ==
    ASSUME IInv, Binding, NEW i \in Slots, Worker(i)
    PROVE  Binding'
<1>1. UNCHANGED <<cntxt, slot, fpc, exiting>> /\ wpc \in [Slots -> WorkerPCs] /\ client \in [Slots -> Clients \cup {NoClient}]
      /\ flag \in [Slots -> {"IDLE", "RUNNING", "JOINING", "EXITED"}]
  BY DEF Worker, WorkerStart, WorkerWait, WorkerFetch, WorkerDown, TakeSpecific, WorkerCompensate, TakeGeneric,
         WorkerCheck, Admit, Requeue, Refused, WorkerRun, WorkerError, WorkerGrab, WorkerEnqueue,
         WorkerUp, WorkerExit,
         poolVars, callVars, stopVars, IInv, Shape, TypeOK, LocalsOK, PoolOK
<1>2. wpc[i] # "none"
  BY DEF Worker, WorkerStart, WorkerWait, WorkerFetch, WorkerDown, TakeSpecific, WorkerCompensate, TakeGeneric,
         WorkerCheck, Admit, Requeue, Refused, WorkerRun, WorkerError, WorkerGrab, WorkerEnqueue,
         WorkerUp, WorkerExit
<1>3. \A j \in Slots : j # i => wpc'[j] = wpc[j] /\ client'[j] = client[j] /\ flag'[j] = flag[j]
  BY <1>1 DEF Worker, WorkerStart, WorkerWait, WorkerFetch, WorkerDown, TakeSpecific, WorkerCompensate, TakeGeneric,
         WorkerCheck, Admit, Requeue, Refused, WorkerRun, WorkerError, WorkerGrab, WorkerEnqueue,
         WorkerUp, WorkerExit, poolVars
<1>4. CASE WorkerStart(i) \/ WorkerFetch(i)
  <2>1. flag' = flag /\ client'[i] = cntxt[i] /\ wpc'[i] \notin {"none", "exit"}
    BY <1>1, <1>4 DEF WorkerStart, WorkerFetch, poolVars
  <2> QED BY <1>1, <1>2, <1>3, <2>1 DEF Binding, Bound
<1>5. CASE WorkerExit(i)
  <2>1. flag'[i] = "EXITED" /\ wpc'[i] = "none" /\ client' = client /\ wpc[i] = "exit"
    BY <1>1, <1>5 DEF WorkerExit
  <2>2. \A f \in Flows : Bound(f) => slot[f] # i
    BY <2>1, BoundFacts
  <2> QED BY <1>1, <1>2, <1>3, <2>1, <2>2 DEF Binding, Bound
<1>6. CASE ~(WorkerStart(i) \/ WorkerFetch(i) \/ WorkerExit(i))
  <2>1. flag' = flag /\ client' = client /\ wpc'[i] # "none" /\ wpc[i] # "start"
        /\ (wpc'[i] = "exit" => exiting \/ client[i] = NoClient)
    BY <1>1, <1>6 DEF Worker, WorkerWait, WorkerDown, TakeSpecific, WorkerCompensate, TakeGeneric,
         WorkerCheck, Admit, Requeue, Refused, WorkerRun, WorkerError, WorkerGrab, WorkerEnqueue,
         WorkerUp, poolVars
  <2> QED BY <1>1, <1>2, <1>3, <2>1 DEF Binding, Bound
<1> QED BY <1>4, <1>5, <1>6

\* A call takes a slot without a thread, and gives its own away at the release.
LEMMA CallBinding ==
    ASSUME IInv, Binding, SessionCalls, NEW f \in Flows, Call(f) \/ Scheduler(f)
    PROVE  Binding'
<1>1. /\ UNCHANGED <<client, exiting>> /\ \A g \in Flows : g # f => fpc'[g] = fpc[g] /\ slot'[g] = slot[g]
      /\ fpc \in [Flows -> CallPCs] /\ slot \in [Flows -> 0..Threads] /\ wpc \in [Slots -> WorkerPCs]
      /\ flag \in [Slots -> {"IDLE", "RUNNING", "JOINING", "EXITED"}] /\ cntxt \in [Slots -> Clients \cup {NoClient}]
  BY DEF Call, Scheduler, JoinExited, Joined, CreateWorker, NoSlot, RunSerially, AllocFails, InitFails, InitBlk,
         Seed, Signal, Finished, Walk, Release, Token, localVars, stopVars, IInv, Shape, TypeOK, CallsOK, LocalsOK, PoolOK
<1>2. CASE JoinExited(f) \/ Joined(f)
  <2>1. PICK i \in Slots : /\ wpc[i] = "none" /\ wpc' = wpc
                           /\ \A j \in Slots : j # i => flag'[j] = flag[j] /\ cntxt'[j] = cntxt[j]
    BY <1>1, <1>2 DEF JoinExited, Joined, localVars, IInv, Threading, SlotsFree, JoiningOK, LowestWith
  <2>2. fpc'[f] \in {"joining", "join"}
    BY <1>1, <1>2 DEF JoinExited, Joined
  <2> QED BY <1>1, <2>1, <2>2 DEF Binding, Bound
<1>3. CASE CreateWorker(f)
  <2>1. PICK i \in Slots :
           /\ flag[i] = "IDLE"
           /\ cntxt' = [cntxt EXCEPT ![i] = Specificity(f)]
           /\ \/ /\ flag' = [flag EXCEPT ![i] = "RUNNING"]
                 /\ wpc' = [wpc EXCEPT ![i] = "start"]
                 /\ slot' = [slot EXCEPT ![f] = i]
                 /\ fpc' = [fpc EXCEPT ![f] = "alloc"]
              \/ /\ fpc' = [fpc EXCEPT ![f] = "serial"]
                 /\ UNCHANGED <<flag, wpc, slot>>
    BY <1>3 DEF CreateWorker, LowestWith
  <2>2. wpc[i] = "none" /\ Specificity(f) = ClientOf[f]
    BY <2>1 DEF IInv, Threading, SlotsFree, Specificity, SessionCalls
  <2>3. \A g \in Flows : Bound(g) => slot[g] # i
    BY <2>2 DEF Binding
  <2>4. CASE fpc' = [fpc EXCEPT ![f] = "alloc"] /\ flag' = [flag EXCEPT ![i] = "RUNNING"]
             /\ wpc' = [wpc EXCEPT ![i] = "start"] /\ slot' = [slot EXCEPT ![f] = i]
    <3>1. fpc'[f] = "alloc" /\ flag'[i] = "RUNNING" /\ wpc'[i] = "start" /\ slot'[f] = i /\ cntxt'[i] = ClientOf[f]
      BY <1>1, <2>1, <2>2, <2>4
    <3>2. \A j \in Slots : j # i => flag'[j] = flag[j] /\ wpc'[j] = wpc[j] /\ cntxt'[j] = cntxt[j]
      BY <1>1, <2>1, <2>4
    <3>3. \A g \in Flows : g # f => Bound(g)' = Bound(g)
      BY <1>1 DEF Bound
    <3>4. \A j \in Slots :
            /\ ~exiting' /\ wpc'[j] # "none" => flag'[j] = "RUNNING"
            /\ wpc'[j] \notin {"none", "start"} /\ client'[j] = NoClient => cntxt'[j] = NoClient
            /\ ~exiting' /\ wpc'[j] = "exit" => client'[j] = NoClient
      BY <1>1, <3>1, <3>2 DEF Binding
    <3>5. ASSUME NEW g \in Flows, Bound(g)'
          PROVE  /\ slot'[g] \in Slots /\ wpc'[slot'[g]] # "none" /\ cntxt'[slot'[g]] = ClientOf[g]
                 /\ \A h \in Flows : Bound(h)' /\ slot'[h] = slot'[g] => h = g
      <4>1. CASE g = f
        BY <1>1, <2>3, <3>1, <3>3, <4>1
      <4>2. CASE g # f
        <5>1. slot'[g] = slot[g] /\ slot[g] # i /\ slot[g] \in Slots /\ wpc[slot[g]] # "none" /\ cntxt[slot[g]] = ClientOf[g]
          BY <1>1, <2>3, <3>3, <3>5, <4>2 DEF Binding
        <5>2. \A h \in Flows : Bound(h)' /\ slot'[h] = slot'[g] => h = g
          BY <1>1, <2>3, <3>1, <3>3, <3>5, <4>2, <5>1 DEF Binding
        <5> QED BY <3>2, <5>1, <5>2
      <4> QED BY <4>1, <4>2
    <3> QED BY <3>4, <3>5 DEF Binding
  <2>5. CASE fpc' = [fpc EXCEPT ![f] = "serial"] /\ UNCHANGED <<flag, wpc, slot>>
    <3>1. \A j \in Slots : j # i => cntxt'[j] = cntxt[j]
      BY <1>1, <2>1
    <3>2. fpc'[f] = "serial"
      BY <1>1, <2>5
    <3> QED BY <1>1, <2>2, <2>3, <2>5, <3>1, <3>2 DEF Binding, Bound
  <2> QED BY <2>1, <2>4, <2>5
<1>4. CASE Release(f)
  <2>1. wpc' = wpc /\ flag' = flag /\ slot' = slot /\ Bound(f) /\ fpc'[f] = "token" /\ slot[f] \in Slots
    BY <1>1, <1>4 DEF Release, localVars, Bound, Binding
  <2>2. \A j \in Slots : cntxt'[j] = IF j = slot[f] THEN NoClient ELSE cntxt[j]
    BY <1>1, <1>4 DEF Release, Unbind
  <2>3. \A g \in Flows : g # f => Bound(g)' = Bound(g)
    BY <1>1 DEF Bound
  <2>4. ~Bound(f)'
    BY <2>1 DEF Bound
  <2> QED BY <1>1, <2>1, <2>2, <2>3, <2>4 DEF Binding
<1>5. CASE UNCHANGED <<flag, cntxt, wpc, slot>> /\ (Bound(f)' => Bound(f))
  BY <1>1, <1>5 DEF Binding, Bound
<1>6. CASE ~(JoinExited(f) \/ Joined(f) \/ CreateWorker(f) \/ Release(f))
  <2>1. UNCHANGED <<flag, cntxt, wpc, slot>>
    BY <1>6 DEF Call, Scheduler, NoSlot, RunSerially, AllocFails, InitFails, InitBlk,
         Seed, Signal, Finished, Walk, Token, localVars, poolVars
  <2>2. Bound(f)' => Bound(f)
    BY <1>1, <1>6 DEF Call, Scheduler, NoSlot, RunSerially, AllocFails, InitFails, InitBlk,
         Seed, Signal, Finished, Walk, Token, Bound
  <2> QED BY <1>5, <2>1, <2>2
<1> QED BY <1>2, <1>3, <1>4, <1>6

\* The shutdown begins when no call is bound.
LEMMA StopBinding ==
    ASSUME IInv, Binding, Stop \/ StopMark \/ StopJoin \/ UNCHANGED vars
    PROVE  Binding'
<1>1. UNCHANGED <<cntxt, wpc, client, slot, fpc>>
  BY DEF Stop, StopMark, StopJoin, vars, poolVars, localVars, callVars
<1>2. CASE UNCHANGED vars
  BY <1>1, <1>2 DEF Binding, Bound, vars, poolVars, stopVars
<1>3. CASE Stop \/ StopMark \/ StopJoin
  <2>1. exiting'
    BY <1>3 DEF Stop, StopMark, StopJoin, stopVars, IInv, Threading, StopOK, Slots
  <2> QED BY <1>1, <2>1 DEF Binding, Bound
<1> QED BY <1>2, <1>3

\* The invariant holds in every state.
LEMMA BindingInvariant == ASSUME SessionCalls PROVE Spec => [](IInv /\ Binding)
<1>1. IInv /\ Binding /\ [Next]_vars => Binding'
  BY WorkerBinding, CallBinding, StopBinding DEF Next, Stopped
<1> QED BY <1>1, InitIInv, InitBinding, NextIInv, PTL DEF Spec

\* A worker that a call created stays specific to the session until the call
\* releases it: "This specific worker will only do work for the client for which
\* it was started", so the client has always one worker of its own.
THEOREM SpecificSafety == ASSUME SessionCalls PROVE Spec => []WorkerStaysSpecific
<1>1. IInv /\ Binding => WorkerStaysSpecific
  <2> SUFFICES ASSUME IInv, Binding, NEW f \in Flows, Bound(f)
               PROVE  flag[slot[f]] = "RUNNING" /\ cntxt[slot[f]] = ClientOf[f]
    BY DEF WorkerStaysSpecific, Bound
  <2> QED BY BoundFacts DEF Binding
<1> QED BY <1>1, BindingInvariant, PTL

\* The generic workers, and the calls that have released theirs and not yet
\* told one to exit.
Generic == {i \in Slots : flag[i] = "RUNNING" /\ wpc[i] # "exit" /\ cntxt[i] = NoClient}
Tokens == {f \in Flows : fpc[f] = "token"}

PoolCount ==
    /\ IsFiniteSet(Tokens)
    /\ ~exiting => Cardinality(Generic) = Limit + exitcount + Cardinality(Tokens)

\* No allocation fails and no block is empty: DFLOWinitBlk succeeds, after which
\* the worker is released before another one is told to exit.
Initialised == ~MayFail /\ \A f \in Flows : Instrs(f) # {}

\* At the beginning the generic workers are those that runMALdataflow started first.
LEMMA InitPool == Init => PoolCount
<1> SUFFICES ASSUME Init PROVE PoolCount
  OBVIOUS
<1>1. Tokens = {}
  BY DEF Init, Tokens
<1>2. Generic = 1..Limit
  BY ThreadsAssumption DEF Init, Generic, Slots
<1>3. Cardinality(1..Limit) = Limit
  BY FS_Interval, ThreadsAssumption
<1>4. IsFiniteSet({}) /\ Cardinality({}) = 0
  BY FS_EmptySet
<1> QED BY <1>1, <1>2, <1>3, <1>4, ThreadsAssumption DEF PoolCount, Init

\* The generic workers can be counted.
LEMMA GenericFinite == IsFiniteSet(Generic) /\ Cardinality(Generic) \in Nat
BY SlotsFinite, FS_Subset, FS_CardinalityType DEF Generic

\* A worker that exits takes a token, and no other step of one changes the count.
LEMMA WorkerPool ==
    ASSUME IInv, Binding, PoolCount, NEW i \in Slots, Worker(i)
    PROVE  PoolCount'
<1>1. UNCHANGED <<cntxt, fpc, exiting>> /\ wpc \in [Slots -> WorkerPCs] /\ exitcount \in Nat
      /\ flag \in [Slots -> {"IDLE", "RUNNING", "JOINING", "EXITED"}]
  BY DEF Worker, WorkerStart, WorkerWait, WorkerFetch, WorkerDown, TakeSpecific, WorkerCompensate, TakeGeneric,
         WorkerCheck, Admit, Requeue, Refused, WorkerRun, WorkerError, WorkerGrab, WorkerEnqueue,
         WorkerUp, WorkerExit,
         poolVars, callVars, stopVars, IInv, Shape, TypeOK, LocalsOK, PoolOK, QueueOK
<1>2. Tokens' = Tokens
  BY <1>1 DEF Tokens
<1>3. CASE exiting
  BY <1>1, <1>2, <1>3 DEF PoolCount
<1>4. \A j \in Slots : j # i => wpc'[j] = wpc[j] /\ flag'[j] = flag[j]
  BY <1>1 DEF Worker, WorkerStart, WorkerWait, WorkerFetch, WorkerDown, TakeSpecific, WorkerCompensate, TakeGeneric,
         WorkerCheck, Admit, Requeue, Refused, WorkerRun, WorkerError, WorkerGrab, WorkerEnqueue,
         WorkerUp, WorkerExit, poolVars
<1>5. CASE ~exiting /\ TakeGeneric(i) /\ wpc'[i] = "exit"
  <2>1. exitcount > 0 /\ exitcount' = exitcount - 1 /\ client[i] = NoClient /\ wpc[i] = "locked" /\ flag' = flag
    BY <1>1, <1>5 DEF TakeGeneric, poolVars
  <2>2. i \in Generic
    BY <1>5, <2>1 DEF Binding, Generic
  <2>3. Generic' = Generic \ {i}
    BY <1>1, <1>4, <1>5, <2>1 DEF Generic
  <2>4. Cardinality(Generic') = Cardinality(Generic) - 1
    BY <2>2, <2>3, GenericFinite, FS_RemoveElement
  <2>5. Cardinality(Tokens) \in Nat
    BY FS_CardinalityType DEF PoolCount
  <2> QED BY <1>1, <1>2, <1>5, <2>1, <2>4, <2>5, GenericFinite, ThreadsAssumption DEF PoolCount
<1>6. CASE ~exiting /\ ~(TakeGeneric(i) /\ wpc'[i] = "exit")
  <2>1. exitcount' = exitcount
    BY <1>1, <1>6 DEF Worker, WorkerStart, WorkerWait, WorkerFetch, WorkerDown, TakeSpecific, WorkerCompensate, TakeGeneric,
         WorkerCheck, Admit, Requeue, Refused, WorkerRun, WorkerError, WorkerGrab, WorkerEnqueue,
         WorkerUp, WorkerExit, queueVars
  <2>2. (flag'[i] = "RUNNING" /\ wpc'[i] # "exit") <=> (flag[i] = "RUNNING" /\ wpc[i] # "exit")
    BY <1>1, <1>6 DEF Worker, WorkerStart, WorkerWait, WorkerFetch, WorkerDown, TakeSpecific, WorkerCompensate, TakeGeneric,
         WorkerCheck, Admit, Requeue, Refused, WorkerRun, WorkerError, WorkerGrab, WorkerEnqueue,
         WorkerUp, WorkerExit, poolVars, stopVars
  <2>3. Generic' = Generic
    BY <1>1, <1>4, <2>2 DEF Generic
  <2> QED BY <1>1, <1>2, <2>1, <2>3 DEF PoolCount
<1> QED BY <1>3, <1>5, <1>6

\* The release makes a worker generic, and the token tells one to exit.
LEMMA CallPool ==
    ASSUME IInv, Binding, PoolCount, SessionCalls, Initialised, NEW f \in Flows, Call(f) \/ Scheduler(f)
    PROVE  PoolCount'
<1>1. /\ UNCHANGED exiting /\ \A g \in Flows : g # f => fpc'[g] = fpc[g]
      /\ fpc \in [Flows -> CallPCs] /\ slot \in [Flows -> 0..Threads] /\ wpc \in [Slots -> WorkerPCs]
      /\ flag \in [Slots -> {"IDLE", "RUNNING", "JOINING", "EXITED"}] /\ cntxt \in [Slots -> Clients \cup {NoClient}]
      /\ exitcount \in Nat
  BY DEF Call, Scheduler, JoinExited, Joined, CreateWorker, NoSlot, RunSerially, AllocFails, InitFails, InitBlk,
         Seed, Signal, Finished, Walk, Release, Token, stopVars, IInv, Shape, TypeOK, CallsOK, LocalsOK, PoolOK, QueueOK
<1>2. IsFiniteSet(Tokens) /\ Cardinality(Tokens) \in Nat
  BY FS_CardinalityType DEF PoolCount
<1>3. CASE JoinExited(f) \/ Joined(f)
  <2>1. PICK i \in Slots : /\ flag[i] # "RUNNING" /\ flag'[i] # "RUNNING"
                           /\ \A j \in Slots : j # i => flag'[j] = flag[j] /\ cntxt'[j] = cntxt[j]
    BY <1>1, <1>3 DEF JoinExited, Joined, IInv, Threading, JoiningOK, LowestWith
  <2>2. wpc' = wpc /\ exitcount' = exitcount
    BY <1>3 DEF JoinExited, Joined, localVars, queueVars
  <2>3. Generic' = Generic
    BY <2>1, <2>2 DEF Generic
  <2>4. Tokens' = Tokens
    BY <1>1, <1>3 DEF JoinExited, Joined, Tokens
  <2> QED BY <1>1, <2>2, <2>3, <2>4 DEF PoolCount
<1>4. CASE CreateWorker(f)
  <2>1. PICK i \in Slots :
           /\ flag[i] = "IDLE"
           /\ cntxt' = [cntxt EXCEPT ![i] = Specificity(f)]
           /\ flag' = [flag EXCEPT ![i] = "RUNNING"]
           /\ wpc' = [wpc EXCEPT ![i] = "start"]
           /\ fpc[f] = "join" /\ fpc' = [fpc EXCEPT ![f] = "alloc"]
    BY <1>4 DEF CreateWorker, LowestWith, Initialised
  <2>2. Specificity(f) # NoClient
    BY ClientOfAssumption, NoClientAssumption DEF Specificity, SessionCalls
  <2>3. Generic' = Generic
    BY <1>1, <2>1, <2>2 DEF Generic
  <2>4. Tokens' = Tokens
    BY <1>1, <2>1 DEF Tokens
  <2>5. exitcount' = exitcount
    BY <1>4 DEF CreateWorker, queueVars
  <2> QED BY <1>1, <2>3, <2>4, <2>5 DEF PoolCount
<1>5. CASE Release(f)
  <2>1. wpc' = wpc /\ flag' = flag /\ Bound(f) /\ fpc[f] = "wait" /\ fpc'[f] = "token" /\ slot[f] \in Slots /\ exitcount' = exitcount
    BY <1>1, <1>5 DEF Release, localVars, queueVars, Bound, Binding
  <2>2. \A j \in Slots : cntxt'[j] = IF j = slot[f] THEN NoClient ELSE cntxt[j]
    BY <1>1, <1>5 DEF Release, Unbind
  <2>3. flag[slot[f]] = "RUNNING" /\ wpc[slot[f]] # "exit" /\ cntxt[slot[f]] # NoClient /\ ~exiting
    BY <2>1, BoundFacts DEF Binding
  <2>4. Generic' = Generic \cup {slot[f]} /\ slot[f] \notin Generic
    BY <2>1, <2>2, <2>3 DEF Generic
  <2>5. Tokens' = Tokens \cup {f} /\ f \notin Tokens
    BY <1>1, <2>1 DEF Tokens
  <2>6. Cardinality(Generic') = Cardinality(Generic) + 1
    BY <2>4, GenericFinite, FS_AddElement
  <2>7. Cardinality(Tokens') = Cardinality(Tokens) + 1 /\ IsFiniteSet(Tokens')
    BY <1>2, <2>5, FS_AddElement
  <2> QED BY <1>1, <1>2, <2>1, <2>3, <2>6, <2>7, GenericFinite, ThreadsAssumption DEF PoolCount
<1>6. CASE Token(f)
  <2>1. UNCHANGED <<flag, wpc, cntxt>> /\ exitcount' = exitcount + 1 /\ fpc[f] = "token" /\ fpc'[f] = "returned"
    BY <1>1, <1>6 DEF Token, localVars, poolVars
  <2>2. Generic' = Generic
    BY <2>1 DEF Generic
  <2>3. Tokens' = Tokens \ {f} /\ f \in Tokens
    BY <1>1, <2>1 DEF Tokens
  <2>4. Cardinality(Tokens') = Cardinality(Tokens) - 1 /\ IsFiniteSet(Tokens')
    BY <1>2, <2>3, FS_RemoveElement
  <2> QED BY <1>1, <1>2, <2>1, <2>2, <2>4, GenericFinite, ThreadsAssumption DEF PoolCount
<1>7. CASE ~(JoinExited(f) \/ Joined(f) \/ CreateWorker(f) \/ Release(f) \/ Token(f))
  <2>1. UNCHANGED <<flag, cntxt, wpc, exitcount>>
    BY <1>7 DEF Call, Scheduler, NoSlot, RunSerially, AllocFails, InitFails, InitBlk,
         Seed, Signal, Finished, Walk, localVars, poolVars, queueVars
  <2>2. fpc[f] # "token" /\ fpc'[f] # "token"
    BY <1>1, <1>7 DEF Call, Scheduler, NoSlot, RunSerially, AllocFails, InitFails, InitBlk,
         Seed, Signal, Finished, Walk, Initialised
  <2>3. Tokens' = Tokens /\ Generic' = Generic
    BY <1>1, <2>1, <2>2 DEF Tokens, Generic
  <2> QED BY <1>1, <2>1, <2>3 DEF PoolCount
<1> QED BY <1>3, <1>4, <1>5, <1>6, <1>7

\* The shutdown stops the counting.
LEMMA StopPool ==
    ASSUME IInv, PoolCount, Stop \/ StopMark \/ StopJoin \/ UNCHANGED vars
    PROVE  PoolCount'
<1>1. Tokens' = Tokens
  BY DEF Stop, StopMark, StopJoin, vars, callVars, Tokens
<1>2. CASE UNCHANGED vars
  BY <1>1, <1>2 DEF PoolCount, Generic, vars, poolVars, localVars, stopVars, queueVars
<1>3. CASE Stop \/ StopMark \/ StopJoin
  <2>1. exiting'
    BY <1>3 DEF Stop, StopMark, StopJoin, stopVars, IInv, Threading, StopOK, Slots
  <2> QED BY <1>1, <2>1 DEF PoolCount
<1> QED BY <1>2, <1>3

\* Between calls the pool has GDKnr_threads - 1 generic workers again, those
\* that are still to exit discounted, whatever calls there were before.
THEOREM PoolSafety == ASSUME SessionCalls, Initialised PROVE Spec => []PoolRestored
<1>1. IInv /\ Binding /\ PoolCount /\ [Next]_vars => PoolCount'
  BY WorkerPool, CallPool, StopPool DEF Next, Stopped
<1>2. IInv /\ PoolCount => PoolRestored
  <2> SUFFICES ASSUME IInv, PoolCount, ~exiting, \A f \in Flows : ~Active(f)
               PROVE  Cardinality(Generic) - exitcount = Limit
    BY DEF PoolRestored, Generic
  <2>1. Tokens = {}
    BY DEF Tokens, Active
  <2>2. Cardinality(Tokens) = 0
    BY <2>1, FS_EmptySet
  <2>3. exitcount \in Nat
    BY DEF IInv, Shape, TypeOK, QueueOK
  <2> QED BY <2>2, <2>3, GenericFinite, ThreadsAssumption DEF PoolCount
<1> QED BY <1>1, <1>2, BindingInvariant, InitPool, PTL DEF Spec
----------------------------------------------------------------------------
(***************************************************************************)
(* Exact counters and the results                                          *)
(***************************************************************************)

\* The edges of the block of f.
Edges(f) == UNION {{p} \X (1..Len(Wakeup[f][p])) : p \in Instrs(f)}

\* The edges to n in the list the scheduler of f is walking.
Unwalked(f, n) == IF fpc[f] = "walk" THEN Occ(work[f], n) ELSE 0

\* The counters of one block.
Exact(f) ==
    \A n \in Instrs(f) : state[f][n] = "pending" =>
        blocks[f][n] = Cardinality(OpenEdges(f, n)) + Unwalked(f, n)

\* What happens to the instructions of f: none of them comes back.
NoneLeaves(f) == \A o \in Items : o[1] = f => Stays(o) \/ Enters(o)

----------------------------------------------------------------------------
(***************************************************************************)
(* Counting edges                                                          *)
(***************************************************************************)

\* An edge and its parts.
LEMMA EdgeParts ==
    ASSUME NEW f \in Flows, NEW e \in Edges(f)
    PROVE  /\ e[1] \in Instrs(f) /\ e[2] \in 1..Len(Wakeup[f][e[1]]) /\ e = <<e[1], e[2]>>
           /\ <<f, e[1]>> \in Items
BY ItemMake DEF Edges

\* A block has finitely many edges.
LEMMA EdgesFinite ==
    ASSUME NEW f \in Flows
    PROVE  IsFiniteSet(Edges(f))
<1> DEFINE R(p) == {p} \X (1..Len(Wakeup[f][p]))
           C == UNION {1..Len(Wakeup[f][p]) : p \in Instrs(f)}
<1>1. IsFiniteSet(Instrs(f))
  <2>1. Len(Wakeup[f]) \in Nat
    BY WakeupAssumption
  <2> QED BY <2>1, FS_Interval DEF Instrs
<1>2. IsFiniteSet({1..Len(Wakeup[f][p]) : p \in Instrs(f)})
  <2> DEFINE F == [p \in Instrs(f) |-> 1..Len(Wakeup[f][p])]
             T == {1..Len(Wakeup[f][p]) : p \in Instrs(f)}
  <2>1. F \in Surjection(Instrs(f), T)
    BY DEF Surjection
  <2> HIDE DEF F, T
  <2>2. IsFiniteSet(T)
    BY <1>1, <2>1, FS_Surjection
  <2> QED BY <2>2 DEF T
<1>3. \A S \in {1..Len(Wakeup[f][p]) : p \in Instrs(f)} : IsFiniteSet(S)
  <2> SUFFICES ASSUME NEW p \in Instrs(f) PROVE IsFiniteSet(1..Len(Wakeup[f][p]))
    OBVIOUS
  <2>1. Len(Wakeup[f][p]) \in Nat
    BY WakeupType
  <2> QED BY <2>1, FS_Interval
<1>4. IsFiniteSet(C)
  BY <1>2, <1>3, FS_UNION
<1>5. IsFiniteSet(Instrs(f) \X C)
  BY <1>1, <1>4, FS_Product
<1>6. Edges(f) \subseteq Instrs(f) \X C
  BY DEF Edges
<1> QED BY <1>5, <1>6, FS_Subset

\* The edges of one instruction, counted in its list.
LEMMA EdgesOfOne ==
    ASSUME NEW f \in Flows, NEW m \in Instrs(f), NEW n
    PROVE  Cardinality({e \in Edges(f) : e[1] = m /\ Wakeup[f][e[1]][e[2]] = n})
           = Occ(Wakeup[f][m], n)
<1> DEFINE K == {k \in 1..Len(Wakeup[f][m]) : Wakeup[f][m][k] = n}
           E == {e \in Edges(f) : e[1] = m /\ Wakeup[f][e[1]][e[2]] = n}
           F == [k \in K |-> <<m, k>>]
<1>1. IsFiniteSet(K)
  BY WakeupType, OccType
<1>2. \A k \in K : <<m, k>> \in E
  BY DEF Edges
<1>3. \A e \in E : e[2] \in K /\ e = <<m, e[2]>>
  BY EdgeParts
<1>4. F \in [K -> E] /\ (\A a, b \in K : F[a] = F[b] => a = b) /\ \A e \in E : \E k \in K : F[k] = e
  <2> HIDE DEF K, E
  <2> QED BY <1>2, <1>3
<1>5. F \in Bijection(K, E)
  <2> HIDE DEF K, E, F
  <2> QED BY <1>4, Fun_IsBij
<1>6. ExistsBijection(K, E)
  BY <1>5 DEF ExistsBijection
<1>7. Cardinality(E) = Cardinality(K)
  <2> HIDE DEF K, E
  <2> QED BY <1>1, <1>6, FS_Bijection
<1> QED BY <1>7 DEF Occ

\* The open edges are finite in number.
LEMMA OpenFinite ==
    ASSUME NEW f \in Flows, NEW n
    PROVE  IsFiniteSet(OpenEdges(f, n)) /\ Cardinality(OpenEdges(f, n)) \in Nat
<1>1. OpenEdges(f, n) \in SUBSET Edges(f)
  BY DEF OpenEdges, Edges
<1>2. IsFiniteSet(OpenEdges(f, n))
  BY <1>1, EdgesFinite, FS_Subset
<1> QED BY <1>2, FS_CardinalityType

\* Taking the head of a list.
LEMMA OccTail ==
    ASSUME NEW S, NEW s \in Seq(S), s # <<>>, NEW x
    PROVE  Occ(Tail(s), x) = Occ(s, x) - IF x = Head(s) THEN 1 ELSE 0
<1>1. Tail(s) = Without(s, 1) /\ Head(s) = s[1] /\ 1 \in 1..Len(s)
  BY WithoutEnds
<1>2. Occ(Without(s, 1), x) = Occ(s, x) - IF x = s[1] THEN 1 ELSE 0
  BY <1>1, OccWithout
<1> QED BY <1>1, <1>2

----------------------------------------------------------------------------
(***************************************************************************)
(* Steps                                                                   *)
(***************************************************************************)

\* An instruction that is started keeps its edges open.
LEMMA OpenStays ==
    ASSUME Shape, NEW f \in Flows, NoneLeaves(f), NEW n \in Instrs(f)
    PROVE  Cardinality(OpenEdges(f, n)') = Cardinality(OpenEdges(f, n))
<1>1. ASSUME NEW p \in Instrs(f)
      PROVE  (state'[f][p] = "pending" \/ Copies(<<f, p>>)' > 0)
             <=> (state[f][p] = "pending" \/ Copies(<<f, p>>) > 0)
  <2>1. PICK o \in Items : o = <<f, p>> /\ o[1] = f /\ o[2] = p
    BY ItemMake
  <2>2. Copies(o) \in Nat
    BY CopiesNat
  <2>3. Stays(o) \/ Enters(o)
    BY <2>1 DEF NoneLeaves
  <2>4. (state'[f][p] = "pending" \/ Copies(o)' > 0) <=> (state[f][p] = "pending" \/ Copies(o) > 0)
    BY <2>1, <2>2, <2>3 DEF Stays, Enters
  <2> QED BY <2>1, <2>4
<1>2. OpenEdges(f, n)' = OpenEdges(f, n)
  BY <1>1, EdgeParts DEF OpenEdges, Edges
<1> QED BY <1>2, Zenon

\* A step that only starts instructions and does not touch the counter of
\* one that waits.
LEMMA ExactFrame ==
    ASSUME CInv, NEW f \in Flows, Exact(f), NoneLeaves(f),
           \A n \in Instrs(f) : state'[f][n] = "pending" =>
               /\ blocks'[f][n] = blocks[f][n]
               /\ Unwalked(f, n)' = Unwalked(f, n)
    PROVE  Exact(f)'
<1> SUFFICES ASSUME NEW n \in Instrs(f), state'[f][n] = "pending"
             PROVE  blocks'[f][n] = Cardinality(OpenEdges(f, n)') + Unwalked(f, n)'
  BY DEF Exact
<1>1. Cardinality(OpenEdges(f, n)') = Cardinality(OpenEdges(f, n))
  BY OpenStays DEF CInv, IInv
<1>2. PICK o \in Items : o = <<f, n>> /\ o[1] = f /\ o[2] = n
  BY ItemMake
<1>3. state[f][n] = "pending"
  BY <1>2 DEF NoneLeaves, Stays, Enters
<1> QED BY <1>1, <1>3 DEF Exact

\* A worker changes no counter of an instruction that still waits after its
\* step: the one it goes on with no longer does.
LEMMA WorkerBlocks ==
    ASSUME Shape, NEW i \in Slots, Worker(i), NEW f \in Flows, NEW n \in Instrs(f),
           state'[f][n] = "pending"
    PROVE  blocks'[f][n] = blocks[f][n]
<1> USE DEF poolVars, localVars, queueVars, stopVars, callVars, flowVars, doneVars
<1>1. /\ DOMAIN state = Flows /\ DOMAIN blocks = Flows
      /\ \A g \in Flows : DOMAIN state[g] = Instrs(g) /\ DOMAIN blocks[g] = Instrs(g)
  BY DEF Shape, TypeOK, FlowsOK
<1>2. CASE WorkerGrab(i)
  <2>1. fe[i] \in Items
    BY <1>2 DEF WorkerGrab, Shape, ItemsOK, Handling
  <2>2. PICK g \in Flows : g = fe[i][1] /\ fe[i][2] \in Instrs(g)
    BY <2>1, ItemType
  <2>3. PICK list \in Seq(Instrs(g)) : list = Wakeup[g][fe[i][2]]
    BY <2>2, WakeupType
  <2>4. blocks' = blocks \/ \E k \in 1..Len(list) : Claim(g, list[k])
    BY <1>2, <2>2, <2>3 DEF WorkerGrab
  <2>5. ASSUME NEW m \in Instrs(g), Claim(g, m) PROVE blocks'[f][n] = blocks[f][n]
    <3>1. <<f, n>> # <<g, m>>
      BY <1>1, <2>5 DEF Claim
    <3> QED BY <1>1, <2>5, <3>1 DEF Claim
  <2>6. \A k \in 1..Len(list) : list[k] \in Instrs(g)
    OBVIOUS
  <2> QED BY <2>4, <2>5, <2>6
<1>3. CASE ~WorkerGrab(i)
  BY <1>3 DEF Worker, WorkerStart, WorkerWait, WorkerFetch, WorkerDown, TakeSpecific,
       WorkerCompensate, TakeGeneric, WorkerCheck, Admit, Requeue, Refused, WorkerRun,
       WorkerError, WorkerEnqueue,
       WorkerUp, WorkerExit
<1> QED BY <1>2, <1>3

\* A step of a worker.
LEMMA WorkerExact ==
    ASSUME CInv, Shape', NEW i \in Slots, Worker(i), NEW f \in Flows, Exact(f)
    PROVE  Exact(f)'
<1>1. NoneLeaves(f)
  BY WorkerTraffic DEF NoneLeaves, Quiet, OneEnters
<1>2. UNCHANGED <<fpc, work>>
  BY DEF Worker, WorkerStart, WorkerWait, WorkerFetch, WorkerDown, TakeSpecific,
       WorkerCompensate, TakeGeneric, WorkerCheck, Admit, Requeue, Refused, WorkerRun,
       WorkerError, WorkerGrab,
       WorkerEnqueue, WorkerUp, WorkerExit, callVars
<1>3. \A n \in Instrs(f) : Unwalked(f, n)' = Unwalked(f, n)
  BY <1>2 DEF Unwalked
<1>4. \A n \in Instrs(f) : state'[f][n] = "pending" => blocks'[f][n] = blocks[f][n]
  BY WorkerBlocks DEF CInv, IInv
<1> QED BY <1>1, <1>3, <1>4, ExactFrame

\* A step of another call.
LEMMA OtherExact ==
    ASSUME CInv, Shape', NEW g \in Flows, Call(g) \/ Scheduler(g), NEW f \in Flows, f # g, Exact(f)
    PROVE  Exact(f)'
<1>1. NoneLeaves(f)
  <2>1. Quiet \/ OneEnters(g) \/ OneLeaves(g)
    BY CallTraffic
  <2> QED BY <2>1 DEF NoneLeaves, Quiet, OneEnters, OneLeaves
<1>2. DOMAIN fpc = Flows /\ DOMAIN work = Flows /\ DOMAIN blocks = Flows
  BY DEF CInv, IInv, Shape, TypeOK, CallsOK, FlowsOK
<1>3. fpc'[f] = fpc[f] /\ work'[f] = work[f] /\ blocks'[f] = blocks[f]
  <2> USE DEF poolVars, localVars, queueVars, stopVars, callVars, flowVars, doneVars
  <2>1. CASE Call(g) \/ JoinExited(g) \/ Joined(g) \/ NoSlot(g) \/ RunSerially(g)
    BY <1>2, <2>1 DEF Call, JoinExited, Joined, NoSlot, RunSerially
  <2>2. CASE CreateWorker(g)
    BY <1>2, <2>2 DEF CreateWorker
  <2>3. CASE AllocFails(g) \/ InitFails(g) \/ InitBlk(g) \/ Seed(g) \/ Signal(g)
    BY <1>2, <2>3 DEF AllocFails, InitFails, InitBlk, Seed, Signal
  <2>4. CASE Finished(g) \/ Release(g) \/ Token(g)
    BY <1>2, <2>4 DEF Finished, Release, Token
  <2>5. CASE Walk(g)
    BY <1>2, <2>5 DEF Walk
  <2> QED BY <2>1, <2>2, <2>3, <2>4, <2>5 DEF Scheduler
<1>4. \A n \in Instrs(f) : Unwalked(f, n)' = Unwalked(f, n)
  BY <1>3 DEF Unwalked
<1> QED BY <1>1, <1>3, <1>4, ExactFrame

\* DFLOWinitBlk counts every edge, and all of them are open.
LEMMA InitBlkExact ==
    ASSUME CInv, NEW f \in Flows, InitBlk(f)
    PROVE  Exact(f)'
<1> SUFFICES ASSUME NEW n \in Instrs(f)
             PROVE  blocks'[f][n] = Cardinality(OpenEdges(f, n)') + Unwalked(f, n)'
  BY DEF Exact
<1>1. /\ DOMAIN blocks = Flows /\ DOMAIN fpc = Flows
      /\ fpc[f] = "alloc" /\ fpc' = [fpc EXCEPT ![f] = "seed"]
      /\ blocks' = [blocks EXCEPT ![f] = [x \in Instrs(f) |-> InitialBlocks(f, x)]]
      /\ state' = state
  BY DEF CInv, IInv, Shape, TypeOK, CallsOK, FlowsOK, InitBlk
<1>2. \A p \in Instrs(f) : state'[f][p] = "pending"
  BY <1>1 DEF CInv, Fresh
<1>3. OpenEdges(f, n)' = {e \in Edges(f) : Wakeup[f][e[1]][e[2]] = n}
  BY <1>2, EdgeParts DEF OpenEdges, Edges
<1>4. InitialBlocks(f, n) = Cardinality({e \in Edges(f) : Wakeup[f][e[1]][e[2]] = n})
  BY DEF InitialBlocks, Edges
<1>5. Cardinality(OpenEdges(f, n)') = InitialBlocks(f, n)
  BY <1>3, <1>4, Zenon
<1>6. Unwalked(f, n)' = 0 /\ blocks'[f][n] = InitialBlocks(f, n)
  BY <1>1 DEF Unwalked
<1>7. InitialBlocks(f, n) \in Nat
  <2>1. IsFiniteSet({e \in Edges(f) : Wakeup[f][e[1]][e[2]] = n})
    BY EdgesFinite, FS_Subset
  <2> QED BY <1>4, <2>1, FS_CardinalityType
<1> QED BY <1>5, <1>6, <1>7

\* The edges of a finished instruction pass from the open ones to the list
\* the scheduler walks.
LEMMA FinishedExact ==
    ASSUME CInv, Shape', NEW f \in Flows, Exact(f), Finished(f)
    PROVE  Exact(f)'
<1>1. PICK x \in Items : /\ x = done[f][Len(done[f])] /\ x[1] = f /\ x[2] \in Instrs(f)
                         /\ x = <<f, x[2]>>
                         /\ Leaves(x) /\ \A o \in Items \ {x} : Stays(o)
  BY FinishedLeaves, ItemParts
<1>2. PICK m \in Instrs(f) : m = x[2]
  BY <1>1
<1>3. PICK list \in Seq(Instrs(f)) : list = Wakeup[f][m]
  BY WakeupType
<1>4. /\ Shape /\ DOMAIN work = Flows /\ DOMAIN fpc = Flows
      /\ \A n \in Instrs(f) : blocks[f][n] \in Int
  BY DEF CInv, IInv, Shape, TypeOK, CallsOK, FlowsOK
<1>5. /\ fpc[f] = "wait" /\ UNCHANGED <<state, blocks>> /\ work'[f] = list
      /\ fpc'[f] = IF list = <<>> THEN "wait" ELSE "walk"
  BY <1>1, <1>2, <1>3, <1>4 DEF Finished, flowVars
<1> SUFFICES ASSUME NEW n \in Instrs(f), state[f][n] = "pending"
             PROVE  blocks[f][n] = Cardinality(OpenEdges(f, n)') + Unwalked(f, n)'
  BY <1>5 DEF Exact
<1>6. blocks[f][n] = Cardinality(OpenEdges(f, n))
  BY <1>4, <1>5, OpenFinite DEF Exact, Unwalked
<1>7. Unwalked(f, n)' = Occ(list, n)
  <2>1. Occ(<<>>, n) = 0
    <3>1. {k \in 1..Len(<<>>) : <<>>[k] = n} = {}
      OBVIOUS
    <3> QED BY <3>1, FS_EmptySet, Zenon DEF Occ
  <2> QED BY <1>5, <2>1 DEF Unwalked
<1> DEFINE Mine == {e \in Edges(f) : e[1] = m /\ Wakeup[f][e[1]][e[2]] = n}
           Open == OpenEdges(f, n)
           Left == OpenEdges(f, n)'
<1>8. Copies(x)' = 0 /\ Copies(x) > 0 /\ state[f][m] # "pending"
  <2>1. Copies(x) \in Nat /\ Copies(x) <= IF state[f][m] = "pending" THEN 0 ELSE 1
    BY <1>1, <1>2, <1>4, CopiesNat DEF CInv, SingleCopy
  <2> QED BY <1>1, <2>1 DEF Leaves
<1>9. ASSUME NEW p \in Instrs(f) \ {m}
      PROVE  Copies(<<f, p>>)' = Copies(<<f, p>>)
  <2>1. PICK o \in Items : o = <<f, p>>
    BY ItemMake
  <2>2. o # x
    BY <1>1, <1>2, <2>1
  <2>3. Copies(o)' = Copies(o)
    BY <1>1, <2>2 DEF Stays
  <2> QED BY <2>1, <2>3
<1>10. Copies(<<f, m>>)' = 0 /\ Copies(<<f, m>>) > 0
  BY <1>1, <1>2, <1>8
<1>11. Mine \subseteq Open /\ Left = Open \ Mine
  BY <1>5, <1>8, <1>9, <1>10, EdgeParts, SMTT(30) DEF OpenEdges, Edges
<1>12. IsFiniteSet(Open)
  BY OpenFinite
<1>13. Cardinality(Open) = Cardinality(Left) + Cardinality(Mine)
  <2> HIDE DEF Open, Mine, Left
  <2>1. Left \in SUBSET Open /\ Mine \in SUBSET Open /\ Left \cup Mine = Open /\ Left \cap Mine = {}
    BY <1>11
  <2>2. IsFiniteSet(Left) /\ IsFiniteSet(Mine)
    BY <1>12, <2>1, FS_Subset
  <2>3. Cardinality(Left \cup Mine)
        = Cardinality(Left) + Cardinality(Mine) - Cardinality(Left \cap Mine)
    BY <2>2, FS_Union
  <2>4. Cardinality(Left \cap Mine) = 0
    BY <2>1, FS_EmptySet
  <2>5. Cardinality(Left) \in Nat /\ Cardinality(Mine) \in Nat
    BY <2>2, FS_CardinalityType
  <2>6. Cardinality(Left \cup Mine) = Cardinality(Open)
    BY <2>1, Zenon
  <2> QED BY <2>3, <2>4, <2>5, <2>6
<1>14. Cardinality(Mine) = Occ(list, n)
  BY <1>3, EdgesOfOne
<1> QED BY <1>6, <1>7, <1>13, <1>14

\* One edge of that list is counted off.
LEMMA WalkExact ==
    ASSUME CInv, Shape', NEW f \in Flows, Exact(f), Walk(f), NoneLeaves(f)
    PROVE  Exact(f)'
<1>1. /\ Shape /\ DOMAIN work = Flows /\ DOMAIN fpc = Flows /\ DOMAIN blocks = Flows
      /\ DOMAIN blocks[f] = Instrs(f) /\ DOMAIN state = Flows /\ DOMAIN state[f] = Instrs(f)
      /\ work[f] \in Seq(Instrs(f)) /\ work[f] # <<>>
      /\ \A n \in Instrs(f) : blocks[f][n] \in Int
  <2>1. Shape /\ fpc[f] = "walk"
    BY DEF CInv, IInv, Walk
  <2> QED BY <2>1 DEF Shape, TypeOK, CallsOK, FlowsOK, WorkOK
<1>2. PICK m \in Instrs(f) : m = Head(work[f])
  BY <1>1
<1>3. /\ fpc[f] = "walk" /\ work'[f] = Tail(work[f])
      /\ fpc'[f] = IF Tail(work[f]) = <<>> THEN "wait" ELSE "walk"
  BY <1>1 DEF Walk
<1> SUFFICES ASSUME NEW n \in Instrs(f), state'[f][n] = "pending"
             PROVE  blocks'[f][n] = Cardinality(OpenEdges(f, n)') + Unwalked(f, n)'
  BY DEF Exact
<1>4. PICK o \in Items : o = <<f, n>> /\ o[1] = f /\ o[2] = n
  BY ItemMake
<1>5. state[f][n] = "pending"
  BY <1>4 DEF NoneLeaves, Stays, Enters
<1>6. blocks[f][n] = Cardinality(OpenEdges(f, n)) + Occ(work[f], n)
  BY <1>3, <1>5 DEF Exact, Unwalked
<1>7. Cardinality(OpenEdges(f, n)') = Cardinality(OpenEdges(f, n))
  BY <1>1, OpenStays
<1>8. Cardinality(OpenEdges(f, n)) \in Nat
  BY OpenFinite
<1>9. Unwalked(f, n)' = Occ(Tail(work[f]), n)
  <2>1. Occ(<<>>, n) = 0
    <3>1. {k \in 1..Len(<<>>) : <<>>[k] = n} = {}
      OBVIOUS
    <3> QED BY <3>1, FS_EmptySet, Zenon DEF Occ
  <2> QED BY <1>3, <2>1 DEF Unwalked
<1>10. /\ Occ(Tail(work[f]), n) = Occ(work[f], n) - IF n = m THEN 1 ELSE 0
       /\ Occ(work[f], n) \in Nat
  BY <1>1, <1>2, OccTail, OccType
<1>11. blocks'[f][n] = blocks[f][n] - IF n = m THEN 1 ELSE 0
  <2>1. CASE n = m
    BY <1>1, <1>2, <1>5, <2>1 DEF Walk, Waits
  <2>2. CASE n # m
    BY <1>1, <1>2, <2>2 DEF Walk
  <2> QED BY <2>1, <2>2
<1> QED BY <1>6, <1>7, <1>8, <1>9, <1>10, <1>11

----------------------------------------------------------------------------
(***************************************************************************)
(* The counters are exact                                                  *)
(***************************************************************************)

\* BlocksExact, flow by flow.
LEMMA BlocksByFlow ==
    BlocksExact <=> \A f \in Flows : fpc[f] \in Scheduling => Exact(f)
BY DEF BlocksExact, Exact, Unwalked, Occ, Scheduling

\* The same of the next state.
LEMMA BlocksByFlowNext ==
    (\A f \in Flows : fpc'[f] \in Scheduling => Exact(f)') => BlocksExact'
<1>1. (\A f \in Flows : fpc[f] \in Scheduling => Exact(f)) => BlocksExact
  BY BlocksByFlow
<1>2. ((\A f \in Flows : fpc[f] \in Scheduling => Exact(f)) => BlocksExact)'
  BY <1>1, PTL
<1> QED BY <1>2

\* Every step keeps the counters exact.
LEMMA NextBlocks == CInv /\ BlocksExact /\ [Next]_vars => BlocksExact'
<1> SUFFICES ASSUME CInv, BlocksExact, [Next]_vars, NEW f \in Flows, fpc'[f] \in Scheduling
             PROVE  Exact(f)'
  BY BlocksByFlowNext
<1>1. Shape /\ Shape' /\ DOMAIN fpc = Flows /\ tasks[f] \in Nat /\ DOMAIN tasks = Flows
  <2>1. IInv'
    BY NextIInv DEF CInv
  <2> QED BY <2>1 DEF CInv, IInv, Shape, TypeOK, CallsOK
<1>2. fpc[f] \in Scheduling => Exact(f)
  BY BlocksByFlow
<1>3. ASSUME NEW i \in Slots, Worker(i) PROVE Exact(f)'
  <2>1. fpc' = fpc
    BY <1>1, <1>3, WorkerKeeps DEF WorkerFrame
  <2> QED BY <1>1, <1>2, <1>3, <2>1, WorkerExact
<1>4. ASSUME NEW g \in Flows, Call(g) \/ Scheduler(g), g # f PROVE Exact(f)'
  <2>1. fpc'[f] = fpc[f]
    <3>1. fpc' = [fpc EXCEPT ![g] = fpc'[g]]
      BY <1>1, <1>4 DEF Scheduler, Call, JoinExited, Joined, CreateWorker, NoSlot, RunSerially,
           AllocFails, InitFails, InitBlk, Seed, Signal, Finished, Walk, Release, Token
    <3> QED BY <1>1, <1>4, <3>1
  <2> QED BY <1>1, <1>2, <1>4, <2>1, OtherExact
<1>5. CASE Call(f) \/ Scheduler(f)
  <2>1. ASSUME tasks' = tasks PROVE NoneLeaves(f)
    <3>1. ~OneLeaves(f)
      BY <1>1, <2>1 DEF OneLeaves
    <3>2. Quiet \/ OneEnters(f)
      BY <1>1, <1>5, <3>1, CallTraffic
    <3> QED BY <3>2 DEF Quiet, OneEnters, NoneLeaves
  <2>2. CASE InitBlk(f)
    BY <2>2, InitBlkExact
  <2>3. CASE Finished(f)
    BY <1>1, <1>2, <2>3, FinishedExact DEF Finished, Scheduling
  <2>4. CASE Walk(f)
    <3>1. NoneLeaves(f)
      BY <2>1, <2>4 DEF Walk
    <3> QED BY <1>1, <1>2, <2>4, <3>1, WalkExact DEF Walk, Scheduling
  <2>5. CASE Seed(f) \/ Signal(f)
    <3>1. /\ tasks' = tasks /\ blocks' = blocks
          /\ fpc[f] \in {"seed", "signal"} /\ fpc'[f] \in {"seed", "signal", "wait"}
      BY <1>1, <2>5 DEF Seed, Signal, flowVars
    <3>2. NoneLeaves(f)
      BY <2>1, <3>1
    <3>3. \A n \in Instrs(f) : Unwalked(f, n)' = Unwalked(f, n)
      BY <3>1 DEF Unwalked
    <3> QED BY <1>2, <3>1, <3>2, <3>3, ExactFrame DEF Scheduling
  <2>6. CASE \/ Call(f) \/ JoinExited(f) \/ Joined(f) \/ CreateWorker(f) \/ NoSlot(f)
             \/ RunSerially(f) \/ AllocFails(f) \/ InitFails(f) \/ Release(f) \/ Token(f)
    <3>1. fpc'[f] \notin Scheduling
      BY <1>1, <2>6 DEF Call, JoinExited, Joined, CreateWorker, NoSlot, RunSerially, AllocFails,
           InitFails, Release, Token, Scheduling
    <3> QED BY <3>1
  <2> QED BY <1>5, <2>2, <2>3, <2>4, <2>5, <2>6 DEF Scheduler
<1>6. CASE Stop \/ StopMark \/ StopJoin \/ Stopped \/ UNCHANGED vars
  <2>1. UNCHANGED <<todo, done, fe, fnxt, wpc, state, blocks, fpc, work>>
    BY <1>6 DEF Stop, StopMark, StopJoin, Stopped, vars, localVars, queueVars, callVars, flowVars,
                doneVars
  <2>2. \A it \in Items : Copies(it)' = Copies(it)
    BY <2>1, CopiesFrame
  <2>3. NoneLeaves(f)
    BY <2>1, <2>2 DEF NoneLeaves, Stays
  <2>4. \A n \in Instrs(f) : Unwalked(f, n)' = Unwalked(f, n)
    BY <2>1 DEF Unwalked
  <2> QED BY <1>2, <2>1, <2>3, <2>4, ExactFrame
<1> QED BY <1>3, <1>4, <1>5, <1>6 DEF Next

\* For any block, any pool and any interleaving of the workers that go on
\* with a successor and the scheduler that walks the wakeup lists, the
\* counter of an instruction that waits is the number of edges to it still
\* to be walked.
THEOREM BlocksSafety == Spec => []BlocksExact
<1>1. Init => BlocksExact
  BY DEF Init, BlocksExact
<1>2. CInv /\ CInv' /\ BlocksExact /\ [Next]_vars => BlocksExact'
  BY NextBlocks
<1> QED BY Tracking, <1>1, <1>2, PTL DEF Spec

----------------------------------------------------------------------------
(***************************************************************************)
(* The execution of a block                                                *)
(***************************************************************************)

\* The phases in which a call has not answered yet.
Unanswered == Early \cup Scheduling

\* A call answers when its scheduler is done with the block, and schedules
\* no empty block.
Answers == \A f \in Flows : /\ fpc[f] \in Unanswered => ret[f] = "none"
                            /\ fpc[f] \in Scheduling => Instrs(f) # {}

\* Only an instruction that reached DFLOWwrapup has a result.
Unrun == \A f \in Flows : fpc[f] \in Unanswered =>
            \A n \in Instrs(f) : state[f][n] # "wrapup" => stk[f][n] = "none"

\* An instruction on its way to be run: queued, next at a worker, or at hand
\* and not run yet.
Fetched(o) == \/ \E k \in 1..Len(todo) : todo[k] = o
              \/ \E i \in Slots : fnxt[i] = o
              \/ \E i \in Slots : fe[i] = o /\ wpc[i] \in {"got", "admit", "run"}

\* Such an instruction was started and has no result.
FetchedRunning == \A o \in Items : Fetched(o) => state[o[1]][o[2]] = "running"

\* A started instruction that is no longer on its way succeeded, or its
\* block has an error, or a worker is about to record one.
Settled == \A o \in Items : state[o[1]][o[2]] # "pending" =>
              \/ Fetched(o)
              \/ \E i \in Slots : fe[i] = o /\ wpc[i] = "error"
              \/ stk[o[1]][o[2]] = "ok"
              \/ error[o[1]]

\* An instruction is started after its producers.
Ready == \A f \in Flows : \A n \in Instrs(f) : state[f][n] # "pending" =>
            error[f] \/ \A p \in Abstract!Producers(f, n) : stk[f][p] = "ok"

\* A worker admits and runs an instruction whose producers all succeeded, even if the
\* block got an error since it looked; and records errors only.
Outcomes == \A i \in Slots :
    /\ wpc[i] \in {"admit", "run"} =>
          \A p \in Abstract!Producers(fe[i][1], fe[i][2]) : stk[fe[i][1]][p] = "ok"
    /\ wpc[i] = "error" => stk[fe[i][1]][fe[i][2]] = "err"

\* The error of a block is that of an instruction.
Reported == \A f \in Flows : error[f] => \E n \in Instrs(f) : stk[f][n] = "err"

RInv == CInv /\ BlocksExact /\ Answers /\ Unrun /\ FetchedRunning /\ Settled /\ Ready
             /\ Outcomes /\ Reported

\* The values of an item in the tables.
StateOf(o) == state[o[1]][o[2]]
ResultOf(o) == stk[o[1]][o[2]]

\* A worker is about to record the error of o.
Failing(o) == \E i \in Slots : fe[i] = o /\ wpc[i] = "error"

\* The producers of o succeeded or the block has an error.
ReadyToRun(o) == error[o[1]] \/ \A p \in Abstract!Producers(o[1], o[2]) : stk[o[1]][p] = "ok"

\* A step starts o, or runs it.
Starts(o) == StateOf(o) = "pending" /\ StateOf(o)' = "running" /\ Fetched(o)' /\ ReadyToRun(o)
Runs(o) == StateOf(o)' = "wrapup" /\ \E i \in Slots : WorkerRun(i) /\ fe[i] = o

\* What a step may do to o.
Moves(o) ==
    /\ StateOf(o)' = StateOf(o) \/ Starts(o) \/ Runs(o)
    /\ Fetched(o)' => Fetched(o) \/ Starts(o)
    /\ Fetched(o) \/ Failing(o) =>
          Fetched(o)' \/ Failing(o)' \/ ResultOf(o)' = "ok" \/ error'[o[1]]

----------------------------------------------------------------------------
(***************************************************************************)
(* Facts about a state                                                     *)
(***************************************************************************)

\* What is on its way, or failing, has a copy.
LEMMA FetchedCopies ==
    ASSUME Shape, NEW o \in Items, Fetched(o) \/ Failing(o)
    PROVE  Copies(o) > 0
<1>1. CASE \/ \E k \in 1..Len(todo) : todo[k] = o
           \/ \E i \in Slots : fnxt[i] = o
  BY <1>1, QueuedCopies
<1>2. CASE \E i \in Slots : fe[i] = o /\ wpc[i] \in {"got", "admit", "run", "error"}
  <2>1. \E i \in Slots : i \in AtWorker(o)
    BY <1>2 DEF AtWorker
  <2> QED BY <2>1, PresentAtWorker
<1> QED BY <1>1, <1>2 DEF Fetched, Failing

\* An instruction at a worker is nowhere else.
LEMMA Alone ==
    ASSUME CInv, NEW o \in Items, NEW i \in Slots, fe[i] = o, wpc[i] # "up"
    PROVE  /\ \A k \in 1..Len(todo) : todo[k] # o
           /\ \A j \in Slots : fnxt[j] # o
           /\ \A j \in Slots \ {i} : fe[j] = o => wpc[j] = "up"
<1>1. Shape /\ todo \in Seq(Items)
  BY DEF CInv, IInv, Shape, TypeOK, QueueOK
<1>2. /\ Copies(o) = Occ(todo, o) + Occ(done[o[1]], o)
                     + Cardinality(AtWorker(o)) + Cardinality(NextAtWorker(o))
      /\ Occ(todo, o) \in Nat /\ Occ(done[o[1]], o) \in Nat
      /\ Cardinality(AtWorker(o)) \in Nat /\ Cardinality(NextAtWorker(o)) \in Nat
  BY <1>1, CopiesParts
<1>3. Copies(o) \in Nat /\ Copies(o) <= 1
  BY <1>1, CopiesNat DEF CInv, SingleCopy
<1>4. i \in AtWorker(o) /\ IsFiniteSet(AtWorker(o)) /\ IsFiniteSet(NextAtWorker(o))
  BY SlotsFinite, FS_Subset DEF AtWorker, NextAtWorker
<1>5. Cardinality(AtWorker(o)) # 0
  BY <1>4, FS_EmptySet
<1>6. Occ(todo, o) = 0 /\ Cardinality(AtWorker(o)) = 1 /\ Cardinality(NextAtWorker(o)) = 0
  BY <1>2, <1>3, <1>5
<1>7. \A k \in 1..Len(todo) : todo[k] # o
  <2>1. Occ(todo, o) > 0 <=> \E k \in 1..Len(todo) : todo[k] = o
    BY <1>1, OccType
  <2>2. ~(Occ(todo, o) > 0)
    BY <1>6
  <2> QED BY <2>1, <2>2
<1>8. NextAtWorker(o) = {}
  BY <1>4, <1>6, FS_EmptySet
<1>9. AtWorker(o) = {i}
  <2>1. {i} \in SUBSET AtWorker(o)
    BY <1>4
  <2>2. Cardinality({i}) = 1
    BY FS_Singleton
  <2> QED BY <1>4, <1>6, <2>1, <2>2, FS_Subset
<1> QED BY <1>7, <1>8, <1>9 DEF AtWorker, NextAtWorker

\* What came back succeeded, or its block has an error.
LEMMA GoneSettled ==
    ASSUME RInv, NEW o \in Items, StateOf(o) # "pending", ~(Copies(o) > 0)
    PROVE  ResultOf(o) = "ok" \/ error[o[1]]
<1>1. ~Fetched(o) /\ ~Failing(o)
  BY FetchedCopies DEF RInv, CInv, IInv
<1> QED BY <1>1 DEF RInv, Settled, StateOf, ResultOf, Failing

\* The producers of an instruction, by its edges.
LEMMA ProducerEdge ==
    ASSUME NEW f \in Flows, NEW n \in Instrs(f), NEW p \in Abstract!Producers(f, n)
    PROVE  /\ p \in Instrs(f)
           /\ \E k \in 1..Len(Wakeup[f][p]) : Wakeup[f][p][k] = n /\ <<p, k>> \in Edges(f)
BY SMTT(30) DEF Abstract!Producers, Abstract!Instrs, Instrs, Edges

\* An instruction can run when its open edges all come from one that
\* succeeded.
LEMMA ClosedReady ==
    ASSUME RInv, NEW f \in Flows, NEW n \in Instrs(f), NEW o \in Items, o = <<f, n>>,
           \A e \in OpenEdges(f, n) : stk[f][e[1]] = "ok" \/ error[f]
    PROVE  ReadyToRun(o)
<1> SUFFICES ASSUME NEW p \in Abstract!Producers(f, n), ~error[f]
             PROVE  stk[f][p] = "ok"
  BY DEF ReadyToRun
<1>1. PICK k \in 1..Len(Wakeup[f][p]) : Wakeup[f][p][k] = n /\ <<p, k>> \in Edges(f)
  BY ProducerEdge
<1>2. p \in Instrs(f)
  BY ProducerEdge
<1>3. CASE <<p, k>> \in OpenEdges(f, n)
  BY <1>3
<1>4. CASE <<p, k>> \notin OpenEdges(f, n)
  <2>1. PICK q \in Items : q = <<f, p>> /\ q[1] = f /\ q[2] = p
    BY <1>2, ItemMake
  <2>2. state[f][p] # "pending" /\ ~(Copies(q) > 0)
    BY <1>1, <1>4, <2>1 DEF OpenEdges, Edges
  <2>3. ResultOf(q) = "ok" \/ error[f]
    BY <2>1, <2>2, GoneSettled DEF StateOf
  <2> QED BY <2>1, <2>3 DEF ResultOf
<1> QED BY <1>3, <1>4

\* The counter of an instruction that waits, when its block is scheduled.
LEMMA CounterExact ==
    ASSUME RInv, NEW f \in Flows, fpc[f] \in Scheduling, NEW n \in Instrs(f),
           state[f][n] = "pending"
    PROVE  /\ blocks[f][n] = Cardinality(OpenEdges(f, n)) + Unwalked(f, n)
           /\ Cardinality(OpenEdges(f, n)) \in Nat /\ IsFiniteSet(OpenEdges(f, n))
BY BlocksByFlow, OpenFinite DEF RInv, Exact

----------------------------------------------------------------------------
(***************************************************************************)
(* The worker at an instruction                                            *)
(***************************************************************************)

\* The instruction a worker runs was started, has no result yet, and its
\* producers all succeeded.
LEMMA RunFacts ==
    ASSUME RInv, NEW i \in Slots, wpc[i] = "run"
    PROVE  /\ fe[i] \in Items /\ fe[i][1] \in Flows /\ fe[i][2] \in Instrs(fe[i][1])
           /\ fe[i] = <<fe[i][1], fe[i][2]>>
           /\ StateOf(fe[i]) = "running" /\ ResultOf(fe[i]) = "none"
           /\ fpc[fe[i][1]] \in Scheduling /\ ret[fe[i][1]] = "none"
           /\ \A p \in Abstract!Producers(fe[i][1], fe[i][2]) : stk[fe[i][1]][p] = "ok"
<1>1. fe[i] \in Items /\ fpc[fe[i][1]] \in Scheduling
  BY WorkerIsLive DEF RInv, Handling
<1>2. fe[i][1] \in Flows /\ fe[i][2] \in Instrs(fe[i][1]) /\ fe[i] = <<fe[i][1], fe[i][2]>>
  BY <1>1, ItemParts
<1>3. StateOf(fe[i]) = "running"
  BY <1>1 DEF RInv, FetchedRunning, Fetched, StateOf
<1>4. ResultOf(fe[i]) = "none" /\ ret[fe[i][1]] = "none"
  BY <1>1, <1>2, <1>3 DEF RInv, Unrun, Answers, Unanswered, StateOf, ResultOf
<1> QED BY <1>1, <1>2, <1>3, <1>4 DEF RInv, Outcomes

\* A block that runs in its caller has no results and no error yet.
LEMMA SerialFacts ==
    ASSUME RInv, NEW f \in Flows, fpc[f] \in Early
    PROVE  /\ \A n \in Instrs(f) : stk[f][n] = "none" /\ state[f][n] = "pending"
           /\ ret[f] = "none" /\ ~error[f]
<1>1. \A n \in Instrs(f) : state[f][n] = "pending"
  BY DEF RInv, CInv, Fresh, Early
<1>2. \A n \in Instrs(f) : stk[f][n] = "none"
  BY <1>1 DEF RInv, Unrun, Unanswered
<1>3. ret[f] = "none"
  BY DEF RInv, Answers, Unanswered
<1>4. ~error[f]
  BY <1>2 DEF RInv, Reported
<1> QED BY <1>1, <1>2, <1>3, <1>4

\* Who writes results and errors.
LEMMA Writers ==
    ASSUME [Next]_vars
    PROVE  /\ stk' = stk \/ (\E i \in Slots : WorkerRun(i)) \/ \E f \in Flows : RunSerially(f)
           /\ error' = error \/ \E i \in Slots : WorkerError(i)
           /\ ret' = ret \/ \E f \in Flows : \/ RunSerially(f) \/ AllocFails(f) \/ InitFails(f)
                                             \/ Release(f)
<1> USE DEF poolVars, localVars, queueVars, stopVars, callVars, flowVars, doneVars
<1>1. ASSUME NEW i \in Slots, Worker(i)
      PROVE  /\ stk' = stk \/ WorkerRun(i)
             /\ error' = error \/ WorkerError(i)
             /\ ret' = ret
  BY <1>1 DEF Worker, WorkerStart, WorkerWait, WorkerFetch, WorkerDown, TakeSpecific,
       WorkerCompensate, TakeGeneric, WorkerCheck, Admit, Requeue, WorkerGrab, WorkerEnqueue,
       WorkerUp, WorkerExit, WorkerRun, WorkerError
<1>2. ASSUME NEW f \in Flows, Call(f) \/ Scheduler(f)
      PROVE  /\ stk' = stk \/ RunSerially(f)
             /\ error' = error
             /\ ret' = ret \/ RunSerially(f) \/ AllocFails(f) \/ InitFails(f) \/ Release(f)
  BY <1>2 DEF Scheduler, Call, JoinExited, Joined, CreateWorker, NoSlot, RunSerially,
       AllocFails, InitFails, InitBlk, Seed, Signal, Finished, Walk, Release, Token
<1>3. CASE Stop \/ StopMark \/ StopJoin \/ Stopped \/ UNCHANGED vars
  BY <1>3 DEF Stop, StopMark, StopJoin, Stopped, vars
<1> QED BY <1>1, <1>2, <1>3 DEF Next

\* Results and errors stay.
LEMMA Grows ==
    ASSUME RInv, [Next]_vars, NEW f \in Flows
    PROVE  /\ \A n \in Instrs(f) : stk[f][n] # "none" => stk'[f][n] = stk[f][n]
           /\ error[f] => error'[f]
<1>1. /\ DOMAIN stk = Flows /\ \A g \in Flows : DOMAIN stk[g] = Instrs(g)
      /\ DOMAIN error = Flows
  BY DEF RInv, CInv, IInv, Shape, TypeOK, FlowsOK
<1>2. ASSUME NEW i \in Slots, WorkerRun(i), NEW n \in Instrs(f), stk[f][n] # "none"
      PROVE  stk'[f][n] = stk[f][n]
  <2>1. \E r : stk' = [stk EXCEPT ![fe[i][1]][fe[i][2]] = r]
    BY <1>2 DEF WorkerRun
  <2>2. /\ stk[fe[i][1]][fe[i][2]] = "none"
        /\ fe[i][1] \in Flows /\ fe[i][2] \in Instrs(fe[i][1])
    BY <1>2, RunFacts DEF WorkerRun, ResultOf
  <2>3. ~(fe[i][1] = f /\ fe[i][2] = n)
    BY <1>2, <2>2
  <2> QED BY <1>1, <2>1, <2>2, <2>3
<1>3. ASSUME NEW g \in Flows, RunSerially(g), NEW n \in Instrs(f), stk[f][n] # "none"
      PROVE  stk'[f][n] = stk[f][n]
  <2>1. f # g
    BY <1>3, SerialFacts DEF RunSerially, Early
  <2> QED BY <1>1, <1>3, <2>1 DEF RunSerially
<1>4. ASSUME NEW i \in Slots, WorkerError(i), error[f] PROVE error'[f]
  BY <1>1, <1>4 DEF WorkerError
<1> QED BY <1>2, <1>3, <1>4, Writers

----------------------------------------------------------------------------
(***************************************************************************)
(* What each step does to an instruction                                   *)
(***************************************************************************)

\* Nothing is taken from or put anywhere.
LEMMA MovesFrame ==
    ASSUME NEW o \in Items, UNCHANGED <<todo, fnxt, fe, state>>,
           \A j \in Slots : \/ wpc'[j] = wpc[j]
                            \/ /\ wpc[j] \notin {"got", "admit", "run", "error"}
                               /\ wpc'[j] \notin {"got", "admit", "run", "error"}
    PROVE  Moves(o)
<1>1. Fetched(o)' <=> Fetched(o)
  BY DEF Fetched
<1>2. Failing(o)' <=> Failing(o)
  BY DEF Failing
<1>3. StateOf(o)' = StateOf(o)
  BY DEF StateOf
<1> QED BY <1>1, <1>2, <1>3 DEF Moves

\* x is in s.
IsIn(x, s) == \E k \in 1..Len(s) : s[k] = x

\* The elements of a sequence without its k-th.
LEMMA WithoutElems ==
    ASSUME NEW S, NEW s \in Seq(S), NEW k \in 1..Len(s), NEW x
    PROVE  /\ IsIn(x, Without(s, k)) => IsIn(x, s)
           /\ IsIn(x, s) => x = s[k] \/ IsIn(x, Without(s, k))
<1> DEFINE w == Without(s, k)
<1>1. /\ Len(s) \in Nat \ {0} /\ Len(w) = Len(s) - 1
      /\ \A j \in 1..(Len(s) - 1) : w[j] = IF j < k THEN s[j] ELSE s[j + 1]
  BY DEF Without
<1> HIDE DEF w
<1>2. ASSUME NEW j \in 1..Len(w), w[j] = x PROVE \E l \in 1..Len(s) : s[l] = x
  <2>1. CASE j < k
    BY <1>1, <1>2, <2>1
  <2>2. CASE ~(j < k)
    <3>1. j + 1 \in 1..Len(s) /\ s[j + 1] = x
      BY <1>1, <1>2, <2>2
    <3> QED BY <3>1
  <2> QED BY <2>1, <2>2
<1>3. ASSUME NEW l \in 1..Len(s), s[l] = x, x # s[k] PROVE \E j \in 1..Len(w) : w[j] = x
  <2>1. CASE l < k
    <3>1. l \in 1..Len(w) /\ w[l] = x
      BY <1>1, <1>3, <2>1
    <3> QED BY <3>1
  <2>2. CASE l > k
    <3>1. l - 1 \in 1..Len(w) /\ w[l - 1] = s[l - 1 + 1] /\ l - 1 + 1 = l
      BY <1>1, <1>3, <2>2
    <3> QED BY <1>3, <3>1
  <2>3. l # k
    BY <1>3
  <2>4. l < k \/ l > k
    BY <1>1, <2>3
  <2> QED BY <2>1, <2>2, <2>4
<1> QED BY <1>2, <1>3 DEF w, IsIn

\* A worker takes an instruction from todo.
LEMMA TakeFetched ==
    ASSUME Shape, Held, NEW i \in Slots, NEW k \in 1..Len(todo), wpc[i] = "locked",
           fe' = [fe EXCEPT ![i] = todo[k]], todo' = Without(todo, k),
           wpc' = [wpc EXCEPT ![i] = "got"], UNCHANGED <<fnxt, state>>, NEW o \in Items
    PROVE  Moves(o)
<1>1. /\ DOMAIN fe = Slots /\ DOMAIN wpc = Slots /\ todo \in Seq(Items)
  BY DEF Shape, TypeOK, LocalsOK, QueueOK
<1>2. \A j \in Slots \ {i} : fe'[j] = fe[j] /\ wpc'[j] = wpc[j]
  BY <1>1
<1>3. fe'[i] = todo[k] /\ wpc'[i] = "got"
  BY <1>1
<1>4. /\ IsIn(o, todo') => IsIn(o, todo)
      /\ IsIn(o, todo) => o = todo[k] \/ IsIn(o, todo')
  BY <1>1, WithoutElems
<1>5. Fetched(o)' <=> Fetched(o)
  BY <1>2, <1>3, <1>4 DEF Fetched, IsIn
<1>6. Failing(o)' <=> Failing(o)
  BY <1>2, <1>3 DEF Failing
<1>7. StateOf(o)' = StateOf(o)
  BY DEF StateOf
<1> QED BY <1>5, <1>6, <1>7 DEF Moves

\* A refused instruction goes from the worker to todo.
LEMMA RequeueFetched ==
    ASSUME RInv, NEW i \in Slots, Requeue(i), NEW o \in Items
    PROVE  Moves(o)
<1>1. /\ Shape /\ DOMAIN fe = Slots /\ DOMAIN wpc = Slots /\ todo \in Seq(Items)
      /\ UNCHANGED <<fnxt, state>>
  BY DEF RInv, CInv, IInv, Shape, TypeOK, LocalsOK, QueueOK, Requeue, flowVars
<1>2. /\ todo' \in Seq(Items) /\ Len(todo') = Len(todo) + 1 /\ todo'[1] = fe[i]
      /\ \A j \in 1..Len(todo) : todo'[j + 1] = todo[j]
      /\ wpc[i] = "admit" /\ wpc' = [wpc EXCEPT ![i] = "fetch"]
      /\ fe' = [fe EXCEPT ![i] = NoItem]
  BY <1>1, RequeueFacts
<1>3. \A j \in Slots \ {i} : fe'[j] = fe[j] /\ wpc'[j] = wpc[j]
  BY <1>1, <1>2
<1>4. wpc'[i] = "fetch"
  BY <1>1, <1>2
<1>5. IsIn(o, todo') <=> IsIn(o, todo) \/ o = fe[i]
  <2>1. Len(todo) \in Nat
    BY <1>1
  <2>2. o = fe[i] => IsIn(o, todo')
    BY <1>2, <2>1 DEF IsIn
  <2>3. ASSUME NEW k \in 1..Len(todo), todo[k] = o PROVE IsIn(o, todo')
    <3>1. k + 1 \in 1..Len(todo') /\ todo'[k + 1] = o
      BY <1>2, <2>1, <2>3
    <3> QED BY <3>1 DEF IsIn
  <2>4. ASSUME NEW k \in 1..Len(todo'), todo'[k] = o, o # fe[i] PROVE IsIn(o, todo)
    <3>1. k - 1 \in 1..Len(todo) /\ (k - 1) + 1 = k
      BY <1>2, <2>1, <2>4
    <3>2. todo[k - 1] = o
      BY <1>2, <2>4, <3>1
    <3> QED BY <3>1, <3>2 DEF IsIn
  <2> QED BY <2>2, <2>3, <2>4 DEF IsIn
<1>6. Fetched(o)' <=> Fetched(o)
  BY <1>1, <1>2, <1>3, <1>4, <1>5 DEF Fetched, IsIn
<1>7. Failing(o)' <=> Failing(o)
  BY <1>2, <1>3, <1>4 DEF Failing
<1>8. StateOf(o)' = StateOf(o)
  BY <1>1 DEF StateOf
<1> QED BY <1>6, <1>7, <1>8 DEF Moves

\* A worker looks at the error of the block, admits its instruction, runs it,
\* records an error, or turns to the next one.
LEMMA HandMoves ==
    ASSUME RInv, NEW i \in Slots, NEW o \in Items,
           WorkerCheck(i) \/ Admit(i) \/ WorkerRun(i) \/ WorkerError(i) \/ WorkerUp(i)
    PROVE  Moves(o)
<1> USE DEF poolVars, localVars, queueVars, stopVars, callVars, flowVars, doneVars
<1>1. /\ Shape /\ DOMAIN fe = Slots /\ DOMAIN fnxt = Slots /\ DOMAIN wpc = Slots
      /\ DOMAIN state = Flows /\ DOMAIN stk = Flows /\ DOMAIN error = Flows
      /\ \A g \in Flows : DOMAIN state[g] = Instrs(g) /\ DOMAIN stk[g] = Instrs(g)
  BY DEF RInv, CInv, IInv, Shape, TypeOK, LocalsOK, FlowsOK
<1>2. /\ fe[i] \in Items /\ fe[i][1] \in Flows /\ fe[i][2] \in Instrs(fe[i][1]) /\ ~exiting
      /\ o[1] \in Flows /\ o[2] \in Instrs(o[1]) /\ o = <<o[1], o[2]>> /\ o # NoItem
      /\ fe[i] = <<fe[i][1], fe[i][2]>>
  BY WorkerIsLive, ItemParts
    DEF RInv, WorkerCheck, Admit, WorkerRun, WorkerError, WorkerUp, Handling
<1>3. \A j \in Slots \ {i} : fe'[j] = fe[j] /\ fnxt'[j] = fnxt[j] /\ wpc'[j] = wpc[j]
  BY <1>1 DEF WorkerCheck, Admit, WorkerRun, WorkerError, WorkerUp
<1>4. todo' = todo
  BY DEF WorkerCheck, Admit, WorkerRun, WorkerError, WorkerUp
<1>5. CASE WorkerCheck(i)
  <2>1. /\ wpc[i] = "got" /\ UNCHANGED <<fe, fnxt, state, error>>
        /\ wpc'[i] = "admit" \/ (wpc'[i] = "enqueue" /\ error[fe[i][1]])
    BY <1>1, <1>2, <1>5 DEF WorkerCheck, Skips
  <2>2. Fetched(o)' => Fetched(o)
    BY <1>3, <1>4, <2>1 DEF Fetched
  <2>3. Fetched(o) => Fetched(o)' \/ error'[o[1]]
    BY <1>3, <1>4, <2>1 DEF Fetched
  <2>4. Failing(o) => Failing(o)'
    BY <1>3, <2>1 DEF Failing
  <2>5. StateOf(o)' = StateOf(o)
    BY <2>1 DEF StateOf
  <2> QED BY <2>2, <2>3, <2>4, <2>5 DEF Moves
<1>6. CASE WorkerRun(i)
  <2>1. /\ wpc[i] = "run" /\ UNCHANGED <<fe, fnxt>>
        /\ state' = [state EXCEPT ![fe[i][1]][fe[i][2]] = "wrapup"]
        /\ \/ wpc'[i] = "error"
           \/ wpc'[i] = "grab" /\ stk' = [stk EXCEPT ![fe[i][1]][fe[i][2]] = "ok"]
    BY <1>1, <1>6 DEF WorkerRun
  <2>2. Fetched(o)' => Fetched(o)
    BY <1>3, <1>4, <2>1 DEF Fetched
  <2>3. Fetched(o) /\ ~(o = fe[i]) => Fetched(o)'
    BY <1>3, <1>4, <2>1 DEF Fetched
  <2>4. Failing(o) => Failing(o)'
    BY <1>3, <2>1 DEF Failing
  <2>5. o = fe[i] => Failing(o)' \/ ResultOf(o)' = "ok"
    BY <1>1, <1>2, <2>1 DEF Failing, ResultOf
  <2>6. CASE o = fe[i]
    <3>1. StateOf(o)' = "wrapup"
      BY <1>1, <1>2, <2>1, <2>6 DEF StateOf
    <3>2. Runs(o)
      BY <1>6, <2>6, <3>1 DEF Runs
    <3> QED BY <2>2, <2>5, <2>6, <3>2 DEF Moves
  <2>7. CASE o # fe[i]
    <3>1. StateOf(o)' = StateOf(o)
      BY <1>1, <1>2, <2>1, <2>7 DEF StateOf
    <3> QED BY <2>2, <2>3, <2>4, <2>7, <3>1 DEF Moves
  <2> QED BY <2>6, <2>7
<1>7. CASE WorkerError(i)
  <2>1. /\ wpc[i] = "error" /\ UNCHANGED <<fe, fnxt, state>> /\ wpc'[i] = "enqueue"
        /\ error'[fe[i][1]]
    BY <1>1, <1>2, <1>7 DEF WorkerError
  <2>2. Fetched(o)' <=> Fetched(o)
    BY <1>3, <1>4, <2>1 DEF Fetched
  <2>3. Failing(o) => Failing(o)' \/ error'[o[1]]
    BY <1>3, <2>1 DEF Failing
  <2>4. StateOf(o)' = StateOf(o)
    BY <2>1 DEF StateOf
  <2> QED BY <2>2, <2>3, <2>4 DEF Moves
<1>8. CASE WorkerUp(i)
  <2>1. /\ wpc[i] = "up" /\ state' = state /\ fe'[i] = fnxt[i] /\ fnxt'[i] = NoItem
        /\ wpc'[i] = IF fnxt[i] # NoItem THEN "got" ELSE "fetch"
    BY <1>1, <1>8 DEF WorkerUp
  <2>2. Fetched(o)' <=> Fetched(o)
    BY <1>2, <1>3, <1>4, <2>1 DEF Fetched
  <2>3. Failing(o)' <=> Failing(o)
    BY <1>3, <2>1 DEF Failing
  <2>4. StateOf(o)' = StateOf(o)
    BY <2>1 DEF StateOf
  <2> QED BY <2>2, <2>3, <2>4 DEF Moves
<1>9. CASE Admit(i)
  <2>1. wpc[i] = "admit" /\ wpc'[i] = "run" /\ UNCHANGED <<fe, fnxt, state>>
    BY <1>1, <1>9 DEF Admit
  <2>2. Fetched(o)' <=> Fetched(o)
    BY <1>3, <1>4, <2>1 DEF Fetched
  <2>3. Failing(o)' <=> Failing(o)
    BY <1>3, <2>1 DEF Failing
  <2>4. StateOf(o)' = StateOf(o)
    BY <2>1 DEF StateOf
  <2> QED BY <2>2, <2>3, <2>4 DEF Moves
<1> QED BY <1>5, <1>6, <1>7, <1>8, <1>9

\* A worker goes on with an instruction whose counter is 1: the one edge
\* still open is its own.
LEMMA GrabStarts ==
    ASSUME RInv, NEW i \in Slots, WorkerGrab(i), NEW o \in Items
    PROVE  Moves(o)
<1>1. /\ Shape /\ DOMAIN fe = Slots /\ DOMAIN fnxt = Slots /\ DOMAIN wpc = Slots
      /\ DOMAIN state = Flows /\ \A g \in Flows : DOMAIN state[g] = Instrs(g)
  BY DEF RInv, CInv, IInv, Shape, TypeOK, LocalsOK, FlowsOK
<1>2. PICK f \in Flows : \E m \in Instrs(f) : /\ fe[i] = <<f, m>> /\ fe[i][1] = f /\ fe[i][2] = m
                                              /\ fe[i] \in Items /\ fpc[f] \in Scheduling
  BY WorkerIsLive, ItemParts DEF RInv, WorkerGrab, Handling
<1> PICK m \in Instrs(f) : /\ fe[i] = <<f, m>> /\ fe[i][1] = f /\ fe[i][2] = m
                           /\ fe[i] \in Items /\ fpc[f] \in Scheduling
  BY <1>2
<1>3. PICK list \in Seq(Instrs(f)) : list = Wakeup[f][m]
  BY WakeupType
<1>4. /\ wpc[i] = "grab" /\ wpc' = [wpc EXCEPT ![i] = "enqueue"] /\ ~FlowLocked(f)
      /\ UNCHANGED <<todo, fe>>
      /\ \/ UNCHANGED <<state, fnxt>>
         \/ \E k \in 1..Len(list) : /\ Eligible(f, list[k]) /\ Claim(f, list[k])
                                    /\ fnxt' = [fnxt EXCEPT ![i] = <<f, list[k]>>]
  BY <1>2, <1>3 DEF WorkerGrab, queueVars
<1>5. CASE UNCHANGED <<state, fnxt>>
  <2>1. \A j \in Slots : \/ wpc'[j] = wpc[j]
                         \/ /\ wpc[j] \notin {"got", "admit", "run", "error"}
                            /\ wpc'[j] \notin {"got", "admit", "run", "error"}
    BY <1>1, <1>4
  <2> QED BY <1>4, <1>5, <2>1, MovesFrame
<1>6. ASSUME NEW k \in 1..Len(list), Eligible(f, list[k]), Claim(f, list[k]),
             fnxt' = [fnxt EXCEPT ![i] = <<f, list[k]>>]
      PROVE  Moves(o)
  <2>1. PICK n \in Instrs(f) : n = list[k]
    OBVIOUS
  <2>2. PICK new \in Items : new = <<f, n>> /\ new[1] = f /\ new[2] = n
    BY ItemMake
  <2>3. /\ state[f][n] = "pending" /\ blocks[f][n] = 1 /\ fnxt[i] = NoItem
        /\ state' = [state EXCEPT ![f][n] = "running"]
    BY <1>4, <1>6, <2>1 DEF Eligible, Claim, RInv, CInv, Held
  <2>4. Cardinality(OpenEdges(f, n)) = 1 /\ IsFiniteSet(OpenEdges(f, n))
    <3>1. Unwalked(f, n) = 0
      BY <1>4 DEF FlowLocked, Unwalked
    <3> QED BY <1>2, <2>3, <3>1, CounterExact
  <2>5. <<m, k>> \in OpenEdges(f, n)
    <3>1. Copies(fe[i]) > 0
      BY <1>1, <1>2, <1>4, PresentAtWorker DEF AtWorker
    <3>2. Copies(<<f, m>>) > 0
      BY <1>2, <3>1
    <3> QED BY <1>3, <2>1, <3>2 DEF OpenEdges
  <2>6. OpenEdges(f, n) = {<<m, k>>}
    <3>1. {<<m, k>>} \in SUBSET OpenEdges(f, n)
      BY <2>5
    <3>2. Cardinality({<<m, k>>}) = 1
      BY FS_Singleton
    <3> QED BY <2>4, <3>1, <3>2, FS_Subset
  <2>7. stk[f][m] = "ok" \/ error[f]
    <3>1. StateOf(fe[i]) # "pending"
      <4>1. Copies(fe[i]) > 0 /\ Copies(fe[i]) \in Nat
        BY <1>1, <1>2, <1>4, PresentAtWorker, CopiesNat DEF AtWorker
      <4> QED BY <1>2, <4>1 DEF RInv, CInv, SingleCopy, StateOf
    <3>2. ~Fetched(fe[i]) /\ ~Failing(fe[i])
      BY <1>2, <1>4, Alone DEF Fetched, Failing, RInv
    <3> QED BY <1>2, <3>1, <3>2 DEF RInv, Settled, StateOf, Failing
  <2>8. ReadyToRun(new)
    <3>1. \A e \in OpenEdges(f, n) : stk[f][e[1]] = "ok" \/ error[f]
      BY <2>6, <2>7
    <3> QED BY <2>2, <3>1, ClosedReady
  <2>9. fnxt'[i] = new /\ \A j \in Slots \ {i} : fnxt'[j] = fnxt[j]
    BY <1>1, <1>6, <2>1, <2>2
  <2>10. \A j \in Slots : wpc'[j] = wpc[j] \/ (wpc[j] = "grab" /\ wpc'[j] = "enqueue")
    BY <1>1, <1>4
  <2>11. Fetched(new)'
    BY <2>9 DEF Fetched
  <2>12. Starts(new)
    <3>1. state'[f][n] = "running"
      BY <1>1, <2>3
    <3> QED BY <2>2, <2>3, <2>8, <2>11, <3>1 DEF Starts, StateOf
  <2>13. Failing(o)' <=> Failing(o)
    BY <1>4, <2>10 DEF Failing
  <2>14. Fetched(o) => Fetched(o)'
    BY <1>4, <2>3, <2>9, <2>10, ItemParts DEF Fetched
  <2>15. Fetched(o)' => Fetched(o) \/ o = new
    BY <1>4, <2>9, <2>10 DEF Fetched
  <2>16. o # new => StateOf(o)' = StateOf(o)
    BY <1>1, <2>2, <2>3, ItemParts DEF StateOf
  <2> QED BY <2>12, <2>13, <2>14, <2>15, <2>16 DEF Moves
<1> QED BY <1>4, <1>5, <1>6

\* The scheduler queues an instruction.
LEMMA QueueStarts ==
    ASSUME RInv, NEW f \in Flows, NEW n \in Instrs(f), NEW new \in Items, new = <<f, n>>,
           state[f][n] = "pending", ReadyToRun(new),
           todo' = Append(todo, <<f, n>>), state' = [state EXCEPT ![f][n] = "running"],
           UNCHANGED <<fe, fnxt, wpc>>, NEW o \in Items
    PROVE  Moves(o)
<1>1. /\ todo \in Seq(Items) /\ DOMAIN state = Flows
      /\ \A g \in Flows : DOMAIN state[g] = Instrs(g)
  BY DEF RInv, CInv, IInv, Shape, TypeOK, QueueOK, FlowsOK
<1>2. IsIn(o, todo') <=> IsIn(o, todo) \/ o = new
  <2>1. /\ Len(todo) \in Nat /\ Len(todo') = Len(todo) + 1 /\ todo'[Len(todo) + 1] = new
        /\ \A k \in 1..Len(todo) : todo'[k] = todo[k]
    BY <1>1
  <2>2. IsIn(o, todo) => IsIn(o, todo')
    BY <2>1 DEF IsIn
  <2>3. o = new => IsIn(o, todo')
    BY <2>1 DEF IsIn
  <2>4. IsIn(o, todo') => IsIn(o, todo) \/ o = new
    BY <2>1 DEF IsIn
  <2> QED BY <2>2, <2>3, <2>4
<1>3. Fetched(o)' <=> Fetched(o) \/ o = new
  BY <1>2 DEF Fetched, IsIn
<1>4. Failing(o)' <=> Failing(o)
  BY DEF Failing
<1>5. CASE o = new
  <2>1. StateOf(o) = "pending" /\ StateOf(o)' = "running"
    BY <1>1, <1>5 DEF StateOf
  <2>2. Starts(o)
    BY <1>3, <1>5, <2>1 DEF Starts
  <2> QED BY <1>3, <1>4, <2>2 DEF Moves
<1>6. CASE o # new
  <2>1. StateOf(o)' = StateOf(o)
    BY <1>1, <1>6, ItemParts DEF StateOf
  <2> QED BY <1>3, <1>4, <1>6, <2>1 DEF Moves
<1> QED BY <1>5, <1>6

\* The scheduler queues an instruction when no edge to it is left: at first
\* those without producers, later the one whose last edge it walks.
LEMMA SchedulerStarts ==
    ASSUME RInv, NEW f \in Flows, Seed(f) \/ Walk(f), NEW o \in Items
    PROVE  Moves(o)
<1>1. /\ Shape /\ work[f] \in Seq(Instrs(f)) /\ work[f] # <<>>
      /\ UNCHANGED <<fe, fnxt, wpc>> /\ fpc[f] \in Scheduling
  <2>1. Shape /\ fpc[f] \in {"seed", "walk"} /\ UNCHANGED <<fe, fnxt, wpc>>
    BY DEF RInv, CInv, IInv, Seed, Walk, localVars
  <2> QED BY <2>1 DEF Shape, TypeOK, CallsOK, WorkOK, Scheduling
<1>2. PICK n \in Instrs(f) : n = Head(work[f]) /\ n = work[f][1] /\ 1 \in 1..Len(work[f])
  BY <1>1
<1>3. PICK new \in Items : new = <<f, n>>
  BY ItemMake
<1>4. CASE UNCHANGED <<todo, state>>
  BY <1>1, <1>4, MovesFrame
<1>5. ASSUME state[f][n] = "pending", Cardinality(OpenEdges(f, n)) = 0,
             IsFiniteSet(OpenEdges(f, n)),
             todo' = Append(todo, <<f, n>>), state' = [state EXCEPT ![f][n] = "running"]
      PROVE  Moves(o)
  <2>1. OpenEdges(f, n) = {}
    BY <1>5, FS_EmptySet
  <2>2. ReadyToRun(new)
    BY <1>3, <2>1, ClosedReady
  <2> QED BY <1>1, <1>3, <1>5, <2>2, QueueStarts
<1>6. CASE Seed(f)
  <2>1. /\ fpc[f] = "seed"
        /\ \/ /\ blocks[f][n] = 0 /\ todo' = Append(todo, <<f, n>>)
              /\ state' = [state EXCEPT ![f][n] = "running"]
           \/ UNCHANGED <<todo, state>>
    BY <1>2, <1>6 DEF Seed
  <2>2. state[f][n] = "pending"
    BY <1>2, <2>1 DEF RInv, CInv, Seeding
  <2>3. /\ blocks[f][n] = Cardinality(OpenEdges(f, n))
        /\ IsFiniteSet(OpenEdges(f, n))
    BY <1>1, <2>1, <2>2, CounterExact DEF Unwalked
  <2> QED BY <1>4, <1>5, <2>1, <2>2, <2>3
<1>7. CASE Walk(f)
  <2>1. /\ fpc[f] = "walk"
        /\ \/ /\ state[f][n] = "pending" /\ blocks[f][n] = 1
              /\ todo' = Append(todo, <<f, n>>)
              /\ state' = [state EXCEPT ![f][n] = "running"]
           \/ UNCHANGED <<todo, state>>
    BY <1>2, <1>7 DEF Walk, Waits
  <2>2. Occ(work[f], n) \in Nat /\ Occ(work[f], n) > 0
    <3>1. \E k \in 1..Len(work[f]) : work[f][k] = n
      BY <1>2
    <3> QED BY <1>1, <3>1, OccType
  <2>3. ASSUME state[f][n] = "pending", blocks[f][n] = 1
        PROVE  Cardinality(OpenEdges(f, n)) = 0 /\ IsFiniteSet(OpenEdges(f, n))
    <3>1. /\ blocks[f][n] = Cardinality(OpenEdges(f, n)) + Occ(work[f], n)
          /\ Cardinality(OpenEdges(f, n)) \in Nat /\ IsFiniteSet(OpenEdges(f, n))
      BY <1>1, <2>1, <2>3, CounterExact DEF Unwalked
    <3> QED BY <2>2, <2>3, <3>1
  <2> QED BY <1>4, <1>5, <2>1, <2>3
<1> QED BY <1>6, <1>7

\* Every step moves every instruction that way.
LEMMA NextMoves ==
    ASSUME RInv, [Next]_vars, NEW o \in Items
    PROVE  Moves(o)
<1> USE DEF poolVars, localVars, queueVars, stopVars, callVars, flowVars, doneVars
<1>1. /\ Shape /\ Held /\ DOMAIN wpc = Slots /\ todo \in Seq(Items)
  BY DEF RInv, CInv, IInv, Shape, TypeOK, LocalsOK, QueueOK
<1>2. ASSUME UNCHANGED <<todo, fnxt, fe, state>>, NEW i \in Slots, NEW p,
             wpc' = wpc \/ wpc' = [wpc EXCEPT ![i] = p],
             wpc[i] \notin {"got", "admit", "run", "error"}, p \notin {"got", "admit", "run", "error"}
      PROVE  Moves(o)
  <2>1. \A j \in Slots : \/ wpc'[j] = wpc[j]
                         \/ /\ wpc[j] \notin {"got", "admit", "run", "error"}
                            /\ wpc'[j] \notin {"got", "admit", "run", "error"}
    BY <1>1, <1>2
  <2> QED BY <1>2, <2>1, MovesFrame
<1>3. ASSUME NEW i \in Slots, Worker(i) PROVE Moves(o)
  <2>1. CASE WorkerStart(i) \/ WorkerWait(i) \/ WorkerFetch(i)
    BY <1>2, <2>1 DEF WorkerStart, WorkerWait, WorkerFetch
  <2>2. CASE WorkerDown(i) \/ WorkerCompensate(i)
    BY <1>2, <2>2 DEF WorkerDown, WorkerCompensate
  <2>3. CASE WorkerEnqueue(i) \/ WorkerExit(i)
    BY <1>2, <2>3, ZenonT(30) DEF WorkerEnqueue, WorkerExit
  <2>4. CASE TakeSpecific(i)
    <3>1. ASSUME NEW k \in 1..Len(todo),
                 fe' = [fe EXCEPT ![i] = todo[k]],
                 todo' = [j \in 1..(Len(todo) - 1) |-> IF j < k THEN todo[j] ELSE todo[j + 1]],
                 wpc' = [wpc EXCEPT ![i] = "got"]
          PROVE  Moves(o)
      <4>1. todo' = Without(todo, k)
        BY <3>1 DEF Without
      <4>2. wpc[i] = "locked" /\ UNCHANGED <<fnxt, state>>
        BY <2>4 DEF TakeSpecific
      <4> QED BY <1>1, <3>1, <4>1, <4>2, TakeFetched
    <3>2. ASSUME wpc' = [wpc EXCEPT ![i] = "compensate"], UNCHANGED <<fe, todo>>
          PROVE  Moves(o)
      BY <1>2, <2>4, <3>2 DEF TakeSpecific
    <3> QED BY <2>4, <3>1, <3>2 DEF TakeSpecific
  <2>5. CASE TakeGeneric(i)
    <3>1. ASSUME Len(todo) > 0,
                 fe' = [fe EXCEPT ![i] = todo[Len(todo)]],
                 todo' = SubSeq(todo, 1, Len(todo) - 1),
                 wpc' = [wpc EXCEPT ![i] = "got"]
          PROVE  Moves(o)
      <4>1. todo # <<>>
        BY <3>1
      <4>2. todo' = Without(todo, Len(todo)) /\ Len(todo) \in 1..Len(todo)
        BY <1>1, <3>1, <4>1, WithoutEnds
      <4>3. wpc[i] = "locked" /\ UNCHANGED <<fnxt, state>>
        BY <2>5 DEF TakeGeneric
      <4> QED BY <1>1, <3>1, <4>2, <4>3, TakeFetched
    <3>2. ASSUME wpc' = [wpc EXCEPT ![i] = "exit"], UNCHANGED <<fe, todo>>
          PROVE  Moves(o)
      BY <1>2, <2>5, <3>2 DEF TakeGeneric
    <3> QED BY <2>5, <3>1, <3>2 DEF TakeGeneric
  <2> QED BY <1>3, <2>1, <2>2, <2>3, <2>4, <2>5, HandMoves, GrabStarts, RequeueFetched DEF Worker
<1>4. ASSUME NEW f \in Flows, Call(f) \/ Scheduler(f) PROVE Moves(o)
  <2>1. ASSUME UNCHANGED <<todo, fnxt, fe, state, wpc>> PROVE Moves(o)
    BY <2>1, MovesFrame
  <2>2. CASE Call(f) \/ JoinExited(f) \/ Joined(f) \/ NoSlot(f) \/ RunSerially(f)
    BY <2>1, <2>2 DEF Call, JoinExited, Joined, NoSlot, RunSerially
  <2>3. CASE AllocFails(f) \/ InitFails(f) \/ InitBlk(f) \/ Signal(f) \/ Finished(f)
    BY <2>1, <2>3 DEF AllocFails, InitFails, InitBlk, Signal, Finished
  <2>4. CASE Release(f) \/ Token(f)
    BY <2>1, <2>4 DEF Release, Token
  <2>5. CASE CreateWorker(f)
    <3>1. PICK i \in Slots : /\ flag[i] = "IDLE"
                             /\ wpc' = [wpc EXCEPT ![i] = "start"] \/ wpc' = wpc
      BY <2>5 DEF CreateWorker, LowestWith
    <3>2. wpc[i] = "none"
      BY <3>1 DEF RInv, CInv, IInv, Threading, SlotsFree
    <3>3. UNCHANGED <<todo, fnxt, fe, state>>
      BY <2>5 DEF CreateWorker
    <3> QED BY <1>2, <3>1, <3>2, <3>3
  <2> QED BY <1>4, <2>2, <2>3, <2>4, <2>5, SchedulerStarts DEF Scheduler
<1>5. CASE Stop \/ StopMark \/ StopJoin \/ Stopped \/ UNCHANGED vars
  <2>1. UNCHANGED <<todo, fnxt, fe, state, wpc>>
    BY <1>5 DEF Stop, StopMark, StopJoin, Stopped, vars
  <2> QED BY <2>1, MovesFrame
<1> QED BY <1>3, <1>4, <1>5 DEF Next

----------------------------------------------------------------------------
(***************************************************************************)
(* The parts of the invariant                                              *)
(***************************************************************************)

\* A call that has not answered had not before, and it enters the scheduler
\* with a block that is not empty.
LEMMA AnswerPhases ==
    ASSUME Shape, [Next]_vars, NEW f \in Flows
    PROVE  /\ fpc'[f] \in Unanswered => fpc[f] \in Unanswered
           /\ fpc'[f] \in Scheduling => fpc[f] \in Scheduling \/ Instrs(f) # {}
<1> USE DEF Early, Scheduling, Unanswered
<1>1. DOMAIN fpc = Flows
  BY DEF Shape, TypeOK, CallsOK
<1>2. CASE Call(f) \/ JoinExited(f) \/ Joined(f) \/ NoSlot(f) \/ RunSerially(f)
  BY <1>1, <1>2 DEF Call, JoinExited, Joined, NoSlot, RunSerially
<1>3. CASE CreateWorker(f)
  BY <1>1, <1>3 DEF CreateWorker
<1>4. CASE AllocFails(f) \/ InitFails(f) \/ InitBlk(f) \/ Seed(f) \/ Signal(f)
  BY <1>1, <1>4 DEF AllocFails, InitFails, InitBlk, Seed, Signal
<1>5. CASE Finished(f) \/ Walk(f) \/ Release(f) \/ Token(f)
  BY <1>1, <1>5 DEF Finished, Walk, Release, Token
<1>6. CASE ~(Call(f) \/ Scheduler(f))
  BY <1>6, OtherCalls
<1> QED BY <1>2, <1>3, <1>4, <1>5, <1>6 DEF Scheduler

\* Nobody answers for a call that goes on.
LEMMA AnswersNext ==
    ASSUME RInv, [Next]_vars
    PROVE  Answers'
<1> SUFFICES ASSUME NEW f \in Flows
             PROVE  /\ fpc'[f] \in Unanswered => ret'[f] = "none"
                    /\ fpc'[f] \in Scheduling => Instrs(f) # {}
  BY DEF Answers
<1>1. Shape /\ DOMAIN ret = Flows /\ DOMAIN fpc = Flows
  BY DEF RInv, CInv, IInv, Shape, TypeOK, CallsOK
<1>2. ASSUME fpc'[f] \in Unanswered PROVE ret'[f] = "none"
  <2>1. ret[f] = "none"
    BY <1>1, <1>2, AnswerPhases DEF RInv, Answers
  <2>2. ASSUME NEW g \in Flows, RunSerially(g) \/ AllocFails(g) \/ InitFails(g) \/ Release(g)
        PROVE  ret'[f] = ret[f]
    <3>1. fpc'[g] \notin Unanswered
      BY <1>1, <2>2 DEF RunSerially, AllocFails, InitFails, Release, Unanswered, Early, Scheduling
    <3>2. f # g
      BY <1>2, <3>1
    <3> QED BY <1>1, <2>2, <3>2 DEF RunSerially, AllocFails, InitFails, Release
  <2> QED BY <2>1, <2>2, Writers
<1>3. ASSUME fpc'[f] \in Scheduling PROVE Instrs(f) # {}
  BY <1>1, <1>3, AnswerPhases DEF RInv, Answers
<1> QED BY <1>2, <1>3

\* A result comes with the step to DFLOWwrapup.
LEMMA UnrunNext ==
    ASSUME RInv, [Next]_vars
    PROVE  Unrun'
<1> SUFFICES ASSUME NEW f \in Flows, fpc'[f] \in Unanswered, NEW n \in Instrs(f),
                    state'[f][n] # "wrapup"
             PROVE  stk'[f][n] = "none"
  BY DEF Unrun
<1>1. /\ Shape /\ DOMAIN fpc = Flows /\ DOMAIN stk = Flows /\ DOMAIN state = Flows
      /\ \A g \in Flows : DOMAIN stk[g] = Instrs(g) /\ DOMAIN state[g] = Instrs(g)
  BY DEF RInv, CInv, IInv, Shape, TypeOK, CallsOK, FlowsOK
<1>2. PICK o \in Items : o = <<f, n>> /\ o[1] = f /\ o[2] = n
  BY ItemMake
<1>3. state[f][n] # "wrapup"
  <2>1. Moves(o)
    BY NextMoves
  <2> QED BY <1>2, <2>1 DEF Moves, Starts, Runs, StateOf
<1>4. stk[f][n] = "none"
  BY <1>1, <1>3, AnswerPhases DEF RInv, Unrun
<1>5. ASSUME NEW i \in Slots, WorkerRun(i) PROVE stk'[f][n] = stk[f][n]
  <2>1. /\ fe[i][1] \in Flows /\ fe[i][2] \in Instrs(fe[i][1])
        /\ state' = [state EXCEPT ![fe[i][1]][fe[i][2]] = "wrapup"]
        /\ \E r : stk' = [stk EXCEPT ![fe[i][1]][fe[i][2]] = r]
    BY <1>5, RunFacts DEF WorkerRun
  <2>2. ~(fe[i][1] = f /\ fe[i][2] = n)
    BY <1>1, <2>1
  <2> QED BY <1>1, <2>1, <2>2
<1>6. ASSUME NEW g \in Flows, RunSerially(g) PROVE stk'[f][n] = stk[f][n]
  <2>1. fpc'[g] = "returned"
    BY <1>1, <1>6 DEF RunSerially
  <2>2. f # g
    BY <2>1 DEF Unanswered, Early, Scheduling
  <2> QED BY <1>1, <1>6, <2>2 DEF RunSerially
<1> QED BY <1>4, <1>5, <1>6, Writers

\* The instruction a worker runs is nowhere else on its way.
LEMMA FetchedNext ==
    ASSUME RInv, [Next]_vars
    PROVE  FetchedRunning'
<1> SUFFICES ASSUME NEW o \in Items, Fetched(o)'
             PROVE  StateOf(o)' = "running"
  BY DEF FetchedRunning, StateOf
<1>1. Moves(o)
  BY NextMoves
<1>2. CASE Starts(o)
  BY <1>2 DEF Starts
<1>3. CASE Fetched(o) /\ ~Runs(o)
  <2>1. StateOf(o) = "running"
    BY <1>3 DEF RInv, FetchedRunning, StateOf
  <2> QED BY <1>1, <1>2, <1>3, <2>1 DEF Moves
<1>4. CASE Runs(o)
  <2>1. PICK i \in Slots : WorkerRun(i) /\ fe[i] = o
    BY <1>4 DEF Runs
  <2>2. DOMAIN wpc = Slots /\ CInv
    BY DEF RInv, CInv, IInv, Shape, TypeOK, LocalsOK
  <2>3. /\ wpc[i] = "run" /\ UNCHANGED <<todo, fnxt, fe>> /\ wpc'[i] \in {"error", "grab"}
        /\ \A j \in Slots \ {i} : wpc'[j] = wpc[j]
    BY <2>1, <2>2 DEF WorkerRun, queueVars
  <2>4. /\ \A k \in 1..Len(todo) : todo[k] # o
        /\ \A j \in Slots : fnxt[j] # o
        /\ \A j \in Slots \ {i} : fe[j] = o => wpc[j] = "up"
    BY <2>1, <2>2, <2>3, Alone
  <2>5. ~Fetched(o)'
    BY <2>3, <2>4 DEF Fetched
  <2> QED BY <2>5
<1> QED BY <1>1, <1>2, <1>3, <1>4 DEF Moves

\* An instruction leaves its way with a result or an error.
LEMMA SettledNext ==
    ASSUME RInv, [Next]_vars
    PROVE  Settled'
<1> SUFFICES ASSUME NEW o \in Items, StateOf(o)' # "pending"
             PROVE  Fetched(o)' \/ Failing(o)' \/ ResultOf(o)' = "ok" \/ error'[o[1]]
  BY DEF Settled, StateOf, ResultOf, Failing
<1>1. Moves(o)
  BY NextMoves
<1>2. CASE StateOf(o) = "pending"
  <2>1. ~Runs(o)
    BY <1>2, RunFacts DEF Runs, WorkerRun
  <2>2. Starts(o)
    BY <1>1, <1>2, <2>1 DEF Moves
  <2> QED BY <2>2 DEF Starts
<1>3. CASE StateOf(o) # "pending"
  <2>1. Fetched(o) \/ Failing(o) \/ ResultOf(o) = "ok" \/ error[o[1]]
    BY <1>3 DEF RInv, Settled, StateOf, ResultOf, Failing
  <2>2. /\ ResultOf(o) = "ok" => ResultOf(o)' = "ok"
        /\ error[o[1]] => error'[o[1]]
    <3>1. o[1] \in Flows /\ o[2] \in Instrs(o[1])
      BY ItemParts
    <3> QED BY <3>1, Grows DEF ResultOf
  <2> QED BY <1>1, <2>1, <2>2 DEF Moves
<1> QED BY <1>2, <1>3

\* An instruction stays ready.
LEMMA StaysReady ==
    ASSUME RInv, [Next]_vars, NEW f \in Flows, NEW n \in Instrs(f),
           error[f] \/ \A p \in Abstract!Producers(f, n) : stk[f][p] = "ok"
    PROVE  error'[f] \/ \A p \in Abstract!Producers(f, n) : stk'[f][p] = "ok"
<1>1. \A p \in Abstract!Producers(f, n) : p \in Instrs(f)
  BY ProducerEdge
<1>2. \A p \in Instrs(f) : stk[f][p] = "ok" => stk'[f][p] = "ok"
  BY Grows
<1>3. error[f] => error'[f]
  BY Grows
<1> QED BY <1>1, <1>2, <1>3

\* An instruction is started when it is ready.
LEMMA ReadyNext ==
    ASSUME RInv, [Next]_vars
    PROVE  Ready'
<1> SUFFICES ASSUME NEW f \in Flows, NEW n \in Instrs(f), state'[f][n] # "pending"
             PROVE  error'[f] \/ \A p \in Abstract!Producers(f, n) : stk'[f][p] = "ok"
  BY DEF Ready, Abstract!Producers
<1>1. PICK o \in Items : o = <<f, n>> /\ o[1] = f /\ o[2] = n
  BY ItemMake
<1>2. Moves(o)
  BY NextMoves
<1>3. error[f] \/ \A p \in Abstract!Producers(f, n) : stk[f][p] = "ok"
  <2>1. CASE state[f][n] # "pending"
    BY <2>1 DEF RInv, Ready
  <2>2. CASE state[f][n] = "pending"
    <3> StateOf(o) = "pending"
      BY <1>1, <2>2 DEF StateOf
    <3>1. ~Runs(o)
      BY RunFacts DEF Runs, WorkerRun
    <3>2. Starts(o)
      BY <1>1, <1>2, <2>2, <3>1 DEF Moves, StateOf
    <3> QED BY <1>1, <3>2 DEF Starts, ReadyToRun
  <2> QED BY <2>1, <2>2
<1> QED BY <1>3, StaysReady

\* Where a worker at an instruction was before the step.
Before(i) == \/ wpc[i] = wpc'[i]
             \/ wpc[i] = "admit" /\ wpc'[i] = "run"

\* How a worker comes to run an instruction or to record an error.
LEMMA ToOutcome ==
    ASSUME Shape, [Next]_vars, NEW i \in Slots, wpc'[i] \in {"admit", "run", "error"}
    PROVE  \/ Before(i) /\ fe'[i] = fe[i]
           \/ WorkerCheck(i) /\ wpc'[i] = "admit"
           \/ WorkerRun(i) /\ wpc'[i] = "error"
<1>1. DOMAIN wpc = Slots /\ DOMAIN fe = Slots
  BY DEF Shape, TypeOK, LocalsOK
<1>2. ASSUME NEW j \in Slots, Worker(j), j # i PROVE wpc[i] = wpc'[i] /\ fe'[i] = fe[i]
  BY <1>2, WorkerKeeps DEF WorkerFrame
<1>3. ASSUME Worker(i)
      PROVE  \/ Before(i) /\ fe'[i] = fe[i]
             \/ WorkerCheck(i) /\ wpc'[i] = "admit"
             \/ WorkerRun(i) /\ wpc'[i] = "error"
  <2>1. CASE WorkerStart(i) \/ WorkerWait(i) \/ WorkerFetch(i) \/ WorkerDown(i)
    BY <1>1, <2>1 DEF WorkerStart, WorkerWait, WorkerFetch, WorkerDown
  <2>2. CASE TakeSpecific(i) \/ WorkerCompensate(i) \/ TakeGeneric(i)
    BY <1>1, <2>2 DEF TakeSpecific, WorkerCompensate, TakeGeneric
  <2>3. CASE WorkerCheck(i)
    BY <1>1, <2>3 DEF WorkerCheck
  <2>4. CASE WorkerRun(i)
    BY <1>1, <2>4 DEF WorkerRun
  <2>5. CASE WorkerError(i) \/ WorkerGrab(i) \/ WorkerEnqueue(i) \/ WorkerUp(i) \/ WorkerExit(i)
    BY <1>1, <2>5 DEF WorkerError, WorkerGrab, WorkerEnqueue, WorkerUp, WorkerExit
  <2>6. CASE Admit(i) \/ Requeue(i)
    BY <1>1, <2>6 DEF Admit, Requeue, Before
  <2> QED BY <1>3, <2>1, <2>2, <2>3, <2>4, <2>5, <2>6 DEF Worker
<1>4. ASSUME NEW f \in Flows, Call(f) \/ Scheduler(f)
      PROVE  wpc[i] = wpc'[i] /\ fe'[i] = fe[i]
  <2>1. /\ fe' = fe
        /\ wpc' = wpc \/ \E j \in Slots : wpc' = [wpc EXCEPT ![j] = "start"]
    BY <1>4 DEF Call, Scheduler, JoinExited, Joined, CreateWorker, NoSlot, RunSerially,
         AllocFails, InitFails, InitBlk, Seed, Signal, Finished, Walk, Release, Token, localVars
  <2> QED BY <1>1, <2>1
<1>5. CASE Stop \/ StopMark \/ StopJoin \/ Stopped \/ UNCHANGED vars
  BY <1>5 DEF Stop, StopMark, StopJoin, Stopped, vars, localVars, Before
<1> QED BY <1>2, <1>3, <1>4, <1>5 DEF Next, Before

\* A worker looks at the error before it runs an instruction; the producers
\* it finds successful stay so.
LEMMA OutcomesNext ==
    ASSUME RInv, [Next]_vars
    PROVE  Outcomes'
<1> SUFFICES ASSUME NEW i \in Slots, wpc'[i] \in {"admit", "run", "error"}
             PROVE  /\ wpc'[i] \in {"admit", "run"} =>
                          \A p \in Abstract!Producers(fe'[i][1], fe'[i][2]) :
                             stk'[fe'[i][1]][p] = "ok"
                    /\ wpc'[i] = "error" => stk'[fe'[i][1]][fe'[i][2]] = "err"
  BY DEF Outcomes, Abstract!Producers
<1>1. /\ Shape /\ DOMAIN wpc = Slots /\ DOMAIN stk = Flows
      /\ \A g \in Flows : DOMAIN stk[g] = Instrs(g)
  BY DEF RInv, CInv, IInv, Shape, TypeOK, LocalsOK, FlowsOK
<1>2. CASE Before(i) /\ fe'[i] = fe[i]
  <2>1. PICK o \in Items : o = fe[i] /\ o[1] \in Flows /\ o[2] \in Instrs(o[1])
    BY <1>2, WorkerIsLive, ItemParts DEF RInv, Handling, Before
  <2>2. /\ wpc[i] \in {"admit", "run"} =>
              \A p \in Abstract!Producers(o[1], o[2]) : stk[o[1]][p] = "ok"
        /\ wpc[i] = "error" => stk[o[1]][o[2]] = "err"
    BY <2>1 DEF RInv, Outcomes
  <2>3. \A p \in Abstract!Producers(o[1], o[2]) : p \in Instrs(o[1])
    BY <2>1, ProducerEdge
  <2>4. \A p \in Instrs(o[1]) : stk[o[1]][p] # "none" => stk'[o[1]][p] = stk[o[1]][p]
    BY <2>1, Grows
  <2>5. /\ wpc[i] \in {"admit", "run"} =>
              \A p \in Abstract!Producers(o[1], o[2]) : stk'[o[1]][p] = "ok"
        /\ wpc[i] = "error" => stk'[o[1]][o[2]] = "err"
    BY <2>1, <2>2, <2>3, <2>4
  <2> QED BY <1>2, <2>1, <2>5 DEF Before
<1>3. CASE WorkerCheck(i) /\ wpc'[i] = "admit"
  <2>1. wpc[i] = "got" /\ ~error[fe[i][1]] /\ UNCHANGED <<fe, stk>>
    BY <1>1, <1>3 DEF WorkerCheck, Skips
  <2>2. PICK o \in Items : o = fe[i] /\ o[1] \in Flows /\ o[2] \in Instrs(o[1])
    BY <2>1, WorkerIsLive, ItemParts DEF RInv, Handling
  <2>3. state[o[1]][o[2]] = "running"
    BY <2>1, <2>2 DEF RInv, FetchedRunning, Fetched
  <2>4. \A p \in Abstract!Producers(o[1], o[2]) : stk[o[1]][p] = "ok"
    BY <2>1, <2>2, <2>3 DEF RInv, Ready
  <2> QED BY <1>3, <2>1, <2>2, <2>4
<1>4. CASE WorkerRun(i) /\ wpc'[i] = "error"
  <2>1. fe' = fe /\ stk' = [stk EXCEPT ![fe[i][1]][fe[i][2]] = "err"] /\ wpc[i] = "run"
    BY <1>1, <1>4 DEF WorkerRun
  <2>2. fe[i][1] \in Flows /\ fe[i][2] \in Instrs(fe[i][1])
    BY <2>1, RunFacts
  <2> QED BY <1>1, <1>4, <2>1, <2>2
<1> QED BY <1>1, <1>2, <1>3, <1>4, ToOutcome

\* An error has an instruction that failed.
LEMMA ReportedNext ==
    ASSUME RInv, [Next]_vars
    PROVE  Reported'
<1> SUFFICES ASSUME NEW f \in Flows, error'[f]
             PROVE  \E n \in Instrs(f) : stk'[f][n] = "err"
  BY DEF Reported
<1>1. DOMAIN error = Flows
  BY DEF RInv, CInv, IInv, Shape, TypeOK, FlowsOK
<1>2. \E n \in Instrs(f) : stk[f][n] = "err"
  <2>1. CASE error[f]
    BY <2>1 DEF RInv, Reported
  <2>2. ASSUME NEW i \in Slots, WorkerError(i), ~error[f]
        PROVE  \E n \in Instrs(f) : stk[f][n] = "err"
    <3>1. wpc[i] = "error" /\ error' = [error EXCEPT ![fe[i][1]] = TRUE]
      BY <2>2 DEF WorkerError
    <3>2. fe[i][1] = f
      BY <1>1, <2>2, <3>1
    <3>3. fe[i] \in Items /\ fe[i][2] \in Instrs(f)
      BY <3>1, <3>2, WorkerIsLive, ItemParts DEF RInv, Handling
    <3>4. stk[f][fe[i][2]] = "err"
      BY <3>1, <3>2 DEF RInv, Outcomes
    <3> QED BY <3>3, <3>4
  <2> QED BY <2>1, <2>2, Writers
<1> QED BY <1>2, Grows

----------------------------------------------------------------------------
(***************************************************************************)
(* The refinement                                                          *)
(***************************************************************************)

\* At first nothing ran.
LEMMA InitRInv == Init => RInv
<1> SUFFICES ASSUME Init PROVE RInv
  OBVIOUS
<1>1. CInv
  BY InitCInv
<1>2. BlocksExact
  BY DEF Init, BlocksExact
<1>3. Answers /\ Unrun /\ Reported
  BY DEF Init, Answers, Unrun, Reported, Scheduling
<1>4. FetchedRunning
  BY ItemParts DEF Init, FetchedRunning, Fetched
<1>5. Settled
  BY ItemParts DEF Init, Settled
<1>6. Ready
  BY DEF Init, Ready
<1>7. Outcomes
  BY DEF Init, Outcomes
<1> QED BY <1>1, <1>2, <1>3, <1>4, <1>5, <1>6, <1>7 DEF RInv

\* Every step keeps the invariant.
LEMMA NextRInv == RInv /\ [Next]_vars => RInv'
<1> SUFFICES ASSUME RInv, [Next]_vars PROVE RInv'
  OBVIOUS
<1>1. CInv'
  BY NextCInv DEF RInv
<1>2. BlocksExact'
  BY NextBlocks DEF RInv
<1> QED BY <1>1, <1>2, AnswersNext, UnrunNext, FetchedNext, SettledNext, ReadyNext, OutcomesNext,
           ReportedNext DEF RInv

\* A call answers with what became of its instructions.
LEMMA ReleaseAnswers ==
    ASSUME RInv, NEW f \in Flows, Release(f)
    PROVE  Abstract!Answer(f)
<1>1. /\ ret' = [ret EXCEPT ![f] = IF error[f] THEN "error" ELSE "ok"] /\ stk' = stk
      /\ fpc[f] = "wait" /\ AllBack(f)
  BY DEF Release
<1>2. ret[f] = "none" /\ Instrs(f) # {}
  BY <1>1 DEF RInv, Answers, Unanswered, Scheduling
<1>3. CASE error[f]
  <2>1. \E n \in Instrs(f) : stk[f][n] = "err"
    BY <1>3 DEF RInv, Reported
  <2> QED BY <1>1, <1>2, <1>3, <2>1 DEF Abstract!Answer, Abstract!Instrs, Instrs
<1>4. CASE ~error[f]
  <2>1. ASSUME NEW n \in Instrs(f) PROVE stk[f][n] = "ok"
    <3>1. PICK o \in Items : o = <<f, n>> /\ o[1] = f /\ o[2] = n
      BY ItemMake
    <3>2. Copies(o) = 0
      BY <1>1, <3>1, AllBackClean DEF RInv
    <3>3. StateOf(o) # "pending"
      <4>1. n \in Gone(f)
        BY <1>1, AllGone DEF RInv
      <4> QED BY <3>1, <4>1 DEF Gone, StateOf
    <3>4. ~(Copies(o) > 0)
      BY <3>2
    <3> QED BY <1>4, <3>1, <3>3, <3>4, GoneSettled DEF ResultOf
  <2> QED BY <1>1, <1>2, <1>4, <2>1 DEF Abstract!Answer, Abstract!Instrs, Instrs
<1> QED BY <1>3, <1>4

\* Every step of the scheduler and its workers is a step of the abstract
\* execution, or none.
LEMMA StepRefines == RInv /\ [Next]_vars => [Abstract!Next]_<<stk, ret>>
<1> SUFFICES ASSUME RInv, [Next]_vars PROVE [Abstract!Next]_<<stk, ret>>
  OBVIOUS
<1>1. ASSUME NEW i \in Slots, WorkerRun(i) PROVE Abstract!Next
  <2>1. PICK f \in Flows : f = fe[i][1] /\ fe[i][2] \in Instrs(f)
    BY <1>1, RunFacts DEF WorkerRun
  <2>2. PICK n \in Instrs(f) : n = fe[i][2]
    BY <2>1
  <2>3. /\ ret[f] = "none" /\ stk[f][n] = "none"
        /\ \A p \in Abstract!Producers(f, n) : stk[f][p] = "ok"
    BY <1>1, <2>1, <2>2, RunFacts DEF WorkerRun, ResultOf
  <2>4. /\ \E r \in {"ok", "err"} : stk' = [stk EXCEPT ![f][n] = r]
        /\ UNCHANGED ret
    BY <1>1, <2>1, <2>2 DEF WorkerRun, callVars
  <2>5. Abstract!Execute(f, n)
    BY <2>3, <2>4 DEF Abstract!Execute
  <2> QED BY <2>5 DEF Abstract!Next, Abstract!Instrs, Instrs
<1>2. ASSUME NEW f \in Flows, RunSerially(f) PROVE Abstract!Next
  <2>1. ret[f] = "none" /\ \A n \in Instrs(f) : stk[f][n] = "none"
    BY <1>2, SerialFacts DEF RunSerially, Early
  <2>2. Abstract!RunSerially(f)
    BY <1>2, <2>1 DEF RunSerially, Abstract!RunSerially, Abstract!Instrs, Instrs
  <2> QED BY <2>2 DEF Abstract!Next
<1>3. ASSUME NEW f \in Flows, AllocFails(f) \/ InitFails(f) PROVE Abstract!Next
  <2>1. ret[f] = "none" /\ \A n \in Instrs(f) : stk[f][n] = "none"
    BY <1>3, SerialFacts DEF AllocFails, InitFails, Early
  <2>2. ret' = [ret EXCEPT ![f] = "error"] /\ stk' = stk
    BY <1>3 DEF AllocFails, InitFails
  <2>3. Abstract!Answer(f)
    BY <2>1, <2>2 DEF Abstract!Answer, Abstract!Instrs, Instrs
  <2> QED BY <2>3 DEF Abstract!Next
<1>4. ASSUME NEW f \in Flows, Release(f) PROVE Abstract!Next
  BY <1>4, ReleaseAnswers DEF Abstract!Next
<1> QED BY <1>1, <1>2, <1>3, <1>4, Writers

\* The pool of workers, the queues and the counters do what running the
\* block one instruction at a time would: every instruction is executed at
\* most once and after all its producers succeeded, none after the caller
\* got its answer, and the answer is success only when every instruction
\* succeeded, for any pool, any sessions and any dependencies.
THEOREM Refinement == Spec => ImplementsSpec
<1>1. Init => Abstract!Init
  BY DEF Init, Abstract!Init, Abstract!Instrs, Instrs
<1> QED BY <1>1, InitRInv, NextRInv, StepRefines, PTL DEF Spec, ImplementsSpec, Abstract!Spec
=============================================================================
