------------------------ MODULE DataflowGraphProofs ------------------------
(***************************************************************************)
(* The graph of a dataflow block for any variables and any blocks: an      *)
(* instruction wakes those that must follow it and no others, and each     *)
(* entry of a wakeup list is counted once where it leads.                  *)
(***************************************************************************)
EXTENDS DataflowGraph, FiniteSetTheorems, TLAPS

\* The types, and where the loops of the code are.
Shape ==
    /\ block \in Inputs
    /\ pc \in 1..(Len(block.instrs) + 1)
    /\ arg \in Nat \ {0}
    /\ side \in {"use", "free"}
    /\ side = "free" => pc \in Instrs /\ arg <= Len(Args(pc))
    /\ assign \in [Vars -> Nat]
    /\ wake \in [Instrs -> Seq(Instrs)]
    /\ blocks \in [Instrs -> Nat]

\* k is the latest instruction before n that assigned v, or there is none.
Latest(v, n, k) ==
    \/ k = 0 /\ \A i \in Instrs : i < n => v \notin Rets(i)
    \/ k \in Instrs /\ ReadsFrom(n, k, v)

AssignExact == \A v \in Vars : Latest(v, pc, assign[v])

\* The two edges of argument j of instruction n have been looked at.
Used(n, j)  == n < pc \/ (n = pc /\ (j < arg \/ (j = arg /\ side = "free")))
Freed(n, j) == n < pc \/ (n = pc /\ j < arg)

\* The part of MustFollow that has been looked at.
UseSeen(n, m)  == \E j \in 1..Len(Args(m)) : Used(m, j) /\ ReadsFrom(m, n, Args(m)[j])
FreeSeen(n, m) == \E j \in 1..Len(Args(n)) : Freed(n, j) /\ n # m /\ block.eolife[Args(n)[j]] = m

WakesSeen == \A n, m \in Instrs : m \in Wakes(n) <=> UseSeen(n, m) \/ FreeSeen(n, m)

\* The blocking counters count the entries.
Counted == \A m \in Instrs : IsFiniteSet(Entries(m)) /\ blocks[m] = Cardinality(Entries(m))

IInv == Shape /\ AssignExact /\ WakesSeen /\ Counted

----------------------------------------------------------------------------
\* A block of Inputs: its instructions, its arguments and their ends of life.
LEMMA BlockType ==
    ASSUME block \in Inputs
    PROVE  /\ Len(block.instrs) \in Nat
           /\ \A n \in Instrs : Args(n) \in Seq(Vars) /\ Len(Args(n)) \in Nat
           /\ \A n \in Instrs : \A j \in 1..Len(Args(n)) :
                 /\ Args(n)[j] \in Vars
                 /\ block.eolife[Args(n)[j]] \in Nat
                 /\ block.eolife[Args(n)[j]] \in Instrs => n <= block.eolife[Args(n)[j]]
<1>1. block.instrs \in Seq([rets : Seq(Vars), args : Seq(Vars)]) /\ block.eolife \in [Vars -> Nat]
  BY InputsAssumption
<1>2. Len(block.instrs) \in Nat
  BY <1>1
<1>3. ASSUME NEW n \in Instrs
      PROVE  Args(n) \in Seq(Vars) /\ Len(Args(n)) \in Nat
  <2> DEFINE Instructions == [rets : Seq(Vars), args : Seq(Vars)]
  <2>1. block.instrs[n] \in Instructions
    <3>1. block.instrs \in Seq(Instructions) /\ n \in 1..Len(block.instrs)
      BY <1>1 DEF Instrs
    <3> HIDE DEF Instructions
    <3> QED BY <3>1
  <2>2. Args(n) \in Seq(Vars)
    BY <2>1 DEF Args
  <2> QED BY <2>2
<1>4. ASSUME NEW n \in Instrs, NEW j \in 1..Len(Args(n))
      PROVE  /\ Args(n)[j] \in Vars
             /\ block.eolife[Args(n)[j]] \in Nat
             /\ block.eolife[Args(n)[j]] \in Instrs => n <= block.eolife[Args(n)[j]]
  <2>1. Args(n)[j] \in Vars
    BY <1>3
  <2>2. block.eolife[Args(n)[j]] \in Nat
    BY <2>1, <1>1
  <2>3. block.eolife[Args(n)[j]] \in Instrs => n <= block.eolife[Args(n)[j]]
    BY InputsAssumption DEF Instrs, Args
  <2> QED BY <2>1, <2>2, <2>3
<1> QED BY <1>2, <1>3, <1>4

\* The argument that is looked at.
LEMMA Looked ==
    ASSUME Shape, pc \in Instrs, arg <= Len(Args(pc))
    PROVE  /\ arg \in 1..Len(Args(pc)) /\ Args(pc)[arg] \in Vars
           /\ block.eolife[Args(pc)[arg]] \in Nat
           /\ block.eolife[Args(pc)[arg]] \in Instrs => pc <= block.eolife[Args(pc)[arg]]
<1>1. arg \in 1..Len(Args(pc))
  BY BlockType DEF Shape
<1> QED BY <1>1, BlockType DEF Shape

----------------------------------------------------------------------------
(***************************************************************************)
(* Adding an edge                                                          *)
(***************************************************************************)

\* The lists after an edge was added.
LEMMA AddEdgeLists ==
    ASSUME Shape, NEW from \in Instrs, NEW to \in Instrs, AddEdge(from, to), block' = block
    PROVE  /\ wake' \in [Instrs -> Seq(Instrs)]
           /\ blocks' \in [Instrs -> Nat]
           /\ wake'[from] = Append(wake[from], to)
           /\ \A n \in Instrs : n # from => wake'[n] = wake[n]
           /\ \A m \in Instrs : blocks'[m] = IF m = to THEN blocks[m] + 1 ELSE blocks[m]
<1>1. wake \in [Instrs -> Seq(Instrs)] /\ blocks \in [Instrs -> Nat]
  BY DEF Shape
<1>2. wake[from] \in Seq(Instrs) /\ blocks[to] \in Nat
  BY <1>1
<1>3. Append(wake[from], to) \in Seq(Instrs)
  BY <1>2
<1>4. wake' = [wake EXCEPT ![from] = Append(wake[from], to)]
  BY DEF AddEdge
<1>5. blocks' = [blocks EXCEPT ![to] = blocks[to] + 1]
  BY DEF AddEdge
<1>6. wake' \in [Instrs -> Seq(Instrs)]
  BY <1>1, <1>3, <1>4
<1>7. blocks' \in [Instrs -> Nat]
  BY <1>1, <1>2, <1>5
<1> QED BY <1>1, <1>4, <1>5, <1>6, <1>7

\* The instructions that are woken after an edge was added.
LEMMA AddEdgeWakes ==
    ASSUME Shape, NEW from \in Instrs, NEW to \in Instrs, AddEdge(from, to), block' = block
    PROVE  \A n, m \in Instrs : m \in Wakes(n)' <=> m \in Wakes(n) \/ (n = from /\ m = to)
<1> SUFFICES ASSUME NEW n \in Instrs, NEW m \in Instrs
             PROVE  m \in Wakes(n)' <=> m \in Wakes(n) \/ (n = from /\ m = to)
  OBVIOUS
<1>1. CASE n # from
  <2>1. wake'[n] = wake[n]
    BY <1>1, AddEdgeLists
  <2> QED BY <2>1, <1>1 DEF Wakes
<1>2. CASE n = from
  <2> DEFINE w == wake[from]
  <2>1. w \in Seq(Instrs) /\ Len(w) \in Nat
    BY DEF Shape
  <2>2. wake'[n] = Append(w, to)
    BY <1>2, AddEdgeLists
  <2> HIDE DEF w
  <2>3. Len(Append(w, to)) = Len(w) + 1 /\ Append(w, to)[Len(w) + 1] = to
    BY <2>1
  <2>4. \A k \in 1..Len(w) : Append(w, to)[k] = w[k]
    BY <2>1
  <2>5. 1..(Len(w) + 1) = (1..Len(w)) \cup {Len(w) + 1}
    BY <2>1
  <2>6. Wakes(n)' = {Append(w, to)[k] : k \in 1..(Len(w) + 1)}
    BY <2>2, <2>3 DEF Wakes
  <2>7. Wakes(n)' = {w[k] : k \in 1..Len(w)} \cup {to}
    BY <2>6, <2>3, <2>4, <2>5
  <2>8. Wakes(n) = {w[k] : k \in 1..Len(w)}
    BY <1>2 DEF Wakes, w
  <2> QED BY <1>2, <2>7, <2>8
<1> QED BY <1>1, <1>2

\* The entries, one by one.
LEMMA EntryMember ==
    ASSUME NEW m
    PROVE  \A e : e \in Entries(m) <=>
              \E n \in Instrs : \E k \in 1..Len(wake[n]) : e = <<n, k>> /\ wake[n][k] = m
<1> SUFFICES ASSUME NEW e
             PROVE  e \in Entries(m) <=>
                       \E n \in Instrs : \E k \in 1..Len(wake[n]) : e = <<n, k>> /\ wake[n][k] = m
  OBVIOUS
<1> DEFINE All == UNION {{n} \X (1..Len(wake[n])) : n \in Instrs}
<1>1. e \in All <=> \E n \in Instrs : \E k \in 1..Len(wake[n]) : e = <<n, k>>
  OBVIOUS
<1>2. e \in Entries(m) <=> e \in All /\ wake[e[1]][e[2]] = m
  BY DEF Entries
<1> HIDE DEF All
<1> QED BY <1>1, <1>2

\* The same after a step.
LEMMA EntryMemberNext ==
    ASSUME NEW m, block' = block
    PROVE  \A e : e \in Entries(m)' <=>
              \E n \in Instrs : \E k \in 1..Len(wake'[n]) : e = <<n, k>> /\ wake'[n][k] = m
<1> SUFFICES ASSUME NEW e
             PROVE  e \in Entries(m)' <=>
                       \E n \in Instrs : \E k \in 1..Len(wake'[n]) : e = <<n, k>> /\ wake'[n][k] = m
  OBVIOUS
<1>0. Instrs' = Instrs
  BY DEF Instrs
<1> DEFINE All == UNION {{n} \X (1..Len(wake'[n])) : n \in Instrs}
<1>1. e \in All <=> \E n \in Instrs : \E k \in 1..Len(wake'[n]) : e = <<n, k>>
  OBVIOUS
<1>2. e \in Entries(m)' <=> e \in All /\ wake'[e[1]][e[2]] = m
  BY <1>0 DEF Entries
<1> HIDE DEF All
<1> QED BY <1>1, <1>2

\* An edge adds one entry, and counts it.
LEMMA AddEdgeCounted ==
    ASSUME Shape, Counted, NEW from \in Instrs, NEW to \in Instrs, AddEdge(from, to), block' = block
    PROVE  Counted'
<1>0. Instrs' = Instrs
  BY DEF Instrs
<1> SUFFICES ASSUME NEW m \in Instrs
             PROVE  IsFiniteSet(Entries(m)') /\ blocks'[m] = Cardinality(Entries(m)')
  BY <1>0 DEF Counted
<1> DEFINE w == wake[from]
           new == <<from, Len(w) + 1>>
<1>1. w \in Seq(Instrs) /\ Len(w) \in Nat
  BY DEF Shape
<1>2. wake'[from] = Append(w, to) /\ \A n \in Instrs : n # from => wake'[n] = wake[n]
  BY AddEdgeLists
<1>3. IsFiniteSet(Entries(m)) /\ blocks[m] = Cardinality(Entries(m))
  BY DEF Counted
<1>4. Len(Append(w, to)) = Len(w) + 1 /\ Append(w, to)[Len(w) + 1] = to
  BY <1>1
<1>5. \A k \in 1..Len(w) : Append(w, to)[k] = w[k]
  BY <1>1
<1>6. \A k : k \in 1..(Len(w) + 1) <=> k \in 1..Len(w) \/ k = Len(w) + 1
  BY <1>1
<1>7. \A e : e \in Entries(m)' <=> e \in Entries(m) \/ (m = to /\ e = new)
  <2> SUFFICES ASSUME NEW e
               PROVE  e \in Entries(m)' <=> e \in Entries(m) \/ (m = to /\ e = new)
    OBVIOUS
  <2>1. ASSUME NEW n \in Instrs, n # from
        PROVE  (\E k \in 1..Len(wake'[n]) : e = <<n, k>> /\ wake'[n][k] = m)
                 <=> (\E k \in 1..Len(wake[n]) : e = <<n, k>> /\ wake[n][k] = m)
    BY <1>2, <2>1
  <2>2. (\E k \in 1..Len(wake'[from]) : e = <<from, k>> /\ wake'[from][k] = m)
          <=> (\E k \in 1..Len(w) : e = <<from, k>> /\ w[k] = m) \/ (m = to /\ e = new)
    <3> HIDE DEF w
    <3>1. (\E k \in 1..(Len(w) + 1) : e = <<from, k>> /\ Append(w, to)[k] = m)
            <=> (\E k \in 1..Len(w) : e = <<from, k>> /\ w[k] = m) \/ (m = to /\ e = new)
      BY <1>4, <1>5, <1>6
    <3> QED BY <3>1, <1>2, <1>4
  <2> QED BY <2>1, <2>2, EntryMember, EntryMemberNext
<1>8. new \notin Entries(m)
  <2> SUFFICES ASSUME new \in Entries(m) PROVE FALSE
    OBVIOUS
  <2>1. PICK n \in Instrs : \E k \in 1..Len(wake[n]) : new = <<n, k>> /\ wake[n][k] = m
    BY EntryMember
  <2>2. Len(w) + 1 \in 1..Len(w)
    BY <2>1
  <2> QED BY <2>2, <1>1
<1>9. CASE m = to
  <2>1. Entries(m)' = Entries(m) \cup {new}
    BY <1>7, <1>9
  <2>2. IsFiniteSet(Entries(m) \cup {new})
         /\ Cardinality(Entries(m) \cup {new}) = Cardinality(Entries(m)) + 1
    BY <1>3, <1>8, FS_AddElement
  <2>3. blocks'[m] = blocks[m] + 1
    BY <1>9, AddEdgeLists
  <2> QED BY <2>1, <2>2, <2>3, <1>3
<1>10. CASE m # to
  <2>1. Entries(m)' = Entries(m)
    BY <1>7, <1>10
  <2>2. blocks'[m] = blocks[m]
    BY <1>10, AddEdgeLists
  <2> QED BY <2>1, <2>2, <1>3
<1> QED BY <1>9, <1>10
----------------------------------------------------------------------------
(***************************************************************************)
(* The invariant                                                           *)
(***************************************************************************)

\* The graph before the first instruction is looked at.
LEMMA Initially == Init => IInv
<1> SUFFICES ASSUME Init PROVE IInv
  OBVIOUS
<1>1. Len(block.instrs) \in Nat
  BY BlockType DEF Init
<1>2. Shape
  <2>1. wake \in [Instrs -> Seq(Instrs)] /\ blocks \in [Instrs -> Nat]
    BY DEF Init
  <2> QED BY <1>1, <2>1 DEF Shape, Init
<1>3. AssignExact
  BY <1>1 DEF AssignExact, Latest, Init, Instrs
<1>4. \A n \in Instrs : Len(wake[n]) = 0
  BY DEF Init
<1>5. WakesSeen
  <2> SUFFICES ASSUME NEW n \in Instrs, NEW m \in Instrs
               PROVE  m \notin Wakes(n) /\ ~UseSeen(n, m) /\ ~FreeSeen(n, m)
    BY DEF WakesSeen
  <2>1. m \notin Wakes(n)
    BY <1>4 DEF Wakes
  <2>2. \A i \in Instrs : \A j \in Nat \ {0} : ~Used(i, j) /\ ~Freed(i, j)
    BY <1>1 DEF Used, Freed, Init, Instrs
  <2>3. \A i \in Instrs : \A j \in 1..Len(Args(i)) : j \in Nat \ {0}
    BY BlockType DEF Init
  <2> QED BY <2>1, <2>2, <2>3 DEF UseSeen, FreeSeen
<1>6. Counted
  <2> SUFFICES ASSUME NEW m \in Instrs
               PROVE  IsFiniteSet(Entries(m)) /\ blocks[m] = Cardinality(Entries(m))
    BY DEF Counted
  <2>1. Entries(m) = {}
    BY <1>4, EntryMember
  <2>2. blocks[m] = 0
    BY DEF Init
  <2> QED BY <2>1, <2>2, FS_EmptySet
<1> QED BY <1>2, <1>3, <1>5, <1>6 DEF IInv

\* What a step that keeps the lists keeps.
LEMMA NoEdgeKeeps ==
    ASSUME IInv, NoEdge, block' = block
    PROVE  /\ \A n, m \in Instrs : m \in Wakes(n)' <=> m \in Wakes(n)
           /\ Counted'
<1>1. \A n, m \in Instrs : m \in Wakes(n)' <=> m \in Wakes(n)
  BY DEF NoEdge, Wakes
<1>2. Counted'
  BY DEF NoEdge, IInv, Counted, Entries, Instrs
<1> QED BY <1>1, <1>2

\* The latest assignment of v is what reads the value of v.
LEMMA LatestReads ==
    ASSUME block \in Inputs, NEW v \in Vars, NEW m \in Instrs, NEW k, Latest(v, m, k)
    PROVE  \A n \in Instrs : ReadsFrom(m, n, v) <=> n = k
<1> SUFFICES ASSUME NEW n \in Instrs
             PROVE  ReadsFrom(m, n, v) <=> n = k
  OBVIOUS
<1>0. Len(block.instrs) \in Nat
  BY BlockType
<1>1. CASE k = 0 /\ \A i \in Instrs : i < m => v \notin Rets(i)
  BY <1>0, <1>1 DEF ReadsFrom, Instrs
<1>2. CASE k \in Instrs /\ ReadsFrom(m, k, v)
  BY <1>0, <1>2 DEF ReadsFrom, Instrs
<1> QED BY <1>1, <1>2 DEF Latest

\* The use of an argument adds the edge from what assigned it.
LEMMA UseEdgeKeeps == IInv /\ UseEdge => IInv'
<1> SUFFICES ASSUME IInv, UseEdge PROVE IInv'
  OBVIOUS
<1> DEFINE v == Args(pc)[arg]
           k == assign[v]
<1>0. Shape /\ AssignExact /\ WakesSeen /\ Counted
  BY DEF IInv
<1>1. /\ block' = block /\ pc' = pc /\ arg' = arg /\ assign' = assign /\ side' = "free"
      /\ pc \in Instrs /\ arg <= Len(Args(pc)) /\ side = "use"
  BY DEF UseEdge, Looking
<1>2. Instrs' = Instrs /\ \A n : Args(n)' = Args(n) /\ Rets(n)' = Rets(n)
  BY <1>1 DEF Instrs, Args, Rets
<1>3. arg \in 1..Len(Args(pc)) /\ v \in Vars /\ block \in Inputs
  BY <1>0, <1>1, Looked DEF Shape
<1>4. Latest(v, pc, k)
  BY <1>0, <1>3 DEF AssignExact
<1>5. \A n \in Instrs : ReadsFrom(pc, n, v) <=> n = k
  BY <1>1, <1>3, <1>4, LatestReads
<1>6. k = 0 \/ k \in Instrs
  BY <1>4 DEF Latest
<1>7. /\ wake' \in [Instrs -> Seq(Instrs)] /\ blocks' \in [Instrs -> Nat]
      /\ \A n, m \in Instrs : m \in Wakes(n)' <=> m \in Wakes(n) \/ (n = k /\ m = pc)
      /\ Counted'
  <2>1. CASE k # 0
    <3>1. AddEdge(k, pc)
      BY <2>1 DEF UseEdge
    <3>2. k \in Instrs
      BY <2>1, <1>6
    <3> HIDE DEF k
    <3> QED BY <3>1, <3>2, <1>0, <1>1, AddEdgeLists, AddEdgeWakes, AddEdgeCounted
  <2>2. CASE k = 0
    <3>1. NoEdge
      BY <2>2 DEF UseEdge
    <3>2. k \notin Instrs
      BY <2>2 DEF Instrs
    <3> HIDE DEF k
    <3>3. wake' \in [Instrs -> Seq(Instrs)] /\ blocks' \in [Instrs -> Nat]
      BY <3>1, <1>0 DEF NoEdge, Shape
    <3> QED BY <3>1, <3>2, <3>3, <1>1, NoEdgeKeeps
  <2> QED BY <2>1, <2>2
<1> HIDE DEF k
<1>8. Shape'
  BY <1>0, <1>1, <1>2, <1>7 DEF Shape
<1>9. AssignExact'
  BY <1>0, <1>1, <1>2 DEF AssignExact, Latest, ReadsFrom
<1>10. WakesSeen'
  <2> SUFFICES ASSUME NEW n \in Instrs, NEW m \in Instrs
               PROVE  m \in Wakes(n)' <=> UseSeen(n, m)' \/ FreeSeen(n, m)'
    BY <1>2 DEF WakesSeen
  <2>1. FreeSeen(n, m)' <=> FreeSeen(n, m)
    BY <1>1, <1>2 DEF FreeSeen, Freed
  <2>2. \A j \in 1..Len(Args(m)) : Used(m, j)' <=> Used(m, j) \/ (m = pc /\ j = arg)
    BY <1>0, <1>1 DEF Used, Shape
  <2>3. \A u : ReadsFrom(m, n, u)' <=> ReadsFrom(m, n, u)
    BY <1>1, <1>2 DEF ReadsFrom
  <2>4. UseSeen(n, m)' <=> UseSeen(n, m) \/ (m = pc /\ ReadsFrom(pc, n, v))
    BY <1>2, <1>3, <2>2, <2>3 DEF UseSeen
  <2> QED BY <2>1, <2>4, <1>0, <1>5, <1>7 DEF WakesSeen
<1> QED BY <1>7, <1>8, <1>9, <1>10 DEF IInv

\* The end of the life of an argument adds the edge to the instruction there.
LEMMA FreeEdgeKeeps == IInv /\ FreeEdge => IInv'
<1> SUFFICES ASSUME IInv, FreeEdge PROVE IInv'
  OBVIOUS
<1> DEFINE v == Args(pc)[arg]
           l == block.eolife[v]
<1>0. Shape /\ AssignExact /\ WakesSeen /\ Counted
  BY DEF IInv
<1>1. /\ block' = block /\ pc' = pc /\ arg' = arg + 1 /\ assign' = assign /\ side' = "use"
      /\ pc \in Instrs /\ arg <= Len(Args(pc)) /\ side = "free"
  BY DEF FreeEdge, Looking
<1>2. Instrs' = Instrs /\ \A n : Args(n)' = Args(n) /\ Rets(n)' = Rets(n)
  BY <1>1 DEF Instrs, Args, Rets
<1>3. arg \in 1..Len(Args(pc)) /\ l \in Nat /\ (l \in Instrs => pc <= l) /\ block \in Inputs
  BY <1>0, <1>1, Looked DEF Shape
<1>4. Len(block.instrs) \in Nat /\ Len(Args(pc)) \in Nat
  BY <1>1, <1>3, BlockType
<1> HIDE DEF v
<1>5. /\ wake' \in [Instrs -> Seq(Instrs)] /\ blocks' \in [Instrs -> Nat]
      /\ \A n, m \in Instrs : m \in Wakes(n)' <=> m \in Wakes(n) \/ (n = pc /\ n # m /\ l = m)
      /\ Counted'
  <2>1. CASE l # pc /\ l <= Len(block.instrs) /\ l > 1
    <3>1. AddEdge(pc, l)
      BY <2>1 DEF FreeEdge, v
    <3>2. l \in Instrs
      BY <2>1, <1>3, <1>4 DEF Instrs
    <3> HIDE DEF l
    <3>3. /\ wake' \in [Instrs -> Seq(Instrs)] /\ blocks' \in [Instrs -> Nat]
          /\ \A n, m \in Instrs : m \in Wakes(n)' <=> m \in Wakes(n) \/ (n = pc /\ m = l)
          /\ Counted'
      BY <3>1, <3>2, <1>0, <1>1, AddEdgeLists, AddEdgeWakes, AddEdgeCounted
    <3> QED BY <3>3, <2>1
  <2>2. CASE ~(l # pc /\ l <= Len(block.instrs) /\ l > 1)
    <3>1. NoEdge
      BY <2>2 DEF FreeEdge, v
    <3>2. \A m \in Instrs : ~(pc # m /\ l = m)
      BY <2>2, <1>1, <1>3, <1>4 DEF Instrs
    <3> HIDE DEF l
    <3>3. wake' \in [Instrs -> Seq(Instrs)] /\ blocks' \in [Instrs -> Nat]
      BY <3>1, <1>0 DEF NoEdge, Shape
    <3> QED BY <3>1, <3>2, <3>3, <1>1, NoEdgeKeeps
  <2> QED BY <2>1, <2>2
<1>6. Shape'
  BY <1>0, <1>1, <1>2, <1>5 DEF Shape
<1>7. AssignExact'
  BY <1>0, <1>1, <1>2 DEF AssignExact, Latest, ReadsFrom
<1>8. WakesSeen'
  <2> SUFFICES ASSUME NEW n \in Instrs, NEW m \in Instrs
               PROVE  m \in Wakes(n)' <=> UseSeen(n, m)' \/ FreeSeen(n, m)'
    BY <1>2 DEF WakesSeen
  <2>0. Len(Args(m)) \in Nat /\ Len(Args(n)) \in Nat
    BY <1>3, BlockType
  <2> n \in Nat /\ m \in Nat /\ pc \in Nat /\ arg \in Nat \ {0}
    BY <1>0, <1>1 DEF Instrs, Shape
  <2>1. \A j \in 1..Len(Args(m)) : Used(m, j)' <=> Used(m, j)
    <3> TAKE j \in 1..Len(Args(m))
    <3>1. j < arg + 1 <=> j < arg \/ j = arg
      BY <2>0
    <3> QED BY <3>1, <1>1 DEF Used
  <2>2. UseSeen(n, m)' <=> UseSeen(n, m)
    BY <1>1, <1>2, <2>1 DEF UseSeen, ReadsFrom
  <2>3. \A j \in 1..Len(Args(n)) : Freed(n, j)' <=> Freed(n, j) \/ (n = pc /\ j = arg)
    <3> TAKE j \in 1..Len(Args(n))
    <3>1. j < arg + 1 <=> j < arg \/ j = arg
      BY <2>0
    <3> QED BY <3>1, <1>1 DEF Freed
  <2>4. FreeSeen(n, m)' <=> FreeSeen(n, m) \/ (n = pc /\ n # m /\ l = m)
    BY <1>1, <1>2, <1>3, <2>3 DEF FreeSeen, v
  <2> QED BY <2>2, <2>4, <1>0, <1>5 DEF WakesSeen
<1> QED BY <1>5, <1>6, <1>7, <1>8 DEF IInv

\* What an instruction assigns is remembered.
LEMMA AssignKeeps == IInv /\ Assign => IInv'
<1> SUFFICES ASSUME IInv, Assign PROVE IInv'
  OBVIOUS
<1>0. Shape /\ AssignExact /\ WakesSeen /\ Counted
  BY DEF IInv
<1>1. /\ block' = block /\ pc' = pc + 1 /\ arg' = 1 /\ side' = side /\ NoEdge
      /\ pc \in Instrs /\ arg > Len(Args(pc))
      /\ assign' = [v \in Vars |-> IF v \in Rets(pc) THEN pc ELSE assign[v]]
  BY DEF Assign, NoEdge
<1>2. Instrs' = Instrs /\ \A n : Args(n)' = Args(n) /\ Rets(n)' = Rets(n)
  BY <1>1 DEF Instrs, Args, Rets
<1>3. /\ block \in Inputs /\ Len(block.instrs) \in Nat
      /\ \A n \in Instrs : Len(Args(n)) \in Nat
  BY <1>0, BlockType DEF Shape
<1>4. side = "use"
  BY <1>0, <1>1, <1>3 DEF Shape
<1>5. Shape'
  <2>1. assign' \in [Vars -> Nat]
    BY <1>0, <1>1 DEF Shape, Instrs
  <2>2. pc' \in 1..(Len(block'.instrs) + 1)
    BY <1>1, <1>3 DEF Instrs
  <2> QED BY <1>0, <1>1, <1>2, <1>4, <2>1, <2>2 DEF Shape, NoEdge
<1>6. AssignExact'
  <2> SUFFICES ASSUME NEW v \in Vars PROVE Latest(v, pc, assign[v])'
    BY DEF AssignExact
  <2>1. Latest(v, pc, assign[v])
    BY <1>0 DEF AssignExact
  <2>2. CASE v \in Rets(pc)
    <3>1. assign'[v] = pc
      BY <1>1, <2>2
    <3> QED BY <3>1, <2>2, <1>1, <1>2, <1>3 DEF Latest, ReadsFrom, Instrs
  <2>3. CASE v \notin Rets(pc)
    <3>1. assign'[v] = assign[v]
      BY <1>1, <2>3
    <3> QED BY <3>1, <2>1, <2>3, <1>1, <1>2, <1>3 DEF Latest, ReadsFrom, Instrs
  <2> QED BY <2>2, <2>3
<1>7. WakesSeen'
  <2> SUFFICES ASSUME NEW n \in Instrs, NEW m \in Instrs
               PROVE  m \in Wakes(n)' <=> UseSeen(n, m)' \/ FreeSeen(n, m)'
    BY <1>2 DEF WakesSeen
  <2>1. ASSUME NEW i \in Instrs, NEW j \in 1..Len(Args(i))
        PROVE  (Used(i, j)' <=> Used(i, j)) /\ (Freed(i, j)' <=> Freed(i, j))
    <3>1. Len(Args(i)) \in Nat /\ i \in Nat /\ pc \in Nat /\ arg \in Nat
      BY <1>0, <1>1, <1>3 DEF Shape, Instrs
    <3> QED BY <3>1, <1>1, <1>4 DEF Used, Freed
  <2>2. UseSeen(n, m)' <=> UseSeen(n, m)
    BY <1>1, <1>2, <2>1 DEF UseSeen, ReadsFrom
  <2>3. FreeSeen(n, m)' <=> FreeSeen(n, m)
    BY <1>1, <1>2, <2>1 DEF FreeSeen
  <2> QED BY <2>2, <2>3, <1>0, <1>1, NoEdgeKeeps DEF WakesSeen
<1>8. Counted'
  BY <1>1, NoEdgeKeeps
<1> QED BY <1>5, <1>6, <1>7, <1>8 DEF IInv

\* The invariant holds at every step of DFLOWinitBlk.
THEOREM Invariance == Spec => []IInv
<1>1. IInv /\ [Next]_vars => IInv'
  <2> SUFFICES ASSUME IInv, [Next]_vars PROVE IInv'
    OBVIOUS
  <2>1. CASE Next
    BY <2>1, UseEdgeKeeps, FreeEdgeKeeps, AssignKeeps DEF Next
  <2>2. CASE UNCHANGED vars
    <3>1. /\ block' = block /\ pc' = pc /\ arg' = arg /\ side' = side
          /\ assign' = assign /\ wake' = wake /\ blocks' = blocks
      BY <2>2 DEF vars
    <3>2. Shape'
      BY <3>1 DEF IInv, Shape, Instrs, Args
    <3>3. AssignExact'
      BY <3>1 DEF IInv, AssignExact, Latest, ReadsFrom, Instrs, Rets
    <3>4. WakesSeen'
      <4> SUFFICES ASSUME NEW n \in Instrs, NEW m \in Instrs
                   PROVE  m \in Wakes(n)' <=> UseSeen(n, m)' \/ FreeSeen(n, m)'
        BY <3>1 DEF WakesSeen, Instrs
      <4>1. m \in Wakes(n)' <=> m \in Wakes(n)
        BY <3>1 DEF Wakes
      <4>2. UseSeen(n, m)' <=> UseSeen(n, m)
        BY <3>1 DEF UseSeen, Used, ReadsFrom, Instrs, Args, Rets
      <4>3. FreeSeen(n, m)' <=> FreeSeen(n, m)
        BY <3>1 DEF FreeSeen, Freed, Args
      <4> QED BY <4>1, <4>2, <4>3 DEF IInv, WakesSeen
    <3>5. Counted'
      BY <3>1, NoEdgeKeeps DEF NoEdge
    <3> QED BY <3>2, <3>3, <3>4, <3>5 DEF IInv
  <2> QED BY <2>1, <2>2
<1> QED BY <1>1, Initially, PTL DEF Spec

----------------------------------------------------------------------------
(***************************************************************************)
(* What follows from it                                                    *)
(***************************************************************************)

\* The finished graph of DFLOWinitBlk is exact: an instruction wakes those that
\* must follow it and no others, for any variables and any block.
THEOREM WakeupSafety == Spec => []WakeupsExact
<1>1. IInv => WakeupsExact
  <2> SUFFICES ASSUME IInv, pc \notin Instrs, NEW n \in Instrs, NEW m \in Instrs
               PROVE  m \in Wakes(n) <=> MustFollow(n, m)
    BY DEF WakeupsExact
  <2>0. block \in Inputs /\ pc \in 1..(Len(block.instrs) + 1)
    BY DEF IInv, Shape
  <2>1. pc = Len(block.instrs) + 1 /\ Len(block.instrs) \in Nat
    <3>1. Len(block.instrs) \in Nat
      BY <2>0, BlockType
    <3> QED BY <2>0, <3>1 DEF Instrs
  <2>2. \A i \in Instrs : \A j : Used(i, j) /\ Freed(i, j)
    BY <2>1 DEF Used, Freed, Instrs
  <2>3. UseSeen(n, m) \/ FreeSeen(n, m) <=> MustFollow(n, m)
    BY <2>2 DEF UseSeen, FreeSeen, MustFollow
  <2> QED BY <2>3 DEF IInv, WakesSeen
<1> QED BY <1>1, Invariance, PTL

\* Each entry of a wakeup list that DFLOWinitBlk has built so far is counted
\* once in blocks and leads forward, for any variables and any block.
THEOREM CountSafety == Spec => []BlocksMatchWakeups
<1>1. IInv => BlocksMatchWakeups
  <2> SUFFICES ASSUME IInv
               PROVE  BlocksMatchWakeups
    OBVIOUS
  <2>1. \A m \in Instrs : blocks[m] = Cardinality(Entries(m))
    BY DEF IInv, Counted
  <2>2. ASSUME NEW n \in Instrs, NEW m \in Wakes(n)
        PROVE  n < m
    <3>1. block \in Inputs /\ wake[n] \in Seq(Instrs)
      BY DEF IInv, Shape
    <3>2. m \in Instrs
      BY <3>1 DEF Wakes
    <3>3. UseSeen(n, m) \/ FreeSeen(n, m)
      BY <3>2 DEF IInv, WakesSeen
    <3>4. CASE UseSeen(n, m)
      BY <3>4 DEF UseSeen, ReadsFrom
    <3>5. CASE FreeSeen(n, m)
      <4>1. PICK j \in 1..Len(Args(n)) : n # m /\ block.eolife[Args(n)[j]] = m
        BY <3>5 DEF FreeSeen
      <4>2. n <= m
        BY <4>1, <3>1, <3>2, BlockType
      <4>3. n \in Int /\ m \in Int
        BY <3>2 DEF Instrs
      <4> QED BY <4>1, <4>2, <4>3
    <3> QED BY <3>3, <3>4, <3>5
  <2> QED BY <2>1, <2>2 DEF BlocksMatchWakeups
<1> QED BY <1>1, Invariance, PTL
=============================================================================
