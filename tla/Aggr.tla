-------------------------------- MODULE Aggr --------------------------------
(***************************************************************************)
(* The grouped aggregates of GDK (gdk_aggr.c): sum, product, average,      *)
(* count, minimum and maximum of the rows of a column by the groups of     *)
(* another one, with an optional candidate list, and the average of a      *)
(* whole column.  The calls are added to those of module Calc.             *)
(***************************************************************************)
EXTENDS Calc

CONSTANT Groupings      \* [ids, e, none]: the group of each row, the number of extents, FALSE

NoGroup == -1           \* oid_nil as a group

ASSUME GroupingsAssumption ==
  \A g \in Groupings : g.e \in Nat /\ \A k \in DOMAIN g.ids : g.ids[k] \in Nat \cup {NoGroup}
-----------------------------------------------------------------------------
(* Groups and the pass over the candidate rows.                            *)

\* BATgroupaggrinit: the smallest group and the number of groups, from the
\* extents if there are any (e = 0 if not) or from the groups in use.
Used(g) == {g.ids[k] : k \in DOMAIN g.ids} \ {NoGroup}
Smallest(g) == IF g.e > 0 \/ Used(g) = {} THEN 0 ELSE Min(Used(g))
Ngrp(g) == IF g.e > 0 THEN g.e ELSE IF Used(g) = {} THEN 0 ELSE Max(Used(g)) - Smallest(g) + 1
Gids(g) == 0 .. Ngrp(g) - 1

\* The offset of the first candidate.
Start(s) == IF s.given /\ s.rows # {} THEN Min(s.rows) - 1 ELSE 0

\* The group of row k: gids points at the row of the first candidate and is
\* indexed from there by k.  Past the end of g it reads whatever is there.
Gid(g, s, junk, k) ==
  LET i == k + Start(s)
  IN  IF g.none THEN 0 ELSE (IF i \in DOMAIN g.ids THEN g.ids[i] ELSE junk) - Smallest(g)

\* What may be read past the end.
Junk(s) == IF Start(s) = 0 THEN {NoGroup} ELSE {NoGroup, 0, 1}

\* The singleton groups a call recognises: the groups are a key, one per row.
Singletons(g) ==
  /\ g.e \in {0, Len(g.ids)}
  /\ \A i, j \in DOMAIN g.ids : g.ids[i] # NoGroup /\ (i # j => g.ids[i] # g.ids[j])

\* acc after Do for every candidate row, in order.
Pass(b, s, acc, Do(_, _)) ==
  LET f[k \in 0 .. Len(b.v)] == IF k = 0 THEN acc
                                ELSE IF CANDINIT(s, k) THEN Do(f[k - 1], k) ELSE f[k - 1]
  IN  f[Len(b.v)]

\* What all aggregates claim of a result of n rows with so many nils.
Aggregated(n, nils) ==
  [sorted |-> n <= 1, revsorted |-> n <= 1, key |-> n <= 1, nil |-> nils # 0, nonil |-> nils = 0]
-----------------------------------------------------------------------------
(* Sum and product.                                                        *)

\* The results so far, the groups a value was seen of, the nils counted, and
\* whether there was no overflow.
Fresh(t, g) == [v |-> [i \in Gids(g) |-> NilOf(t)], seen |-> {}, nils |-> 0, ok |-> TRUE]

\* nil_if_empty is not set: the one result is there from the start.
Started(unit) == [v |-> [i \in {0} |-> unit], seen |-> {0}, nils |-> 0, ok |-> TRUE]

SetNil(acc, t, i) == [acc EXCEPT !.v[i] = NilOf(t), !.nils = @ + 1]

\* What the result of a group starts as, and how a value is combined with it.
Unit(op) == IF op = "sum" THEN 0 ELSE 1
Accumulate(op, t, x, y) == IF op = "sum" THEN ADD_WITH_CHECK(t, x, y)
                       ELSE IF t = "hge" THEN HGEMUL_CHECK(x, y) ELSE MUL4_WITH_CHECK(t, x, y)

\* x is combined with the result of group i.
Combine(acc, op, t, i, x) ==
  LET old == IF i \in acc.seen THEN acc.v[i] ELSE Unit(op)
      row == Accumulate(op, t, x, old)
      now == [acc EXCEPT !.seen = @ \cup {i}, !.v[i] = old]
  IN  IF old = NilOf(t) THEN now
      ELSE [now EXCEPT !.v[i] = row.v, !.nils = @ + AsBit(row.nil), !.ok = @ /\ row.ok]

\* AGGR_SUM with several groups, and AGGR_PROD.
Grouped(op, b, g, s, t, skip, junk, first) ==
  LET Do(acc, k) ==
        LET i == Gid(g, s, junk, k)
        IN  IF i \notin Gids(g) \/ (IsNil(b, k) /\ skip) THEN acc
            ELSE IF IsNil(b, k) THEN SetNil(acc, t, i)
            ELSE Combine(acc, op, t, i, b.v[k])
  IN  Pass(b, s, first, Do)

\* AGGR_PROD_HGE: a nil, too, makes the group seen.
ProdHge(b, g, s, skip, junk, first) ==
  LET Do(acc, k) ==
        LET i == Gid(g, s, junk, k)
            now == IF i \in acc.seen THEN acc ELSE [acc EXCEPT !.seen = @ \cup {i}, !.v[i] = 1]
        IN  IF i \notin Gids(g) THEN acc
            ELSE IF ~IsNil(b, k) THEN Combine(now, "prod", "hge", i, b.v[k])
            ELSE IF skip THEN now ELSE SetNil(now, "hge", i)
  IN  Pass(b, s, first, Do)

\* AGGR_SUM with one group: every row is taken to be in it, the first nil or
\* overflow ends the loop, and empty stays the result unless there was a value.
\* Only without a list is the group marked as seen.
SumOfAll(b, s, t, skip, empty) ==
  LET Do(acc, k) ==
        IF acc.nils > 0 \/ (IsNil(b, k) /\ skip) THEN acc
        ELSE IF IsNil(b, k) THEN [acc EXCEPT !.sum = NilOf(t), !.nils = 1]
        ELSE LET row == ADD_WITH_CHECK(t, b.v[k], acc.sum)
             IN  [sum |-> row.v, any |-> TRUE, nils |-> AsBit(row.nil), ok |-> row.ok]
      acc == Pass(b, s, [sum |-> 0, any |-> FALSE, nils |-> 0, ok |-> TRUE], Do)
  IN  [v |-> [i \in {0} |-> IF acc.any THEN acc.sum ELSE empty],
       seen |-> IF acc.any /\ IsRange(s) THEN {0} ELSE {}, nils |-> acc.nils, ok |-> acc.ok]

NoResult(t) == [null |-> TRUE, bat |-> Column(t, <<>>, NoClaims)]

\* The end of dosum and doprod, and of BATgroupsum and BATgroupprod.
Totals(g, t, abort, acc) ==
  LET nils == IF acc.nils = 0 /\ acc.seen # Gids(g) THEN 1 ELSE acc.nils
  IN  IF abort /\ ~acc.ok THEN NoResult(t)
      ELSE [null |-> FALSE, bat |-> Column(t, [i \in 1 .. Ngrp(g) |-> acc.v[i - 1]], Aggregated(Ngrp(g), nils))]

BATgroupsum(b, g, s, t, skip, abort, junk) ==
  IF Ngrp(g) = 0 THEN [null |-> FALSE, bat |-> Column(t, <<>>, Facts(t, <<>>))]
  ELSE IF Singletons(g) THEN BATconvert(b, s, t, abort)
  ELSE Totals(g, t, abort, IF Ngrp(g) = 1 THEN SumOfAll(b, s, t, skip, NilOf(t))
                           ELSE Grouped("sum", b, g, s, t, skip, junk, Fresh(t, g)))

doprod(b, g, s, t, skip, junk, first) ==
  IF t = "hge" THEN ProdHge(b, g, s, skip, junk, first)
  ELSE Grouped("prod", b, g, s, t, skip, junk, first)

BATgroupprod(b, g, s, t, skip, abort, junk) ==
  IF Ngrp(g) = 0 THEN [null |-> FALSE, bat |-> Column(t, <<>>, Facts(t, <<>>))]
  ELSE IF Singletons(g) THEN BATconvert(b, s, t, abort)
  ELSE Totals(g, t, abort, doprod(b, g, s, t, skip, junk, Fresh(t, g)))

\* BATsum and BATprod: one number for all candidate rows.
WholeResult(t, abort, acc) == IF abort /\ ~acc.ok THEN NoResult(t)
                         ELSE [null |-> FALSE, bat |-> Column(t, <<acc.v[0]>>, NoClaims)]

BATsum(b, s, t, skip, abort, empty) == WholeResult(t, abort, SumOfAll(b, s, t, skip, empty))

BATprod(b, g, s, t, skip, abort, empty) ==
  WholeResult(t, abort, doprod(b, g, s, t, skip, NoGroup, IF empty = NilOf(t) THEN Fresh(t, g) ELSE Started(empty)))
-----------------------------------------------------------------------------
(* Average.  A result, of type dbl, is the fraction num / den; den is 0 for*)
(* nil.                                                                    *)

\* Mutant of AVERAGE_ITER: remainders that add up to n are not carried.
IterNoCarry(t, x, st) ==
  LET n == st.n + 1
      z == Remainder(x, n) - Remainder(st.a, n)
      z1 == Quotient(x, n) - Quotient(st.a, n) + (IF z >= 0 THEN z \div n ELSE -((-z) \div n) - 1)
      z2 == IF z >= 0 THEN z % n ELSE n - ((-z) % n)
  IN  [a |-> Wrap(t, st.a + z1), r |-> IF st.r + z2 >= n THEN st.r + z2 - n ELSE st.r + z2, n |-> n]

\* The average a + r/n of n values after one more, x, where
\* 0 <= r < n: z1 is (x - a)/n rounded down and z2 the remainder.
AVERAGE_ITER(t, x, st) ==
  LET n == st.n + 1
      z == Remainder(x, n) - Remainder(st.a, n)
      z1 == Quotient(x, n) - Quotient(st.a, n) + (IF z >= 0 THEN z \div n ELSE -((-z) \div n) - 1)
      z2 == IF z >= 0 THEN z % n ELSE n - ((-z) % n)
      carry == st.r + z2 >= n
  IN  [a |-> Wrap(t, st.a + z1 + AsBit(carry)), r |-> st.r + z2 - (IF carry THEN n ELSE 0), n |-> n]

Fraction(st) == [num |-> st.a * st.n + st.r, den |-> st.n]
NilFraction == [num |-> 0, den |-> 0]

\* A result that is no column of the types modelled: the rows, and the nils.
Result(v, cnts, nils) == [v |-> v, cnts |-> cnts, nil |-> nils # 0, nonil |-> nils = 0]

\* AGGR_AVG, and the results and counts that BATgroupavg gives.
BATgroupavg(b, g, s, skip, junk) ==
  LET start == [i \in Gids(g) |-> [st |-> [a |-> 0, r |-> 0, n |-> 0], nil |-> FALSE]]
      Do(acc, k) ==
        LET i == Gid(g, s, junk, k)
        IN  IF i \notin Gids(g) \/ (IsNil(b, k) /\ skip) \/ acc[i].nil THEN acc
            ELSE IF IsNil(b, k) THEN [acc EXCEPT ![i].nil = TRUE]
            ELSE [acc EXCEPT ![i].st = AVERAGE_ITER(b.t, b.v[k], @)]
      acc == Pass(b, s, start, Do)
      void == {i \in Gids(g) : acc[i].nil \/ acc[i].st.n = 0}
      alone == [k \in Rows(b) |-> CANDINIT(s, k) /\ ~IsNil(b, k)]
  IN  IF Ngrp(g) > 0 /\ Singletons(g)
      THEN Result([k \in Rows(b) |-> IF alone[k] THEN [num |-> b.v[k], den |-> 1] ELSE NilFraction],
                  [k \in Rows(b) |-> 1], Cardinality({k \in Rows(b) : ~alone[k]}))
      ELSE Result([i \in 1 .. Ngrp(g) |-> IF i - 1 \in void THEN NilFraction ELSE Fraction(acc[i - 1].st)],
                  [i \in 1 .. Ngrp(g) |-> IF i - 1 \in void THEN 0 ELSE acc[i - 1].st.n], Cardinality(void))

\* AVERAGE_TYPE: the sum, as long as it fits, divided by the count; from the
\* row that makes it overflow on the average is kept as AVERAGE_ITER has it.
BATcalcavg(b, s) ==
  LET Floor(sum, n) == [a |-> IF sum >= 0 THEN sum \div n ELSE -((-sum) \div n) - AsBit((-sum) % n > 0),
                        r |-> IF sum >= 0 \/ (-sum) % n = 0 THEN Magnitude(sum) % n ELSE n - ((-sum) % n),
                        n |-> n]
      Do(acc, k) ==
        LET row == ADD_WITH_CHECK("hge", b.v[k], acc.sum)
        IN  IF IsNil(b, k) THEN acc
            ELSE IF acc.over THEN [acc EXCEPT !.st = AVERAGE_ITER(b.t, b.v[k], @)]
            ELSE IF row.ok THEN [acc EXCEPT !.sum = row.v, !.st.n = @ + 1]
            ELSE [acc EXCEPT !.over = TRUE, !.st = AVERAGE_ITER(b.t, b.v[k], Floor(acc.sum, acc.st.n))]
      acc == Pass(b, s, [over |-> FALSE, sum |-> 0, st |-> [a |-> 0, r |-> 0, n |-> 0]], Do)
  IN  Result(<<IF acc.over THEN Fraction(acc.st) ELSE [num |-> acc.sum, den |-> acc.st.n]>>, <<acc.st.n>>, 0)
-----------------------------------------------------------------------------
(* Counts, and the positions of minima and maxima.                         *)

\* AGGR_COUNT and BATgroupcount; BATgroupsize counts the rows that are true.
Counts(b, g, s, junk, counted) ==
  LET Do(acc, k) == LET i == Gid(g, s, junk, k)
                    IN  IF i \in Gids(g) /\ k \in counted THEN [acc EXCEPT ![i] = @ + 1] ELSE acc
      acc == Pass(b, s, [i \in Gids(g) |-> 0], Do)
  IN  Result([i \in 1 .. Ngrp(g) |-> acc[i - 1]], <<>>, 0)

BATgroupcount(b, g, s, skip, junk) == Counts(b, g, s, junk, {k \in Rows(b) : ~skip \/ ~IsNil(b, k)})
BATgroupsize(b, g, s, junk) == Counts(b, g, s, junk, {k \in Rows(b) : b.v[k] = 1})

NoRow == 0              \* oid_nil as a position

\* AGGR_CMP: with as many groups as rows every row is taken to be its own
\* group; a nil that is not skipped replaces any value, and stays.
BATgroupminmax(op, b, g, s, skip, junk) ==
  LET Better(x, y) == IF op = "groupmin" THEN x < y ELSE x > y
      Do(acc, k) ==
        LET i == IF Ngrp(g) = Len(b.v) THEN k - 1 ELSE Gid(g, s, junk, k)
        IN  IF i \notin Gids(g) \/ (IsNil(b, k) /\ skip) THEN acc
            ELSE IF Ngrp(g) = Len(b.v) \/ acc[i] = NoRow THEN [acc EXCEPT ![i] = k]
            ELSE IF ~IsNil(b, acc[i]) /\ (IsNil(b, k) \/ Better(b.v[k], b.v[acc[i]])) THEN [acc EXCEPT ![i] = k]
            ELSE acc
      acc == Pass(b, s, [i \in Gids(g) |-> NoRow], Do)
  IN  Result([i \in 1 .. Ngrp(g) |-> acc[i - 1]], <<>>, Cardinality({i \in Gids(g) : acc[i] = NoRow}))
-----------------------------------------------------------------------------
(* The calls.  arg is the grouping, skip the flag skip_nils, empty what the*)
(* sum or product of no rows is.                                           *)

\* No grouping: all rows are in one group.
Whole == [ids |-> [k \in Rows(b1) |-> 0], e |-> 1, none |-> TRUE]

\* The calls whose result or claims are wrong (see the README).
GroupDeviates(c) ==
  LET g == c.arg
      rows == {k \in Rows(b1) : CANDINIT(c.s, k)}
      Mates(k) == {j \in rows : g.ids[j] = g.ids[k]}
      several == Ngrp(g) > 0 /\ ~Singletons(g)
      forgets == CASE c.fn = "sum" -> Ngrp(g) > 1
                   [] c.fn \in {"prod", "prodall"} -> c.t # "hge" /\ c.empty = NilOf(c.t)
                   [] OTHER -> FALSE
  IN  \/ Start(c.s) > 0 /\ Ngrp(g) > 0 /\ ~g.none
         /\ (c.fn = "sum" => Ngrp(g) > 1) /\ (c.fn \in {"sum", "prod", "avg"} => several)
      \/ c.fn \in {"sum", "prod", "avg"} /\ ~several /\ \E k \in Rows(b1) : g.ids[k] - Smallest(g) # k - 1
      \/ c.fn = "avg" /\ ~several /\ \E k \in Rows(b1) : k \notin rows \/ IsNil(b1, k)
      \/ c.fn = "sum" /\ several /\ Ngrp(g) = 1 /\ (~IsRange(c.s) \/ \E k \in rows : g.ids[k] # Smallest(g))
      \/ forgets /\ ~c.skip
         /\ \E k \in rows : /\ IsNil(b1, k) /\ \A j \in Mates(k) : j < k => IsNil(b1, j)
                           /\ \E j \in Mates(k) : ~IsNil(b1, j)
      \/ c.fn = "sumall" /\ ~c.skip /\ c.empty = 0
         /\ \E k \in rows : IsNil(b1, k) /\ \A j \in rows : j < k => IsNil(b1, j)
      \/ c.fn \in {"prod", "prodall"} /\ c.t = "hge" /\ c.skip /\ c.empty = NilOf(c.t) /\ several
         /\ \E k \in rows : \A j \in Mates(k) : IsNil(b1, j)
      \/ c.fn \in {"groupmin", "groupmax"} /\ Ngrp(g) = Len(b1.v) /\ \E k \in rows : g.ids[k] - Smallest(g) # k - 1
      \/ c.fn = "avgall" /\ \A k \in rows : IsNil(b1, k)

AnswerGroups(fn, g, s, t, skip, abort, empty, out, res) ==
  LET c == [fn |-> fn, s |-> s, t |-> t, abort |-> abort, arg |-> g, skip |-> skip, empty |-> empty,
            out |-> out, res |-> res]
  IN  /\ Deviations \/ ~GroupDeviates(c)
      /\ call' = c
      /\ UNCHANGED <<b1, b2>>

NoColumn == [null |-> FALSE, bat |-> NoOperand]
AnswerColumn(fn, g, s, t, skip, abort, out) ==
  AnswerGroups(fn, g, s, t, skip, abort, NilOf(t), out, Result(out.bat.v, <<>>, 0))

\* The groupings of as many rows as the column has.
GroupingsOf == {g \in Groupings : Len(g.ids) = Len(b1.v)}

GroupSum == /\ OneNumber
            /\ \E g \in GroupingsOf, s \in Lists, t \in Wider(b1.t, b1.t), skip, abort \in BOOLEAN :
                 \E junk \in Junk(s) : AnswerColumn("sum", g, s, t, skip, abort, BATgroupsum(b1, g, s, t, skip, abort, junk))

GroupProd == /\ OneNumber
             /\ \E g \in GroupingsOf, s \in Lists, t \in Wider(b1.t, b1.t), skip, abort \in BOOLEAN :
                 \E junk \in Junk(s) : AnswerColumn("prod", g, s, t, skip, abort, BATgroupprod(b1, g, s, t, skip, abort, junk))

GroupAvg == /\ OneNumber
            /\ \E g \in GroupingsOf, s \in Lists, skip \in BOOLEAN :
                 \E junk \in Junk(s) : AnswerGroups("avg", g, s, b1.t, skip, FALSE, 0, NoColumn, BATgroupavg(b1, g, s, skip, junk))

GroupCount == /\ OneColumn
              /\ \E g \in GroupingsOf, s \in Lists, skip \in BOOLEAN :
                 \E junk \in Junk(s) : AnswerGroups("count", g, s, b1.t, skip, FALSE, 0, NoColumn, BATgroupcount(b1, g, s, skip, junk))

GroupSize == /\ OneColumn /\ b1.t = "bit"
             /\ \E g \in GroupingsOf, s \in Lists :
                 \E junk \in Junk(s) : AnswerGroups("size", g, s, b1.t, TRUE, FALSE, 0, NoColumn, BATgroupsize(b1, g, s, junk))

GroupMinMax == /\ OneColumn
               /\ \E g \in GroupingsOf \cup {Whole}, s \in Lists, op \in {"groupmin", "groupmax"}, skip \in BOOLEAN :
                 \E junk \in Junk(s) : AnswerGroups(op, g, s, b1.t, skip, FALSE, 0, NoColumn, BATgroupminmax(op, b1, g, s, skip, junk))

WholeColumn == /\ OneNumber
         /\ \E s \in Lists, t \in Wider(b1.t, b1.t), skip, abort \in BOOLEAN :
              \/ \E empty \in {NilOf(t), 0} :
                   LET out == BATsum(b1, s, t, skip, abort, empty)
                   IN  AnswerGroups("sumall", Whole, s, t, skip, abort, empty, out, Result(out.bat.v, <<>>, 0))
              \/ \E empty \in {NilOf(t), 1} :
                   LET out == BATprod(b1, Whole, s, t, skip, abort, empty)
                   IN  AnswerGroups("prodall", Whole, s, t, skip, abort, empty, out, Result(out.bat.v, <<>>, 0))

Average == /\ OneNumber
           /\ \E s \in Lists : AnswerGroups("avgall", Whole, s, b1.t, TRUE, FALSE, 0, NoColumn, BATcalcavg(b1, s))

AggrNext == \/ Next
            \/ GroupSum \/ GroupProd \/ GroupAvg \/ GroupCount \/ GroupSize \/ GroupMinMax \/ WholeColumn \/ Average

AggrSpec == Init /\ [][AggrNext]_vars
-----------------------------------------------------------------------------
(* Properties.                                                             *)

\* An aggregate gives every group what it should: the sum, product, average or
\* count of the selected values of the group, the place of its smallest or
\* largest one, or nil if there are none or, unless nils are skipped, if there
\* is a nil; a sum or product fails exactly if a running total does not fit;
\* the claims of averages and positions about nil hold (gdk_aggr.c).
GroupsExact ==
  call # NoCall /\ call.fn \in Aggregates =>
    LET c == call
        g == c.arg
        Members(i) == {k \in Rows(b1) : CANDINIT(c.s, k) /\ g.ids[k] = i + Smallest(g)}
        Full(i) == {k \in Members(i) : ~IsNil(b1, k)}
        Void(i) == Full(i) = {} \/ (~c.skip /\ Full(i) # Members(i))
        Sum(ks) == MapThenSumSet(LAMBDA k : b1.v[k], ks)
        Running(ks) == IF c.fn \in {"sum", "sumall"} THEN Sum(ks)
                       ELSE FoldSet(LAMBDA k, p : b1.v[k] * p, 1, ks)
        Overflows(i) == \E k \in Full(i) :
                          /\ c.skip \/ \A j \in Members(i) : j < k => ~IsNil(b1, j)
                          /\ ~Fits(c.t, Running({j \in Full(i) : j <= k}))
        fails == c.abort /\ \E i \in Gids(g) : Overflows(i)
        Due(i) == IF Full(i) = {} /\ (c.skip \/ Members(i) = {}) THEN c.empty
                  ELSE IF Void(i) \/ Overflows(i) THEN NilOf(c.t) ELSE Running(Full(i))
        Out(i) == c.res.v[i + 1]
        Best(i) == {k \in Full(i) : \A j \in Full(i) : IF c.fn = "groupmin" THEN b1.v[k] <= b1.v[j] ELSE b1.v[k] >= b1.v[j]}
        positions == c.fn \in {"groupmin", "groupmax"}
        none == {i \in Gids(g) : IF positions THEN Out(i) = NoRow ELSE Out(i) = NilFraction}
    IN  CASE c.fn \in {"sum", "prod", "sumall", "prodall"} ->
               c.out.null = fails /\ (~fails => Len(c.res.v) = Ngrp(g) /\ \A i \in Gids(g) : Out(i) = Due(i))
          [] c.fn \in {"avg", "avgall"} ->
               /\ \A i \in Gids(g) : IF Void(i) THEN Out(i) = NilFraction /\ c.res.cnts[i + 1] = 0
                                     ELSE /\ Out(i).num * Cardinality(Full(i)) = Sum(Full(i)) * Out(i).den
                                          /\ Out(i).den > 0 /\ c.res.cnts[i + 1] = Cardinality(Full(i))
               /\ (c.res.nil => none # {}) /\ (c.res.nonil => none = {})
          [] c.fn = "count" -> \A i \in Gids(g) : Out(i) = Cardinality(IF c.skip THEN Full(i) ELSE Members(i))
          [] c.fn = "size" -> \A i \in Gids(g) : Out(i) = Cardinality({k \in Members(i) : b1.v[k] = 1})
          [] positions ->
               /\ \A i \in Gids(g) : CASE (c.skip /\ Full(i) = {}) \/ Members(i) = {} -> Out(i) = NoRow
                                       [] ~c.skip /\ Full(i) # Members(i) -> Out(i) \in Members(i) \ Full(i)
                                       [] OTHER -> Out(i) \in Best(i)
               /\ (c.res.nil => none # {}) /\ (c.res.nonil => none = {})
=============================================================================
