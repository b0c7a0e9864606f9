-------------------------------- MODULE Calc --------------------------------
(***************************************************************************)
(* The column arithmetic of GDK (gdk_calc.c): the functions BATcalc... on  *)
(* two operands, each a column or a constant, with an optional list of     *)
(* candidate rows.  A function computes the rows of a new column and claims*)
(* properties of it (sorted, key, without nil, ...) that later operators   *)
(* trust without looking; some functions also add claims to their input.   *)
(* The scalar functions VARcalc... run the same loops over one row.        *)
(*                                                                         *)
(* The integer types are abstracted to a narrow one, "bte", and the widest *)
(* one, "hge", of twice as many bits; nil is the smallest number of a type.*)
(* Floating point, strings, oids and dense columns are left out.           *)
(***************************************************************************)
EXTENDS Integers, Sequences, FiniteSetsExt

CONSTANTS
  Bits,         \* the number of bits of each type of TypeNames
  Operands,     \* the pairs of operands the functions are called with
  Deviations    \* explore the calls for which Deviates says the code errs

TypeNames == {"bit", "bte", "hge"}

ASSUME BitsAssumption == /\ Bits \in [TypeNames -> Nat \ {0}]
                         /\ Bits["bit"] = Bits["bte"] /\ Bits["hge"] = 2 * Bits["bte"]
                         /\ Deviations \in BOOLEAN

VARIABLES
  b1, b2,       \* the operands: columns, or constants where incr is 0
  call          \* the last call and its result

vars == <<b1, b2, call>>
-----------------------------------------------------------------------------
(* Types, values and columns.                                              *)

Maximum(t) == 2^(Bits[t] - 1) - 1       \* GDK_bte_max, ...
NilOf(t) == -2^(Bits[t] - 1)            \* bte_nil, ...: GDK_bte_min
Values(t) == IF t = "bit" THEN {NilOf(t), 0, 1} ELSE NilOf(t) .. Maximum(t)

\* What C stores when it converts x to type t.
Wrap(t, x) == LET u == x % 2^Bits[t]
              IN  IF u > Maximum(t) THEN u - 2^Bits[t] ELSE u

\* A row as a loop leaves it: the value, whether the loop counted a nil, and
\* whether it ended with an error if abort_on_error was set.
Value(x) == [v |-> x, nil |-> FALSE, ok |-> TRUE]
Nil(t) == [v |-> NilOf(t), nil |-> TRUE, ok |-> TRUE]
Failed(t) == [v |-> NilOf(t), nil |-> TRUE, ok |-> FALSE]

Rows(b) == 1 .. Len(b.v)
At(b, k) == b.v[1 + (k - 1) * b.incr]
IsNil(b, k) == At(b, k) = NilOf(b.t)

\* The claims that are true of the values v of type t.
Facts(t, v) ==
  [sorted |-> \A i, j \in DOMAIN v : i < j => v[i] <= v[j],
   revsorted |-> \A i, j \in DOMAIN v : i < j => v[i] >= v[j],
   key |-> \A i, j \in DOMAIN v : i # j => v[i] # v[j],
   nil |-> \E i \in DOMAIN v : v[i] = NilOf(t),
   nonil |-> \A i \in DOMAIN v : v[i] # NilOf(t)]

NoClaims == [sorted |-> FALSE, revsorted |-> FALSE, key |-> FALSE, nil |-> FALSE, nonil |-> FALSE]

Column(t, v, claims) == [t |-> t, v |-> v, incr |-> 1, is |-> claims]
Constant(t, x) == [t |-> t, v |-> <<x>>, incr |-> 0, is |-> Facts(t, <<x>>)]

\* A candidate list is none or the set of rows it selects (CANDINIT).
NoList == [given |-> FALSE, rows |-> {}]
List(rows) == [given |-> TRUE, rows |-> rows]
CANDINIT(s, k) == ~s.given \/ k \in s.rows
IsRange(s) == \A i, j \in s.rows : i .. j \subseteq s.rows

\* CANDINIT, CANDLOOP and CHECKCAND: rows outside the list are nil, and counted.
Loop(t, s, rows) == [k \in DOMAIN rows |-> IF CANDINIT(s, k) THEN rows[k] ELSE Nil(t)]

Nils(rows) == Cardinality({k \in DOMAIN rows : rows[k].nil})

\* The new column, or NULL after an error.
Done(t, rows, abort, claims) ==
  IF abort /\ \E k \in DOMAIN rows : ~rows[k].ok
  THEN [null |-> TRUE, bat |-> Column(t, <<>>, NoClaims)]
  ELSE [null |-> FALSE, bat |-> Column(t, [k \in DOMAIN rows |-> rows[k].v], claims)]
-----------------------------------------------------------------------------
(* The checked operations on two values that are not nil.                  *)

ADD_WITH_CHECK(t, l, r) ==
  IF r < 1 THEN IF -Maximum(t) - r > l THEN Failed(t) ELSE Value(l + r)
           ELSE IF Maximum(t) - r < l THEN Failed(t) ELSE Value(l + r)

SUB_WITH_CHECK(t, l, r) ==
  IF r < 1 THEN IF Maximum(t) + r < l THEN Failed(t) ELSE Value(l - r)
           ELSE IF -Maximum(t) + r > l THEN Failed(t) ELSE Value(l - r)

\* A result one size larger than both operands needs no check.
add(t1, t2, t, l, r) ==
  IF Maximum(t) < Maximum(t1) + Maximum(t2) THEN ADD_WITH_CHECK(t, l, r) ELSE Value(Wrap(t, l + r))

sub(t1, t2, t, l, r) ==
  IF Maximum(t) < Maximum(t1) + Maximum(t2) THEN SUB_WITH_CHECK(t, l, r) ELSE Value(Wrap(t, l - r))

MUL4_WITH_CHECK(t, l, r) ==
  IF l * r < -Maximum(t) \/ l * r > Maximum(t) THEN Failed(t) ELSE Value(l * r)

Magnitude(x) == IF x < 0 THEN -x ELSE x

\* Mutant of HGEMUL_CHECK: the product of the high halves is forgotten.
HgemulNoHigh(l, r) ==
  LET h == Bits["bte"]
      a1 == Magnitude(l) \div 2^h   a2 == Magnitude(l) % 2^h
      c1 == Magnitude(r) \div 2^h   c2 == Magnitude(r) % 2^h
      mid == (a1 * c2 + a2 * c1) % 2^(2 * h)
      c == (mid * 2^h + a2 * c2) % 2^(2 * h)
  IN  IF mid < 2^(h - 1) /\ c <= Maximum("hge")
      THEN Value((IF (l < 0) = (r < 0) THEN 1 ELSE -1) * c) ELSE Failed("hge")

\* The product of two numbers of the widest type, from their halves:
\* uhge arithmetic, modulo 2 to the number of bits.
HGEMUL_CHECK(l, r) ==
  LET h == Bits["bte"]
      a1 == Magnitude(l) \div 2^h   a2 == Magnitude(l) % 2^h
      c1 == Magnitude(r) \div 2^h   c2 == Magnitude(r) % 2^h
      mid == (a1 * c2 + a2 * c1) % 2^(2 * h)
      c == (mid * 2^h + a2 * c2) % 2^(2 * h)
      sign == IF (l < 0) = (r < 0) THEN 1 ELSE -1
  IN  IF (a1 = 0 \/ c1 = 0) /\ mid < 2^(h - 1) /\ c < 2^(2 * h - 1) /\ c <= Maximum("hge")
      THEN Value(sign * c) ELSE Failed("hge")

mul(t1, t2, t, l, r) ==
  IF "hge" \in {t1, t2} THEN HGEMUL_CHECK(l, r)
  ELSE IF t = "hge" /\ Maximum(t) >= Maximum(t1) * Maximum(t2) THEN Value(Wrap(t, l * r))
  ELSE MUL4_WITH_CHECK(t, l, r)

\* Division and remainder of C, which round towards zero.
Quotient(l, r) == LET q == Magnitude(l) \div Magnitude(r)
                  IN  IF (l < 0) = (r < 0) THEN q ELSE -q
Remainder(l, r) == l - r * Quotient(l, r)

div(t, l, r) == IF r = 0 THEN Failed(t)
                ELSE LET d == Wrap(t, Quotient(l, r))
                     IN  IF d < -Maximum(t) \/ d > Maximum(t) THEN Failed(t) ELSE Value(d)

\* The cast to the type of the result binds to the left operand.
mod(t, l, r) == IF r = 0 THEN Failed(t) ELSE Value(Wrap(t, Remainder(Wrap(t, l), r)))

SHIFT_CHECK(t, r) == r < 0 \/ r >= Bits[t]
LSH_CHECK(t, l, r) == SHIFT_CHECK(t, r) \/ l < 0 \/ l > Maximum(t) \div 2^r

\* NO_SHIFT_CHECK: no distance of the narrow type is too large for the widest.
\* C leaves a negative one undefined; the processor takes it modulo the width.
Unchecked(t1, t2) == t1 = "hge" /\ t2 = "bte"

\* With an operand of the widest type at most the distance is checked.
lsh(t1, t2, l, r) ==
  IF CASE Unchecked(t1, t2) -> FALSE
       [] ~Unchecked(t1, t2) /\ "hge" \in {t1, t2} -> SHIFT_CHECK(t1, r)
       [] OTHER -> LSH_CHECK(t1, l, r)
  THEN Failed(t1) ELSE Value(Wrap(t1, l * 2^(r % Bits[t1])))

rsh(t1, t2, l, r) ==
  IF ~Unchecked(t1, t2) /\ SHIFT_CHECK(t1, r) THEN Failed(t1) ELSE Value(l \div 2^(r % Bits[t1]))

Bit(t, x, i) == ((x % 2^Bits[t]) \div 2^i) % 2
\* table gives the bit of the result for two bits.
Bitwise(t, l, r, table) ==
  Wrap(t, MapThenSumSet(LAMBDA i : 2^i * table[Bit(t, l, i), Bit(t, r, i)], 0 .. Bits[t] - 1))

AsBit(p) == IF p THEN 1 ELSE 0
-----------------------------------------------------------------------------
(* The functions.  l and r are the operands of a binary function, b the    *)
(* operand of a unary one, s the candidate list, t the type of the result. *)

\* The number of rows: checkbats has seen to it that two columns have as many.
Count(l, r) == IF l.incr = 1 THEN Len(l.v) ELSE Len(r.v)

Both(l, r) == 1 .. Count(l, r)

\* Row k of a function that gives nil for nil and row otherwise.
NilOr(t, l, r, k, row) == IF IsNil(l, k) \/ IsNil(r, k) THEN Nil(t) ELSE row

\* BINARY_3TYPE_FUNC, or the _nonil version when both operands are known to
\* have no nil.
Binary(t, l, r, s, f) ==
  Loop(t, s, [k \in Both(l, r) |-> IF l.is.nonil /\ r.is.nonil THEN Value(f[k]) ELSE NilOr(t, l, r, k, Value(f[k]))])

\* What most functions claim: the order is lost unless all rows are nil.
Unordered(rows) ==
  LET cnt == Len(rows)
  IN  [sorted |-> cnt <= 1 \/ Nils(rows) = cnt, revsorted |-> cnt <= 1 \/ Nils(rows) = cnt,
       key |-> cnt <= 1, nil |-> Nils(rows) # 0, nonil |-> Nils(rows) = 0]

\* The order of the rows is known if there is none that is nil.
Ordered(rows, up, down) ==
  [Unordered(rows) EXCEPT !.sorted = @ \/ (Nils(rows) = 0 /\ up),
                          !.revsorted = @ \/ (Nils(rows) = 0 /\ down)]

BATcalcadd(l, r, s, t, abort) ==
  LET rows == Loop(t, s, [k \in Both(l, r) |-> NilOr(t, l, r, k, add(l.t, r.t, t, At(l, k), At(r, k)))])
  IN  Done(t, rows, abort, Ordered(rows, abort /\ l.is.sorted /\ r.is.sorted, abort /\ l.is.revsorted /\ r.is.revsorted))

\* Mutant of BATcalcsub: a column subtracted from a constant keeps its order.
SubKeepsOrder(l, r, s, t, abort) ==
  LET rows == Loop(t, s, [k \in Both(l, r) |-> NilOr(t, l, r, k, sub(l.t, r.t, t, At(l, k), At(r, k)))])
      known == abort /\ 0 \in {l.incr, r.incr}
  IN  Done(t, rows, abort, Ordered(rows, known /\ l.is.sorted /\ r.is.sorted, known /\ l.is.revsorted /\ r.is.revsorted))

\* The order survives the subtraction of a constant, and is reversed when a
\* column is subtracted from one.
BATcalcsub(l, r, s, t, abort) ==
  LET rows == Loop(t, s, [k \in Both(l, r) |-> NilOr(t, l, r, k, sub(l.t, r.t, t, At(l, k), At(r, k)))])
      known == abort /\ 0 \in {l.incr, r.incr}
  IN  Done(t, rows, abort, Ordered(rows, known /\ l.is.sorted /\ r.is.revsorted, known /\ l.is.revsorted /\ r.is.sorted))

\* VARcalcsign: the sign of nil is the nil of bte, a negative number.
SIGN(x) == IF x < 0 THEN -1 ELSE AsBit(x > 0)

\* A constant factor keeps the order or reverses it, by its sign.
BATcalcmul(l, r, s, t, abort) ==
  LET rows == Loop(t, s, [k \in Both(l, r) |-> NilOr(t, l, r, k, mul(l.t, r.t, t, At(l, k), At(r, k)))])
      b == IF l.incr = 1 THEN l ELSE r
      sign == SIGN((IF l.incr = 1 THEN r ELSE l).v[1])
      known == abort /\ 0 \in {l.incr, r.incr}
  IN  Done(t, rows, abort,
           Ordered(rows, known /\ ((sign >= 0 /\ b.is.sorted) \/ (sign <= 0 /\ b.is.revsorted)),
                         known /\ ((sign >= 0 /\ b.is.revsorted) \/ (sign <= 0 /\ b.is.sorted))))

BATcalcdiv(l, r, s, t, abort) ==
  LET rows == Loop(t, s, [k \in Both(l, r) |-> NilOr(t, l, r, k, div(t, At(l, k), At(r, k)))])
  IN  Done(t, rows, abort, Unordered(rows))

BATcalcmod(l, r, s, t, abort) ==
  LET rows == Loop(t, s, [k \in Both(l, r) |-> NilOr(t, l, r, k, mod(t, At(l, k), At(r, k)))])
  IN  Done(t, rows, abort, Unordered(rows))

BATcalclsh(l, r, s, abort) ==
  LET rows == Loop(l.t, s, [k \in Both(l, r) |-> NilOr(l.t, l, r, k, lsh(l.t, r.t, At(l, k), At(r, k)))])
  IN  Done(l.t, rows, abort, Unordered(rows))

BATcalcrsh(l, r, s, abort) ==
  LET rows == Loop(l.t, s, [k \in Both(l, r) |-> NilOr(l.t, l, r, k, rsh(l.t, r.t, At(l, k), At(r, k)))])
  IN  Done(l.t, rows, abort, Unordered(rows))

\* XOR and XORBIT.
BATcalcxor(l, r, s) ==
  LET Xor(x, y) == IF l.t = "bit" THEN AsBit((x = 0) # (y = 0))
                   ELSE Bitwise(l.t, x, y, [p, q \in 0 .. 1 |-> (p + q) % 2])
      rows == Binary(l.t, l, r, s, [k \in Both(l, r) |-> Xor(At(l, k), At(r, k))])
  IN  Done(l.t, rows, FALSE, Unordered(rows))

\* The tri-Boolean algebra of type bit, and the bits of the other types.
BATcalcor(l, r, s) ==
  LET True(x) == x # 0 /\ x # NilOf("bit")
      Or(k) == IF True(At(l, k)) \/ True(At(r, k)) THEN Value(1)
               ELSE IF At(l, k) = 0 /\ At(r, k) = 0 THEN Value(0) ELSE Nil("bit")
      rows == IF l.t = "bit" THEN Loop(l.t, s, [k \in Both(l, r) |-> Or(k)])
              ELSE Binary(l.t, l, r, s, [k \in Both(l, r) |->
                                            Bitwise(l.t, At(l, k), At(r, k), [p, q \in 0 .. 1 |-> AsBit(p + q > 0)])])
  IN  Done(l.t, rows, FALSE, Unordered(rows))

BATcalcand(l, r, s) ==
  LET And(k) == IF At(l, k) = 0 \/ At(r, k) = 0 THEN Value(0)
                ELSE IF ~IsNil(l, k) /\ ~IsNil(r, k) THEN Value(1) ELSE Nil("bit")
      rows == IF l.t = "bit" THEN Loop(l.t, s, [k \in Both(l, r) |-> And(k)])
              ELSE Binary(l.t, l, r, s, [k \in Both(l, r) |->
                                            Bitwise(l.t, At(l, k), At(r, k), [p, q \in 0 .. 1 |-> p * q])])
  IN  Done(l.t, rows, FALSE, Unordered(rows))

\* LT, GT, LE, GE, EQ and NE give a bit, CMP a bte.
Comparison(op, x, y) ==
  CASE op = "lt" -> AsBit(x < y) [] op = "gt" -> AsBit(x > y) [] op = "le" -> AsBit(x <= y)
    [] op = "ge" -> AsBit(x >= y) [] op = "eq" -> AsBit(x = y) [] op = "ne" -> AsBit(x # y)
    [] op = "cmp" -> AsBit(x > y) - AsBit(x < y)

BATcalcop(op, l, r, s) ==
  LET t == IF op = "cmp" THEN "bte" ELSE "bit"
      rows == Binary(t, l, r, s, [k \in Both(l, r) |-> Comparison(op, At(l, k), At(r, k))])
  IN  Done(t, rows, FALSE, Unordered(rows))

\* BATcalcmin, BATcalcmax and their versions _no_nil, which ignore a nil if
\* the other value is not one.
BATcalcmin(op, noNil, l, r, s) ==
  LET Least(x, y) == IF (op = "min") = (x > y) THEN y ELSE x
      Row(k) == IF noNil /\ IsNil(l, k) # IsNil(r, k) THEN Value(IF IsNil(l, k) THEN At(r, k) ELSE At(l, k))
                ELSE NilOr(l.t, l, r, k, Value(Least(At(l, k), At(r, k))))
      rows == Loop(l.t, s, [k \in Both(l, r) |-> Row(k)])
  IN  Done(l.t, rows, FALSE, [Unordered(rows) EXCEPT !.sorted = Len(rows) <= 1, !.revsorted = Len(rows) <= 1])

\* UNARY_2TYPE_FUNC: nil is not looked for if the column is known to have none
\* and the list is a range.
Unary(t, b, s, f) ==
  Loop(t, s, [k \in Rows(b) |-> IF ~(b.is.nonil /\ IsRange(s)) /\ IsNil(b, k) THEN Nil(t) ELSE Value(Wrap(t, f[k]))])

\* What a unary function notes of its operand: the nils it counted.
Learn(b, rows) == [b EXCEPT !.is.nil = @ \/ Nils(rows) # 0, !.is.nonil = @ \/ Nils(rows) = 0]

\* The order is reversed if there is no nil.
Reversed(b, rows) ==
  [Unordered(rows) EXCEPT !.sorted = Nils(rows) = 0 /\ b.is.revsorted, !.revsorted = Nils(rows) = 0 /\ b.is.sorted,
                          !.key = b.is.key]

\* The unary functions, as <<result, operand>>.
BATcalcnot(b, s) ==
  LET rows == Unary(b.t, b, s, [k \in Rows(b) |-> IF b.t = "bit" THEN AsBit(b.v[k] = 0) ELSE -b.v[k] - 1])
  IN  <<Done(b.t, rows, FALSE, Reversed(b, rows)), Learn(b, rows)>>

BATcalcnegate(b, s) ==
  LET rows == Unary(b.t, b, s, [k \in Rows(b) |-> -b.v[k]])
  IN  <<Done(b.t, rows, FALSE, Reversed(b, rows)), Learn(b, rows)>>

BATcalcabsolute(b, s) ==
  LET rows == Unary(b.t, b, s, [k \in Rows(b) |-> Magnitude(b.v[k])])
  IN  <<Done(b.t, rows, FALSE, Unordered(rows)), Learn(b, rows)>>

BATcalciszero(b, s) ==
  LET rows == Unary("bit", b, s, [k \in Rows(b) |-> AsBit(b.v[k] = 0)])
  IN  <<Done("bit", rows, FALSE, Unordered(rows)), Learn(b, rows)>>

\* Signs keep the order of the numbers, and nil comes first in both.
BATcalcsign(b, s) ==
  LET rows == Unary("bte", b, s, [k \in Rows(b) |-> SIGN(b.v[k])])
  IN  <<Done("bte", rows, FALSE, [Unordered(rows) EXCEPT !.sorted = @ \/ b.is.sorted, !.revsorted = @ \/ b.is.revsorted]),
        Learn(b, rows)>>

\* BATcalcincr and BATcalcdecr.
BATcalcincrdecr(op, b, s, abort) ==
  LET Step(x) == IF op = "incr" THEN add(b.t, "bte", b.t, x, 1) ELSE sub(b.t, "bte", b.t, x, 1)
      rows == Loop(b.t, s, [k \in Rows(b) |-> IF IsNil(b, k) THEN Nil(b.t) ELSE Step(b.v[k])])
      claims == [Unordered(rows) EXCEPT !.sorted = @ \/ (abort /\ b.is.sorted), !.revsorted = @ \/ (abort /\ b.is.revsorted)]
      out == Done(b.t, rows, abort, claims)
  IN  <<out, IF out.null THEN b ELSE Learn(b, rows)>>

\* Does the list leave out a row?
Partial(b, s) == s.given /\ s.rows # Rows(b)

\* A column known to have no nil is answered with a constant one, for both
\* functions; the order of the others holds for isnil only.
BATcalcisnil(notnil, b, s) ==
  LET rows == Loop("bit", s, [k \in Rows(b) |-> Value(AsBit(IsNil(b, k) # notnil))])
      zeros == [k \in Rows(b) |-> Value(0)]
  IN  IF b.is.nonil /\ ~Partial(b, s)
      THEN Done("bit", zeros, FALSE, [Unordered(zeros) EXCEPT !.sorted = TRUE, !.revsorted = TRUE])
      ELSE Done("bit", rows, FALSE, [Unordered(rows) EXCEPT !.sorted = ~s.given /\ b.is.revsorted,
                                                            !.revsorted = ~s.given /\ b.is.sorted])

\* BATcalcbetween and the versions with constant bounds.
BATcalcbetween(b, lo, hi, s, sym) ==
  LET Between(x, y, z) == (y <= x /\ x <= z) \/ (sym /\ z <= x /\ x <= y)
      Row(k) == IF IsNil(b, k) \/ IsNil(lo, k) \/ IsNil(hi, k) THEN Nil("bit")
                ELSE Value(AsBit(Between(At(b, k), At(lo, k), At(hi, k))))
      rows == Loop("bit", s, [k \in Rows(b) |-> Row(k)])
  IN  Done("bit", rows, FALSE, Unordered(rows))

\* BATcalcifthenelse and the versions with constants.  A nil that comes from an
\* operand is not counted.
BATcalcifthenelse(b, l, r) ==
  LET Row(k) == IF IsNil(b, k) THEN Nil(l.t) ELSE Value(IF At(b, k) # 0 THEN At(l, k) ELSE At(r, k))
      rows == [k \in Rows(b) |-> Row(k)]
  IN  Done(l.t, rows, FALSE, [Unordered(rows) EXCEPT !.nonil = @ /\ l.is.nonil /\ r.is.nonil])

\* COLcopy to a type of the same values: what is known stays known.
COLcopy(b, t) ==
  LET short == Len(b.v) <= 1
  IN  Done(t, [k \in Rows(b) |-> Value(b.v[k])], FALSE,
           [b.is EXCEPT !.sorted = @ \/ short, !.revsorted = @ \/ short, !.key = @ \/ short, !.nil = @ /\ t = b.t])

\* A number that does not fit, or would be nil, is an overflow.
BATconvert(b, s, t, abort) ==
  LET Row(k) == IF IsNil(b, k) THEN Nil(t)
                ELSE IF t = "bit" THEN Value(AsBit(At(b, k) # 0))
                ELSE IF At(b, k) <= NilOf(t) \/ At(b, k) > Maximum(t) THEN Failed(t) ELSE Value(At(b, k))
      rows == Loop(t, s, [k \in Rows(b) |-> Row(k)])
      nils == Nils(rows)
      kept == t # "bit" \/ Len(rows) < 2
  IN  IF ~s.given /\ t # "bit" /\ Bits[t] = Bits[b.t] THEN COLcopy(b, t)
      ELSE Done(t, rows, abort, [sorted |-> kept /\ nils = 0 /\ b.is.sorted, revsorted |-> kept /\ nils = 0 /\ b.is.revsorted,
                                 key |-> kept /\ nils <= 1 /\ b.is.key, nil |-> nils # 0, nonil |-> nils = 0])
-----------------------------------------------------------------------------
(* What the functions are for.                                             *)

\* The quotient rounded towards zero.
Truncated(l, r) == CHOOSE q \in -Magnitude(l) .. Magnitude(l) :
                     LET m == l - q * r IN Magnitude(m) < Magnitude(r) /\ m * l >= 0

Arithmetic == {"add", "sub", "mul", "div", "mod", "lsh", "rsh", "incr", "decr"}

\* The mathematical result of fn, where it is defined.
IsDefined(fn, t1, l, r) == CASE fn \in {"div", "mod"} -> r # 0
                             [] fn = "lsh" -> r \in 0 .. Bits[t1] - 1 /\ l >= 0
                             [] fn = "rsh" -> r \in 0 .. Bits[t1] - 1
                             [] OTHER -> TRUE
Exactly(fn, l, r) == CASE fn \in {"add", "incr"} -> l + r
                       [] fn \in {"sub", "decr"} -> l - r
                       [] fn = "mul" -> l * r
                       [] fn = "div" -> Truncated(l, r)
                       [] fn = "mod" -> l - r * Truncated(l, r)
                       [] fn = "lsh" -> l * 2^r
                       [] fn = "rsh" -> l \div 2^r

Fits(t, x) == -Maximum(t) <= x /\ x <= Maximum(t)

\* A Boolean or nil between 0 and 1: or is the larger, and the smaller value.
Doubled(x) == IF x = NilOf("bit") THEN 1 ELSE 2 * x
Halved(d) == IF d = 1 THEN Nil("bit") ELSE Value(d \div 2)

\* The bits of x that are set.
Ones(t, x) == {i \in 0 .. Bits[t] - 1 : Bit(t, x, i) = 1}
OfOnes(t, ones) == CHOOSE z \in Values(t) : Ones(t, z) = ones

\* The functions that are defined for all numbers.
Total(fn, t, x, y) ==
  CASE fn = "not" -> IF t = "bit" THEN 1 - x ELSE -1 - x
    [] fn = "negate" -> -x
    [] fn = "absolute" -> Max({x, -x})
    [] fn = "iszero" -> AsBit(x = 0)
    [] fn = "sign" -> IF x = 0 THEN 0 ELSE Truncated(x, Magnitude(x))
    [] fn = "xor" -> OfOnes(t, (Ones(t, x) \cup Ones(t, y)) \ (Ones(t, x) \cap Ones(t, y)))
    [] fn = "or" -> OfOnes(t, Ones(t, x) \cup Ones(t, y))
    [] fn = "and" -> OfOnes(t, Ones(t, x) \cap Ones(t, y))
    [] fn \in {"min", "min_no_nil"} -> Min({x, y})
    [] fn \in {"max", "max_no_nil"} -> Max({x, y})
    [] fn = "cmp" -> CHOOSE c \in {-1, 0, 1} : c * Magnitude(x - y) = x - y /\ (x = y => c = 0)
    [] fn \in {"lt", "gt", "le", "ge", "eq", "ne"} ->
         AsBit(LET less == y - x > 0   more == x - y > 0
               IN  CASE fn = "lt" -> less [] fn = "gt" -> more [] fn = "le" -> ~more
                     [] fn = "ge" -> ~less [] fn = "eq" -> ~less /\ ~more [] fn = "ne" -> less \/ more)

\* The row k that call c should give; l and r are its operands, nil absorbs.
Meaning(c, k, l, r) ==
  LET x == At(l, k)   y == At(r, k)
      nil == IsNil(l, k) \/ IsNil(r, k)
  IN  CASE c.fn \in {"or", "and"} /\ l.t = "bit" ->
             Halved(IF c.fn = "or" THEN Max({Doubled(x), Doubled(y)}) ELSE Min({Doubled(x), Doubled(y)}))
        [] c.fn \in {"min_no_nil", "max_no_nil"} /\ IsNil(l, k) # IsNil(r, k) -> Value(IF IsNil(l, k) THEN y ELSE x)
        [] c.fn = "isnil" -> Value(AsBit(IsNil(l, k)))
        [] c.fn = "isnotnil" -> Value(AsBit(~IsNil(l, k)))
        [] c.fn = "ifthenelse" ->
             IF IsNil(c.arg, k) THEN Nil(c.t) ELSE Value(IF At(c.arg, k) = 1 THEN x ELSE y)
        [] nil \/ (c.fn \in {"between", "symmetric"} /\ IsNil(c.arg, k)) -> Nil(c.t)
        [] c.fn \in Arithmetic ->
             IF IsDefined(c.fn, l.t, x, y) /\ Fits(c.t, Exactly(c.fn, x, y)) THEN Value(Exactly(c.fn, x, y)) ELSE Failed(c.t)
        [] c.fn = "convert" ->
             IF c.t = "bit" THEN Value(Min({1, Magnitude(x)})) ELSE IF Fits(c.t, x) THEN Value(x) ELSE Failed(c.t)
        [] c.fn = "between" -> Value(AsBit(x \in y .. At(c.arg, k)))
        [] c.fn = "symmetric" -> Value(AsBit(x \in y .. At(c.arg, k) \/ x \in At(c.arg, k) .. y))
        [] OTHER -> Value(Total(c.fn, l.t, x, y))

\* The operands of a unary function, whose second one stands for nothing.
Unaries == {"not", "negate", "absolute", "iszero", "sign", "isnil", "isnotnil", "convert", "incr", "decr"}
NoOperand == [t |-> "bte", v |-> <<>>, incr |-> 1, is |-> NoClaims]
One == Constant("bte", 1)
-----------------------------------------------------------------------------
(* The calls.                                                              *)

NoCall == [fn |-> "none"]

\* The functions of module Aggr, which has a property of its own for them.
Aggregates == {"sum", "prod", "avg", "count", "size", "groupmin", "groupmax", "sumall", "prodall", "avgall"}

Init == /\ \E p \in Operands : b1 = p[1] /\ b2 = p[2]
        /\ call = NoCall

\* The calls whose result or claims are wrong (see the README).
Deviates(c) ==
  LET rows == IF c.out.null THEN {} ELSE {k \in DOMAIN c.out.bat.v : CANDINIT(c.s, k)}
      Full(k) == ~IsNil(b1, k) /\ (c.fn \notin Unaries => ~IsNil(b2, k))
      full == {k \in rows : Full(k)}
  IN  \/ c.fn \in Unaries \ {"isnil", "isnotnil", "convert"} /\ Partial(b1, c.s)
      \/ c.fn = "isnotnil" /\ ~Partial(b1, c.s)
      \/ c.fn \in {"incr", "decr", "not", "xor", "and"} /\ c.t # "bit" /\ ~c.abort
         /\ \E k \in full : c.out.bat.v[k] = NilOf(c.t)
      \/ c.fn = "mod" /\ Bits[c.t] < Bits[b1.t]
      \/ c.fn = "lsh" /\ "hge" \in {b1.t, b2.t} 
         /\ \E k \in full : ~SHIFT_CHECK(b1.t, At(b2, k)) /\ LSH_CHECK(b1.t, At(b1, k), At(b2, k))
      \/ c.fn \in {"lsh", "rsh"} /\ Unchecked(b1.t, b2.t) /\ \E k \in full : At(b2, k) < 0

\* Function fn is called and answers; b is the first operand after the call.
Answer(fn, s, t, abort, arg, out, b) ==
  LET c == [fn |-> fn, s |-> s, t |-> t, abort |-> abort, arg |-> arg, out |-> out]
  IN  /\ Deviations \/ ~Deviates(c)
      /\ call' = c
      /\ b1' = b
      /\ UNCHANGED b2

\* The candidate lists a caller can give; constants have no rows to choose.
Lists == {NoList} \cup IF {b1.incr, b2.incr} = {0} THEN {}
                       ELSE {List(rows) : rows \in SUBSET (1 .. Count(b1, b2))}

Wider(t1, t2) == IF "hge" \in {t1, t2} THEN {"hge"} ELSE {"bte", "hge"}
Narrower(t1, t2) == IF "bte" \in {t1, t2} THEN "bte" ELSE "hge"

TwoOperands == call = NoCall /\ b2 # NoOperand
TwoNumbers == TwoOperands /\ "bit" \notin {b1.t, b2.t}
TwoAlike == TwoOperands /\ b1.t = b2.t
TwoColumns == TwoAlike /\ b1.incr = 1 /\ b2.incr = 1
OneColumn == call = NoCall /\ b2 = NoOperand
OneNumber == OneColumn /\ b1.t # "bit"

Add == /\ TwoNumbers
       /\ \E s \in Lists, t \in Wider(b1.t, b2.t), abort \in BOOLEAN :
            Answer("add", s, t, abort, b2, BATcalcadd(b1, b2, s, t, abort), b1)

Sub == /\ TwoNumbers
       /\ \E s \in Lists, t \in Wider(b1.t, b2.t), abort \in BOOLEAN :
            Answer("sub", s, t, abort, b2, BATcalcsub(b1, b2, s, t, abort), b1)

Mul == /\ TwoNumbers
       /\ \E s \in Lists, t \in Wider(b1.t, b2.t), abort \in BOOLEAN :
            Answer("mul", s, t, abort, b2, BATcalcmul(b1, b2, s, t, abort), b1)

Div == /\ TwoNumbers
       /\ \E s \in Lists, abort \in BOOLEAN :
            Answer("div", s, b1.t, abort, b2, BATcalcdiv(b1, b2, s, b1.t, abort), b1)

Mod == /\ TwoNumbers
       /\ \E s \in Lists, abort \in BOOLEAN :
            LET t == Narrower(b1.t, b2.t) IN Answer("mod", s, t, abort, b2, BATcalcmod(b1, b2, s, t, abort), b1)

Shift == /\ TwoNumbers
         /\ \E s \in Lists, abort \in BOOLEAN :
              \/ Answer("lsh", s, b1.t, abort, b2, BATcalclsh(b1, b2, s, abort), b1)
              \/ Answer("rsh", s, b1.t, abort, b2, BATcalcrsh(b1, b2, s, abort), b1)

Logic == /\ TwoAlike
         /\ \E s \in Lists :
              \/ Answer("xor", s, b1.t, FALSE, b2, BATcalcxor(b1, b2, s), b1)
              \/ Answer("or", s, b1.t, FALSE, b2, BATcalcor(b1, b2, s), b1)
              \/ Answer("and", s, b1.t, FALSE, b2, BATcalcand(b1, b2, s), b1)

Compare == /\ TwoOperands /\ (b1.t = "bit") = (b2.t = "bit")
           /\ \E s \in Lists, op \in {"lt", "gt", "le", "ge", "eq", "ne", "cmp"} :
                Answer(op, s, IF op = "cmp" THEN "bte" ELSE "bit", FALSE, b2, BATcalcop(op, b1, b2, s), b1)

Least == /\ TwoColumns
         /\ \E s \in Lists, op \in {"min", "max"} :
              \/ Answer(op, s, b1.t, FALSE, b2, BATcalcmin(op, FALSE, b1, b2, s), b1)
              \/ Answer(IF op = "min" THEN "min_no_nil" ELSE "max_no_nil", s, b1.t, FALSE, b2, BATcalcmin(op, TRUE, b1, b2, s), b1)

\* The upper bound is a constant or, once more, the lower one.
Between == /\ TwoAlike /\ b1.incr = 1
           /\ \E s \in Lists, sym \in BOOLEAN, hi \in {b2} \cup {Constant(b1.t, x) : x \in {NilOf(b1.t), 0, 1}} :
                Answer(IF sym THEN "symmetric" ELSE "between", s, "bit", FALSE, hi, BATcalcbetween(b1, b2, hi, s, sym), b1)

IfThenElse == /\ TwoAlike
              /\ \E v \in [1 .. Count(b1, b2) -> Values("bit")] :
                   LET b == Column("bit", v, NoClaims)
                   IN  Answer("ifthenelse", NoList, b1.t, FALSE, b, BATcalcifthenelse(b, b1, b2), b1)

Not == /\ OneColumn
       /\ \E s \in Lists : LET a == BATcalcnot(b1, s) IN Answer("not", s, b1.t, FALSE, b2, a[1], a[2])

Negate == /\ OneNumber
          /\ \E s \in Lists : LET a == BATcalcnegate(b1, s) IN Answer("negate", s, b1.t, FALSE, b2, a[1], a[2])

Absolute == /\ OneNumber
            /\ \E s \in Lists : LET a == BATcalcabsolute(b1, s) IN Answer("absolute", s, b1.t, FALSE, b2, a[1], a[2])

IsZero == /\ OneNumber
          /\ \E s \in Lists : LET a == BATcalciszero(b1, s) IN Answer("iszero", s, "bit", FALSE, b2, a[1], a[2])

Sign == /\ OneNumber
        /\ \E s \in Lists : LET a == BATcalcsign(b1, s) IN Answer("sign", s, "bte", FALSE, b2, a[1], a[2])

IncrDecr == /\ OneNumber
            /\ \E s \in Lists, op \in {"incr", "decr"}, abort \in BOOLEAN :
                 LET a == BATcalcincrdecr(op, b1, s, abort) IN Answer(op, s, b1.t, abort, b2, a[1], a[2])

NilTest == /\ OneColumn
           /\ \E s \in Lists, notnil \in BOOLEAN :
                Answer(IF notnil THEN "isnotnil" ELSE "isnil", s, "bit", FALSE, b2, BATcalcisnil(notnil, b1, s), b1)

Convert == /\ OneColumn
           /\ \E s \in Lists, t \in TypeNames, abort \in BOOLEAN :
                Answer("convert", s, t, abort, b2, BATconvert(b1, s, t, abort), b1)

\* The caller is done with the result; its operands keep what was learnt.
Return == /\ call # NoCall
          /\ call' = NoCall
          /\ UNCHANGED <<b1, b2>>

Next == \/ Add \/ Sub \/ Mul \/ Div \/ Mod \/ Shift \/ Logic \/ Compare \/ Least \/ Between \/ IfThenElse
        \/ Not \/ Negate \/ Absolute \/ IsZero \/ Sign \/ IncrDecr \/ NilTest \/ Convert \/ Return

Spec == Init /\ [][Next]_vars
-----------------------------------------------------------------------------
(* Properties.                                                             *)

\* Every row of a result is the mathematical one or, where that does not exist
\* or fit, nil; with abort_on_error a call fails exactly if a selected row does
\* (ADD_WITH_CHECK ... in gdk_calc.c and gdk_calc_private.h).
Exact ==
  call # NoCall /\ call.fn \notin Aggregates =>
    LET r == IF call.fn \in {"incr", "decr"} THEN One ELSE IF call.fn \in Unaries THEN b1 ELSE b2
        rows == Loop(call.t, call.s, [k \in Both(b1, r) |-> Meaning(call, k, b1, r)])
        fails == call.abort /\ \E k \in DOMAIN rows : ~rows[k].ok
    IN  /\ call.out.null = fails
        /\ ~fails => call.out.bat.v = [k \in DOMAIN rows |-> rows[k].v]

\* What a column claims about its values is true, of results and of operands a
\* function has added claims to: operators choose their algorithm by it (the
\* properties of gdk.h, BATassertProps).
PropsTrue ==
  LET Sound(b) == \A c \in DOMAIN b.is : b.is[c] => Facts(b.t, b.v)[c]
  IN  /\ Sound(b1)
      /\ Sound(b2)
      /\ call # NoCall /\ ~call.out.null => Sound(call.out.bat)
=============================================================================
