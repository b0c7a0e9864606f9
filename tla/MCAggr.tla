------------------------------- MODULE MCAggr -------------------------------
(* Calc and Aggr for types of three and six bits.                          *)
EXTENDS Aggr

MCBits == [t \in TypeNames |-> IF t = "hge" THEN 6 ELSE 3]

Sample(t) == IF t = "bit" THEN Values(t) ELSE {NilOf(t), -1, 3}
Limits(t) == IF t = "bit" THEN Values(t) ELSE {NilOf(t), -Maximum(t), 0, Maximum(t)}

\* The columns of n rows of type t from the set of values given, with all that
\* is true claimed of them or nothing.
ColumnsOf(t, n, values) ==
  LET vs == [1 .. n -> values]
  IN  {Column(t, v, Facts(t, v)) : v \in vs} \cup {Column(t, v, NoClaims) : v \in vs}

Columns(t, n) == ColumnsOf(t, n, Sample(t))
Limit(t) == ColumnsOf(t, 3, Limits(t))

Numbers == {Constant(t, x) : t \in {"bte", "hge"}, x \in Values("hge")}
Scalars == {c \in Numbers : c.v[1] \in Values(c.t)}
Factors == {Constant("bte", x) : x \in {NilOf("bte"), -2, 0, 3}}

\* Two constants of any values, two columns of two rows, a column of three
\* rows and a constant, one column of three rows.
MCOperands ==
  (Scalars \X Scalars)
    \cup (Columns("bte", 2) \X Columns("bte", 2))
    \cup (Columns("bit", 2) \X Columns("bit", 2))
    \cup (Columns("bte", 3) \X Factors)
    \cup (Factors \X Columns("bte", 3))
    \cup ((Limit("bit") \cup Limit("bte") \cup Limit("hge")) \X {NoOperand})

Grouping(ids, e) == [ids |-> ids, e |-> e, none |-> FALSE]

\* One group, two groups, groups that do not start at 0, a group without rows,
\* rows without a group or extent, singleton groups in order and not.
MCGroupings ==
  {Grouping(ids, 0) : ids \in {<<0, 0, 0>>, <<0, 1, 0>>, <<2, 1, 2>>, <<0, 1, 2>>, <<NoGroup, NoGroup, NoGroup>>}}
    \cup {Grouping(<<0, 1, 0>>, 1), Grouping(<<0, 0, 2>>, 3), Grouping(<<NoGroup, 0, 0>>, 3), Grouping(<<1, 0, 2>>, 3)}
=============================================================================
