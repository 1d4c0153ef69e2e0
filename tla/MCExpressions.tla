--------------------------- MODULE MCExpressions ----------------------------
(***************************************************************************)
(* Expressions of every family the front end builds, over the rows that    *)
(* decide them: the ends of each type's range, NULL, the infinities, NaN,  *)
(* the empty string. Each plan ranges over the columns it reads.           *)
(***************************************************************************)
EXTENDS Expressions

Node(op, fn, n, ty, nul, kids) ==
  [op |-> op, fn |-> fn, n |-> n, ty |-> ty, nul |-> nul, kids |-> kids]

Domain == << {-2, 0, 1}, {-2, 1}, {-1, 0, 1, Inf, NaN}, {0, 1}, {0, 2}, {0, 2}, {-4, 3}, {-4, 3},
             {-7, -1, 0, 3}, {-1, 1}, {-8, -1, 4, 7}, {0, 2, 5} >>
Types  == << "i8", "i8", "f64", "i1", "str", "str", "i64", "i64", "d1", "d0", "i128", "u64" >>
Nullable == {2, 3, 4, 5, 8, 9, 12}
C(i) == Node("col", "", i, Types[i], i \in Nullable, <<>>)
L(v, ty) == LitOf(v, ty)
N(ty) == NullFold(ty)

MayBeNull(kids) == \E i \in DOMAIN kids : kids[i].nul
Strict(op, fn, ty, kids) == Node(op, fn, 0, ty, MayBeNull(kids), kids)
Arith(fn, a, b) == Node("arith", fn, 0, a.ty,
                        a.nul \/ b.nul \/ ZeroDivisorNulls(fn, a.ty), <<a, b>>)
Cmp(fn, a, b) == Strict("cmp", fn, "i1", <<a, b>>)
And(a, b) == Strict("and", "", "i1", <<a, b>>)
Or(a, b) == Strict("or", "", "i1", <<a, b>>)
Not(a) == Strict("not", "", "i1", <<a>>)
IsNull(a, neg) == Node("isnull", "", neg, "i1", FALSE, <<a>>)
Case(ty, kids) ==
  Node("case", "", 0, ty,
       Len(kids) % 2 = 0 \/ \E i \in DOMAIN kids : (i % 2 = 0 \/ i = Len(kids)) /\ kids[i].nul, kids)
Cast(fn, a, ty) == Node("cast", fn, 0, ty, fn = "try" \/ a.nul, <<a>>)
F(fn, a) == Strict("math1", fn, "f64", <<a>>)
Abs(a) == Strict("abs", "", a.ty, <<a>>)
Raise(m, ty) == Node("raise", "", m, ty, TRUE, <<>>)
Checking(pick, kids) == Node("seq", "", pick, kids[pick].ty, kids[pick].nul, kids)
Text1(fn, ty, kids) == Strict("text", fn, ty, kids)
Udf(site, lane, a) == Node("extern", site, lane, IF lane = 0 THEN "i1" ELSE "i64", lane # 0, <<a>>)

---------------------------------------------------------------------------
Alone(e) == [joins |-> <<>>,
             stages |-> <<[joins |-> <<>>, pred |-> <<>>, items |-> <<e>>, lets |-> <<>>]>>]
Items(es) == [joins |-> <<>>,
              stages |-> <<[joins |-> <<>>, pred |-> <<>>, items |-> es, lets |-> <<>>]>>]

\* Checked integers at both widths, with what a NULL row computes underneath.
\* (Not abs of the least literal of a narrow width: its fold leaves the width.)
IntFns == {"add", "sub", "mul", "idiv", "rem", "shr"}
Int8 == {C(1), C(2), L(1, "i8"), L(-2, "i8"), N("i8")}
IntPairs == { Arith(fn, a, b) : fn \in IntFns, a \in Int8, b \in Int8 }
Ints ==
  IntPairs
  \union { Arith(fn, Arith("add", C(2), C(1)), b) : fn \in IntFns, b \in {C(1), L(1, "i8")} }
  \union { Arith(fn, Arith("mul", C(8), C(7)), C(8)) : fn \in IntFns }
  \union { Cast("cast", Arith(fn, C(1), C(2)), "i64") : fn \in IntFns }
  \union { Abs(a) : a \in {C(1), C(2), C(7), C(8), Arith("add", C(2), C(2)), L(-1, "i8"), L(-4, "i64")} }
  \union { Cast(fn, a, ty) : fn \in {"cast"}, a \in {C(7), C(8), C(3), C(5), C(4)}, ty \in {"i8", "i64"} }
  \union { Cast("try", a, ty) : a \in {C(3), C(5), C(4)}, ty \in {"i64"} }
  \union { Cmp(fn, Cast("cast", Arith("add", C(1), C(2)), "i64"), C(7)) : fn \in {"lt", "eq"} }
  \union { Node("extreme", fn, 0, "i8", C(1).nul /\ C(2).nul, <<C(2), C(1), L(1, "i8")>>)
             : fn \in {"greatest", "least"} }
  \union { Node("extreme", fn, 0, "i64", TRUE, <<C(8), N("i64"), C(8)>>) : fn \in {"greatest", "least"} }

\* The i128 lane: both its widths, and every way into it and out of it.
Wide(a) == Cast("cast", a, "i128")
S2 == Text1("concat", "str", <<C(5), C(6)>>)
Huge == {C(11), Wide(C(12)), Wide(C(8)), L(-8, "i128"), L(2, "i128"), N("i128")}
WideFns == {"add", "sub", "mul", "idiv", "rem"}
Into == {C(2), C(7), C(4), S2, Text1("concat", "str", <<S2, S2>>), L(3, "str"), L(8, "str"),
         Arith("mul", C(3), L(8, "f64")), Arith("add", C(3), L(5, "f64"))}
Wides ==
  { Arith(fn, a, b) : fn \in WideFns, a, b \in Huge }
  \union { Arith(fn, a, b) : fn \in WideFns, a, b \in {C(12), L(2, "u64")} }
  \union { Abs(a) : a \in {C(11), C(12), Wide(C(8)), Arith("sub", C(11), L(1, "i128")), L(-8, "i128"), L(-7, "i128")} }
  \union { Cast(fn, a, ty) : fn \in {"cast", "try"}, a \in {C(11), C(12), L(2, "i128")},
                            ty \in {"i8", "i64", "f64", "i1"} }
  \union { Cast(fn, a, ty) : fn \in {"cast", "try"}, a \in Into, ty \in WideTypes }
  \union { Cast(fn, C(11), "u64") : fn \in {"cast", "try"} }
  \union { Cmp(fn, C(11), Wide(C(12))) : fn \in {"lt", "eq"} }
  \union { Node("extreme", fn, 0, "i128", FALSE, <<Wide(C(12)), C(11), Wide(Arith("add", C(2), L(1, "i8")))>>) :
            fn \in {"greatest", "least"} }
  \union { Strict("i2f", "", "f64", <<a>>) : a \in {C(11), C(12)} }
  \union { Case(ty, <<C(4), Cast("cast", a, ty), b>>) : a \in {C(11), C(12)}, ty \in {"u64", "i128"}, b \in {C(12)} }

\* DECIMALs, and what fits in fewer digits. (No NULL or zero divisor that is
\* constant beside an operand that can trap: folding drops the operand.)
Dec(fn, a, b) == Node("dec", fn, 0, a.ty, a.nul \/ b.nul \/ fn = "rem", <<a, b>>)
DCast(fn, a, ty) == Node("dcast", fn, 0, ty, fn = "try" \/ a.nul, <<a>>)
ToDec(a) == Strict("i2d", "", "d1", <<a>>)
Decs ==
  { Dec(fn, a, b) : fn \in {"add", "sub", "rem"},
      a, b \in {C(9), ToDec(C(1)), ToDec(C(2)), L(3, "d1"), DCast("cast", C(10), "d1")} }
  \union { Dec(fn, L(3, "d1"), b) : fn \in {"add", "rem"}, b \in {L(7, "d1"), L(0, "d1"), N("d1")} }
  \union { DCast(fn, a, ty) : fn \in {"cast", "try"}, ty \in {"d0", "d1"},
              a \in {C(9), C(10), C(1), C(2), C(8), L(-2, "i8"), Dec("sub", C(9), L(1, "d1"))} }
  \union { DCast(fn, a, ty) : fn \in {"cast", "try"}, ty \in {"i8", "i64", "u64", "i128"}, a \in {C(9), L(7, "d1")} }
  \union { DCast(fn, a, ty) : fn \in {"cast", "try"}, ty \in {"d0", "d1"}, a \in {C(11), C(12)} }
  \union { Strict("d2f", "", "f64", <<a>>) : a \in {C(10), DCast("cast", C(2), "d1"), DCast("try", C(9), "d0")} }
  \union { Strict("dunary", fn, "d1", <<a>>) : fn \in {"abs", "trunc"}, a \in {C(9), Dec("add", C(9), C(9)), L(-7, "d1")} }

\* Doubles behind the guards a CASE puts before them, on either side, taken or
\* passed; and the same without a guard.
Guards3 == { Cmp(fn, a, L(k, "f64")) : fn \in {"le", "lt", "gt", "ge", "eq", "ne"},
             a \in {C(3), Abs(C(3))}, k \in {0, 1, Inf} }
           \union { Cmp("gt", L(0, "f64"), C(3)), Cmp("lt", L(0, "f64"), C(3)) }
Guarded ==
  { Case("f64", <<g, r>> \o d) : g \in Guards3, r \in {N("f64"), F("ln", C(3)), F("sin", C(3))},
      d \in {<<>>, <<F("ln", C(3))>>, <<F("sqrt", C(3))>>, <<F("sin", C(3))>>} }
  \union { Case("f64", <<op, N("f64"), F(fn, C(3))>>) :
            fn \in {"ln", "sqrt", "sin"},
            op \in { Or(IsNull(C(3), 0), Cmp("le", C(3), L(0, "f64"))),
                     Or(C(4), Cmp("lt", C(3), L(0, "f64"))),
                     Or(Cmp("eq", Abs(C(3)), L(Inf, "f64")), Not(C(4))) } }
  \union { Case("f64", <<And(Cmp("gt", C(3), L(0, "f64")), C(4)), F("ln", C(3)), C(3)>>),
           Case("f64", <<Cmp("ge", C(3), L(0, "f64")), Arith("div", F("sqrt", C(3)), C(3)), N("f64")>>),
           F("ln", Arith("mul", C(3), L(Inf, "f64"))), F("ln", C(3)), F("fneg", F("sqrt", C(3))),
           Strict("logb", "", "f64", <<C(3), Arith("mul", C(3), C(3))>>),
           Strict("i2f", "", "f64", <<C(2)>>), Cast("cast", C(3), "i1"),
           Arith("idiv", C(3), C(3)), Arith("idiv", L(1, "f64"), L(0, "f64")),
           Cast("cast", Arith("mul", C(3), L(Inf, "f64")), "i64") }

\* What a condition may skip, and what a value may not.
Over == Cmp("gt", Arith("add", C(2), L(1, "i8")), L(0, "i8"))
Bools == { And(C(4), Over), Or(C(4), Over), Not(And(C(4), Over)), And(Over, C(4)),
           Or(Not(C(4)), And(C(4), Over)), IsNull(And(C(4), Over), 1), Not(Or(Over, C(4))),
           And(N("i1"), Over), Or(L(1, "i1"), Over), And(C(4), N("i1")),
           Case("i1", <<L(1, "i1"), And(C(4), Over)>>),
           Case("i1", <<C(4), Over, L(0, "i1"), C(4), N("i1"), Over, IsNull(C(4), 0), N("i1")>>),
           Case("i1", <<L(0, "i1"), Over, N("i1"), C(4)>>),
           Case("i1", <<C(4), C(4), L(1, "i1"), Over, Over>>) }
Conditions ==
  Bools \union { Case("i8", <<b, C(1), C(2)>>) : b \in Bools }
        \union { Case("i8", <<C(4), Arith("add", C(2), C(1))>> \o d) :
                  d \in {<<>>, <<C(1)>>, <<Raise(1, "i8")>>} }
        \union { Case("i8", <<b, Raise(1, "i8"), Over, C(1), Raise(2, "i8")>>) :
                  b \in {C(4), Over, And(C(4), Over)} }

\* One scrutinee against constants, repeated and unsorted, then other arms.
Eq(x, k) == Cmp("eq", x, L(k, "i64"))
Dispatch(x, keys, r, d) ==
  Case("i64", <<Eq(x, keys[1]), L(1, "i64"), Eq(x, keys[2]), L(2, "i64"),
                Cmp("eq", L(keys[3], "i64"), x), r>> \o d)
AfterArms(x) ==
  {<<>>, <<Arith("add", x, L(1, "i64"))>>, <<Cmp("lt", C(2), L(0, "i8")), L(0, "i64")>>,
   <<Eq(C(7), 3), L(-1, "i64"), Eq(C(7), -4), L(-2, "i64"), Eq(C(7), 0), L(-3, "i64"), L(-4, "i64")>>}
Dispatches ==
  UNION { { Dispatch(x, keys, r, d) : keys \in [1 .. 3 -> {-4, 0, 3}], r \in {L(3, "i64"), N("i64")},
                                      d \in AfterArms(x) } : x \in {C(7), C(8)} }

\* Strings: nothing a NULL row could trip over here.
Texts == { Text1("jaccard", "f64", <<a, b>>) : a, b \in {C(5), C(6), L(0, "str")} }
         \union { Text1("pad", "str", <<a, n, b>>) : a, b \in {C(5), C(6)}, n \in {C(7), C(8), L(2, "i64")} }
         \union { Text1("hamming", "i64", <<a, b>>) : a, b \in {C(5), C(6)} }
         \union { Text1("slice", "str", <<a, C(1), C(7)>>) : a \in {C(5), S2} }
         \union { Text1("like", "i1", <<a, b>>) : a, b \in {C(5), S2} }
         \union { Text1("like", "i1", <<C(6), L(2, "str"), b>>) : b \in {C(6), L(1, "str")} }
         \union { Text1("substr", "str", <<C(6), n>>) : n \in {C(7), C(1), C(2), L(2, "i64")} }
         \union { Text1("length", "i64", <<Text1("substr", "str", <<a, C(1), L(1, "i64")>>)>>) : a \in {C(5), C(6)} }
         \union { Text1("extract", "i1", <<C(6), C(7)>>), Text1("repeat", "str", <<C(6), C(7)>>),
                   Cast("cast", S2, "i8"), Cast("try", S2, "i8"), Cast("cast", C(6), "i64") }

\* The same subexpression under items, guards, other shared values and lets.
Big1 == Arith("div", Arith("mul", C(3), C(3)), Arith("add", C(3), L(1, "f64")))
Big2 == Arith("mul", Big1, Arith("sub", Big1, C(3)))
If(b, e) == Case("f64", <<b, e>>)
Shares ==
  { <<a, b>> : a, b \in {Big1, Big2, If(C(4), Big1), If(C(4), Big2), F("ln", Big1),
                         Case("f64", <<C(4), Big1, Not(C(4)), Big1, Big2>>)} }
  \union { <<Big1, If(Cmp("gt", Big1, L(0, "f64")), F("ln", Big1)), Big2>>,
           <<Big2, C(3), If(C(4), Arith("add", Big1, Big1))>>,
           <<If(C(4), Arith("add", Big1, Big1)), Cast("cast", Big1, "i64"), Big2>>,
           <<Big1, Arith("add", Big1, Big1), C(3), Arith("sub", Big2, Big2), Big2, Big1>> }

Check1 == Cast("cast", C(7), "i8")
Check2 == Arith("add", C(2), L(1, "i8"))
Checked1(v) == Checking(2, <<Check1, v>>)
Checked2(v) == Checking(1, <<v, Check2>>)
Checks ==
  { <<a, b>> : a, b \in { Checked1(C(2)), Checked2(C(1)), Case("i8", <<C(4), Checked1(C(2)), C(1)>>),
                          Case("i8", <<C(4), Checked1(C(1)), Not(C(4)), Checked2(C(2)), Checked1(C(2))>>),
                          Case("i8", <<And(C(4), Cmp("eq", Checked1(C(2)), C(1))), C(2), Checked2(C(1))>>),
                          Checking(3, <<Check1, Check2, C(2)>>), Abs(Checked1(C(2))),
                          Checking(1, <<C(2), Checked1(C(1))>>) } }

\* User functions and models: one call for the fields of one record.
Udfs == { <<Udf("f", 0, C(8)), Udf("f", 1, C(8)), Udf("f", 2, C(8))>>,
          <<Case("i64", <<Udf("f", 0, C(8)), Udf("f", 1, C(8))>>), Udf("g", 1, C(7))>>,
          <<Checking(2, <<Udf("g", 1, C(7)), C(2)>>), Checking(2, <<Udf("g", 1, C(7)), C(1)>>)>> }
        \union { <<Node("predict", "", 0, "f64", a.nul, <<a, b>>)>> :
                   a \in {C(8), Arith("sub", C(8), L(-4, "i64")), L(0, "i64")},
                   b \in {C(3), L(1, "f64")} }

---------------------------------------------------------------------------
(* Plans of two stages, of joins and of scalar subqueries.                  *)

Slot(i, e) == Node("slot", "", i, e.ty, e.nul, <<>>)
Stage(js, pred, items) == [joins |-> js, pred |-> pred, items |-> items, lets |-> <<>>]
TwoStages ==
  { [joins |-> <<>>,
     stages |-> <<Stage(<<>>, w1, inner),
                  Stage(<<>>, w2, <<Arith("div", Slot(1, inner[1]), Slot(2, inner[2])), Slot(2, inner[2])>>)>>] :
      w1 \in {<<>>, <<C(4)>>}, inner \in {<<Big1, Big2>>, <<C(3), F("ln", C(3))>>, <<If(C(4), Big2), Big1>>},
      w2 \in {<<>>, <<Cmp("gt", Node("slot", "", 1, "f64", TRUE, <<>>), L(0, "f64"))>>} }
Lets ==
  { [joins |-> <<>>,
     stages |-> <<[Stage(<<>>, <<>>, <<r, F("sqrt", r), C(3)>>) EXCEPT !.lets = <<l>>]>>] :
      r \in {Node("let", "", 1, "f64", TRUE, <<>>)}, l \in {Big1, F("ln", C(3))} }

JoinTo(kind, keys, nd, rows, residual, after) ==
  [kind |-> kind, keys |-> keys, nd |-> nd, residual |-> residual, after |-> after, rows |-> rows,
   nul |-> <<FALSE, TRUE>>, fold |-> <<>>, scan |-> FALSE]
TableRow(k, v, w) == [keys |-> <<k>>, vals |-> <<v, w>>]
Table == <<TableRow(Val(-4), Val(1), Null), TableRow(Val(3), Val(-2), Val(2)), TableRow(Null, Val(0), Val(3))>>
Static(j, c, nul) == Node("static", "", 10 * j + c, IF c = 1 THEN "i8" ELSE "i64", nul, <<>>)
Hit(j) == Node("hit", "", 10 * j, "i1", FALSE, <<>>)
Joins ==
  { [joins |-> <<JoinTo(kind, <<k>>, <<nd>>, Table, res, after)>>,
     stages |-> <<Stage(<<1>>, w, <<Static(1, 2, TRUE), Hit(1),
                                    Arith("add", Static(1, 1, kind = "left"), L(1, "i8"))>>)>>] :
      kind \in {"inner", "left"}, k \in {C(8), Arith("add", C(8), L(1, "i64"))}, nd \in BOOLEAN,
      w \in {<<>>, <<Cmp("lt", C(7), L(0, "i64"))>>}, after \in {FALSE},
      res \in {<<>>, <<Cmp("lt", Static(1, 2, TRUE), L(3, "i64"))>>,
               <<Case("i1", <<IsNull(Static(1, 2, TRUE), 0), C(4),
                              Cmp("lt", Arith("add", Static(1, 1, FALSE), C(1)), Static(1, 1, FALSE))>>)>>} }
  \union
  { [joins |-> <<JoinTo("left", <<Arith("add", C(8), L(1, "i64"))>>, <<FALSE>>, Table, <<>>, TRUE)>>,
     stages |-> <<Stage(<<1>>, <<C(4)>>, <<Static(1, 2, TRUE)>>)>>] }

\* A subquery's scan of the rows of one key, or of all.
ScanOf(keys, nd, rows) ==
  [JoinTo("left", keys, nd, rows, <<>>, FALSE) EXCEPT !.scan = TRUE]
FoldOf(pred, aggs, post, after) ==
  [JoinTo("left", <<>>, <<>>, <<>>, <<>>, after)
     EXCEPT !.fold = <<[rows |-> 1, pred |-> pred, aggs |-> aggs, post |-> post]>>]
ScanRows == <<TableRow(Val(3), Val(1), Null), TableRow(Val(3), Val(-2), Val(2)),
              TableRow(Val(-4), Val(0), Val(3)), TableRow(Val(3), Val(0), Val(-4))>>
Agg(fn, arg) == [fn |-> fn, arg |-> arg]
Folds ==
  { [joins |-> <<ScanOf(<<k>>, <<FALSE>>, ScanRows), FoldOf(pred, aggs, post, after)>>,
     stages |-> <<Stage(<<1, 2>>, <<C(4)>>,
                        <<Static(2, 1, TRUE), Hit(2), C(1)>>
                        \o IF post = <<>> THEN <<>> ELSE <<Static(2, 3, TRUE)>>)>>] :
      k \in {C(8), Arith("add", C(8), L(1, "i64"))}, after \in BOOLEAN,
      aggs \in {<<Agg("min", 1), Agg("sum", 2)>>, <<Agg("count_star", 0), Agg("max", 2)>>,
                <<Agg("count", 2), Agg("min", 2)>>},
      pred \in {<<>>, <<Cmp("lt", Static(1, 1, FALSE), C(1))>>,
                <<And(C(4), Cmp("lt", Arith("add", Static(1, 1, FALSE), C(1)), L(1, "i8")))>>,
                <<Case("i1", <<IsNull(Static(1, 2, TRUE), 0), L(1, "i1"),
                               Cmp("gt", Static(1, 2, TRUE), C(8))>>)>>},
      post \in {<<>>, <<Case("i64", <<Hit(2), Arith("sub", Static(2, 2, TRUE), L(1, "i64")), L(0, "i64")>>)>>} }

MCPlans == { Alone(e) : e \in Ints \union Wides \union Decs \union Guarded \union Conditions \union Dispatches \union Texts }
           \union { Items(es) : es \in Shares \union Checks \union Udfs }
           \union TwoStages \union Lets \union Joins \union Folds

\* The operations that check an operand under its own flag, or under none.
NullTexts ==
  { Alone(e) : e \in
      { Text1("substr", "str", <<C(5), n>>) : n \in {C(7), C(8)} }
      \union { Text1("like", "i1", <<C(5), L(2, "str"), C(6)>>),
               Text1("extract", "i1", <<C(5), C(7)>>),
               Text1("repeat", "str", <<C(5), C(7)>>),
               Text1("repeat", "str", <<S2, C(7)>>) } }

PlanNodes(p) ==
  (UNION { AllNodes(p.stages[k].items \o p.stages[k].pred \o p.stages[k].lets) : k \in DOMAIN p.stages })
  \union UNION { AllNodes(p.joins[j].keys \o p.joins[j].residual
                         \o IF p.joins[j].fold = <<>> THEN <<>>
                            ELSE p.joins[j].fold[1].pred \o p.joins[j].fold[1].post)
                 : j \in DOMAIN p.joins }
Used(p) == { x.n : x \in { y \in PlanNodes(p) : y.op = "col" } }
Outcomes(i) == { Val(v) : v \in Domain[i] } \union IF i \in Nullable THEN {Null} ELSE {}
MCRows(p) ==
  { [ i \in DOMAIN Types |-> IF i \in Used(p) THEN f[i] ELSE Val(0) ] :
      f \in { g \in [ Used(p) -> UNION { Outcomes(i) : i \in Used(p) } ] :
                \A i \in Used(p) : g[i] \in Outcomes(i) } }
=============================================================================
