----------------------------- MODULE MCFreezing -----------------------------
(* Texts over __FIT__(k, v, w) and __THIS__(k, v, tk), and rows for both.   *)
EXTENDS FrozenServing

MCLower == [s \in {"T", "A", "C", "G", "__param_A", "__param_a"} |->
              CASE s = "T" -> "t" [] s = "A" -> "a" [] s = "C" -> "c" [] s = "G" -> "g" [] OTHER -> "__param_a"]

T     == Table(THIS, "t")
F     == Table(FIT, "f")
Eq(x, y)  == Op("=", <<x, y>>)
Indf(x, y) == Op("indf", <<x, y>>)
Less(x, y) == Op("<", <<x, y>>)
tk == Col("t", "k")
tv == Col("t", "v")
fk == Col("f", "k")
fv == Col("f", "v")
OnKey == Eq(fk, tk)
Sum(x) == Agg("sum", <<x>>)
Max1(x) == Agg("max", <<x>>)
Count  == Agg("count", <<>>)
Rows(from, where, items) == Select(items, from, where)
One(f, x, where) == Scalar(Select(<<Item(Agg(f, x))>>, F, where))
Beside(x) == Select(<<Item(tv), Item(x)>>, T, <<>>)    \* SELECT t.v, x FROM __THIS__ t
FitRows(alias) == Derived(Select(<<Item(Col("", "k")), Item(Col("", "v"))>>, Table(FIT, ""), <<>>), alias)
PerKey == Select(<<Item(Col("", "k")), As(Sum(Col("", "v")), "s")>>, Table(FIT, ""), <<>>)
Grouping(q) == [q EXCEPT !.group = <<Col("", "k")>>]

\* Lifted, with every place a conjunct can go.
Lifts ==
  { Beside(One("sum", <<fv>>, <<>>)),
    Beside(One("sum", <<fv>>, <<OnKey>>)),
    Beside(One("count", <<>>, <<OnKey>>)),
    Beside(One("approx_count_distinct", <<fv>>, <<OnKey>>)),
    Beside(One("max", <<fv>>, <<Indf(tk, fk)>>)),
    Beside(One("count", <<>>, <<Indf(fk, tk), Less(fv, Lit(6))>>)),
    Beside(One("sum", <<fv>>, <<OnKey, Less(tv, Lit(5))>>)),
    Beside(One("count", <<>>, <<OnKey, Less(tv, Lit(5)), Less(Lit(5), fv)>>)),
    Beside(One("count", <<>>, <<Less(tv, Lit(5))>>)),
    Beside(One("max", <<fv>>, <<Eq(Op("+", <<fk, Lit(1)>>), tk)>>)),
    Beside(Op("+", <<One("max", <<fv>>, <<OnKey>>), One("sum", <<fv>>, <<>>)>>)) }

Apart ==
  { \* a derived table, of two columns; then one spliced a level down
    Select(<<Item(tv), Item(Col("s", "m")), Item(Col("s", "n"))>>,
           Join(T, Derived(Select(<<As(Max1(fv), "m"), As(Count, "n")>>, F, <<OnKey>>), "s")), <<>>),
    Select(<<Item(tv), Item(Star)>>,
           Join(Table(THIS, "t"), Derived(Select(<<Item(Max1(Col("", "v")))>>,
             Derived(Select(<<Item(Star)>>, Table(FIT, ""), <<Eq(Col("", "k"), tk)>>), ""), <<>>), "s")), <<>>),
    Beside(Scalar(Select(<<Item(Max1(fv))>>,
             Derived(Select(<<Item(Star)>>, Table(FIT, "g"), <<>>), "f"), <<OnKey>>))),
    Beside(Scalar(Select(<<Item(Max1(Col("g", "v")))>>,
             Derived(Select(<<Item(Star)>>, Table(FIT, "g"), <<>>), "g"), <<Eq(Col("G", "k"), tk)>>))),
    \* the subquery's own WITH
    Beside(Scalar(With(<<Cte("c", FitRows("").query)>>,
             Select(<<Item(Max1(Col("c", "v")))>>, Table("c", ""), <<Eq(Col("c", "k"), tk)>>)))),
    \* an alias of other capitals binds inside
    Beside(Scalar(Select(<<Item(Max1(Col("T", "v")))>>, Table(FIT, "T"), <<Eq(Col("t", "k"), Lit(1))>>))),
    \* headers printed of what is frozen, under a star
    Select(<<Item(Star)>>, Derived(Select(<<Item(One("max", <<fv>>, <<OnKey>>))>>, T, <<>>), "s"), <<>>),
    \* the uncorrelated ones of a derived table and of a set operation's arm
    Select(<<Item(tv), Item(Col("s", "v"))>>, Join(T, FitRows("s")), <<Eq(tk, Col("s", "k"))>>),
    Union(Select(<<As(tv, "v")>>, T, <<>>), Select(<<As(Sum(fv), "v")>>, F, <<>>)) }

C(q) == Cte("c", q)
OverC(x, where) == Select(<<Item(tv), Item(x)>>, Join(T, Table("c", "")), where)
Pick(cs) == [Select([i \in DOMAIN cs |-> Item(Col("c", cs[i]))], Table("c", ""), <<>>)
               EXCEPT !.modifier = "distinct"]
Withs ==
  { With(<<C(Grouping(PerKey))>>, OverC(Col("c", "s"), <<Eq(Col("c", "k"), tk)>>)),
    \* one CTE frozen over another, one dead
    With(<<C(FitRows("").query), Cte("d", Select(<<As(Sum(Col("c", "v")), "s")>>, Join(Table("C", ""), F), <<OnKey, Eq(fk, Col("c", "k"))>>))>>,
         OverC(Col("c", "v"), <<Eq(Col("c", "k"), tk)>>)),
    With(<<C(FitRows("").query), Cte("d", Select(<<As(Count, "n")>>, Join(Table("C", ""), F), <<Eq(fk, Col("c", "k"))>>))>>,
         Select(<<Item(tv), Item(Col("d", "n"))>>, Join(T, Table("d", "")), <<>>)),
    \* a CTE that hides a read of __THIS__
    With(<<C(Select(<<As(Sum(tv), "m")>>, T, <<>>))>>,
         Beside(Scalar(Select(<<Item(Count)>>, Join(FitRows("f"), Table("c", "")), <<Less(fv, Col("c", "m"))>>)))),
    \* a lookup inside a CTE over __THIS__, and a dead live CTE around a frozen step
    With(<<C(Beside(One("sum", <<fv>>, <<OnKey>>)))>>, SelectStar("c")),
    With(<<C(Select(<<Item(tk)>>, T, <<>>))>>,
         Select(<<Item(Col("c", "k")), Item(One("sum", <<fv>>, <<Eq(fk, Col("c", "k"))>>))>>, Table("c", ""), <<>>)),
    \* picks of a frozen carrier's columns, one and two
    With(<<C(FitRows("").query)>>,
         Select(<<Item(tv), Item(Col("p", "v")), Item(Col("r", "k"))>>,
                Join(T, Join(Derived(Pick(<<"k", "v">>), "p"), Derived(Pick(<<"k">>), "r"))),
                <<Eq(Col("p", "k"), tk), Eq(Col("r", "k"), tk)>>)),
    With(<<C(FitRows("").query)>>,
         Select(<<Item(tv), Item(Col("p", "v"))>>,
                Join(T, Derived(Pick(<<"k", "v">>), "p")), <<Eq(Col("p", "k"), tk)>>)),
    \* the name of a frozen CTE taken twice, by scopes that are apart
    With(<<Cte("a", Select(<<As(Sum(fv), "s")>>, F, <<>>))>>,
         Select(<<Item(Col("a", "s")), Item(Col("d", "s"))>>,
                Join(Table("a", ""), Derived(With(<<Cte("a", Select(<<As(Max1(fv), "s")>>, F, <<>>))>>,
                       Select(<<Item(Col("a", "s"))>>, Join(Table("a", ""), T), <<>>)), "d")), <<>>)),
    \* the same WITH name around a frozen step and in it
    With(<<C(FitRows("").query)>>,
         OverC(Scalar(With(<<C(Select(<<As(Sum(fv), "s")>>, F, <<>>))>>, SelectStar("c"))),
               <<Eq(Col("c", "k"), tk)>>)) }

\* Refused when built, or at fit.
Refusals ==
  { Beside(Exists(Select(<<Item(Lit(1))>>, F, <<OnKey>>))),
    Beside(One("sum", <<fv>>, <<Less(fk, tk)>>)),
    Beside(One("sum", <<fv>>, <<Op("or", <<OnKey, Less(fv, Lit(4))>>)>>)),
    Beside(One("sum", <<Op("+", <<fv, tv>>)>>, <<OnKey>>)),
    Beside(Scalar([Select(<<Item(fv)>>, F, <<OnKey>>) EXCEPT !.modifier = "limit"])),
    Beside(Scalar([Select(<<Item(Sum(fv))>>, F, <<OnKey>>) EXCEPT !.group = <<fk>>])),
    Beside(Scalar(Select(<<Item(Sum(fv))>>, [F EXCEPT !.sample = TRUE], <<OnKey>>))),
    Beside(Scalar(Select(<<Item(fv)>>, F, <<OnKey>>))),
    Beside(Scalar(Union(Select(<<Item(Sum(fv))>>, F, <<OnKey>>), Select(<<Item(Lit(1))>>, Nothing, <<Less(tv, Lit(0))>>)))),
    Select(<<Item(tv), Item(fv)>>, Join(T, F), <<OnKey>>),
    With(<<C(Recursive(Select(<<Item(fv)>>, F, <<>>), SelectStar("c")))>>, OverC(Col("c", "v"), <<>>)),
    \* not to be told before there are columns: tk is a column of __THIS__
    Beside(One("sum", <<fv>>, <<Eq(fk, Col("", "tk"))>>)),
    Select(<<Item(tv), Item(Col("s", "m"))>>,
           Join(T, Derived(Union(Select(<<As(Sum(fv), "m")>>, F, <<OnKey>>),
                                 Select(<<As(tv, "m")>>, Table(THIS, "u"), <<>>)), "s")), <<>>) }

MCQueries == Lifts \union Apart \union Withs \union Refusals

Cols(names) == [i \in DOMAIN names |-> Named(names[i])]
FitOf(rows)  == Result(Cols(<<"k", "v", "w">>), rows, 0)
ThisOf(rows) == Result(Cols(<<"k", "v", "tk">>), rows, 0)
MCFitTables ==
  { FitOf(<< <<1, 5, 0>>, <<1, 7, 0>>, <<2, 3, 0>>, <<Null, 9, 0>> >>),
    FitOf(<< <<101, 5, 0>>, <<201, 7, 0>>, <<2, Null, 0>> >>),    \* VARCHAR keys, two of them 1
    FitOf(<<>>),
    \* t is a STRUCT of a k: DuckDB reads t.k as its field
    [FitOf(<< <<1, 5, 1>>, <<2, 6, 1>> >>) EXCEPT !.cols = <<Named("k"), Named("v"), Nested("t", "k")>>] }
MCThisTables ==
  { ThisOf(<< <<1, 4, 1>>, <<2, 6, 2>>, <<Null, 2, 3>>, <<3, 4, 3>> >>),
    ThisOf(<< <<101, 4, 1>>, <<2, 6, 1>> >>) }

\* Two CTEs of separate scopes, frozen, whose keys differ in capitals alone.
Twins ==
  { With(<<Cte("a", Select(<<As(Sum(fv), "s")>>, F, <<>>))>>,
         Select(<<Item(Col("a", "s")), Item(Col("d", "s"))>>,
                Join(Table("a", ""), Derived(With(<<Cte("A", Select(<<As(Max1(fv), "s")>>, F, <<>>))>>,
                       Select(<<Item(Col("A", "s"))>>, Join(Table("A", ""), T), <<>>)), "d")), <<>>)) }
TwinFit == { FitOf(<< <<1, 5, 0>>, <<1, 7, 0>>, <<2, 3, 0>> >>) }
=============================================================================
