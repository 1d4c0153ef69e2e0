------------------------------ MODULE FitQuery ------------------------------
(***************************************************************************)
(* Queries over the two parameters __FIT__ and __THIS__: the tree that     *)
(* freezing rewrites (_nodes.py), the walks over it, and what DuckDB       *)
(* answers for it.                                                         *)
(*                                                                         *)
(* A node is a record tagged `is'. Expressions are col, lit, op, agg, sub  *)
(* (a subquery) and star; sources are table, subref, join and none; query  *)
(* nodes are select, union and recursive. The conjuncts of a WHERE are a   *)
(* sequence. Operators and functions nothing branches on are one `op'.     *)
(***************************************************************************)
EXTENDS Integers, FiniteSets, SequencesExt

CONSTANT Lower   \* names with capitals, and what DuckDB's binder makes of them

FIT  == "__FIT__"
THIS == "__THIS__"
Fold(s) == IF s \in DOMAIN Lower THEN Lower[s] ELSE s

Col(q, c)     == [is |-> "col", q |-> q, c |-> c]
Lit(v)        == [is |-> "lit", v |-> v]
Op(op, args)  == [is |-> "op", op |-> op, args |-> args]
Agg(f, args)  == [is |-> "agg", f |-> f, args |-> args]
Scalar(q)     == [is |-> "sub", type |-> "SCALAR", query |-> q]
Exists(q)     == [is |-> "sub", type |-> "EXISTS", query |-> q]
Star          == [is |-> "star"]

Table(name, alias) == [is |-> "table", name |-> name, alias |-> alias, sample |-> FALSE]
Derived(q, alias)  == [is |-> "subref", query |-> q, alias |-> alias]
Join(l, r)         == [is |-> "join", left |-> l, right |-> r]    \* may be lateral
Nothing            == [is |-> "none"]

\* Names of columns: written ones, and those DuckDB derives by printing. A
\* nested column is one with a field.
Named(s)     == [s |-> s, field |-> "", of |-> <<>>]
Nested(s, f) == [s |-> s, field |-> f, of |-> <<>>]
Printed(x)   == [s |-> "", field |-> "", of |-> <<x>>]
NoName     == Named("")
Item(x)    == [x |-> x, as |-> NoName]
As(x, s)   == [x |-> x, as |-> Named(s)]

Select(items, from, where) ==
  [is |-> "select", ctes |-> <<>>, modifier |-> "", items |-> items, from |-> from,
   where |-> where, group |-> <<>>]
Union(l, r)     == [is |-> "union", ctes |-> <<>>, left |-> l, right |-> r]
Recursive(l, r) == [is |-> "recursive", ctes |-> <<>>, left |-> l, right |-> r]
With(ctes, q)   == [q EXCEPT !.ctes = ctes]
Cte(key, q)     == [key |-> key, query |-> q]
SelectStar(name) == Select(<<Item(Star)>>, Table(name, ""), <<>>)

IsQuery(v) == v.is \in {"select", "union", "recursive"}
IsRef(v)   == v.is \in {"table", "subref", "join", "none"}
CteEntries(v) == IF IsQuery(v) THEN v.ctes ELSE <<>>

-----------------------------------------------------------------------------
(* The walks.                                                              *)

Exprs(items) == [i \in DOMAIN items |-> items[i].x]

Children(v) ==   \* those of CTE definitions apart
  CASE v.is \in {"op", "agg"} -> v.args
    [] v.is \in {"sub", "subref"} -> <<v.query>>
    [] v.is \in {"join", "union", "recursive"} -> <<v.left, v.right>>
    [] v.is = "select" -> Exprs(v.items) \o <<v.from>> \o v.where \o v.group
    [] OTHER -> <<>>

WithChildren(v, cs) ==
  CASE v.is \in {"op", "agg"} -> [v EXCEPT !.args = cs]
    [] v.is \in {"sub", "subref"} -> [v EXCEPT !.query = cs[1]]
    [] v.is \in {"join", "union", "recursive"} -> [v EXCEPT !.left = cs[1], !.right = cs[2]]
    [] v.is = "select" ->
         LET n == Len(v.items)  w == Len(v.where) IN
         [v EXCEPT !.items = [i \in DOMAIN @ |-> [@[i] EXCEPT !.x = cs[i]]],
                   !.from = cs[n + 1], !.where = SubSeq(cs, n + 2, n + 1 + w),
                   !.group = SubSeq(cs, n + 2 + w, Len(cs))]
    [] OTHER -> v

\* All below v; unless deep, nested queries are met but not entered.
RECURSIVE Descendants(_, _)
Descendants(v, deep) ==
  LET bodies == IF deep THEN [i \in DOMAIN CteEntries(v) |-> CteEntries(v)[i].query] ELSE <<>>
  IN  UNION { {c} \union IF deep \/ ~IsQuery(c) THEN Descendants(c, deep) ELSE {}
                : c \in Range(bodies \o Children(v)) }

-----------------------------------------------------------------------------
(* What DuckDB answers. A table is its columns, its rows and what went     *)
(* wrong, 0 if nothing. Values are numbers; keys of a VARCHAR column are   *)
(* 100 * spelling + number: compared with a number they are cast to it.    *)

Null    == -1
BindErr == -90     \* a name that resolves to nothing, or to two things
FanOut  == -91     \* error('...')
TooMany == -92     \* more than one row in a scalar subquery
Bad(v)  == v <= BindErr

Truth(b) == IF b THEN 1 ELSE 0
Same(x, y) == IF x >= 100 /\ y >= 100 THEN x = y ELSE x % 100 = y % 100

Apply(op, a) ==
  LET null == \E i \in DOMAIN a : a[i] = Null IN
  CASE \E i \in DOMAIN a : Bad(a[i]) -> CHOOSE v \in Range(a) : Bad(v)
    [] op = "error"   -> FanOut
    [] op = "notnull" -> Truth(~null)
    [] op = "indf"    -> Truth(IF null THEN a[1] = a[2] ELSE Same(a[1], a[2]))
    [] op = "or"      -> IF 1 \in Range(a) THEN 1 ELSE IF null THEN Null ELSE 0
    [] null           -> Null
    [] op = "="       -> Truth(Same(a[1], a[2]))
    [] op = "<"       -> Truth(a[1] < a[2])
    [] op = "+"       -> a[1] + a[2]

\* An aggregate of no rows: of a correlated subquery nothing was found for, it
\* is NULL whatever it is of an empty input; count is repaired.
OfNothing(f, correlated) ==
  CASE f = "count" -> 0
    [] f = "approx_count_distinct" -> IF correlated THEN Null ELSE 0
    [] OTHER -> Null
Aggregate(f, vals) ==    \* NULLs are left out before
  CASE f = "count" -> Len(vals)
    [] f = "approx_count_distinct" -> Cardinality(Range(vals))
    [] vals = <<>> -> Null
    [] f = "sum" -> FoldLeft(LAMBDA s, v : s + v, 0, vals)
    [] f = "max" -> FoldLeft(LAMBDA s, v : IF v > s THEN v ELSE s, vals[1], vals)
    [] f = "any_value" -> vals[1]

\* A scope is a sequence of levels, the innermost first; a level the sources
\* of one FROM, each at a row. A field of a nested column is preferred to a
\* source of an outer level.
Hits(level, q, c) ==
  { p \in { <<i, j>> : i \in DOMAIN level, j \in 1 .. 4 } :
      /\ p[2] \in DOMAIN level[p[1]].cols
      /\ LET name == level[p[1]].cols[p[2]] IN
         \/ name.s = c /\ q \in {"", level[p[1]].alias}
         \/ name.field # "" /\ name.s = q /\ name.field = c }
RECURSIVE Resolve(_, _, _)
Resolve(scope, q, c) ==
  IF scope = <<>> THEN BindErr
  ELSE LET hits == Hits(Head(scope), q, c) IN
       IF hits = {} THEN Resolve(Tail(scope), q, c)
       ELSE LET p == CHOOSE p \in hits : TRUE IN Head(scope)[p[1]].row[p[2]]

\* The names a source binds, and the qualified references that leave a query.
RECURSIVE Binds(_), LeavesOf(_, _)
Binds(ref) ==
  CASE ref.is = "table" -> {Fold(IF ref.alias # "" THEN ref.alias ELSE ref.name)}
    [] ref.is = "subref" -> {Fold(ref.alias)}
    [] ref.is = "join" -> Binds(ref.left) \union Binds(ref.right)
    [] OTHER -> {}
LeavesOf(v, bound) ==
  LET here == IF v.is = "select" THEN bound \union Binds(v.from) ELSE bound IN
  IF v.is = "col" THEN IF v.q = "" \/ Fold(v.q) \in bound THEN {} ELSE {v}
  ELSE UNION { LeavesOf(c, here) : c \in Range(Children(v)) }
Correlated(q) == LeavesOf(q, {}) # {}

HasAgg(x) == \E v \in {x} \union Descendants(x, FALSE) : v.is = "agg"
NameOf(item) == IF item.as # NoName THEN item.as
                ELSE IF item.x.is = "col" THEN Named(item.x.c) ELSE Printed(item.x)

Faults(vals) == LET bad == { v \in vals : Bad(v) } IN
                IF bad = {} THEN 0 ELSE CHOOSE v \in bad : TRUE
Result(cols, rows, bad) == [cols |-> cols, rows |-> rows, bad |-> bad]

\* What an aggregate makes of a group, and an expression of its subquery.
AggregateOf(f, vals) ==
  IF Faults(Range(vals)) # 0 THEN Faults(Range(vals))
  ELSE Aggregate(f, SelectSeq(vals, LAMBDA v : v # Null))
SubqueryValue(type, t) ==
  CASE t.bad # 0 -> t.bad
    [] t.bad = 0 /\ type = "EXISTS" -> Truth(t.rows # <<>>)
    [] t.bad = 0 /\ type = "SCALAR" ->
         IF Len(t.rows) > 1 THEN TooMany ELSE IF t.rows = <<>> THEN Null ELSE t.rows[1][1]

\* Which argument a CASE of n is, given its conditions: a failed one is itself.
Arm(conds, n) ==
  LET i == SelectInSeq(conds, LAMBDA c : c = 1 \/ Bad(c)) IN
  IF i = 0 THEN n ELSE IF Bad(conds[i]) THEN 2 * i - 1 ELSE 2 * i

\* group: the scopes of the rows an aggregate of this level runs over.
RECURSIVE Answer(_, _, _), Value(_, _, _, _, _), Levels(_, _, _)
Value(x, tabs, scope, group, correlated) ==
  CASE x.is = "col" -> Resolve(scope, Fold(x.q), x.c)
    [] x.is = "lit" -> x.v
    [] x.is = "op" /\ x.op = "case" ->
         Value(x.args[Arm([i \in 1 .. Len(x.args) \div 2 |->
                             Value(x.args[2 * i - 1], tabs, scope, group, correlated)], Len(x.args))],
               tabs, scope, group, correlated)
    [] x.is = "op" /\ x.op # "case" ->
         Apply(x.op, [i \in DOMAIN x.args |-> Value(x.args[i], tabs, scope, group, correlated)])
    [] x.is = "agg" /\ group = <<>> -> OfNothing(x.f, correlated)
    [] x.is = "agg" /\ group # <<>> ->
         AggregateOf(x.f, [i \in DOMAIN group |->
                             IF x.args = <<>> THEN 1 ELSE Value(x.args[1], tabs, group[i], <<>>, FALSE)])
    [] x.is = "sub" -> SubqueryValue(x.type, Answer(x.query, tabs, scope))

\* The rows of a source, as levels, and what went wrong.
Bound(alias, t) ==
  [rows |-> [i \in DOMAIN t.rows |-> << [alias |-> Fold(alias), cols |-> t.cols, row |-> t.rows[i]] >>],
   bad  |-> t.bad]
Joined(l, r) ==    \* r: the right side's rows, for each row of the left
  [rows |-> FlattenSeq([i \in DOMAIN r |-> [j \in DOMAIN r[i].rows |-> l.rows[i] \o r[i].rows[j]]]),
   bad  |-> Faults({l.bad} \union { r[i].bad : i \in DOMAIN r })]
JoinedTo(l, right, tabs, scope) ==
  Joined(l, [i \in DOMAIN l.rows |-> Levels(right, tabs, <<l.rows[i]>> \o scope)])
Levels(ref, tabs, scope) ==
  CASE ref.is = "none" -> [rows |-> << <<>> >>, bad |-> 0]
    [] ref.is = "table" -> IF Fold(ref.name) \in DOMAIN tabs
                           THEN Bound(IF ref.alias # "" THEN ref.alias ELSE ref.name, tabs[Fold(ref.name)])
                           ELSE [rows |-> <<>>, bad |-> BindErr]
    [] ref.is = "subref" -> Bound(ref.alias, Answer(ref.query, tabs, scope))
    [] ref.is = "join" -> JoinedTo(Levels(ref.left, tabs, scope), ref.right, tabs, scope)

Tables(ctes, tabs, scope) ==
  FoldLeft(LAMBDA acc, e : (Fold(e.key) :> Answer(e.query, acc, scope)) @@ acc, tabs, ctes)
TwoOfOneName(ctes) == \E i, j \in DOMAIN ctes : i < j /\ Fold(ctes[i].key) = Fold(ctes[j].key)

Dedup(rows) == FoldLeft(LAMBDA acc, r : IF r \in Range(acc) THEN acc ELSE Append(acc, r), <<>>, rows)

\* Rows grouped by the values of the keys, groups in the order they are met.
GroupsOf(scopes, keys, order) ==
  [g \in DOMAIN order |->
     LET at == SelectSeq([i \in DOMAIN scopes |-> i], LAMBDA i : keys[i] = order[g])
     IN  [k \in DOMAIN at |-> scopes[at[k]]]]
Grouped(scopes, keys) == GroupsOf(scopes, keys, Dedup(keys))

\* What is projected: for each group the scope it is read in and its rows.
Groups(q, tabs, kept) ==
  CASE q.group # <<>> -> Grouped(kept, [i \in DOMAIN kept |-> [g \in DOMAIN q.group |->
                                          Value(q.group[g], tabs, kept[i], <<>>, FALSE)]])
    [] q.group = <<>> /\ \E i \in DOMAIN q.items : HasAgg(q.items[i].x) -> <<kept>>
    [] OTHER -> [i \in DOMAIN kept |-> <<kept[i]>>]

Projected(q, tabs, here, group, correlated) ==
  FlattenSeq([i \in DOMAIN q.items |->
    IF q.items[i].x.is = "star" THEN FlattenSeq([b \in DOMAIN here[1] |-> here[1][b].row])
    ELSE << Value(q.items[i].x, tabs, here, group, correlated) >>])
Header(q, levels) ==
  FlattenSeq([i \in DOMAIN q.items |->
    IF q.items[i].x.is # "star" THEN << NameOf(q.items[i]) >>
    ELSE IF levels = <<>> THEN <<>> ELSE FlattenSeq([b \in DOMAIN levels[1] |-> levels[1][b].cols])])

Holding(scopes, holds) ==    \* rows every conjunct is true of
  LET at == SelectSeq([i \in DOMAIN scopes |-> i], LAMBDA i : holds[i] \subseteq {1})
  IN  [k \in DOMAIN at |-> scopes[at[k]]]
Finished(q, cols, rows, bad) ==
  Result(cols, IF q.modifier = "distinct" THEN Dedup(rows) ELSE rows,
         Faults({bad} \union UNION { Range(r) : r \in Range(rows) }))
Selected(q, tabs, scope, src, groups, bad) ==
  Finished(q, Header(q, src.rows),
           [g \in DOMAIN groups |-> Projected(q, tabs, IF groups[g] = <<>> THEN scope ELSE groups[g][1],
                                               groups[g], Correlated(q))], bad)
Filtered(q, tabs, scope, src, scopes, holds) ==
  Selected(q, tabs, scope, src, Groups(q, tabs, Holding(scopes, holds)),
           Faults({src.bad} \union UNION Range(holds)))
Scoped(q, tabs, scope, src, scopes) ==
  Filtered(q, tabs, scope, src, scopes,
           [i \in DOMAIN scopes |-> { Value(q.where[c], tabs, scopes[i], <<>>, FALSE) : c \in DOMAIN q.where }])
SelectAnswer(q, tabs, scope, src) ==
  Scoped(q, tabs, scope, src, [i \in DOMAIN src.rows |-> <<src.rows[i]>> \o scope])

Both(l, r) == Result(l.cols, l.rows \o r.rows, Faults({l.bad, r.bad}))
Body(q, tabs, scope) ==
  IF q.is = "select" THEN SelectAnswer(q, tabs, scope, Levels(q.from, tabs, scope))
  ELSE Both(Answer(q.left, tabs, scope), Answer(q.right, tabs, scope))
Answer(q, tabs, scope) ==
  IF TwoOfOneName(q.ctes) THEN Result(<<>>, <<>>, BindErr)
  ELSE Body(q, Tables(q.ctes, tabs, scope), scope)
=============================================================================
