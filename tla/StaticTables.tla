---------------------------- MODULE StaticTables ----------------------------
(***************************************************************************)
(* The static tables of a query as its build makes them                    *)
(* (packages/confit/src/duckdb/mod.rs): materialize_map for the rows a     *)
(* probe or a scan reads, materialize_aggs for a table grouped by its key  *)
(* with an aggregate per group, and materialize_rows for one with an       *)
(* item per group, read from the row its ORDER BY, LIMIT and OFFSET keep.  *)
(* The rows are read once, in table order, one row a step; DuckDB reads    *)
(* them in an order of its own, so a build whose answer could depend on it *)
(* is refused.                                                             *)
(*                                                                         *)
(* A source row is [key, val, ord, keep]: its key cells, the value an      *)
(* aggregate or the item reads, what ORDER BY reads, and whether the       *)
(* subquery's filter keeps it. A number is an integer, a 0 or 1 for a      *)
(* BOOLEAN or a bit, or a double as FloatSum has it. A join's build is     *)
(*   how       "map", "rows" (of a scan), "aggs" or "item";                *)
(*   fn, distinct, ties   the aggregate, whether it reads DISTINCT values, *)
(*                        and whether only comparisons read it;            *)
(*   desc, nulls_first, by_item   the ORDER BY term, if it reads the item; *)
(*   limit, offset        of the item, or of a scan's rows; -1 for none;   *)
(*   non_null  whether the value column is declared not to hold NULLs;     *)
(*   traps, flat          the values on which the SELECT item traps, and   *)
(*                        whether it gives every other value one answer.   *)
(***************************************************************************)
EXTENDS StaticMaps, FloatSum

CONSTANTS
  Unmatched,  \* a key value that no probe of the key's type equals
  Unreadable, \* a VARCHAR that the probe's type cannot read
  MaxSum,     \* the largest sum DuckDB keeps, HUGEINT or DECIMAL
  MaxAvg,     \* the largest an integer avg keeps
  MaxLong,    \* i64::MAX
  Trap,       \* the answer of an aggregate or an item that traps
  Plans       \* queries [many, joins, where]; a join is
              \* [kind, cmps, table, on, build]

ASSUME BuildAssumption ==
  /\ MaxSum \in Nat /\ MaxAvg \in Nat /\ MaxLong \in Nat
  /\ {Unmatched, Unreadable} \cap Cells = {} /\ Unmatched # Unreadable
  /\ Trap \notin Int \union {Null}

Plain(how) == how \in {"map", "rows"}

\* A source row; its key may have more cells than a join compares.
SourceRows == [key : Seq(Cells \union {Unmatched, Unreadable}), val : Int \union {Null},
               ord : Int \union {Null}, keep : BOOLEAN]

\* How a join's table is made (StaticSpec).
Fns == {"count_star", "count", "min", "max", "sum", "avg", "fsum", "favg",
        "bool_and", "bool_or", "bit_and", "bit_or", "bit_xor"}
Builds == [how : {"map", "rows", "aggs", "item"}, fn : Fns, limit : Int, offset : Int,
           distinct : BOOLEAN, ties : BOOLEAN, desc : BOOLEAN, nulls_first : BOOLEAN,
           by_item : BOOLEAN, non_null : BOOLEAN, flat : BOOLEAN,
           traps : SUBSET (Int \union {Null})]

\* What agg_call binds: DISTINCT only where it can change the answer, integers,
\* which have one spelling each, or bits; and a tie is let through only in a bare
\* min or max that comparisons read.
BitFns == {"bool_and", "bool_or", "bit_and", "bit_or", "bit_xor"}
FitsAggregate(j) ==
  LET known == { j.table[r].val : r \in DOMAIN j.table } \ {Null}
  IN /\ j.build.distinct => j.build.fn \notin {"min", "max", "bool_and", "bool_or", "bit_and", "bit_or"}
     /\ j.build.fn \in {"sum", "avg"} \union BitFns => \A v \in known : Ord(v) = v
     /\ j.build.fn \in BitFns => known \subseteq {0, 1}
     /\ j.build.ties => j.build.traps = {}

\* row_count: a LIMIT and an OFFSET are BIGINTs, not negative.
FitsOrder(j) == j.build.limit \in -1 .. MaxLong /\ j.build.offset \in 0 .. MaxLong

\* A join compares the first cells of a key. The key of the join after it reads
\* its value, a cell then, as the column of a table taken row by row is.
ASSUME PlansAssumption ==
  \A q \in Plans :
    /\ Len(q.joins) \in Nat /\ DOMAIN q.joins = 1 .. Len(q.joins)
    /\ \A k \in DOMAIN q.joins :
         LET j == q.joins[k] IN
         /\ j.kind \in {"inner", "left", "fold"}
         /\ j.cmps \in Seq({"eq", "indf"})
         /\ j.build \in Builds /\ (j.build.how = "rows" => j.build.limit \in Nat)
         /\ j.build.how = "aggs" => FitsAggregate(j)
         /\ j.build.how = "item" => FitsOrder(j)
         /\ j.table \in Seq(SourceRows) /\ \A r \in DOMAIN j.table : Len(j.cmps) <= Len(j.table[r].key)
         /\ k < Len(q.joins) /\ q.joins[k + 1].cmps # <<>> =>
              Plain(j.build.how) /\ \A r \in DOMAIN j.table : j.table[r].val \in Cells

VARIABLES
  plan,    \* the query
  tables,  \* its joins' tables as built so far: sequences of [key, val, row, bound]
  at,      \* the next source row of the table being built
  groups,  \* its groups: a function of their keys
  verdict  \* "building", "built", "refused"

buildVars == <<plan, tables, at, groups, verdict>>

Joins == plan.joins

\* A set of numbers in order.
Sorting(S) == [ i \in 1 .. Cardinality(S) |->
                  CHOOSE x \in S : Cardinality({ y \in S : y < x }) = i - 1 ]

---------------------------------------------------------------------------
(* build_keys: the first component that decides.                           *)
Decides(cmps, key, i) ==
  key[i] \in {Unmatched, Unreadable} \/ (cmps[i] = "eq" /\ key[i] = Null)
KeyFate(cmps, key) ==
  LET d == { i \in DOMAIN cmps : Decides(cmps, key, i) }
      first == CHOOSE i \in d : \A j \in d : i <= j
  IN CASE d = {} -> "kept"
       [] d # {} /\ key[first] = Unreadable -> "unreadable"
       [] OTHER -> "dropped"

\* One group per class of keys, as the probe compares them.
CanonKey(key) == [ i \in DOMAIN key |-> IF key[i] = Null THEN Null ELSE Canon[key[i]] ]

---------------------------------------------------------------------------
(* An aggregate over one group, one value at a time.                       *)
NoAcc == [n |-> 0, cur |-> Null, tie |-> FALSE, sum |-> 0, size |-> 0, abs |-> NoSum,
          seen |-> {}, odd |-> FALSE]

TieKept(acc, v) == [acc EXCEPT !.cur = v]   \* mutant: a tie of beaten values
Better(acc, v) == [acc EXCEPT !.cur = v, !.tie = FALSE]

AddExtreme(build, acc, v) ==
  LET ahead == IF build.fn = "min" THEN Ord(v) < Ord(acc.cur) ELSE Ord(v) > Ord(acc.cur)
  IN CASE acc.cur = Null -> [acc EXCEPT !.cur = v]
       [] acc.cur # Null /\ ahead -> Better(acc, v)
       [] OTHER -> [acc EXCEPT !.tie = @ \/ (Ord(v) = Ord(acc.cur) /\ v # acc.cur)]

AddBit(build, acc, v) ==
  [acc EXCEPT !.cur =
     IF @ = Null THEN v
     ELSE CASE build.fn \in {"bool_and", "bit_and"} -> @ * v
            [] build.fn \in {"bool_or", "bit_or"} -> IF @ + v > 0 THEN 1 ELSE 0
            [] build.fn = "bit_xor" -> (@ + v) % 2]

\* A value that is not NULL, and of a class not read before if only DISTINCT
\* values count. `odd' is a double that is not finite.
AddValue(build, acc, v) ==
  CASE build.fn = "count" -> [acc EXCEPT !.n = @ + 1]
    [] build.fn \in {"min", "max"} -> AddExtreme(build, acc, v)
    [] build.fn \in {"sum", "avg"} -> [acc EXCEPT !.n = @ + 1, !.sum = @ + v,
                                                  !.size = @ + Magnitude(v)]
    [] build.fn \in {"fsum", "favg"} ->
         IF Finite(v) THEN [acc EXCEPT !.n = @ + 1, !.sum = Plus(@, v), !.abs = AddExactly(@, v)]
         ELSE [acc EXCEPT !.odd = TRUE]
    [] OTHER -> AddBit(build, acc, v)

Add(build, acc, v) ==
  CASE build.fn = "count_star" -> [acc EXCEPT !.n = @ + 1]
    [] build.fn # "count_star" /\ v = Null -> acc
    [] build.fn # "count_star" /\ v # Null /\ build.distinct /\ Ord(v) \in acc.seen -> acc
    [] OTHER -> AddValue(build, [acc EXCEPT !.seen = IF build.distinct THEN @ \union {Ord(v)}
                                                     ELSE @], v)

\* The group's bound, and whether sum and bound stay in range in every order.
BoundOf(acc) == FloatBound(Total(acc.abs), acc.n)
InRange(acc) == /\ Finite(Total(acc.abs)) /\ Finite(BoundOf(acc))
                /\ Finite(Plus(Total(acc.abs), BoundOf(acc)))

Refused(build, acc) ==
  CASE build.fn \in {"min", "max"} -> acc.tie /\ ~ build.ties
    [] build.fn = "sum" -> acc.size > MaxSum
    [] build.fn = "avg" -> acc.size > MaxAvg
    [] build.fn \in {"fsum", "favg"} -> acc.odd \/ (acc.n > 0 /\ ~ InRange(acc))
    [] OTHER -> FALSE

AnswerOf(build, acc) ==
  CASE build.fn \in {"count_star", "count"} -> acc.n
    [] build.fn \in {"sum", "fsum"} -> IF acc.n = 0 THEN Null ELSE acc.sum
    [] build.fn \in {"avg", "favg"} -> IF acc.n = 0 THEN Null ELSE Rounded(acc.sum, acc.n)
    [] OTHER -> acc.cur

BoundOfFour(build, acc) ==   \* mutant: no bound for three values either
  IF acc.n <= 3 THEN 0 ELSE IF build.fn = "fsum" THEN BoundOf(acc) ELSE Rounded(BoundOf(acc), acc.n)
\* What a DOUBLE sum's group holds in a build that is asked for the bounds.
BoundAnswer(build, acc) ==
  CASE build.fn \notin {"fsum", "favg"} \/ acc.n <= 2 -> 0
    [] build.fn = "fsum" /\ acc.n > 2 -> BoundOf(acc)
    [] OTHER -> Rounded(BoundOf(acc), acc.n)

\* The SELECT item over a value: post_values.
Item(build, v) ==
  CASE v \in build.traps -> Trap
    [] v \notin build.traps /\ build.flat /\ v # Null -> 0
    [] OTHER -> v

---------------------------------------------------------------------------
(* The item of one row of a group.                                         *)

\* sort_cmp: NULLs last unless NULLS FIRST, under DESC too.
SortsFirst(build, x, y) ==
  CASE x = Null -> y # Null /\ build.nulls_first
    [] x # Null /\ y = Null -> ~ build.nulls_first
    [] OTHER -> IF build.desc THEN Ord(x) > Ord(y) ELSE Ord(x) < Ord(y)
SortKey(build, row) == IF build.by_item THEN Item(build, row.val) ELSE row.ord
Ahead(build, x, y) == SortsFirst(build, SortKey(build, x), SortKey(build, y))
Tied(build, x, y) == ~ Ahead(build, x, y) /\ ~ Ahead(build, y, x)

\* How many of a group's n rows are kept: under a key, offset + limit wraps.
Wraps(j) == j.cmps # <<>> /\ j.build.limit >= 0 /\ j.build.offset + j.build.limit > MaxLong
KeptCount(j, n) ==
  LET rest == IF n > j.build.offset THEN n - j.build.offset ELSE 0
  IN CASE Wraps(j) -> 0
       [] ~ Wraps(j) /\ j.build.limit >= 0 /\ j.build.limit < rest -> j.build.limit
       [] OTHER -> rest

\* The rows in their order: the sort is stable.
Ordered(build, rows) ==
  LET Before(q, r) == Ahead(build, rows[q], rows[r])
                      \/ (Tied(build, rows[q], rows[r]) /\ q < r)
      Rank(r) == Cardinality({ q \in DOMAIN rows : Before(q, r) })
  IN [ i \in DOMAIN rows |-> rows[CHOOSE r \in DOMAIN rows : Rank(r) = i - 1] ]

\* The row kept, <<>> for none; the refusals of materialize_rows.
KeptRow(j, rows) == IF KeptCount(j, Len(rows)) = 0 THEN <<>>
                    ELSE <<Ordered(j.build, rows)[j.build.offset + 1]>>
RowsRefused(j, rows) ==
  \/ KeptCount(j, Len(rows)) > 1
  \/ \E r \in DOMAIN rows : Item(j.build, rows[r].val) = Trap
  \/ \E kept \in { KeptRow(j, rows) } : kept # <<>> /\ \E r \in DOMAIN rows :
       Tied(j.build, rows[r], kept[1]) /\ Item(j.build, rows[r].val) # Item(j.build, kept[1].val)

---------------------------------------------------------------------------
\* A table starts with no group, or with its only one.
Fresh(j) == IF j.build.how = "aggs" THEN NoAcc ELSE <<>>
Started(j) == IF ~ Plain(j.build.how) /\ j.cmps = <<>> THEN [ k \in {<<>>} |-> Fresh(j) ] ELSE << >>
StartOf(n, joins) == IF n <= Len(joins) THEN Started(joins[n]) ELSE << >>

BuildInit ==
  /\ plan \in Plans
  /\ tables = <<>> /\ at = 1 /\ verdict = "building"
  /\ groups = StartOf(1, plan.joins)

Building == verdict = "building" /\ Len(tables) < Len(Joins)
J == Joins[Len(tables) + 1]
SourceRow == J.table[at]

\* A row joins its group, or the rows of a map under the table's own number.
Joining(j, row, n) ==
  LET key == CanonKey(row.key)
      g == IF key \in DOMAIN groups THEN groups[key] ELSE Fresh(j)
      grown == IF j.build.how = "aggs" THEN Add(j.build, g, row.val) ELSE Append(g, row)
  IN IF Plain(j.build.how) THEN [ k \in DOMAIN groups \union {n} |-> IF k = n THEN row ELSE groups[k] ]
     ELSE [ k \in DOMAIN groups \union {key} |-> IF k = key THEN grown ELSE groups[k] ]

\* A map's value that is NULL though its column is declared not to hold one.
NullRefused(j, row) == Plain(j.build.how) /\ j.build.non_null /\ row.val = Null

\* A row that the filter drops is not looked at again; nor is the value of one
\* that has no key.
ReadRow ==
  /\ Building /\ at <= Len(J.table)
  /\ LET fate == IF SourceRow.keep THEN KeyFate(J.cmps, SourceRow.key) ELSE "dropped"
     IN /\ verdict' = IF fate = "unreadable" \/ (fate = "kept" /\ NullRefused(J, SourceRow))
                      THEN "refused" ELSE verdict
        /\ groups' = IF fate = "kept" THEN Joining(J, SourceRow, at) ELSE groups
  /\ at' = at + 1
  /\ UNCHANGED <<plan, tables>>

\* scan_limit and scan_ties, over the rows of a scan.
ScanRefused(j) ==
  LET Same(q) == { r \in DOMAIN groups : CanonKey(groups[r].key) = CanonKey(groups[q].key) }
      Clash(q, r) == /\ groups[q].val # Null /\ groups[r].val # Null
                     /\ Ord(groups[q].val) = Ord(groups[r].val) /\ groups[q].val # groups[r].val
  IN j.build.how = "rows" /\ \E q \in DOMAIN groups :
       \/ Cardinality(Same(q)) > j.build.limit
       \/ ~ j.build.ties /\ \E r \in Same(q) : Clash(q, r)

GroupRefused(j, key) ==
  IF j.build.how = "item" THEN RowsRefused(j, groups[key])
  ELSE Refused(j.build, groups[key]) \/ Item(j.build, AnswerOf(j.build, groups[key])) = Trap

TableRefused(j) == IF Plain(j.build.how) THEN ScanRefused(j)
                   ELSE \E key \in DOMAIN groups : GroupRefused(j, key)

GroupAnswer(j, key) ==
  IF j.build.how = "aggs" THEN Item(j.build, AnswerOf(j.build, groups[key]))
  ELSE LET kept == KeptRow(j, groups[key])
       IN IF kept = <<>> THEN Null ELSE Item(j.build, kept[1].val)

\* The table: the rows kept, with their numbers, or one row for each group.
InAnyOrder(S) == CHOOSE f \in [1 .. Cardinality(S) -> S] :
                   \A i, k \in DOMAIN f : i # k => f[i] # f[k]
TableOf(j) ==
  IF Plain(j.build.how)
  THEN LET rs == Sorting(DOMAIN groups)
       IN [ i \in DOMAIN rs |-> [key |-> groups[rs[i]].key, val |-> groups[rs[i]].val,
                                 row |-> rs[i]] ]
  ELSE LET ks == InAnyOrder(DOMAIN groups)
       IN [ i \in DOMAIN ks |-> [key |-> ks[i], val |-> GroupAnswer(j, ks[i]), row |-> i,
                                 bound |-> IF j.build.how = "aggs"
                                           THEN BoundAnswer(j.build, groups[ks[i]]) ELSE 0] ]

FinishTable ==
  /\ Building /\ at > Len(J.table)
  /\ IF TableRefused(J)
     THEN verdict' = "refused" /\ UNCHANGED <<tables, at, groups>>
     ELSE /\ tables' = Append(tables, TableOf(J)) /\ at' = 1
          /\ groups' = StartOf(Len(tables) + 2, Joins)
          /\ verdict' = IF Len(tables) + 1 = Len(Joins) THEN "built" ELSE "building"
  /\ UNCHANGED plan

BuildNext == ReadRow \/ FinishTable

---------------------------------------------------------------------------
(* What DuckDB answers, reading a group's rows in some order.              *)

Matchable(j) == { r \in DOMAIN j.table : j.table[r].keep /\ KeyFate(j.cmps, j.table[r].key) = "kept" }
GroupKeys(j) == { CanonKey(j.table[r].key) : r \in Matchable(j) }
                \union (IF j.cmps = <<>> THEN {<<>>} ELSE {})
RowsOf(j, key) == { r \in Matchable(j) : CanonKey(j.table[r].key) = key }
Orders(j, S) == { [ i \in 1 .. Cardinality(S) |-> j.table[f[i]] ] :
                    f \in { f \in [1 .. Cardinality(S) -> S] : { f[i] : i \in DOMAIN f } = S } }

\* The values an aggregate reads: the first of each class when DISTINCT.
ValuesRead(build, rows) ==
  LET known == { i \in DOMAIN rows : rows[i].val # Null }
      ix == Sorting({ i \in known : build.distinct => \A h \in known :
                                      h < i => Ord(rows[h].val) # Ord(rows[i].val) })
  IN [ i \in DOMAIN ix |-> rows[ix[i]].val ]

\* The running sums, in a machine that can overflow.
Running(vs, float) ==
  LET S[i \in 0 .. Len(vs)] == IF i = 0 THEN 0
                               ELSE IF float THEN Plus(S[i - 1], vs[i]) ELSE S[i - 1] + vs[i]
  IN S
Extreme(build, vs) ==
  LET best == { i \in DOMAIN vs : \A h \in DOMAIN vs :
                  IF build.fn = "min" THEN Ord(vs[i]) <= Ord(vs[h]) ELSE Ord(vs[i]) >= Ord(vs[h]) }
  IN vs[CHOOSE i \in best : \A h \in best : i <= h]
Ones(vs) == Cardinality({ i \in DOMAIN vs : vs[i] = 1 })

DuckSum(build, vs) ==
  LET float == build.fn \in {"fsum", "favg"}
      s == Running(vs, float)
      max == IF build.fn = "avg" THEN MaxAvg ELSE MaxSum
      over == IF float THEN \E i \in DOMAIN s : ~ Finite(s[i])
              ELSE \E i \in DOMAIN s : s[i] \notin -max - 1 .. max
  IN CASE over -> Trap
       [] ~ over /\ build.fn \in {"avg", "favg"} -> Rounded(s[Len(vs)], Len(vs))
       [] OTHER -> s[Len(vs)]

DuckAggregate(build, rows) ==
  LET vs == ValuesRead(build, rows)
  IN CASE build.fn = "count_star" -> Len(rows)
       [] build.fn = "count" -> Len(vs)
       [] build.fn \notin {"count_star", "count"} /\ vs = <<>> -> Null
       [] OTHER ->
            CASE build.fn \in {"min", "max"} -> Extreme(build, vs)
              [] build.fn \in {"bool_and", "bit_and"} -> IF Ones(vs) = Len(vs) THEN 1 ELSE 0
              [] build.fn \in {"bool_or", "bit_or"} -> IF Ones(vs) > 0 THEN 1 ELSE 0
              [] build.fn = "bit_xor" -> Ones(vs) % 2
              [] OTHER -> DuckSum(build, vs)

\* The rows numbered past the offset and up to offset + limit, an addition
\* that wraps under a key; the item is computed of every row.
DuckItem(j, rows) ==
  LET sum == j.build.offset + j.build.limit
      last == CASE j.build.limit < 0 -> Len(rows)
                [] j.build.limit >= 0 /\ j.cmps # <<>> /\ sum > MaxLong -> sum - 2 * (MaxLong + 1)
                [] OTHER -> sum
      kept == { i \in DOMAIN rows : j.build.offset < i /\ i <= last }
      traps == \E i \in DOMAIN rows : Item(j.build, rows[i].val) = Trap
  IN CASE traps \/ Cardinality(kept) > 1 -> Trap
       [] ~ traps /\ kept = {} -> Null
       [] OTHER -> Item(j.build, Ordered(j.build, rows)[CHOOSE i \in kept : TRUE].val)

DuckAnswer(j, rows) ==
  IF j.build.how = "item" THEN DuckItem(j, rows)
  ELSE LET v == DuckAggregate(j.build, rows) IN IF v = Trap THEN Trap ELSE Item(j.build, v)
DuckAnswers(j, key) == { DuckAnswer(j, rows) : rows \in Orders(j, RowsOf(j, key)) }

\* A DOUBLE sum or avg: DuckDB rounds it in the order of its rows.
DoubleSum(build) == build.how = "aggs" /\ build.fn \in {"fsum", "favg"}

\* DuckDB's answer x for a group: a DOUBLE sum within the group's bound, an
\* aggregate that only comparisons read up to its spelling, the rest exactly.
Agrees(build, group, x) ==
  CASE DoubleSum(build) /\ Null \notin {x, group.val} ->
         x # Trap /\ Magnitude(x - group.val) <= group.bound
    [] build.how = "aggs" /\ build.ties /\ Null \notin {x, group.val} ->
         x # Trap /\ Ord(x) = Ord(group.val)
    [] OTHER -> x = group.val
=============================================================================
