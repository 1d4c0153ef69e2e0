---------------------------- MODULE MCJoinLoops -----------------------------
(***************************************************************************)
(* Families of queries: two joins over every small table, three over a     *)
(* few; and builds, over the tables that decide them. 0 and 8 are the bits *)
(* of the keys 0.0 and -0.0.                                               *)
(***************************************************************************)
EXTENDS JoinLoops

MCRaw == {0, 1, 8}
MCCanon == [x \in MCRaw |-> IF x = 8 THEN 0 ELSE x]

Row(k, v) == [key |-> <<k>>, val |-> v, ord |-> 0, keep |-> TRUE]

\* Every table of up to two rows whose keys are 0.0, -0.0 or NULL.
Tables == {<<>>} \union { <<Row(k, 0)>> : k \in {0, 8, Null} }
          \union { <<Row(k, Null), Row(l, 0)>> : k, l \in {0, 8, Null} }

\* Tables worth a second join: one match, two, two spellings of one key among
\* others, and a NULL key.
Seconds == { <<>>, <<Row(1, 0), Row(0, 1)>>, <<Row(8, 1), Row(0, 0)>>,
             <<Row(Null, 0), Row(1, 1)>>, <<Row(0, 0), Row(1, 1), Row(8, Null)>> }

MCHolds(on, outer, v) ==
  CASE on = "always" -> TRUE
    [] on = "zero" -> v = 0
    [] on = "matched" -> outer # Null /\ v \in {0, 1}
MCPasses(where, v) == where = "all" \/ v \in {0, Null}

NoBuild == [how |-> "map", fn |-> "count", distinct |-> FALSE, ties |-> TRUE, desc |-> FALSE,
            nulls_first |-> FALSE, by_item |-> FALSE, limit |-> -1, offset |-> 0,
            traps |-> {}, flat |-> FALSE, non_null |-> FALSE]
ScanBuild == [NoBuild EXCEPT !.how = "rows", !.limit = 3]

Join(kind, cmps, table, on) ==
  [kind |-> kind, cmps |-> cmps, table |-> table, on |-> on,
   build |-> IF kind = "fold" THEN ScanBuild ELSE NoBuild]

Kinds == {"inner", "left", "fold"}

\* Nested loops; a plain key may be absent (a cross join).
Loops ==
  { [many |-> TRUE, where |-> "some",
     joins |-> <<Join(k1, <<"eq">>, t1, o1), Join(k2, c2, t2, "matched")>>] :
      k1, k2 \in Kinds, c2 \in {<<>>, <<"eq">>}, t1 \in Tables, t2 \in Seconds,
      o1 \in {"always", "zero"} }

DeepTables == { <<Row(8, 1), Row(0, 0)>>, <<Row(0, 0), Row(1, 1), Row(8, Null)>> }

DeepLoops ==
  { [many |-> TRUE, where |-> "all",
     joins |-> <<Join(k1, <<>>, t1, "always"), Join(k2, <<"eq">>, t2, "zero"),
                 Join(k3, <<"eq">>, t3, "always")>>] :
      k1, k2, k3 \in Kinds, t1, t2, t3 \in DeepTables }

\* Maps, keyed by one comparison or by two.
Maps ==
  { [many |-> FALSE, where |-> "some",
     joins |-> <<Join(k1, <<c1>>, t1, o1), Join(k2, <<c2>>, t2, "always")>>] :
      k1 \in {"inner", "left"}, k2 \in Kinds, c1, c2 \in {"eq", "indf"}, t1 \in Tables,
      t2 \in Seconds, o1 \in {"always", "zero"} }

Pair(k, l, v) == [key |-> <<k, l>>, val |-> v, ord |-> 0, keep |-> TRUE]

PairMaps ==
  { [many |-> FALSE, where |-> "all", joins |-> <<Join(k, <<c1, c2>>, t, "always")>>] :
      k \in {"inner", "left"}, c1, c2 \in {"eq", "indf"},
      t \in [1 .. 2 -> { Pair(x, y, 0) : x, y \in {0, 8, Null} }] }

---------------------------------------------------------------------------
(* Built tables: one join over a table of up to five rows.                  *)

Over(kind, cmps, table, build) ==
  [many |-> FALSE, where |-> "all",
   joins |-> <<[kind |-> kind, cmps |-> cmps, table |-> table, on |-> "always", build |-> build]>>]
Agg(fn, distinct, ties) ==
  [NoBuild EXCEPT !.how = "aggs", !.fn = fn, !.distinct = distinct, !.ties = ties]

\* Three rows of one key or of two, over the values that decide an aggregate.
Thirds(vals) == { <<Row(0, u), Row(k, v), Row(l, w)>> : u, v, w \in vals, k, l \in {8, 1} }

IntAggs ==
  { Over("left", <<"eq">>, t, Agg(fn, d, FALSE)) :
      t \in Thirds({-3, 1, 2, Null}), fn \in {"sum", "avg", "count"}, d \in BOOLEAN }
BitAggs ==
  { Over("left", <<"eq">>, t, Agg(fn, FALSE, FALSE)) :
      t \in { u \in Thirds({0, 1, Null}) : u[2].key = <<8>> },
      fn \in {"count_star", "bool_and", "bool_or", "bit_and", "bit_or", "bit_xor"} }
TiedAggs ==
  { Over("left", <<"eq">>, t, [Agg(fn, FALSE, to[1]) EXCEPT !.flat = to[2]]) :
      t \in { u \in Thirds({0, NegZero, NaN, OtherNaN, 1}) : u[2].key = <<8>> },
      fn \in {"min", "max"}, to \in {<<TRUE, FALSE>>, <<FALSE, FALSE>>, <<FALSE, TRUE>>} }

\* DOUBLE sums of up to five values in one group: three in every order, and
\* more with the values in order, as every order of them is considered.
Doubles == {1, 3, 5, 8, -12, 64, 112}
InOrderOf(n, vals) == { f \in [1 .. n -> vals] : \A i, k \in 1 .. n : i < k => f[i] <= f[k] }
Sums == [1 .. 3 -> Doubles \union {NegZero, Infinite}] \union InOrderOf(4, Doubles \union {-112})
        \union InOrderOf(5, {1, 5, 8, -64})
FloatAggs ==
  { Over("left", <<"eq">>, [ i \in DOMAIN f |-> Row(0, f[i]) ], Agg(fn, FALSE, FALSE)) :
      f \in Sums, fn \in {"fsum", "favg"} }

\* No key: a group, even of no row; the item over it may trap.
WholeTables ==
  { Over("left", <<>>, [ i \in DOMAIN f |-> [Row(0, f[i][1]) EXCEPT !.key = <<>>, !.keep = f[i][2]] ],
         [Agg(fn, FALSE, FALSE) EXCEPT !.traps = tr, !.flat = fl]) :
      f \in {<<>>} \union [1 .. 2 -> {1, Null} \X BOOLEAN], fn \in {"sum", "count"},
      tr \in {{}, {2}, {Null}}, fl \in BOOLEAN }

\* The item of one row: ties in what is sorted by, NULLs, limits that keep
\* none, one or more, and one that wraps under a key.
Sorted(v, o) == [Row(0, v) EXCEPT !.ord = o]
ItemTables == { <<>> } \union { <<Sorted(v, o)>> : v, o \in {1, 2, Null} }
              \union { <<Sorted(u, 1), Sorted(v, o), Sorted(w, p)>> :
                         u, v, w \in {1, 2}, o, p \in {0, 1, Null} }
Items ==
  { Over("left", <<"eq">>, t,
         [NoBuild EXCEPT !.how = "item", !.desc = d, !.nulls_first = by = "nulls",
                         !.by_item = by = "item", !.limit = lo[1], !.offset = lo[2], !.flat = fl]) :
      t \in ItemTables, d, fl \in BOOLEAN, by \in {"ord", "nulls", "item"},
      lo \in {<<-1, 0>>, <<1, 0>>, <<1, 1>>, <<2, 2>>} }
KeylessItems ==
  { Over("left", <<>>, [ i \in DOMAIN t |-> [t[i] EXCEPT !.key = <<>>] ],
         [NoBuild EXCEPT !.how = "item", !.limit = lo[1], !.offset = lo[2], !.traps = tr]) :
      t \in ItemTables, lo \in {<<-1, 0>>, <<1, 2>>, <<3, 2>>}, tr \in {{}, {2}} }

\* Rows of a scan: too many of a key, and ties among them.
Scans ==
  { Over("fold", <<"eq">>, t, [ScanBuild EXCEPT !.limit = 2, !.ties = ti]) :
      t \in Thirds({0, NegZero, 1, Null}), ti \in BOOLEAN }

\* Keys that decide early: NULL, unmatched and unreadable ones.
OddKeys == {0, Null, Unmatched, Unreadable}
KeyedTables ==
  { Over("left", <<c, d>>, <<[Pair(k, l, 1) EXCEPT !.keep = kp], Pair(m, 1, 2)>>, b) :
      c, d \in {"eq", "indf"}, k, l \in OddKeys, m \in {0, 8, Null}, kp \in BOOLEAN,
      b \in {NoBuild, Agg("sum", FALSE, FALSE)} }

\* The key decides before the value does, which is NULL though declared not to be.
NullTables ==
  { Over(kind, <<c, "eq">>, <<[Pair(k, l, Null) EXCEPT !.keep = kp], Pair(0, 1, 2)>>,
         [ScanBuild EXCEPT !.how = IF kind = "fold" THEN "rows" ELSE "map", !.non_null = TRUE]) :
      kind \in {"left", "fold"}, c \in {"eq", "indf"}, k, l \in OddKeys, kp \in BOOLEAN }

\* Nested to the right, where each left side is a sorted set: TLC builds it faster.
MCPlans ==
  Loops \union (DeepLoops \union (Maps \union (PairMaps \union (IntAggs \union (BitAggs
    \union (TiedAggs \union (FloatAggs \union (WholeTables \union (Items \union (KeylessItems
      \union (Scans \union (KeyedTables \union NullTables))))))))))))
=============================================================================
