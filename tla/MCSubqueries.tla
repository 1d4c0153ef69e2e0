---------------------------- MODULE MCSubqueries ----------------------------
(***************************************************************************)
(* Queries over tables of up to three rows and batches of up to two        *)
(* requests. A trap is a division or a cast that fails on the value 2.     *)
(***************************************************************************)
EXTENDS Subqueries

Of(of, traps) == [of |-> of, traps |-> traps, tells |-> FALSE]
K == Of("k", {})      V == Of("v", {})      X == Of("x", {})      One == Of("one", {})
TV == Of("v", {2})    TX == Of("x", {2})    VX == Of("vx", {})
Term(a, op, b) == [op |-> op, a |-> a, b |-> b, c |-> b, split |-> TRUE]
Between(a, b, c, split) == [op |-> "between", a |-> a, b |-> b, c |-> c, split |-> split]

KeyTerms == { Term(K, "=", X), Term(X, "isnd", K), Term(TX, "=", K), Term(K, "isnd", TX),
              Term(V, "=", TX) }
FilterTerms == { Term(V, "=", One), Term(TV, "=", One), Between(V, One, One, TRUE),
                 Between(V, One, TV, TRUE), Between(V, One, One, FALSE) }
MixedTerms == { Term(V, "<", X), Term(TV, "<", X), Between(V, X, TX, TRUE), Term(VX, "=", X) }
RefusedTerms == { Term(K, "=", [X EXCEPT !.tells = TRUE]), Term(K, "=", Of("joined", {})),
                  Term(V, "<", [X EXCEPT !.tells = TRUE]) }
AllTerms == KeyTerms \union FilterTerms \union MixedTerms \union RefusedTerms

Short == {<<>>} \union { <<t>> : t \in AllTerms }
Pairs == { <<t, u>> : t, u \in AllTerms \ RefusedTerms }
\* A filter, a key and a term whose order decides what traps.
Core == { Term(V, "=", One), Between(V, One, TV, TRUE), Term(TX, "=", K), Term(K, "=", X),
          Term(TV, "<", X) }
Triples == { <<t, u, w>> : t, u, w \in Core }

Row(k, v) == [k |-> k, v |-> v]
Tables == { <<>>, <<Row(2, 2)>>, <<Row(2, Null)>>, <<Row(1, 1), Row(2, 2)>>,
            <<Row(2, 1), Row(2, Null)>>, <<Row(Null, 2), Row(1, 1), Row(1, 1)>> }
Large == <<Row(1, 1), Row(1, 2), Row(1, 1)>>

Request(x) == [x |-> x, neg |-> FALSE]
NegZero == [x |-> 0, neg |-> TRUE]
Single == { <<Request(x)>> : x \in {Null, 1, 2} }
Batches == Single \union { <<>>, <<Request(2), Request(1)>>, <<NegZero, Request(0)>> }

All == {Null, 0, 1, 2}
Sub(form, item, left, pred, not, when) ==
  [form |-> form, item |-> item, left |-> left, pred |-> pred, not |-> not, when |-> when]
Value(item) == Sub("value", item, NoSide, "=", FALSE, All)
Exists(not) == Sub("exists", ItemOf("count_star"), NoSide, "=", not, All)
Member(form, left, pred, not) == Sub(form, ItemOf("count_star"), left, pred, not, All)

Expression(fn, traps, null) == [ItemOf(fn) EXCEPT !.post = TRUE, !.traps = traps, !.null = null]
RowOrder(desc, limit, offset) == [desc |-> desc, limit |-> limit, offset |-> offset]
SelectItems == { ItemOf("count_star"), ItemOf("sum"), [ItemOf("count") EXCEPT !.distinct = TRUE],
               [ItemOf("sum") EXCEPT !.distinct = TRUE],
           Expression("max", {2}, Null), Expression("min", {}, 0), Expression("max", {Null}, 0),
           Expression("count", {0}, 0), ItemOf("row"), [ItemOf("row") EXCEPT !.traps = {2}],
               [ItemOf("row") EXCEPT !.order = RowOrder(TRUE, 1, 0)],
               [ItemOf("row") EXCEPT !.order = RowOrder(FALSE, -1, 1)],
               [ItemOf("row") EXCEPT !.order = RowOrder(FALSE, -2, 0)],
               [ItemOf("sum") EXCEPT !.order = RowOrder(FALSE, 1, 0)] }
Members == { Member("in", left, "=", not) : left \in {X, TX}, not \in BOOLEAN }
           \union { Member("any", left, pred, not) :
                      left \in {X, TX}, pred \in {"=", "<>", "<", ">"}, not \in BOOLEAN }

Query(where, select, filter, table, batch) ==
  [where |-> where, select |-> select, filter |-> filter, passes |-> All, many |-> FALSE,
   table |-> table, batch |-> batch]

\* Every WHERE, under a sum.
Wheres == { Query(w, <<Value(ItemOf("sum"))>>, <<>>, t, b) :
              w \in Short \union Pairs \union Triples, t \in Tables, b \in Batches }
\* Every item and test, under the WHEREs that bind differently.
Kinds == { <<>>, <<Term(K, "=", X)>>, <<Term(V, "=", One)>>, <<Term(TX, "=", K)>>,
           <<Term(V, "<", X)>>, <<Term(V, "=", One), Term(K, "=", X)>>,
           <<Term(TV, "=", One), Term(K, "=", X)>> }
Selects == { Query(w, <<s>>, <<>>, t, b) :
               w \in Kinds, s \in { Value(i) : i \in SelectItems } \union Members \union {Exists(TRUE)},
               t \in Tables \union {Large}, b \in Batches }
\* A subquery in the WHERE, in the SELECT list or in both, beside a test of x,
\* under a CASE, and under shape = 'many'.
Cased(item) == [Value(item) EXCEPT !.when = {1}]
Placements == { [q EXCEPT !.passes = p, !.many = m] :
               q \in { Query(w, s, f, t, b) :
                         w \in Kinds \union {<<Term(TV, "<", X)>>},
                         s \in { <<Cased(ItemOf("sum"))>>, <<Cased(Expression("max", {1}, Null))>>,
                               <<Exists(FALSE), Member("in", X, "=", FALSE)>> },
                         f \in { <<>>, <<Exists(FALSE)>>, <<Member("any", TX, "<", FALSE)>>,
                                 <<Value(ItemOf("count_star"))>> },
                         t \in Tables \ {<<Row(2, Null)>>}, b \in Batches },
               p \in {All, {1}}, m \in BOOLEAN }
MCQueries == Wheres \union Selects \union Placements
=============================================================================
