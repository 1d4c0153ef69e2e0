-------------------------- MODULE SubqueriesProofs --------------------------
(***************************************************************************)
(* Proofs that subqueries answer as DuckDB does, for every query, static   *)
(* table and batch: any number of terms, subqueries, rows and requests.    *)
(*                                                                         *)
(* The heart is ReadRight: what a request reads through the join of a call *)
(* is the answer that DuckDB computes over the rows the request keeps, and *)
(* it traps if DuckDB stops on the WHERE, the left side or the item. It is *)
(* proved for a join to a table (TableReads), where the guard stands for   *)
(* the rows that reach the first key, and for a scan (ScanReads), where    *)
(* only steps before the first that may trap are taken out of their order. *)
(*                                                                         *)
(* The inductive invariant has a part per phase. BindInv: each value that  *)
(* a subquery reads is still listed or bound to the join its WHERE calls   *)
(* for, and every other join is a guard. PrepareInv: the joins are placed, *)
(* and those built have the table that the query determines. ServeInv: the *)
(* requests served have DuckDB's rows, and the current one has met no trap *)
(* up to its stage.                                                        *)
(***************************************************************************)
EXTENDS Subqueries, FiniteSetTheorems, SequenceTheorems, TLAPS

-----------------------------------------------------------------------------
(* Values, sides and terms.                                                *)

Rows == [k : Values, v : Values]
Requests == [x : Values, neg : BOOLEAN]

\* Null and the trap are no numbers, no truth values and not one another.
LEMMA ValuesDiffer ==
  /\ Trap \notin Values /\ Trap \notin BOOLEAN /\ Null \notin BOOLEAN /\ Null \notin Int
  /\ Null # TRUE /\ Null # FALSE /\ Trap # TRUE /\ Trap # FALSE /\ Null # Trap /\ Null \in Values
BY SubqueryAssumption DEF Values

\* A set of naturals that is not empty has a least element, which Min chooses.
LEMMA LeastNatural ==
  ASSUME NEW T, T \subseteq Nat, T # {}
  PROVE  Min(T) \in T /\ \A y \in T : Min(T) <= y
<1>1. PICK x \in T : \A y \in T : ~ (<<y, x>> \in OpToRel(<, Nat))
  BY NatLessThanWellFounded, WFMin
<1>2. \A y \in T : ~ (y < x)
  BY <1>1 DEF OpToRel
<1>3. \A y \in T : x <= y
  BY <1>2
<1>. QED
  BY <1>3 DEF Min

\* A comparison is TRUE, FALSE, Null or a trap.
LEMMA CompareTraps ==
  ASSUME NEW pred, NEW l, NEW r
  PROVE  Compare(pred, l, r) = Trap <=> l = Trap \/ r = Trap
<1>1. Holds(pred, l, r) \in BOOLEAN
  BY DEF Holds
<1>. QED
  BY <1>1, ValuesDiffer DEF Compare

\* What it takes for a comparison to hold.
LEMMA CompareHolds ==
  ASSUME NEW pred, NEW l, NEW r
  PROVE  Compare(pred, l, r) = TRUE <=>
           /\ l # Trap /\ r # Trap
           /\ pred = "isnd" \/ (l # Null /\ r # Null)
           /\ Holds(pred, l, r)
<1>1. Holds(pred, l, r) \in BOOLEAN
  BY DEF Holds
<1>. QED
  BY <1>1, ValuesDiffer DEF Compare

\* What a side reads.
LEMMA PlainIs ==
  ASSUME NEW side, NEW row, NEW req
  PROVE  /\ side.of \in Lanes => Plain(side, row, req) = row[side.of]
         /\ side.of = "one" => Plain(side, row, req) = 1
         /\ side.of = "vx" => Plain(side, row, req) = IF Null \in {row.v, req.x} THEN Null
                                                     ELSE row.v + OuterValue(side, req)
         /\ side.of \notin Lanes \union {"one", "vx"} => Plain(side, row, req) = OuterValue(side, req)
BY Zenon DEF Plain, Lanes

\* A side has a value, or traps on one of those it is said to.
LEMMA SideValues ==
  ASSUME NEW side \in SideSet, NEW row, NEW req \in Requests,
         row \in Rows \/ ~ ReadsTable(side)
  PROVE  /\ Plain(side, row, req) \in Values
         /\ ValueOf(side, row, req) = Trap <=> Plain(side, row, req) \in side.traps
         /\ ValueOf(side, row, req) = Trap => CanTrap(side)
         /\ ValueOf(side, row, req) # Trap => ValueOf(side, row, req) = Plain(side, row, req)
         /\ ValueOf(side, row, req) \in Values \union {Trap}
<1>1. req.x \in Values /\ OuterValue(side, req) \in Values /\ (req.x # Null => OuterValue(side, req) \in Int)
  BY DEF OuterValue, Requests, Values
<1>2. side.of \in Lanes => Plain(side, row, req) \in Values
  <2>. HAVE side.of \in Lanes
  <2>1. row.k \in Values /\ row.v \in Values
    BY DEF ReadsTable, Rows
  <2>2. side.of = "k" \/ side.of = "v"
    BY DEF Lanes
  <2>3. row[side.of] \in Values
    BY <2>1, <2>2
  <2>. QED
    BY <2>3, PlainIs
<1>3. side.of = "vx" => Plain(side, row, req) \in Values
  <2>. HAVE side.of = "vx"
  <2>1. row.v \in Values
    BY DEF ReadsTable, Rows
  <2>. QED
    BY <1>1, <2>1, PlainIs, ValuesDiffer DEF Values
<1>4. side.of \in {"x", "joined", "one"} => Plain(side, row, req) \in Values
  BY <1>1, PlainIs DEF Lanes, Values
<1>5. Plain(side, row, req) \in Values
  BY <1>2, <1>3, <1>4 DEF SideSet, Lanes
<1>. QED
  BY <1>5, ValuesDiffer DEF ValueOf, CanTrap

\* What a side reads of a request: nothing, or no more than x.
LEMMA SameRequest ==
  ASSUME NEW side \in SideSet, NEW row, NEW d, NEW e,
         ReadsOuter(side) => d.x = e.x /\ ~ TellsZeros(side)
  PROVE  Plain(side, row, d) = Plain(side, row, e) /\ ValueOf(side, row, d) = ValueOf(side, row, e)
<1>1. CASE ~ ReadsOuter(side)
  <2>1. side.of \in Lanes \union {"one"}
    BY <1>1 DEF ReadsOuter, SideSet, Lanes
  <2>. QED
    BY <2>1, PlainIs DEF ValueOf
<1>2. CASE ReadsOuter(side)
  <2>1. ~ side.tells /\ d.x = e.x
    BY <1>2 DEF TellsZeros
  <2>. QED
    BY <2>1 DEF Plain, ValueOf, OuterValue
<1>. QED
  BY <1>1, <1>2

\* And a side that does not read the table needs no row.
LEMMA NoRow ==
  ASSUME NEW side, NEW row, NEW other, NEW req, ~ ReadsTable(side)
  PROVE  Plain(side, row, req) = Plain(side, other, req)
         /\ ValueOf(side, row, req) = ValueOf(side, other, req)
BY DEF ReadsTable, Plain, ValueOf, Lanes

\* A term's sides, and those of its halves.
LEMMA SidesOfTerm ==
  ASSUME NEW t \in Terms, NEW half
  PROVE  /\ t.a \in SideSet /\ t.b \in SideSet /\ t.c \in SideSet
         /\ HalfSides(t, half) \subseteq Sides(t) /\ Sides(t) = {t.a, t.b, t.c} /\ Sides(t) \subseteq SideSet
         /\ t.op \in {"=", "isnd", "<", "between"} /\ (t.op # "between" => t.c = t.b)
<1>1. t \in [op : {"=", "isnd", "<", "between"}, a : SideSet, b : SideSet, c : SideSet, split : BOOLEAN]
  BY DEF Terms
<1>2. t.a \in SideSet /\ t.b \in SideSet /\ t.c \in SideSet /\ t.op \in {"=", "isnd", "<", "between"}
  BY <1>1
<1>. QED
  BY <1>2 DEF Terms, HalfSides, Sides

\* A test of the whole of a BETWEEN is that of both its halves.
LEMMA TestsByHalf ==
  ASSUME NEW t, NEW row, NEW req
  PROVE  /\ Test(t, "lower", row, req) = TestHalf(t, "lower", row, req)
         /\ Test(t, "upper", row, req) = TestHalf(t, "upper", row, req)
         /\ t.op # "between" => Test(t, "whole", row, req) = TestHalf(t, "lower", row, req)
         /\ t.op = "between" =>
              /\ TestHalf(t, "lower", row, req) # TRUE => Test(t, "whole", row, req) = TestHalf(t, "lower", row, req)
              /\ TestHalf(t, "lower", row, req) = TRUE => Test(t, "whole", row, req) = TestHalf(t, "upper", row, req)
BY DEF Test, TestHalf

\* What can trap, by the sides.
LEMMA HalfMayTrap ==
  ASSUME NEW t \in Terms, NEW half \in {"lower", "upper", "whole"}, NEW row \in Rows, NEW req \in Requests,
         Test(t, half, row, req) = Trap
  PROVE  HalfTraps(t, half)
<1>1. t.a \in SideSet /\ t.b \in SideSet /\ t.c \in SideSet
  BY SidesOfTerm
<1>2. \A side \in SideSet : ValueOf(side, row, req) = Trap => CanTrap(side)
  BY SideValues
<1>3. TestHalf(t, "upper", row, req) = Trap => CanTrap(t.a) \/ CanTrap(t.c)
  BY <1>1, <1>2, CompareTraps DEF TestHalf
<1>4. TestHalf(t, "lower", row, req) = Trap => CanTrap(t.a) \/ CanTrap(t.b)
  BY <1>1, <1>2, CompareTraps DEF TestHalf
<1>5. CASE half = "upper"
  BY <1>3, <1>5, TestsByHalf DEF HalfTraps, HalfSides
<1>6. CASE half = "lower"
  BY <1>4, <1>6, TestsByHalf DEF HalfTraps, HalfSides
<1>7. CASE half = "whole"
  BY <1>3, <1>4, <1>7, TestsByHalf DEF HalfTraps, HalfSides
<1>. QED
  BY <1>5, <1>6, <1>7

\* A term answers two requests alike that differ in what it does not read.
LEMMA SameTest ==
  ASSUME NEW t \in Terms, NEW half, NEW row, NEW d, NEW e,
         \A side \in Sides(t) : ReadsOuter(side) => d.x = e.x /\ ~ TellsZeros(side)
  PROVE  Test(t, half, row, d) = Test(t, half, row, e)
<1>1. \A side \in {t.a, t.b, t.c} : ValueOf(side, row, d) = ValueOf(side, row, e)
  <2>. TAKE side \in {t.a, t.b, t.c}
  <2>1. side \in SideSet /\ side \in Sides(t)
    BY SidesOfTerm
  <2>. QED
    BY <2>1, SameRequest
<1>2. ValueOf(t.a, row, d) = ValueOf(t.a, row, e) /\ ValueOf(t.b, row, d) = ValueOf(t.b, row, e)
      /\ ValueOf(t.c, row, d) = ValueOf(t.c, row, e)
  BY <1>1
<1>3. TestHalf(t, half, row, d) = TestHalf(t, half, row, e)
      /\ TestHalf(t, "upper", row, d) = TestHalf(t, "upper", row, e)
  BY <1>2 DEF TestHalf
<1>. QED
  BY <1>3 DEF Test

\* A key: an outer side against a column that cannot trap.
LEMMA KeyTerms ==
  ASSUME NEW t \in Terms, KindOf(t) = "key"
  PROVE  /\ t.op \in {"=", "isnd"} /\ Lane(t) \in Lanes
         /\ OuterSide(t) \in SideSet /\ OuterSide(t) \in Sides(t) /\ ~ ReadsTable(OuterSide(t))
         /\ \A side \in Sides(t) : ReadsOuter(side) => side = OuterSide(t)
         /\ TermTraps(t) <=> CanTrap(OuterSide(t))
<1>1. IsKey(t) /\ ~ ReadsOnly(t)
  BY DEF KindOf
<1>2. t.a \in SideSet /\ t.b \in SideSet /\ t.c = t.b /\ Sides(t) = {t.a, t.b}
  BY <1>1, SidesOfTerm DEF IsKey
<1>3. CASE IsCol(t.a) /\ ~ ReadsTable(t.b)
  BY <1>1, <1>2, <1>3 DEF IsKey, IsCol, Lane, OuterSide, ReadsOuter, ReadsTable, Lanes, TermTraps, HalfTraps, Sides, CanTrap
<1>4. CASE IsCol(t.b) /\ ~ ReadsTable(t.a)
  <2>1. ~ IsCol(t.a)
    BY <1>4 DEF IsCol, ReadsTable
  <2>. QED
    BY <1>1, <1>2, <1>4, <2>1 DEF IsKey, IsCol, Lane, OuterSide, ReadsOuter, ReadsTable, Lanes, TermTraps, HalfTraps, Sides, CanTrap
<1>. QED
  BY <1>1, <1>3, <1>4 DEF IsKey

\* What it answers.
LEMMA KeyTests ==
  ASSUME NEW t \in Terms, KindOf(t) = "key", NEW row \in Rows, NEW req \in Requests
  PROVE  LET v == ValueOf(OuterSide(t), <<>>, req) IN
         /\ row[Lane(t)] \in Values /\ v \in Values \union {Trap}
         /\ \A half \in {"lower", "whole"} :
              /\ Test(t, half, row, req) = Trap <=> v = Trap
              /\ Test(t, half, row, req) = TRUE <=>
                   v # Trap /\ row[Lane(t)] = v /\ (t.op = "=" => v # Null)
<1>. DEFINE v == ValueOf(OuterSide(t), <<>>, req)
            w == row[Lane(t)]
<1>1. /\ t.op \in {"=", "isnd"} /\ Lane(t) \in Lanes
      /\ OuterSide(t) \in SideSet /\ ~ ReadsTable(OuterSide(t))
  BY KeyTerms
<1>2. w \in Values
  <2>1. row.k \in Values /\ row.v \in Values
    BY DEF Rows
  <2>2. Lane(t) = "k" \/ Lane(t) = "v"
    BY <1>1 DEF Lanes
  <2>. QED
    BY <2>1, <2>2
<1>3. v \in Values \union {Trap} /\ v = ValueOf(OuterSide(t), row, req)
  BY <1>1, SideValues, NoRow
<1>4. \/ ValueOf(t.a, row, req) = w /\ ValueOf(t.b, row, req) = v
      \/ ValueOf(t.b, row, req) = w /\ ValueOf(t.a, row, req) = v
  <2>1. IsKey(t)
    BY DEF KindOf
  <2>2. \A side : IsCol(side) => ValueOf(side, row, req) = row[side.of]
    BY PlainIs DEF IsCol, ValueOf
  <2>3. CASE IsCol(t.a)
    BY <1>3, <2>2, <2>3 DEF Lane, OuterSide
  <2>4. CASE ~ IsCol(t.a)
    BY <1>3, <2>1, <2>2, <2>4 DEF Lane, OuterSide, IsKey
  <2>. QED
    BY <2>3, <2>4
<1>. HIDE DEF v, w
<1>5. w # Trap
  BY <1>2, ValuesDiffer
<1>6. \A half \in {"lower", "whole"} : Test(t, half, row, req) = TestHalf(t, "lower", row, req)
  BY <1>1, TestsByHalf
<1>7. TestHalf(t, "lower", row, req) = Compare(t.op, ValueOf(t.a, row, req), ValueOf(t.b, row, req))
  BY <1>1 DEF TestHalf
<1>8. TestHalf(t, "lower", row, req) = Trap <=> v = Trap
  BY <1>4, <1>5, <1>7, CompareTraps
<1>9. TestHalf(t, "lower", row, req) = TRUE <=> v # Trap /\ w = v /\ (t.op = "=" => v # Null)
  <2>1. \A l, r : Holds(t.op, l, r) <=> l = r
    BY <1>1 DEF Holds
  <2>2. TestHalf(t, "lower", row, req) = TRUE <=>
          w # Trap /\ v # Trap /\ (t.op = "isnd" \/ (w # Null /\ v # Null)) /\ w = v
    <3>1. CASE ValueOf(t.a, row, req) = w /\ ValueOf(t.b, row, req) = v
      <4>1. TestHalf(t, "lower", row, req) = Compare(t.op, w, v)
        BY <1>7, <3>1
      <4>2. Compare(t.op, w, v) = TRUE <=>
              w # Trap /\ v # Trap /\ (t.op = "isnd" \/ (w # Null /\ v # Null)) /\ Holds(t.op, w, v)
        BY CompareHolds
      <4>. QED
        BY <2>1, <4>1, <4>2
    <3>2. CASE ValueOf(t.b, row, req) = w /\ ValueOf(t.a, row, req) = v
      <4>1. TestHalf(t, "lower", row, req) = Compare(t.op, v, w)
        BY <1>7, <3>2
      <4>2. Compare(t.op, v, w) = TRUE <=>
              v # Trap /\ w # Trap /\ (t.op = "isnd" \/ (v # Null /\ w # Null)) /\ Holds(t.op, v, w)
        BY CompareHolds
      <4>. QED
        BY <2>1, <4>1, <4>2
    <3>. QED
      BY <1>4, <3>1, <3>2
  <2>. QED
    BY <1>1, <1>5, <2>2
<1>. QED
  BY <1>2, <1>3, <1>6, <1>8, <1>9 DEF v, w

\* A filter answers every request alike.
LEMMA FilterTests ==
  ASSUME NEW t \in Terms, KindOf(t) = "filter", NEW half, NEW row, NEW d, NEW e
  PROVE  Test(t, half, row, d) = Test(t, half, row, e)
<1>1. \A side \in Sides(t) : ~ ReadsOuter(side)
  BY DEF KindOf, ReadsOnly
<1>. QED
  BY <1>1, SameTest

-----------------------------------------------------------------------------
(* A query's WHERE, and DuckDB's steps through it.                         *)

\* The lengths and the members of a query's parts.
LEMMA QueryFits ==
  ASSUME query \in QuerySet
  PROVE  /\ Len(W) \in Nat /\ DOMAIN W = 1 .. Len(W) /\ \A i \in DOMAIN W : W[i] \in Terms
         /\ Len(Table) \in Nat /\ DOMAIN Table = 1 .. Len(Table) /\ \A r \in DOMAIN Table : Table[r] \in Rows
         /\ Len(Batch) \in Nat /\ DOMAIN Batch = 1 .. Len(Batch) /\ \A i \in DOMAIN Batch : Batch[i] \in Requests
         /\ query.select \in Seq(Subs) /\ query.filter \in Seq(Subs) /\ Len(query.filter) <= 1
         /\ IsFiniteSet(DOMAIN Table)
<1>1. /\ query.where \in Seq(Terms) /\ query.table \in Seq(Rows) /\ query.batch \in Seq(Requests)
      /\ query.select \in Seq(Subs) /\ query.filter \in Seq(Subs) /\ Len(query.filter) <= 1
  BY DEF QuerySet, Rows, Requests
<1>2. Len(query.table) \in Nat /\ DOMAIN query.table = 1 .. Len(query.table)
  BY <1>1
<1>3. IsFiniteSet(DOMAIN query.table)
  BY <1>2, FS_Interval
<1>. QED
  BY <1>1, <1>3, ElementOfSeq DEF W, Table, Batch

\* Every term is a key, a filter or mixed, and the first key is the least.
LEMMA Kinds ==
  ASSUME query \in QuerySet
  PROVE  /\ DOMAIN W = Keys \union Filters \union Mixed
         /\ Keys \cap Filters = {} /\ Keys \cap Mixed = {} /\ Filters \cap Mixed = {}
         /\ \A i \in Keys : i \in DOMAIN W /\ W[i] \in Terms /\ KindOf(W[i]) = "key"
                            /\ W[i].op \in {"=", "isnd"}
         /\ \A i \in Filters : i \in DOMAIN W /\ W[i] \in Terms /\ KindOf(W[i]) = "filter"
         /\ \A i \in Mixed : i \in DOMAIN W /\ W[i] \in Terms /\ KindOf(W[i]) = "mixed"
         /\ Keys # {} => FirstKey \in Keys /\ FirstKey \in Nat /\ \A i \in Keys : FirstKey <= i
<1>1. \A t : KindOf(t) \in {"key", "filter", "mixed"}
  BY DEF KindOf
<1>2. \A i \in DOMAIN W : W[i] \in Terms /\ i \in Nat
  BY QueryFits
<1>3. Keys # {} => FirstKey \in Keys /\ FirstKey \in Nat /\ \A i \in Keys : FirstKey <= i
  BY <1>2, LeastNatural DEF FirstKey, Keys, Places
<1>4. \A i \in Keys : W[i].op \in {"=", "isnd"}
  BY <1>2, KeyTerms DEF Keys, Places
<1>. QED
  BY <1>1, <1>2, <1>3, <1>4 DEF Keys, Filters, Mixed, Places

\* The halves of a term, over a row.
Lo(i, r, d) == TestHalf(W[i], "lower", Table[r], d)
Hi(i, r, d) == TestHalf(W[i], "upper", Table[r], d)
IsBetween(i) == W[i].op = "between"

\* The place and the half of a part.
LEMMA PartIs == \A i, half : Part(i, half).i = i /\ Part(i, half).half = half
BY DEF Part

\* DuckDB's steps: the terms where they are written, the upper halves after.
LEMMA DuckStepsAre ==
  ASSUME query \in QuerySet
  PROVE  /\ \A i \in DOMAIN W : /\ i \in DOMAIN DuckSteps /\ DuckSteps[i].i = i
                                /\ \A r, d : TestPart(DuckSteps[i], Table[r], d) = Lo(i, r, d)
         /\ \A i \in DOMAIN W : IsBetween(i) =>
              /\ Len(W) + i \in DOMAIN DuckSteps /\ DuckSteps[Len(W) + i].i = i
              /\ \A r, d : TestPart(DuckSteps[Len(W) + i], Table[r], d) = Hi(i, r, d)
         /\ \A n \in DOMAIN DuckSteps : \/ n \in DOMAIN W
                                        \/ \E i \in DOMAIN W : IsBetween(i) /\ n = Len(W) + i
         /\ \A n \in DOMAIN DuckSteps : n \in Nat /\ n < End
<1>. DEFINE B == { i \in DOMAIN W : W[i].op = "between" }
<1>1. Len(W) \in Nat /\ DOMAIN W = 1 .. Len(W)
  BY QueryFits
<1>2. DOMAIN DuckSteps = DOMAIN W \union Uppers(B)
  BY DEF DuckSteps
<1>3. \A i \in DOMAIN W : i \notin Uppers(B)
  BY <1>1 DEF Uppers
<1>4. \A i \in DOMAIN W : DuckSteps[i] = Part(i, IF i \in B THEN "lower" ELSE "whole")
  BY <1>2, <1>3 DEF DuckSteps
<1>5. \A i \in B : Len(W) + i \in Uppers(B) /\ (Len(W) + i) - Len(W) = i
  BY <1>1 DEF Uppers
<1>6. \A i \in B : DuckSteps[Len(W) + i] = Part(i, "upper")
  BY <1>2, <1>5 DEF DuckSteps
<1>. HIDE DEF B
<1>11. \A i \in DOMAIN W : DuckSteps[i].i = i /\ (i \in B => DuckSteps[i].half = "lower") /\ (i \notin B => DuckSteps[i].half = "whole")
  BY <1>4, PartIs
<1>12. \A i \in B : DuckSteps[Len(W) + i].i = i /\ DuckSteps[Len(W) + i].half = "upper"
  BY <1>6, PartIs
<1>13. \A i \in DOMAIN W : i \in B <=> IsBetween(i)
  BY DEF B, IsBetween
<1>14. B \subseteq DOMAIN W
  BY DEF B
<1>7. \A i \in DOMAIN W : \A r, d : TestPart(DuckSteps[i], Table[r], d) = Lo(i, r, d)
  <2>. TAKE i \in DOMAIN W
  <2>. TAKE r, d
  <2>2. CASE i \in B
    <3>1. TestPart(DuckSteps[i], Table[r], d) = Test(W[i], "lower", Table[r], d)
      BY <1>11, <2>2 DEF TestPart
    <3>. QED
      BY <3>1, TestsByHalf DEF Lo
  <2>3. CASE i \notin B
    <3>1. TestPart(DuckSteps[i], Table[r], d) = Test(W[i], "whole", Table[r], d)
      BY <1>11, <2>3 DEF TestPart
    <3>. QED
      BY <1>13, <2>3, <3>1, TestsByHalf DEF Lo, IsBetween
  <2>. QED
    BY <2>2, <2>3
<1>8. \A i \in B : \A r, d : TestPart(DuckSteps[Len(W) + i], Table[r], d) = Hi(i, r, d)
  <2>. TAKE i \in B
  <2>. TAKE r, d
  <2>1. TestPart(DuckSteps[Len(W) + i], Table[r], d) = Test(W[i], "upper", Table[r], d)
    BY <1>12 DEF TestPart
  <2>. QED
    BY <2>1, TestsByHalf DEF Hi
<1>9. \A n \in DOMAIN DuckSteps : n \in DOMAIN W \/ \E i \in B : n = Len(W) + i
  BY <1>2 DEF Uppers
<1>10. \A n \in DOMAIN DuckSteps : n \in Nat /\ n < End
  BY <1>1, <1>9, <1>14 DEF End
<1>15. \A i \in B : Len(W) + i \in DOMAIN DuckSteps
  BY <1>2, <1>5
<1>16. \A n \in DOMAIN DuckSteps : n \in DOMAIN W \/ \E i \in DOMAIN W : IsBetween(i) /\ n = Len(W) + i
  BY <1>9, <1>13, <1>14
<1>. QED
  BY <1>2, <1>7, <1>8, <1>10, <1>11, <1>12, <1>13, <1>15, <1>16

\* The rows that DuckDB keeps answer every term.
LEMMA DuckRowsAre ==
  ASSUME query \in QuerySet, NEW d
  PROVE  /\ DuckRows(d) = { r \in DOMAIN Table : \A i \in DOMAIN W : Test(W[i], "whole", Table[r], d) = TRUE }
         /\ DuckRows(d) = { r \in DOMAIN Table : \A i \in DOMAIN W :
                              Lo(i, r, d) = TRUE /\ (IsBetween(i) => Hi(i, r, d) = TRUE) }
<1>1. \A i \in DOMAIN W, r \in DOMAIN Table : Test(W[i], "whole", Table[r], d) = TRUE
        <=> Lo(i, r, d) = TRUE /\ (IsBetween(i) => Hi(i, r, d) = TRUE)
  <2>. TAKE i \in DOMAIN W, r \in DOMAIN Table
  <2>1. CASE IsBetween(i)
    <3>1. Lo(i, r, d) # TRUE => Test(W[i], "whole", Table[r], d) = Lo(i, r, d)
      BY <2>1, TestsByHalf DEF Lo, IsBetween
    <3>2. Lo(i, r, d) = TRUE => Test(W[i], "whole", Table[r], d) = Hi(i, r, d)
      BY <2>1, TestsByHalf DEF Lo, Hi, IsBetween
    <3>. QED
      BY <2>1, <3>1, <3>2
  <2>2. CASE ~ IsBetween(i)
    BY <2>2, TestsByHalf DEF Lo, IsBetween
  <2>. QED
    BY <2>1, <2>2
<1>2. \A r \in DOMAIN Table : DuckReaches(d, r, End) <=>
        \A i \in DOMAIN W : Lo(i, r, d) = TRUE /\ (IsBetween(i) => Hi(i, r, d) = TRUE)
  <2>. TAKE r \in DOMAIN Table
  <2>1. ASSUME DuckReaches(d, r, End), NEW i \in DOMAIN W
        PROVE  Lo(i, r, d) = TRUE /\ (IsBetween(i) => Hi(i, r, d) = TRUE)
    <3>1. i \in DOMAIN DuckSteps /\ i < End /\ TestPart(DuckSteps[i], Table[r], d) = Lo(i, r, d)
      BY DuckStepsAre
    <3>2. IsBetween(i) => /\ Len(W) + i \in DOMAIN DuckSteps /\ Len(W) + i < End
                          /\ TestPart(DuckSteps[Len(W) + i], Table[r], d) = Hi(i, r, d)
      BY DuckStepsAre
    <3>. QED
      BY <2>1, <3>1, <3>2 DEF DuckReaches
  <2>2. ASSUME \A i \in DOMAIN W : Lo(i, r, d) = TRUE /\ (IsBetween(i) => Hi(i, r, d) = TRUE),
               NEW n \in DOMAIN DuckSteps
        PROVE  TestPart(DuckSteps[n], Table[r], d) = TRUE
    <3>1. CASE n \in DOMAIN W
      <4>1. TestPart(DuckSteps[n], Table[r], d) = Lo(n, r, d)
        BY <3>1, DuckStepsAre
      <4>. QED
        BY <2>2, <3>1, <4>1
    <3>2. CASE \E i \in DOMAIN W : IsBetween(i) /\ n = Len(W) + i
      <4>1. PICK i \in DOMAIN W : IsBetween(i) /\ n = Len(W) + i
        BY <3>2
      <4>2. TestPart(DuckSteps[n], Table[r], d) = Hi(i, r, d)
        BY <4>1, DuckStepsAre
      <4>. QED
        BY <2>2, <4>1, <4>2
    <3>. QED
      BY <3>1, <3>2, DuckStepsAre
  <2>. QED
    BY <2>1, <2>2 DEF DuckReaches
<1>3. DuckRows(d) = { r \in DOMAIN Table : DuckReaches(d, r, End) }
  BY DEF DuckRows
<1>4. DuckRows(d) = { r \in DOMAIN Table : \A i \in DOMAIN W :
                        Lo(i, r, d) = TRUE /\ (IsBetween(i) => Hi(i, r, d) = TRUE) }
  BY <1>2, <1>3
<1>. QED
  BY <1>1, <1>4

\* What cannot tell two requests apart that have one x, or any two if nothing
\* reads the outer query.
Alike(d, e) == d.x = e.x \/ ~ Correlated

\* Requests that are alike make every term answer the same.
LEMMA AlikeTests ==
  ASSUME query \in QuerySet, ~ WhereRefused, NEW d, NEW e, Alike(d, e), NEW i \in DOMAIN W, NEW half, NEW row
  PROVE  Test(W[i], half, row, d) = Test(W[i], half, row, e)
<1>1. W[i] \in Terms /\ i \in Keys \union Filters \union Mixed
  BY Kinds
<1>2. CASE i \in Filters
  BY <1>1, <1>2, Kinds, FilterTests
<1>3. CASE i \in Keys
  <2>1. d.x = e.x
    BY <1>3 DEF Alike, Correlated
  <2>2. ~ TellsZeros(OuterSide(W[i]))
    BY <1>3 DEF WhereRefused, KeyRefused
  <2>3. \A side \in Sides(W[i]) : ReadsOuter(side) => side = OuterSide(W[i])
    BY <1>1, <1>3, Kinds, KeyTerms
  <2>. QED
    BY <1>1, <2>1, <2>2, <2>3, SameTest
<1>4. CASE i \in Mixed
  <2>1. d.x = e.x
    BY <1>4 DEF Alike, Correlated
  <2>2. \A side \in Sides(W[i]) : ~ TellsZeros(side)
    BY <1>4 DEF WhereRefused, MixedRefused
  <2>. QED
    BY <1>1, <2>1, <2>2, SameTest
<1>. QED
  BY <1>1, <1>2, <1>3, <1>4

\* They have the same rows, and trap alike.
LEMMA AlikeRequests ==
  ASSUME query \in QuerySet, ~ WhereRefused, NEW d, NEW e, Alike(d, e)
  PROVE  DuckRows(d) = DuckRows(e) /\ (WhereTraps(d) <=> WhereTraps(e))
<1>1. \A n \in DOMAIN DuckSteps, r \in DOMAIN Table :
        TestPart(DuckSteps[n], Table[r], d) = TestPart(DuckSteps[n], Table[r], e)
  <2>. TAKE n \in DOMAIN DuckSteps, r \in DOMAIN Table
  <2>1. DuckSteps[n].i \in DOMAIN W
    BY DuckStepsAre
  <2>. QED
    BY <2>1, AlikeTests DEF TestPart
<1>2. \A r \in DOMAIN Table : \A n : DuckReaches(d, r, n) <=> DuckReaches(e, r, n)
  BY <1>1 DEF DuckReaches
<1>3. \A r \in DOMAIN Table : DuckReaches(d, r, End) <=> DuckReaches(e, r, End)
  BY <1>2
<1>4. DuckRows(d) = DuckRows(e)
  BY <1>3 DEF DuckRows
<1>5. WhereTraps(d) <=> WhereTraps(e)
  BY <1>1, <1>2 DEF WhereTraps
<1>. QED
  BY <1>4, <1>5

-----------------------------------------------------------------------------
(* A WHERE that a table grouped by its keys answers.                       *)

\* The outer side of a key, for a request.
Outer(i, req) == ValueOf(OuterSide(W[i]), <<>>, req)

\* It traps at the first key alone, for a row that the filters before leave.
LEMMA TableTraps ==
  ASSUME query \in QuerySet, ~ WhereRefused, ~ Scanned, NEW req \in Requests
  PROVE  WhereTraps(req) <=>
           /\ TrapKey /\ Outer(FirstKey, req) = Trap
           /\ \E r \in DOMAIN Table : \A i \in 1 .. FirstKey - 1 : Lo(i, r, req) = TRUE
<1>1. Len(W) \in Nat /\ DOMAIN W = 1 .. Len(W) /\ \A r \in DOMAIN Table : Table[r] \in Rows
  BY QueryFits
<1>2. ASSUME TrapKey, Outer(FirstKey, req) = Trap,
             NEW r \in DOMAIN Table, \A i \in 1 .. FirstKey - 1 : Lo(i, r, req) = TRUE
      PROVE  WhereTraps(req)
  <2>1. FirstKey \in Keys /\ FirstKey \in DOMAIN W /\ KindOf(W[FirstKey]) = "key" /\ W[FirstKey] \in Terms
    BY <1>2, Kinds DEF TrapKey
  <2>2. FirstKey \in DOMAIN DuckSteps /\ TestPart(DuckSteps[FirstKey], Table[r], req) = Lo(FirstKey, r, req)
    BY <2>1, DuckStepsAre
  <2>3. Test(W[FirstKey], "lower", Table[r], req) = Trap
    BY <1>1, <1>2, <2>1, KeyTests DEF Outer
  <2>4. Lo(FirstKey, r, req) = Trap
    BY <2>3, TestsByHalf DEF Lo
  <2>5. DuckReaches(req, r, FirstKey)
    <3>. SUFFICES ASSUME NEW m \in DOMAIN DuckSteps, m < FirstKey
                  PROVE  TestPart(DuckSteps[m], Table[r], req) = TRUE
      BY DEF DuckReaches
    <3>1. m \in 1 .. FirstKey - 1 /\ m \in DOMAIN W
      BY <1>1, <2>1, DuckStepsAre
    <3>2. TestPart(DuckSteps[m], Table[r], req) = Lo(m, r, req)
      BY <3>1, DuckStepsAre
    <3>. QED
      BY <1>2, <3>1, <3>2
  <2>. QED
    BY <2>2, <2>4, <2>5 DEF WhereTraps
<1>3. ASSUME NEW r \in DOMAIN Table, NEW n \in DOMAIN DuckSteps, DuckReaches(req, r, n),
             TestPart(DuckSteps[n], Table[r], req) = Trap
      PROVE  /\ TrapKey /\ Outer(FirstKey, req) = Trap
             /\ \A i \in 1 .. FirstKey - 1 : Lo(i, r, req) = TRUE
  <2>1. PICK i \in DOMAIN W : \/ n = i /\ TestPart(DuckSteps[n], Table[r], req) = Lo(i, r, req)
                              \/ IsBetween(i) /\ TestPart(DuckSteps[n], Table[r], req) = Hi(i, r, req)
    BY DuckStepsAre
  <2>2. W[i] \in Terms /\ i \in Keys \union Filters
    BY Kinds DEF Scanned
  <2>3. \/ n = i /\ Test(W[i], "lower", Table[r], req) = Trap
        \/ IsBetween(i) /\ Test(W[i], "upper", Table[r], req) = Trap
    BY <1>3, <2>1, TestsByHalf DEF Lo, Hi
  <2>4. TermTraps(W[i])
    <3>1. \E half \in {"lower", "upper"} : HalfTraps(W[i], half)
      BY <1>1, <2>2, <2>3, HalfMayTrap
    <3>2. \A half : HalfSides(W[i], half) \subseteq HalfSides(W[i], "whole")
      BY DEF HalfSides
    <3>. QED
      BY <3>1, <3>2 DEF HalfTraps, TermTraps
  <2>5. i \in Keys
    BY <2>2, <2>4 DEF Scanned, FilterTrap
  <2>6. KindOf(W[i]) = "key" /\ ~ IsBetween(i) /\ CanTrap(OuterSide(W[i]))
    BY <2>2, <2>4, <2>5, Kinds, KeyTerms DEF IsBetween
  <2>7. 1 .. i - 1 \subseteq Filters
    BY <2>5, <2>6 DEF Scanned, LateTrap
  <2>8. i = FirstKey
    <3>1. FirstKey \in Keys /\ FirstKey <= i /\ FirstKey \notin Filters /\ FirstKey \in 1 .. Len(W)
      BY <1>1, <2>5, Kinds
    <3>. QED
      BY <1>1, <2>7, <3>1
  <2>9. Outer(FirstKey, req) = Trap
    BY <1>1, <2>2, <2>3, <2>6, <2>8, KeyTests DEF Outer
  <2>10. \A m \in 1 .. FirstKey - 1 : Lo(m, r, req) = TRUE
    <3>. TAKE m \in 1 .. FirstKey - 1
    <3>1. m \in DOMAIN W /\ m < n
      BY <1>1, <2>3, <2>6, <2>8
    <3>. QED
      BY <1>3, <3>1, DuckStepsAre DEF DuckReaches
  <2>. QED
    BY <2>5, <2>6, <2>7, <2>8, <2>9, <2>10 DEF TrapKey
<1>. QED
  BY <1>2, <1>3 DEF WhereTraps

\* The rows a request reads: those that the filters keep and whose keys are
\* the request's.
KeyFits(i, r, req) == /\ Table[r][Lane(W[i])] = Outer(i, req)
                      /\ W[i].op = "=" => Outer(i, req) # Null

\* The rows of a request, where the WHERE is keys and filters.
LEMMA TableRows ==
  ASSUME query \in QuerySet, Mixed = {}, NEW req \in Requests, \A i \in Keys : Outer(i, req) # Trap
  PROVE  DuckRows(req) = { r \in DOMAIN Table : /\ \A i \in Filters : Test(W[i], "whole", Table[r], NoReq) = TRUE
                                                /\ \A i \in Keys : KeyFits(i, r, req) }
<1>1. \A r \in DOMAIN Table : Table[r] \in Rows
  BY QueryFits
<1>2. \A r \in DOMAIN Table, i \in Filters :
        Test(W[i], "whole", Table[r], req) = Test(W[i], "whole", Table[r], NoReq)
  BY Kinds, FilterTests
<1>3. \A r \in DOMAIN Table, i \in Keys : Test(W[i], "whole", Table[r], req) = TRUE <=> KeyFits(i, r, req)
  <2>. TAKE r \in DOMAIN Table, i \in Keys
  <2>1. W[i] \in Terms /\ KindOf(W[i]) = "key"
    BY Kinds
  <2>. QED
    BY <1>1, <2>1, KeyTests DEF KeyFits, Outer
<1>4. DOMAIN W = Keys \union Filters
  BY Kinds
<1>5. \A r \in DOMAIN Table : (\A i \in DOMAIN W : Test(W[i], "whole", Table[r], req) = TRUE) <=>
        /\ \A i \in Filters : Test(W[i], "whole", Table[r], NoReq) = TRUE
        /\ \A i \in Keys : KeyFits(i, r, req)
  BY <1>2, <1>3, <1>4
<1>6. DuckRows(req) = { r \in DOMAIN Table : \A i \in DOMAIN W : Test(W[i], "whole", Table[r], req) = TRUE }
  BY DuckRowsAre
<1>. QED
  BY <1>5, <1>6

-----------------------------------------------------------------------------
(* The values that subqueries read.                                        *)

Calls == { ValueCall(item) : item \in ItemSet }
         \union { MemberCall(sub) : sub \in { s \in Subs : s.form \in {"in", "any"} } }

\* What an item is.
LEMMA ItemsFit ==
  ASSUME NEW item \in ItemSet
  PROVE  /\ item.fn \in {"count_star", "count", "sum", "min", "max", "row"}
         /\ item.null \in Values /\ item.traps \subseteq Values
         /\ item.fn # "row" /\ ~ item.post => item.traps = {} /\ item.null = Null
BY DEF ItemSet

\* The items that count, and their like, trap on nothing.
LEMMA PlainItems ==
  ASSUME NEW fn \in {"count_star", "count", "sum", "min", "max", "row"}
  PROVE  /\ ItemOf(fn) \in ItemSet
         /\ ItemOf(fn).fn = fn /\ ItemOf(fn).traps = {} /\ ItemOf(fn).null = Null /\ ~ ItemOf(fn).post
         /\ ItemOf(fn).order = <<>> /\ ~ ItemOf(fn).distinct
BY ValuesDiffer DEF ItemOf, ItemSet

\* A value call is one for its item.
LEMMA ValueCalls ==
  ASSUME NEW item \in ItemSet
  PROVE  /\ ValueCall(item) \in Calls /\ ValueCall(item).member = "value" /\ ValueCall(item).item = item
         /\ \A other \in ItemSet : ValueCall(other) = ValueCall(item) => other = item
BY DEF ValueCall, Calls

\* What a subquery is.
LEMMA SubsFit ==
  ASSUME NEW sub \in Subs
  PROVE  /\ sub.form \in {"value", "exists", "in", "any"} /\ sub.item \in ItemSet /\ sub.left \in SideSet
         /\ sub.left.of \in {"x", "joined", "one"} /\ ~ ReadsTable(sub.left)
         /\ sub.pred \in Preds /\ sub.not \in BOOLEAN /\ (sub.form = "in" => sub.pred = "=")
<1>1. sub \in [form : {"value", "exists", "in", "any"}, item : ItemSet, left : SideSet,
               pred : Preds, not : BOOLEAN, when : SUBSET Values]
  BY DEF Subs
<1>2. sub.left.of \in {"x", "joined", "one"} /\ (sub.form = "in" => sub.pred = "=")
  BY DEF Subs
<1>. QED
  BY <1>1, <1>2 DEF ReadsTable, Lanes

\* Comparisons and their opposites.
LEMMA Opposites ==
  ASSUME NEW p \in Preds
  PROVE  /\ Opposite[p] \in Preds
         /\ p = "=" => Opposite[p] = "<>"
         /\ p = "<>" => Opposite[p] = "="
         /\ p = "<" => Opposite[p] = ">="
         /\ p = ">=" => Opposite[p] = "<"
         /\ p = ">" => Opposite[p] = "<="
         /\ p = "<=" => Opposite[p] = ">"
BY DEF Opposite, Preds

\* The call for the hits of IN, ANY or ALL.
LEMMA MemberCalls ==
  ASSUME NEW sub \in Subs, sub.form \in {"in", "any"}
  PROVE  /\ MemberCall(sub) \in Calls /\ MemberCall(sub).item = ItemOf("count_star")
         /\ MemberCall(sub).left = sub.left /\ MemberCall(sub).pred = PredOf(sub) /\ PredOf(sub) \in Preds
         /\ MemberCall(sub).member = "in" <=> PredOf(sub) = "="
         /\ MemberCall(sub).member = "any" <=> PredOf(sub) # "="
<1>1. PredOf(sub) \in Preds
  BY SubsFit, Opposites DEF PredOf
<1>. QED
  BY <1>1 DEF MemberCall, Calls

\* What a call is.
LEMMA CallsFit ==
  ASSUME NEW c \in Calls
  PROVE  /\ c.member \in {"value", "in", "any"} /\ c.item \in ItemSet /\ c.left \in SideSet
         /\ ~ ReadsTable(c.left)
         /\ c.member = "value" => c = ValueCall(c.item) /\ ~ CanTrap(c.left) /\ ~ RefsJoin(c.left)
         /\ c.member # "value" => c.item = ItemOf("count_star")
         /\ c.member = "in" => c.pred = "="
         /\ c.member = "any" => c.pred \in Preds \ {"="}
<1>1. ASSUME NEW item \in ItemSet, c = ValueCall(item)
      PROVE  /\ c.member = "value" /\ c.item = item /\ c.left = NoSide /\ c.left \in SideSet
             /\ ~ ReadsTable(c.left) /\ ~ CanTrap(c.left) /\ ~ RefsJoin(c.left)
  BY <1>1 DEF ValueCall, NoSide, SideSet, ReadsTable, Lanes, CanTrap, RefsJoin
<1>2. ASSUME NEW sub \in Subs, sub.form \in {"in", "any"}, c = MemberCall(sub)
      PROVE  /\ c.member \in {"in", "any"} /\ c.item = ItemOf("count_star") /\ c.item \in ItemSet
             /\ c.left \in SideSet /\ ~ ReadsTable(c.left)
             /\ c.member = "in" => c.pred = "="
             /\ c.member = "any" => c.pred \in Preds \ {"="}
  BY <1>2, SubsFit, MemberCalls, PlainItems
<1>3. \/ \E item \in ItemSet : c = ValueCall(item)
      \/ \E sub \in Subs : sub.form \in {"in", "any"} /\ c = MemberCall(sub)
  BY DEF Calls
<1>. QED
  BY <1>1, <1>2, <1>3

\* The calls of a subquery, by its form.
LEMMA CallsOfFit ==
  ASSUME NEW sub \in Subs
  PROVE  /\ CallsOf(sub) \in Seq(Calls) /\ Len(CallsOf(sub)) > 0
         /\ sub.form = "value" => CallsOf(sub) = <<ValueCall(sub.item)>> /\ ToSet(CallsOf(sub)) = {ValueCall(sub.item)}
         /\ sub.form = "exists" => CallsOf(sub) = <<RowsCall>> /\ ToSet(CallsOf(sub)) = {RowsCall}
         /\ sub.form \in {"in", "any"} =>
              /\ CallsOf(sub) = <<MemberCall(sub), RowsCall, ValuesCall>>
              /\ ToSet(CallsOf(sub)) = {MemberCall(sub), RowsCall, ValuesCall}
<1>1. RowsCall \in Calls /\ ValuesCall \in Calls
  BY PlainItems, ValueCalls DEF RowsCall, ValuesCall
<1>2. CASE sub.form = "value"
  <2>1. CallsOf(sub) = <<ValueCall(sub.item)>>
    BY <1>2 DEF CallsOf
  <2>2. ValueCall(sub.item) \in Calls
    BY SubsFit, ValueCalls
  <2>. QED
    BY <1>2, <2>1, <2>2 DEF ToSet
<1>3. CASE sub.form = "exists"
  <2>1. CallsOf(sub) = <<RowsCall>>
    BY <1>3 DEF CallsOf
  <2>. QED
    BY <1>1, <1>3, <2>1 DEF ToSet
<1>4. CASE sub.form \in {"in", "any"}
  <2>1. CallsOf(sub) = <<MemberCall(sub), RowsCall, ValuesCall>>
    BY <1>4 DEF CallsOf
  <2>2. MemberCall(sub) \in Calls
    BY <1>4, MemberCalls
  <2>. DEFINE s == <<MemberCall(sub), RowsCall, ValuesCall>>
  <2>3. s \in Seq(Calls) /\ Len(s) = 3 /\ DOMAIN s = 1 .. 3 /\ s[1] = MemberCall(sub) /\ s[2] = RowsCall /\ s[3] = ValuesCall
    BY <1>1, <2>2
  <2>4. ToSet(s) = {s[1], s[2], s[3]}
    BY <2>3 DEF ToSet
  <2>. QED
    BY <1>4, <2>1, <2>3, <2>4
<1>. QED
  BY <1>2, <1>3, <1>4, SubsFit

-----------------------------------------------------------------------------
(* The items over rows.                                                    *)

\* The sum of a column is defined by recursion on the rows; it is a number.
LEMMA SumIsInt ==
  ASSUME query \in QuerySet, NEW rows, \A r \in rows : Table[r].v \in Int
  PROVE  SumOver(rows) \in Int
<1>. DEFINE N == Len(Table)
            Add(r) == IF r \in rows THEN Table[r].v ELSE 0
            Sums(f, n) == f = [r \in 0 .. n |-> IF r = 0 THEN 0 ELSE f[r - 1] + Add(r)]
            Bad == { n \in Nat : ~ \E f : Sums(f, n) }
<1>1. N \in Nat
  BY QueryFits
<1>2. \A r : Add(r) \in Int
  OBVIOUS
<1>. HIDE DEF N, Add
<1>3. Bad = {}
  <2>. SUFFICES ASSUME Bad # {} PROVE FALSE
    OBVIOUS
  <2>1. PICK m \in Bad : \A y \in Bad : m <= y
    <3>1. Bad \subseteq Nat
      OBVIOUS
    <3>. HIDE DEF Bad
    <3>. QED
      BY <3>1, LeastNatural
  <2>2. CASE m = 0
    <3>. DEFINE g == [r \in 0 .. 0 |-> 0]
    <3>1. g = [r \in 0 .. 0 |-> IF r = 0 THEN 0 ELSE g[r - 1] + Add(r)]
      OBVIOUS
    <3>2. Sums(g, 0)
      BY <3>1
    <3>. QED
      BY <2>1, <2>2, <3>2
  <2>3. CASE m # 0
    <3>0. m \in Nat
      BY <2>1
    <3>1. m - 1 \in Nat /\ m - 1 \notin Bad
      <4>. HIDE DEF Bad
      <4>. QED
        BY <2>1, <2>3, <3>0
    <3>2. PICK f : Sums(f, m - 1)
      BY <3>1
    <3>. DEFINE g == [r \in 0 .. m |-> IF r = m THEN f[m - 1] + Add(m) ELSE f[r]]
    <3>3. \A r \in 0 .. m - 1 : f[r] = IF r = 0 THEN 0 ELSE f[r - 1] + Add(r)
      BY <3>2, Zenon
    <3>4. m \in Nat /\ m > 0
      BY <2>1, <2>3
    <3>5. \A r \in 0 .. m : g[r] = IF r = 0 THEN 0 ELSE g[r - 1] + Add(r)
      <4>. TAKE r \in 0 .. m
      <4>1. CASE r = m
        BY <3>4, <4>1
      <4>2. CASE r # m
        <5>1. r \in 0 .. m - 1 /\ r # 0 => r - 1 \in 0 .. m /\ r - 1 # m
          BY <3>4, <4>2
        <5>. QED
          BY <3>3, <3>4, <4>2, <5>1
      <4>. QED
        BY <4>1, <4>2
    <3>6. g = [r \in 0 .. m |-> IF r = 0 THEN 0 ELSE g[r - 1] + Add(r)]
      <4>. DEFINE h == [r \in 0 .. m |-> IF r = 0 THEN 0 ELSE g[r - 1] + Add(r)]
      <4>2. g = [r \in 0 .. m |-> g[r]]
        BY Zenon
      <4>. HIDE DEF g
      <4>1. h = [r \in 0 .. m |-> h[r]] /\ \A r \in 0 .. m : h[r] = IF r = 0 THEN 0 ELSE g[r - 1] + Add(r)
        BY Zenon
      <4>. HIDE DEF h
      <4>3. \A r \in 0 .. m : g[r] = h[r]
        BY <3>5, <4>1
      <4>4. g = h
        BY <4>1, <4>2, <4>3
      <4>. QED
        BY <4>4 DEF h
    <3>. HIDE DEF g
    <3>7. Sums(g, m)
      BY <3>6
    <3>. QED
      BY <2>1, <3>7
  <2>. QED
    BY <2>2, <2>3
<1>4. PICK f : Sums(f, N)
  BY <1>1, <1>3
<1>. DEFINE S == CHOOSE g : Sums(g, N)
<1>5. Sums(S, N)
  BY <1>4
<1>. HIDE DEF S
<1>6. S[0] = 0 /\ \A r \in 1 .. N : S[r] = S[r - 1] + Add(r)
  BY <1>1, <1>5
<1>7. \A n \in 0 .. N : S[n] \in Int
  <2>. DEFINE Out == { n \in 0 .. N : S[n] \notin Int }
  <2>1. ASSUME Out # {} PROVE FALSE
    <3>0. Out \subseteq Nat
      BY <1>1
    <3>1. PICK m \in Out : \A y \in Out : m <= y
      <4>. HIDE DEF Out
      <4>. QED
        BY <2>1, <3>0, LeastNatural
    <3>2. m # 0 /\ m \in 1 .. N /\ m - 1 \in 0 .. N /\ m - 1 \notin Out
      BY <1>1, <1>6, <3>1
    <3>3. S[m - 1] \in Int
      BY <3>2
    <3>. QED
      BY <1>2, <1>6, <3>1, <3>2, <3>3
  <2>. QED
    BY <2>1
<1>8. SumOver(rows) = S[N]
  BY DEF SumOver, S, N, Add
<1>. QED
  BY <1>1, <1>7, <1>8

\* Numbers at finitely many places have a least and a greatest.
LEMMA Extremal ==
  ASSUME NEW N \in Nat, NEW f, NEW R, R \subseteq 1 .. N, R # {}, \A r \in R : f[r] \in Int
  PROVE  /\ \E m \in R : \A r \in R : f[m] <= f[r]
         /\ \E m \in R : \A r \in R : f[m] >= f[r]
<1>. DEFINE Up(n) == { r \in R : r <= n }
            Good(n) == Up(n) = {} \/ /\ \E m \in Up(n) : \A r \in Up(n) : f[m] <= f[r]
                                     /\ \E m \in Up(n) : \A r \in Up(n) : f[m] >= f[r]
            Bad == { n \in Nat : ~ Good(n) }
<1>0. \A r \in R : r \in Int /\ 1 <= r /\ r <= N
  OBVIOUS
<1>1. Bad = {}
  <2>. SUFFICES ASSUME Bad # {} PROVE FALSE
    OBVIOUS
  <2>1. PICK n \in Bad : \A y \in Bad : n <= y
    <3>1. Bad \subseteq Nat
      OBVIOUS
    <3>. HIDE DEF Bad
    <3>. QED
      BY <3>1, LeastNatural
  <2>2. n \in Nat /\ ~ Good(n)
    BY <2>1
  <2>3. n # 0
    <3>0. \A r \in R : ~ (r <= 0)
      BY <1>0
    <3>1. Up(0) = {}
      BY <3>0
    <3>. QED
      BY <2>2, <3>1
  <2>4. n - 1 \in Nat /\ Good(n - 1)
    <3>1. n - 1 \in Nat /\ ~ (n <= n - 1)
      BY <2>2, <2>3
    <3>2. n - 1 \notin Bad
      <4>. HIDE DEF Bad
      <4>. QED
        BY <2>1, <3>1
    <3>3. \A k \in Nat : k \notin Bad => Good(k)
      <4>. HIDE DEF Good
      <4>. QED
        OBVIOUS
    <3>. HIDE DEF Good, Bad
    <3>. QED
      BY <3>1, <3>2, <3>3
  <2>5. CASE n \notin R
    <3>0. \A r \in R : r <= n <=> r <= n - 1
      BY <1>0, <2>2, <2>5
    <3>1. Up(n) = Up(n - 1)
      BY <3>0
    <3>. HIDE DEF Up
    <3>. QED
      BY <2>2, <2>4, <3>1
  <2>6. CASE n \in R
    <3>0. \A r \in R : r <= n <=> r <= n - 1 \/ r = n
      BY <1>0, <2>2
    <3>1. Up(n) = Up(n - 1) \union {n} /\ Up(n - 1) \subseteq R
      BY <2>6, <3>0
    <3>. HIDE DEF Up
    <3>2. CASE Up(n - 1) = {}
      <4>1. Up(n) = {n}
        BY <3>1, <3>2
      <4>2. f[n] \in Int
        BY <2>6
      <4>. QED
        BY <2>2, <4>1, <4>2
    <3>3. CASE Up(n - 1) # {}
      <4>1. PICK a \in Up(n - 1) : \A r \in Up(n - 1) : f[a] <= f[r]
        BY <2>4, <3>3
      <4>2. PICK b \in Up(n - 1) : \A r \in Up(n - 1) : f[b] >= f[r]
        BY <2>4, <3>3
      <4>3. \A r \in Up(n) : f[r] \in Int
        BY <2>6, <3>1
      <4>4. \E m \in Up(n) : \A r \in Up(n) : f[m] <= f[r]
        <5>1. CASE f[a] <= f[n]
          <6>1. \A r \in Up(n) : f[a] <= f[r]
            BY <3>1, <4>1, <5>1
          <6>. QED
            BY <3>1, <6>1
        <5>2. CASE ~ (f[a] <= f[n])
          <6>1. \A r \in Up(n) : f[n] <= f[r]
            <7>. TAKE r \in Up(n)
            <7>1. f[a] \in Int /\ f[n] \in Int /\ f[r] \in Int
              BY <3>1, <4>3
            <7>. QED
              BY <3>1, <4>1, <5>2, <7>1
          <6>. QED
            BY <3>1, <6>1
        <5>. QED
          BY <5>1, <5>2
      <4>5. \E m \in Up(n) : \A r \in Up(n) : f[m] >= f[r]
        <5>1. CASE f[b] >= f[n]
          <6>1. \A r \in Up(n) : f[b] >= f[r]
            BY <3>1, <4>2, <5>1
          <6>. QED
            BY <3>1, <6>1
        <5>2. CASE ~ (f[b] >= f[n])
          <6>1. \A r \in Up(n) : f[n] >= f[r]
            <7>. TAKE r \in Up(n)
            <7>1. f[b] \in Int /\ f[n] \in Int /\ f[r] \in Int
              BY <3>1, <4>3
            <7>. QED
              BY <3>1, <4>2, <5>2, <7>1
          <6>. QED
            BY <3>1, <6>1
        <5>. QED
          BY <5>1, <5>2
      <4>. QED
        BY <2>2, <4>4, <4>5
    <3>. QED
      BY <3>2, <3>3
  <2>. QED
    BY <2>5, <2>6
<1>2. Good(N)
  <2>. HIDE DEF Good
  <2>. QED
    BY <1>1
<1>3. Up(N) = R
  BY <1>0
<1>. HIDE DEF Up
<1>. QED
  BY <1>2, <1>3

\* The numbers among the items of some rows, and their extremes.
Numbers(rows) == { Table[r].v : r \in Vals(rows) }

\* The least and the greatest of the values in some rows.
LEMMA ExtremesAre ==
  ASSUME query \in QuerySet, NEW rows, rows \subseteq DOMAIN Table
  PROVE  /\ Numbers(rows) \subseteq Int
         /\ Numbers(rows) = Items(rows) \ {Null}
         /\ Numbers(rows) = {} <=> Vals(rows) = {}
         /\ Numbers(rows) # {} =>
              /\ Min(Numbers(rows)) \in Numbers(rows) /\ \A v \in Numbers(rows) : Min(Numbers(rows)) <= v
              /\ Max(Numbers(rows)) \in Numbers(rows) /\ \A v \in Numbers(rows) : Max(Numbers(rows)) >= v
<1>1. \A r \in DOMAIN Table : Table[r].v \in Values
  BY QueryFits DEF Rows
<1>2. \A r \in Vals(rows) : r \in 1 .. Len(Table) /\ Table[r].v \in Int
  BY <1>1, QueryFits DEF Vals, Values
<1>3. Numbers(rows) \subseteq Int
  BY <1>2 DEF Numbers
<1>4. Numbers(rows) = Items(rows) \ {Null}
  BY DEF Numbers, Items, Vals
<1>5. ASSUME Numbers(rows) # {}
      PROVE  /\ \E m \in Numbers(rows) : \A v \in Numbers(rows) : m <= v
             /\ \E m \in Numbers(rows) : \A v \in Numbers(rows) : m >= v
  <2>. DEFINE f == [r \in Vals(rows) |-> Table[r].v]
              R == Vals(rows)
  <2>1. R # {} /\ R \subseteq 1 .. Len(Table) /\ (\A r \in R : f[r] = Table[r].v) /\ \A r \in R : f[r] \in Int
    BY <1>2, <1>5 DEF Numbers
  <2>2. Numbers(rows) = { f[r] : r \in R }
    BY <2>1 DEF Numbers
  <2>. HIDE DEF f, R
  <2>3. Len(Table) \in Nat
    BY QueryFits
  <2>4. /\ \E m \in R : \A r \in R : f[m] <= f[r]
        /\ \E m \in R : \A r \in R : f[m] >= f[r]
    BY <2>1, <2>3, Extremal
  <2>. QED
    BY <2>2, <2>4
<1>6. Numbers(rows) # {} =>
        /\ Min(Numbers(rows)) \in Numbers(rows) /\ \A v \in Numbers(rows) : Min(Numbers(rows)) <= v
        /\ Max(Numbers(rows)) \in Numbers(rows) /\ \A v \in Numbers(rows) : Max(Numbers(rows)) >= v
  BY <1>5 DEF Min, Max
<1>7. Numbers(rows) = {} <=> Vals(rows) = {}
  BY DEF Numbers
<1>. QED
  BY <1>3, <1>4, <1>6, <1>7

\* Sets of rows can be counted.
LEMMA RowsAreFinite ==
  ASSUME query \in QuerySet, NEW rows, rows \subseteq DOMAIN Table
  PROVE  /\ IsFiniteSet(rows) /\ Cardinality(rows) \in Nat /\ (Cardinality(rows) = 0 <=> rows = {})
         /\ IsFiniteSet(Vals(rows)) /\ Cardinality(Vals(rows)) \in Nat
         /\ (Cardinality(Vals(rows)) = 0 <=> Vals(rows) = {}) /\ Cardinality(Vals(rows)) <= Cardinality(rows)
         /\ Cardinality(Vals(rows)) < Cardinality(rows) <=> Vals(rows) # rows
         /\ Cardinality(rows) <= Cardinality(DOMAIN Table)
<1>1. IsFiniteSet(DOMAIN Table)
  BY QueryFits
<1>2. IsFiniteSet(rows) /\ Cardinality(rows) <= Cardinality(DOMAIN Table)
  BY <1>1, FS_Subset
<1>3. Vals(rows) \subseteq rows
  BY DEF Vals
<1>4. /\ IsFiniteSet(Vals(rows)) /\ Cardinality(Vals(rows)) <= Cardinality(rows)
      /\ Cardinality(rows) = Cardinality(Vals(rows)) => rows = Vals(rows)
  BY <1>2, <1>3, FS_Subset
<1>5. Cardinality(rows) \in Nat /\ Cardinality(Vals(rows)) \in Nat
  BY <1>2, <1>4, FS_CardinalityType
<1>6. (Cardinality(rows) = 0 <=> rows = {}) /\ (Cardinality(Vals(rows)) = 0 <=> Vals(rows) = {})
  BY <1>2, <1>4, FS_EmptySet
<1>. QED
  BY <1>2, <1>4, <1>5, <1>6

\* An aggregate is a value.
LEMMA AggregateFits ==
  ASSUME query \in QuerySet, NEW rows, rows \subseteq DOMAIN Table, NEW item \in ItemSet, item.fn # "row"
  PROVE  /\ Aggregate(item, rows) \in Values
         /\ item.fn = "count_star" => Aggregate(item, rows) = Cardinality(rows)
         /\ item.fn = "count" /\ ~ item.distinct => Aggregate(item, rows) = Cardinality(Vals(rows))
         /\ Vals(rows) = {} /\ ~ CountsRows(item) => Aggregate(item, rows) = Null
         /\ Vals(rows) # {} /\ item.fn = "min" => Aggregate(item, rows) = Min(Numbers(rows))
         /\ Vals(rows) # {} /\ item.fn = "max" => Aggregate(item, rows) = Max(Numbers(rows))
         /\ rows = {} => Aggregate(item, rows) = IF CountsRows(item) THEN 0 ELSE Null
<1>. DEFINE read == IF item.distinct THEN Firsts(Vals(rows)) ELSE Vals(rows)
<1>1. item.fn \in {"count_star", "count", "sum", "min", "max"}
  BY ItemsFit
<1>2. /\ item.fn = "count_star" => Aggregate(item, rows) = Cardinality(rows)
      /\ item.fn = "count" => Aggregate(item, rows) = Cardinality(read)
      /\ item.fn \notin {"count_star", "count"} /\ Numbers(rows) = {} => Aggregate(item, rows) = Null
      /\ item.fn = "sum" /\ Numbers(rows) # {} => Aggregate(item, rows) = SumOver(read)
      /\ item.fn = "min" /\ Numbers(rows) # {} => Aggregate(item, rows) = Min(Numbers(rows))
      /\ item.fn = "max" /\ Numbers(rows) # {} => Aggregate(item, rows) = Max(Numbers(rows))
  BY DEF Aggregate, Numbers
<1>3. read \subseteq Vals(rows)
  BY DEF Firsts
<1>4. \A r \in Vals(rows) : Table[r].v \in Int
  BY QueryFits DEF Vals, Rows, Values
<1>5. (rows = {} => read = {}) /\ (~ item.distinct => read = Vals(rows))
  BY <1>3 DEF Vals
<1>. HIDE DEF read
<1>6. SumOver(read) \in Int
  BY <1>3, <1>4, SumIsInt
<1>7. Cardinality(read) \in Nat /\ (read = {} => Cardinality(read) = 0)
  BY <1>3, RowsAreFinite, FS_Subset, FS_CardinalityType, FS_EmptySet
<1>8. Numbers(rows) = {} <=> Vals(rows) = {}
  BY ExtremesAre
<1>9. Numbers(rows) # {} => Min(Numbers(rows)) \in Int /\ Max(Numbers(rows)) \in Int
  BY ExtremesAre
<1>10. Cardinality(rows) \in Nat /\ (rows = {} => Cardinality(rows) = 0 /\ Vals(rows) = {})
  BY RowsAreFinite DEF Vals
<1>11. Aggregate(item, rows) \in Values
  BY <1>1, <1>2, <1>6, <1>7, <1>9, <1>10 DEF Values
<1>. QED
  BY <1>1, <1>2, <1>5, <1>7, <1>8, <1>10, <1>11 DEF CountsRows

\* What an expression over an item answers.
LEMMA PostIs ==
  ASSUME NEW item \in ItemSet, NEW v \in Values
  PROVE  /\ Post(item, v) = Trap <=> v \in item.traps
         /\ v \notin item.traps => Post(item, v) = IF v = Null THEN item.null ELSE v
         /\ item.fn # "row" /\ ~ item.post => Post(item, v) = v
<1>1. item.null \in Values /\ (item.fn # "row" /\ ~ item.post => item.traps = {} /\ item.null = Null)
  BY ItemsFit
<1>2. /\ v \in item.traps => Post(item, v) = Trap
      /\ v \notin item.traps => Post(item, v) = IF v = Null THEN item.null ELSE v
  BY DEF Post
<1>. QED
  BY <1>1, <1>2, ValuesDiffer

\* What items that cannot trap answer, and any item over no rows.
LEMMA Answers ==
  ASSUME query \in QuerySet, NEW rows, rows \subseteq DOMAIN Table, NEW item \in ItemSet
  PROVE  /\ item.fn # "row" /\ item.traps = {} => Answer(item, rows) # Trap
         /\ item.fn # "row" => Answer(item, {}) = Miss(item)
         /\ item.fn = "row" => Answer(item, {}) = Null
<1>1. ASSUME item.fn # "row"
      PROVE  Answer(item, rows) = Post(item, Aggregate(item, rows)) /\ Aggregate(item, rows) \in Values
             /\ Answer(item, {}) = Post(item, Aggregate(item, {}))
             /\ Aggregate(item, {}) = IF CountsRows(item) THEN 0 ELSE Null
  BY <1>1, AggregateFits DEF Answer
<1>2. item.fn = "row" => Answer(item, {}) = Null
  <2>. HAVE item.fn = "row"
  <2>1. KeptRows(item.order, {}) = {}
    BY DEF KeptRows
  <2>2. Cardinality({}) = 0
    BY FS_EmptySet
  <2>3. RowItem(item, {}) = Null
    BY <2>1, <2>2 DEF RowItem
  <2>. QED
    BY <2>3 DEF Answer
<1>3. item.fn # "row" /\ item.traps = {} => Answer(item, rows) # Trap
  BY <1>1, PostIs
<1>. QED
  BY <1>1, <1>2, <1>3 DEF Miss

\* The two counts and the two extremes of some rows.
LEMMA Counts ==
  ASSUME query \in QuerySet, NEW rows, rows \subseteq DOMAIN Table
  PROVE  /\ Answer(ItemOf("count_star"), rows) = Cardinality(rows)
         /\ Answer(ItemOf("count"), rows) = Cardinality(Vals(rows))
         /\ Aggregate(ItemOf("min"), rows) = IF Vals(rows) = {} THEN Null ELSE Min(Numbers(rows))
         /\ Aggregate(ItemOf("max"), rows) = IF Vals(rows) = {} THEN Null ELSE Max(Numbers(rows))
<1>1. \A fn \in {"count_star", "count", "min", "max"} :
        /\ ItemOf(fn) \in ItemSet /\ ItemOf(fn).fn = fn /\ ~ ItemOf(fn).distinct /\ ~ ItemOf(fn).post
        /\ Aggregate(ItemOf(fn), rows) \in Values
        /\ Answer(ItemOf(fn), rows) = Aggregate(ItemOf(fn), rows)
  <2>. TAKE fn \in {"count_star", "count", "min", "max"}
  <2>1. ItemOf(fn) \in ItemSet /\ ItemOf(fn).fn = fn /\ ~ ItemOf(fn).distinct /\ ~ ItemOf(fn).post
    BY PlainItems
  <2>2. Aggregate(ItemOf(fn), rows) \in Values
    BY <2>1, AggregateFits
  <2>3. Post(ItemOf(fn), Aggregate(ItemOf(fn), rows)) = Aggregate(ItemOf(fn), rows)
    BY <2>1, <2>2, PostIs
  <2>. QED
    BY <2>1, <2>2, <2>3 DEF Answer
<1>2. ~ CountsRows(ItemOf("min")) /\ ~ CountsRows(ItemOf("max"))
  BY <1>1 DEF CountsRows
<1>. QED
  BY <1>1, <1>2, AggregateFits

-----------------------------------------------------------------------------
(* IN and ANY over the items of some rows.                                 *)

\* Comparisons of values, by predicate.
LEMMA CompareOthers ==
  ASSUME NEW pred, pred # "isnd", NEW l \in Values, NEW r \in Values
  PROVE  /\ Compare(pred, l, r) = Null <=> l = Null \/ r = Null
         /\ Compare(pred, l, r) = FALSE <=> l # Null /\ r # Null /\ ~ Holds(pred, l, r)
         /\ Compare(pred, l, r) = TRUE <=> l # Null /\ r # Null /\ Holds(pred, l, r)
<1>1. Holds(pred, l, r) \in BOOLEAN
  BY DEF Holds
<1>2. Null \notin BOOLEAN /\ Trap \notin Values
  BY ValuesDiffer
<1>3. l # Trap /\ r # Trap
  BY <1>2
<1>4. CASE l = Null \/ r = Null
  <2>1. Compare(pred, l, r) = Null
    BY <1>3, <1>4 DEF Compare
  <2>. QED
    BY <1>2, <1>4, <2>1
<1>5. CASE l # Null /\ r # Null
  <2>1. Compare(pred, l, r) = Holds(pred, l, r)
    BY <1>3, <1>5 DEF Compare
  <2>. QED
    BY <1>1, <1>2, <1>5, <2>1
<1>. QED
  BY <1>4, <1>5

\* ANY of the items compares as the group's least or greatest does.
LEMMA ExtremesSuffice ==
  ASSUME query \in QuerySet, NEW rows, rows \subseteq DOMAIN Table, NEW pred \in Preds \ {"="},
         NEW l \in Values, NEW group,
         group.min = Aggregate(ItemOf("min"), rows), group.max = Aggregate(ItemOf("max"), rows)
  PROVE  TRUE \in { Compare(pred, l, group[e]) : e \in Extremes(pred) }
           <=> \E v \in Items(rows) : Compare(pred, l, v) = TRUE
<1>1. pred # "isnd" /\ pred \in {"<>", "<", "<=", ">", ">="}
  BY DEF Preds
<1>2. /\ group.min = IF Vals(rows) = {} THEN Null ELSE Min(Numbers(rows))
      /\ group.max = IF Vals(rows) = {} THEN Null ELSE Max(Numbers(rows))
  BY Counts
<1>3. /\ Numbers(rows) \subseteq Int /\ Numbers(rows) = Items(rows) \ {Null}
      /\ Numbers(rows) = {} <=> Vals(rows) = {}
      /\ Numbers(rows) # {} =>
           /\ Min(Numbers(rows)) \in Numbers(rows) /\ \A v \in Numbers(rows) : Min(Numbers(rows)) <= v
           /\ Max(Numbers(rows)) \in Numbers(rows) /\ \A v \in Numbers(rows) : Max(Numbers(rows)) >= v
  BY ExtremesAre
<1>4. Items(rows) \subseteq Values
  BY <1>3 DEF Values
<1>5. TRUE \in { Compare(pred, l, group[e]) : e \in Extremes(pred) }
        <=> \E e \in Extremes(pred) : Compare(pred, l, group[e]) = TRUE
  OBVIOUS
<1>6. /\ pred \in {"<", "<="} => Extremes(pred) = {"max"}
      /\ pred \in {">", ">="} => Extremes(pred) = {"min"}
      /\ pred = "<>" => Extremes(pred) = {"min", "max"}
  BY <1>1 DEF Extremes
<1>7. group.min \in Values /\ group.max \in Values
  BY <1>2, <1>3, ValuesDiffer DEF Values
<1>8. \A v \in Values : Compare(pred, l, v) = TRUE <=> l # Null /\ v # Null /\ Holds(pred, l, v)
  BY <1>1, CompareOthers
<1>9. CASE l = Null \/ Vals(rows) = {}
  <2>1. ~ \E v \in Items(rows) : Compare(pred, l, v) = TRUE
    BY <1>3, <1>4, <1>8, <1>9
  <2>2. \A e \in {"min", "max"} : Compare(pred, l, group[e]) # TRUE
    BY <1>2, <1>7, <1>8, <1>9
  <2>3. Extremes(pred) \subseteq {"min", "max"}
    BY <1>1, <1>6
  <2>. QED
    BY <1>5, <2>1, <2>2, <2>3
<1>10. CASE l # Null /\ Vals(rows) # {}
  <2>. DEFINE mn == Min(Numbers(rows))
              mx == Max(Numbers(rows))
  <2>1. /\ group.min = mn /\ group.max = mx /\ mn \in Numbers(rows) /\ mx \in Numbers(rows)
        /\ \A v \in Numbers(rows) : mn <= v /\ v <= mx /\ v \in Int
    BY <1>2, <1>3, <1>10
  <2>. HIDE DEF mn, mx
  <2>2. l \in Int /\ Null \notin Numbers(rows)
    BY <1>3, <1>10 DEF Values
  <2>3. (\E v \in Items(rows) : Compare(pred, l, v) = TRUE) <=> \E v \in Numbers(rows) : Holds(pred, l, v)
    BY <1>3, <1>4, <1>8, <1>10
  <2>4. Compare(pred, l, group.min) = TRUE <=> Holds(pred, l, mn)
    BY <1>7, <1>8, <1>10, <2>1, <2>2
  <2>5. Compare(pred, l, group.max) = TRUE <=> Holds(pred, l, mx)
    BY <1>7, <1>8, <1>10, <2>1, <2>2
  <2>6. CASE pred \in {"<", "<="}
    <3>1. (\E v \in Numbers(rows) : Holds(pred, l, v)) <=> Holds(pred, l, mx)
      BY <2>1, <2>2, <2>6 DEF Holds
    <3>. QED
      BY <1>5, <1>6, <2>3, <2>5, <2>6, <3>1
  <2>7. CASE pred \in {">", ">="}
    <3>1. (\E v \in Numbers(rows) : Holds(pred, l, v)) <=> Holds(pred, l, mn)
      BY <2>1, <2>2, <2>7 DEF Holds
    <3>. QED
      BY <1>5, <1>6, <2>3, <2>4, <2>7, <3>1
  <2>8. CASE pred = "<>"
    <3>1. (\E v \in Numbers(rows) : Holds(pred, l, v)) <=> Holds(pred, l, mn) \/ Holds(pred, l, mx)
      BY <2>1, <2>2, <2>8 DEF Holds
    <3>. QED
      BY <1>5, <1>6, <2>3, <2>4, <2>5, <2>8, <3>1
  <2>. QED
    BY <1>1, <2>6, <2>7, <2>8
<1>. QED
  BY <1>9, <1>10

\* DuckDB's IN, ANY and ALL, by the one comparison that member_value counts.
LEMMA DuckMembers ==
  ASSUME query \in QuerySet, NEW rows, rows \subseteq DOMAIN Table,
         NEW sub \in Subs, sub.form \in {"in", "any"}, NEW l \in Values
  PROVE  LET some == \E v \in Items(rows) : Compare(PredOf(sub), l, v) = TRUE
         IN /\ some => DuckMember(sub, rows, l) = ~ sub.not
            /\ ~ some /\ (rows = {} \/ (Vals(rows) = rows /\ l # Null)) => DuckMember(sub, rows, l) = sub.not
            /\ ~ some /\ rows # {} /\ (Vals(rows) # rows \/ l = Null) => DuckMember(sub, rows, l) = Null
<1>. DEFINE pred == IF sub.form = "in" THEN "=" ELSE sub.pred
            some == sub.form = "in" \/ ~ sub.not
            any == \E v \in Items(rows) : Compare(pred, l, v) = some
            unknown == \E v \in Items(rows) : Compare(pred, l, v) = Null
            Some == \E v \in Items(rows) : Compare(PredOf(sub), l, v) = TRUE
<1>1. sub.pred \in Preds /\ sub.not \in BOOLEAN
  BY SubsFit
<1>2. /\ any => DuckMember(sub, rows, l) = IF sub.form = "in" THEN ~ sub.not ELSE some
      /\ ~ any /\ unknown => DuckMember(sub, rows, l) = Null
      /\ ~ any /\ ~ unknown => DuckMember(sub, rows, l) = IF sub.form = "in" THEN sub.not ELSE ~ some
  BY Zenon DEF DuckMember
<1>3. Items(rows) \subseteq Values
  BY ExtremesAre DEF Values
<1>4. pred # "isnd" /\ PredOf(sub) # "isnd" /\ PredOf(sub) \in Preds
  BY <1>1, MemberCalls DEF Preds
<1>5. \A v \in Values : Compare(pred, l, v) = some <=> Compare(PredOf(sub), l, v) = TRUE
  <2>. TAKE v \in Values
  <2>1. CASE sub.form = "in" \/ ~ sub.not
    BY <1>1, <2>1, SubsFit DEF PredOf
  <2>2. CASE sub.form # "in" /\ sub.not
    <3>1. some = FALSE /\ pred = sub.pred /\ PredOf(sub) = Opposite[sub.pred]
      BY <2>2 DEF PredOf
    <3>2. l # Null /\ v # Null => l \in Int /\ v \in Int
      BY DEF Values
    <3>3. l # Null /\ v # Null => (~ Holds(sub.pred, l, v) <=> Holds(Opposite[sub.pred], l, v))
      BY <1>1, <3>2, Opposites DEF Preds, Holds
    <3>4. Compare(pred, l, v) = FALSE <=> l # Null /\ v # Null /\ ~ Holds(pred, l, v)
      BY <1>4, CompareOthers
    <3>5. Compare(PredOf(sub), l, v) = TRUE <=> l # Null /\ v # Null /\ Holds(PredOf(sub), l, v)
      BY <1>4, CompareOthers
    <3>. QED
      BY <3>1, <3>3, <3>4, <3>5
  <2>. QED
    BY <2>1, <2>2
<1>6. any <=> Some
  BY <1>3, <1>5
<1>7. unknown <=> \E v \in Items(rows) : l = Null \/ v = Null
  <2>1. \A v \in Values : Compare(pred, l, v) = Null <=> l = Null \/ v = Null
    BY <1>4, CompareOthers
  <2>. QED
    BY <1>3, <2>1
<1>8. (\E v \in Items(rows) : l = Null \/ v = Null) <=> rows # {} /\ (Vals(rows) # rows \/ l = Null)
  BY DEF Items, Vals
<1>9. /\ (IF sub.form = "in" THEN ~ sub.not ELSE some) = ~ sub.not
      /\ (IF sub.form = "in" THEN sub.not ELSE ~ some) = sub.not
  BY <1>1
<1>10. any => DuckMember(sub, rows, l) = ~ sub.not
  BY <1>2, <1>9
<1>11. ~ any /\ ~ unknown => DuckMember(sub, rows, l) = sub.not
  BY <1>2, <1>9
<1>12. ~ any /\ unknown => DuckMember(sub, rows, l) = Null
  BY <1>2
<1>. HIDE DEF any, unknown, some, pred
<1>. QED
  BY <1>6, <1>7, <1>8, <1>10, <1>11, <1>12

-----------------------------------------------------------------------------
(* What a request reads through a table grouped by the keys.               *)

FilterRows == { r \in DOMAIN Table : \A i \in Filters : Test(W[i], "whole", Table[r], NoReq) = TRUE }
\* A row that the filters before the first key keep.
ReachesKey == \E r \in DOMAIN Table : \A i \in 1 .. FirstKey - 1 : Lo(i, r, NoReq) = TRUE

Left(c, req) == ValueOf(c.left, <<>>, req)
LeftStops(c, req) == /\ Left(c, req) = Trap
                     /\ \/ c.member = "in" /\ Vals(DuckRows(req)) # {}
                        \/ c.member = "any" /\ DuckRows(req) # {}
\* DuckDB traps for this request on what the call evaluates.
CallTraps(c, req) == \/ WhereTraps(req)
                     \/ c.member = "value" /\ Answer(c.item, DuckRows(req)) = Trap
                     \/ LeftStops(c, req)
\* The rows that the call's table holds under a request's key.
Want(c, req) == { r \in DuckRows(req) : c.member = "in" =>
                                          Table[r].v = Left(c, req) /\ Left(c, req) # Null }

NoReqFits == NoReq \in Requests

\* The request that stands for none is a request.
LEMMA NoReqIs == NoReqFits
BY ValuesDiffer DEF NoReqFits, NoReq, Requests

\* The rows that every filter keeps hold those of any request.
LEMMA FilterRowsAre ==
  ASSUME query \in QuerySet, NEW req
  PROVE  /\ FilterRows \subseteq DOMAIN Table /\ DuckRows(req) \subseteq FilterRows
         /\ \A r \in FilterRows, i \in Filters : Lo(i, r, NoReq) = TRUE
         /\ \A r \in DuckRows(req), i \in DOMAIN W : Lo(i, r, req) = TRUE
         /\ \A i \in Filters : \A r : Lo(i, r, req) = Lo(i, r, NoReq)
         /\ Keys = {} /\ Mixed = {} => DuckRows(req) = FilterRows
<1>1. \A i \in Filters : \A r, half : Test(W[i], half, Table[r], req) = Test(W[i], half, Table[r], NoReq)
  BY Kinds, FilterTests
<1>2. \A i \in Filters : \A r : Lo(i, r, req) = Lo(i, r, NoReq)
  <2>1. \A i, r, d : Lo(i, r, d) = Test(W[i], "lower", Table[r], d)
    BY TestsByHalf DEF Lo
  <2>. QED
    BY <1>1, <2>1
<1>3. \A i, r, d : Test(W[i], "whole", Table[r], d) = TRUE => Lo(i, r, d) = TRUE
  <2>. TAKE i, r, d
  <2>1. CASE W[i].op = "between"
    <3>1. Lo(i, r, d) # TRUE => Test(W[i], "whole", Table[r], d) = Lo(i, r, d)
      BY <2>1, TestsByHalf DEF Lo
    <3>. QED
      BY <3>1
  <2>2. CASE W[i].op # "between"
    BY <2>2, TestsByHalf DEF Lo
  <2>. QED
    BY <2>1, <2>2
<1>4. Filters \subseteq DOMAIN W /\ DOMAIN W = Keys \union Filters \union Mixed
  BY Kinds
<1>5. DuckRows(req) = { r \in DOMAIN Table : \A i \in DOMAIN W : Test(W[i], "whole", Table[r], req) = TRUE }
  BY DuckRowsAre
<1>. QED
  BY <1>1, <1>2, <1>3, <1>4, <1>5 DEF FilterRows

IsGuard(j, parts, item) == /\ j.how = "guard" /\ j.parts = parts /\ j.keys = << >>
                           /\ j.call = ValueCall(item) /\ j.traps = FALSE
IsTable(j, c, g) == /\ j.how = "table" /\ j.parts = Whole(Filters) /\ j.keys = TableKeys(c, g)
                    /\ j.preds = << >> /\ j.call = c
                    /\ j.traps = (Guards(c) \/ (c.member = "any" /\ CanTrap(c.left)))

\* What the guard of a table counts.
Blocked(c) == IF TrapKey THEN ~ ReachesKey ELSE Vals(FilterRows) = {}
GuardedBy(c, g) == \/ g = NoJoin /\ ~ Guards(c)
                   \/ g # NoJoin /\ Guards(c) /\ (tables[g] = 0 <=> Blocked(c))

\* Terms before the first key, as a guard's parts read them.
LEMMA LowersBefore ==
  ASSUME query \in QuerySet, Keys # {}, 1 .. FirstKey - 1 \subseteq Filters, \A i \in BeforeKey : ~ Unsplit(W[i])
  PROVE  /\ BeforeKey = 1 .. FirstKey - 1
         /\ \A i \in 1 .. FirstKey - 1 : \A r, d :
              TestPart(Lower(i), Table[r], d) = Lo(i, r, d)
<1>1. FirstKey \in 1 .. Len(W) /\ Len(W) \in Nat
  BY Kinds, QueryFits
<1>2. \A i \in Filters : i \in 1 .. Len(W)
  BY Kinds, QueryFits
<1>3. BeforeKey = 1 .. FirstKey - 1
  BY <1>1, <1>2 DEF BeforeKey
<1>4. ASSUME NEW i \in 1 .. FirstKey - 1, NEW r, NEW d
      PROVE  TestPart(Lower(i), Table[r], d) = Lo(i, r, d)
  <2>1. W[i].op = "between" => IsSplit(W[i])
    BY <1>3 DEF Unsplit, IsSplit
  <2>2. Lower(i).i = i /\ Lower(i).half = IF IsSplit(W[i]) THEN "lower" ELSE "whole"
    BY PartIs DEF Lower
  <2>3. CASE IsSplit(W[i])
    <3>1. TestPart(Lower(i), Table[r], d) = Test(W[i], "lower", Table[r], d)
      BY <2>2, <2>3 DEF TestPart
    <3>. QED
      BY <3>1, TestsByHalf DEF Lo
  <2>4. CASE ~ IsSplit(W[i])
    <3>1. TestPart(Lower(i), Table[r], d) = Test(W[i], "whole", Table[r], d)
      BY <2>2, <2>4 DEF TestPart
    <3>. QED
      BY <2>1, <2>4, <3>1, TestsByHalf DEF Lo
  <2>. QED
    BY <2>3, <2>4
<1>. QED
  BY <1>3, <1>4

\* A guard that counts the rows before the first key.
LEMMA KeyGuard ==
  ASSUME query \in QuerySet, Keys # {}, 1 .. FirstKey - 1 \subseteq Filters, \A i \in BeforeKey : ~ Unsplit(W[i]),
         NEW j, IsGuard(j, Lowers(BeforeKey), ItemOf("count_star"))
  PROVE  TableOf(j) = 0 <=> ~ ReachesKey
<1>1. TableOf(j) = Answer(ItemOf("count_star"), Passing(j))
  BY PlainItems, ValueCalls DEF TableOf, IsGuard
<1>2. Passing(j) \subseteq DOMAIN Table
  BY DEF Passing
<1>3. TableOf(j) = 0 <=> Passing(j) = {}
  BY <1>1, <1>2, Counts, RowsAreFinite
<1>4. Passing(j) = { r \in DOMAIN Table : \A i \in BeforeKey : TestPart(Lower(i), Table[r], NoReq) = TRUE }
  BY DEF Passing, IsGuard, Lowers
<1>5. Passing(j) = { r \in DOMAIN Table : \A i \in 1 .. FirstKey - 1 : Lo(i, r, NoReq) = TRUE }
  BY <1>4, LowersBefore
<1>. QED
  BY <1>3, <1>5 DEF ReachesKey

\* A join over every filter passes the rows that they keep.
LEMMA PassingFilters ==
  ASSUME query \in QuerySet, NEW j, j.parts = Whole(Filters)
  PROVE  Passing(j) = FilterRows
<1>1. \A i, r : TestPart(Part(i, "whole"), Table[r], NoReq) = Test(W[i], "whole", Table[r], NoReq)
  BY PartIs DEF TestPart
<1>. QED
  BY <1>1 DEF Passing, Whole, FilterRows

\* A guard counts what it guards against.
LEMMA TableGuard ==
  ASSUME query \in QuerySet, NEW c \in Calls, ~ Scanned, ~ TableRefusal(c), Guards(c),
         NEW j, IsGuard(j, GuardParts(c), GuardItem(c))
  PROVE  TableOf(j) = 0 <=> Blocked(c)
<1>1. CASE TrapKey
  <2>1. IsGuard(j, Lowers(BeforeKey), ItemOf("count_star"))
    BY <1>1 DEF GuardParts, GuardItem
  <2>2. Keys # {} /\ 1 .. FirstKey - 1 \subseteq Filters /\ \A i \in BeforeKey : ~ Unsplit(W[i])
    BY <1>1 DEF TrapKey, TableRefusal, GuardUnsplit
  <2>. QED
    BY <1>1, <2>1, <2>2, KeyGuard DEF Blocked
<1>2. CASE ~ TrapKey
  <2>1. IsGuard(j, Whole(Filters), ItemOf("count"))
    BY <1>2 DEF GuardParts, GuardItem
  <2>2. TableOf(j) = Answer(ItemOf("count"), Passing(j))
    BY <2>1, PlainItems, ValueCalls DEF TableOf, IsGuard
  <2>3. Passing(j) = FilterRows /\ FilterRows \subseteq DOMAIN Table
    BY <2>1, PassingFilters DEF IsGuard, FilterRows
  <2>. QED
    BY <1>2, <2>2, <2>3, Counts, RowsAreFinite DEF Blocked
<1>. QED
  BY <1>1, <1>2

\* The keys of a table's join.
LEMMA TableKeysAre ==
  ASSUME query \in QuerySet, NEW c \in Calls, NEW g, NEW j, IsTable(j, c, g)
  PROVE  /\ InPlace \notin Keys
         /\ DOMAIN j.keys = Keys \union (IF c.member = "in" THEN {InPlace} ELSE {})
         /\ \A i \in Keys : /\ j.keys[i].lane = Lane(W[i]) /\ j.keys[i].cmp = W[i].op
                            /\ j.keys[i].side = OuterSide(W[i])
                            /\ j.keys[i].guard = IF i = FirstKey THEN g ELSE NoJoin
         /\ c.member = "in" => /\ j.keys[InPlace].lane = "v" /\ j.keys[InPlace].cmp = "="
                               /\ j.keys[InPlace].side = c.left
                               /\ j.keys[InPlace].guard = IF Keys = {} THEN g ELSE NoJoin
<1>1. InPlace \notin Keys
  <2>1. \A i \in Keys : i \in 1 .. Len(W)
    BY Kinds, QueryFits
  <2>2. Len(W) \in Nat
    BY QueryFits
  <2>. QED
    BY <2>1, <2>2 DEF InPlace
<1>. DEFINE P == Keys \union (IF c.member = "in" THEN {InPlace} ELSE {})
<1>2. j.keys = [ i \in P |-> IF i \in Keys THEN Key(i, IF i = FirstKey THEN g ELSE NoJoin)
                             ELSE InKey(c, IF Keys = {} THEN g ELSE NoJoin) ]
  BY DEF IsTable, TableKeys
<1>3. DOMAIN j.keys = P
  BY <1>2
<1>4. \A i \in Keys : j.keys[i] = Key(i, IF i = FirstKey THEN g ELSE NoJoin)
  BY <1>2
<1>5. c.member = "in" => j.keys[InPlace] = InKey(c, IF Keys = {} THEN g ELSE NoJoin)
  BY <1>1, <1>2
<1>6. \A i, h : /\ Key(i, h).lane = Lane(W[i]) /\ Key(i, h).cmp = W[i].op
                /\ Key(i, h).side = OuterSide(W[i]) /\ Key(i, h).guard = h
  BY DEF Key
<1>7. \A h : /\ InKey(c, h).lane = "v" /\ InKey(c, h).cmp = "=" /\ InKey(c, h).side = c.left
             /\ InKey(c, h).guard = h
  BY DEF InKey
<1>. HIDE DEF P
<1>8. \A i \in Keys : /\ j.keys[i].lane = Lane(W[i]) /\ j.keys[i].cmp = W[i].op
                      /\ j.keys[i].side = OuterSide(W[i])
                      /\ j.keys[i].guard = IF i = FirstKey THEN g ELSE NoJoin
  BY <1>4, <1>6
<1>9. c.member = "in" => /\ j.keys[InPlace].lane = "v" /\ j.keys[InPlace].cmp = "="
                         /\ j.keys[InPlace].side = c.left
                         /\ j.keys[InPlace].guard = IF Keys = {} THEN g ELSE NoJoin
  BY <1>5, <1>7
<1>. QED
  BY <1>1, <1>3, <1>8, <1>9 DEF P

\* The values under which a request reads a table: the guard keeps a first
\* key, or a left side of IN, that traps from running.
LEMMA TableKeyValues ==
  ASSUME query \in QuerySet, NEW c \in Calls, NEW g, NEW j, IsTable(j, c, g), NEW req
  PROVE  LET vals == KeyValues(j, req)
             shut == g # NoJoin /\ tables[g] = 0
         IN /\ DOMAIN vals = DOMAIN j.keys /\ vals = [ n \in DOMAIN j.keys |-> vals[n] ]
            /\ \A i \in Keys : vals[i] = IF i = FirstKey /\ shut THEN Null ELSE Outer(i, req)
            /\ c.member = "in" => vals[InPlace] = IF Keys = {} /\ shut THEN Null ELSE Left(c, req)
<1>. DEFINE vals == KeyValues(j, req)
            shut == g # NoJoin /\ tables[g] = 0
<1>1. vals = [ n \in DOMAIN j.keys |-> KeyValue(j.keys[n], req) ]
  BY DEF KeyValues
<1>2. DOMAIN vals = DOMAIN j.keys /\ vals = [ n \in DOMAIN j.keys |-> vals[n] ]
      /\ \A n \in DOMAIN j.keys : vals[n] = KeyValue(j.keys[n], req)
  BY <1>1
<1>. HIDE DEF vals
<1>3. ASSUME NEW i \in Keys
      PROVE  vals[i] = IF i = FirstKey /\ shut THEN Null ELSE Outer(i, req)
  <2>1. i \in DOMAIN j.keys /\ j.keys[i].side = OuterSide(W[i]) /\ j.keys[i].guard = IF i = FirstKey THEN g ELSE NoJoin
    BY TableKeysAre
  <2>2. vals[i] = KeyValue(j.keys[i], req)
    BY <1>2, <2>1
  <2>. QED
    BY <2>1, <2>2 DEF KeyValue, Outer
<1>4. ASSUME c.member = "in"
      PROVE  vals[InPlace] = IF Keys = {} /\ shut THEN Null ELSE Left(c, req)
  <2>1. InPlace \in DOMAIN j.keys /\ j.keys[InPlace].side = c.left /\ j.keys[InPlace].guard = IF Keys = {} THEN g ELSE NoJoin
    BY <1>4, TableKeysAre
  <2>2. vals[InPlace] = KeyValue(j.keys[InPlace], req)
    BY <1>2, <2>1
  <2>. QED
    BY <2>1, <2>2 DEF KeyValue, Left
<1>. QED
  BY <1>2, <1>3, <1>4 DEF vals

\* Only the first key can trap, and then a guard counts the rows before it.
LEMMA TableOuters ==
  ASSUME query \in QuerySet, ~ Scanned, NEW req \in Requests, NEW i \in Keys, Outer(i, req) = Trap
  PROVE  i = FirstKey /\ TrapKey
<1>1. W[i] \in Terms /\ KindOf(W[i]) = "key" /\ i \in 1 .. Len(W) /\ Len(W) \in Nat
  BY Kinds, QueryFits
<1>2. OuterSide(W[i]) \in SideSet /\ ~ ReadsTable(OuterSide(W[i]))
  BY <1>1, KeyTerms
<1>3. CanTrap(OuterSide(W[i]))
  BY <1>2, SideValues DEF Outer
<1>4. 1 .. i - 1 \subseteq Filters
  BY <1>3 DEF Scanned, LateTrap
<1>5. FirstKey \in Keys /\ FirstKey <= i /\ FirstKey \notin Filters /\ FirstKey \in 1 .. Len(W)
  BY <1>1, Kinds, QueryFits
<1>6. i = FirstKey
  BY <1>1, <1>4, <1>5
<1>. QED
  BY <1>3, <1>4, <1>5, <1>6 DEF TrapKey

\* A request traps in the WHERE at the first key, if it is reached.
LEMMA TableTrapsAre ==
  ASSUME query \in QuerySet, ~ WhereRefused, ~ Scanned, NEW req \in Requests
  PROVE  WhereTraps(req) <=> TrapKey /\ Outer(FirstKey, req) = Trap /\ ReachesKey
<1>1. ASSUME TrapKey, NEW r
      PROVE  (\A i \in 1 .. FirstKey - 1 : Lo(i, r, req) = TRUE)
               <=> \A i \in 1 .. FirstKey - 1 : Lo(i, r, NoReq) = TRUE
  <2>1. \A i \in 1 .. FirstKey - 1 : i \in Filters
    BY <1>1 DEF TrapKey
  <2>. QED
    BY <2>1, FilterRowsAre
<1>. QED
  BY <1>1, TableTraps DEF ReachesKey

\* A left side of IN that can trap is that of a query without keys.
LEMMA LeftTraps ==
  ASSUME NEW c \in Calls, ~ TableRefusal(c), NEW req \in Requests, Left(c, req) = Trap
  PROVE  CanTrap(c.left) /\ c.member # "value" /\ Keys = {} /\ ~ TrapKey
<1>1. c.left \in SideSet /\ ~ ReadsTable(c.left) /\ (c.member = "value" => ~ CanTrap(c.left))
  BY CallsFit
<1>2. CanTrap(c.left)
  BY <1>1, SideValues DEF Left
<1>. QED
  BY <1>1, <1>2 DEF TableRefusal, LeftRefused, TrapKey

\* A probe's keys trap where DuckDB does.
LEMMA TableValuesTrap ==
  ASSUME query \in QuerySet, ~ WhereRefused, ~ Scanned, NEW c \in Calls, ~ TableRefusal(c),
         NEW g, NEW j, IsTable(j, c, g), GuardedBy(c, g), NEW req \in Requests
  PROVE  Trap \in ToSet(KeyValues(j, req)) <=> WhereTraps(req) \/ (c.member = "in" /\ LeftStops(c, req))
<1>. DEFINE vals == KeyValues(j, req)
            shut == g # NoJoin /\ tables[g] = 0
<1>1. /\ DOMAIN vals = DOMAIN j.keys
      /\ \A i \in Keys : vals[i] = IF i = FirstKey /\ shut THEN Null ELSE Outer(i, req)
      /\ c.member = "in" => vals[InPlace] = IF Keys = {} /\ shut THEN Null ELSE Left(c, req)
  BY TableKeyValues
<1>2. DOMAIN j.keys = Keys \union (IF c.member = "in" THEN {InPlace} ELSE {})
  BY TableKeysAre
<1>3. Trap \in ToSet(vals) <=> \/ \E i \in Keys : vals[i] = Trap
                               \/ c.member = "in" /\ vals[InPlace] = Trap
  BY <1>1, <1>2 DEF ToSet
<1>. HIDE DEF vals
<1>4. Null # Trap
  BY ValuesDiffer
<1>5. (\E i \in Keys : vals[i] = Trap) <=> WhereTraps(req)
  <2>1. ASSUME NEW i \in Keys, vals[i] = Trap
        PROVE  WhereTraps(req)
    <3>1. Outer(i, req) = Trap /\ ~ (i = FirstKey /\ shut)
      BY <1>1, <1>4, <2>1
    <3>2. i = FirstKey /\ TrapKey
      BY <3>1, TableOuters
    <3>3. g # NoJoin /\ ~ Blocked(c)
      BY <3>1, <3>2 DEF GuardedBy, Guards
    <3>. QED
      BY <3>1, <3>2, <3>3, TableTrapsAre DEF Blocked
  <2>2. ASSUME WhereTraps(req)
        PROVE  \E i \in Keys : vals[i] = Trap
    <3>1. TrapKey /\ Outer(FirstKey, req) = Trap /\ ReachesKey
      BY <2>2, TableTrapsAre
    <3>2. FirstKey \in Keys
      BY <3>1, Kinds DEF TrapKey
    <3>3. ~ shut
      BY <3>1 DEF GuardedBy, Blocked
    <3>. QED
      BY <1>1, <3>1, <3>2, <3>3
  <2>. QED
    BY <2>1, <2>2
<1>6. ASSUME c.member = "in"
      PROVE  vals[InPlace] = Trap <=> LeftStops(c, req)
  <2>1. CASE Left(c, req) # Trap
    BY <1>1, <1>4, <1>6, <2>1 DEF LeftStops
  <2>2. CASE Left(c, req) = Trap
    <3>1. CanTrap(c.left) /\ Keys = {} /\ ~ TrapKey
      BY <2>2, LeftTraps
    <3>2. g # NoJoin /\ (tables[g] = 0 <=> Vals(FilterRows) = {})
      BY <1>6, <3>1 DEF GuardedBy, Guards, Blocked
    <3>3. DuckRows(req) = FilterRows
      BY <3>1, FilterRowsAre DEF Scanned
    <3>4. vals[InPlace] = IF shut THEN Null ELSE Trap
      BY <1>1, <1>6, <2>2, <3>1
    <3>. QED
      BY <1>4, <1>6, <2>2, <3>2, <3>3, <3>4 DEF LeftStops
  <2>. QED
    BY <2>1, <2>2
<1>. QED
  BY <1>3, <1>5, <1>6 DEF vals

\* The rows that a table stores, and under which key.
LEMMA StoredAre ==
  ASSUME query \in QuerySet, NEW c \in Calls, NEW g, NEW j, IsTable(j, c, g)
  PROVE  /\ Stored(j) \subseteq FilterRows
         /\ \A r : /\ DOMAIN StoredKey(j, r) = DOMAIN j.keys
                   /\ StoredKey(j, r) = [ n \in DOMAIN j.keys |-> StoredKey(j, r)[n] ]
                   /\ \A i \in Keys : StoredKey(j, r)[i] = Table[r][Lane(W[i])]
                   /\ c.member = "in" => StoredKey(j, r)[InPlace] = Table[r].v
         /\ \A r : r \in Stored(j) <=> /\ r \in FilterRows
                                       /\ \A i \in Keys : W[i].op = "=" => Table[r][Lane(W[i])] # Null
                                       /\ c.member = "in" => Table[r].v # Null
<1>1. DOMAIN j.keys = Keys \union (IF c.member = "in" THEN {InPlace} ELSE {})
  BY TableKeysAre
<1>2. \A i \in Keys : j.keys[i].lane = Lane(W[i]) /\ j.keys[i].cmp = W[i].op
  BY TableKeysAre
<1>3. c.member = "in" => j.keys[InPlace].lane = "v" /\ j.keys[InPlace].cmp = "="
  BY TableKeysAre
<1>4. \A r : /\ DOMAIN StoredKey(j, r) = DOMAIN j.keys
             /\ StoredKey(j, r) = [ n \in DOMAIN j.keys |-> StoredKey(j, r)[n] ]
             /\ \A n \in DOMAIN j.keys : StoredKey(j, r)[n] = Table[r][j.keys[n].lane]
  BY DEF StoredKey
<1>5. \A r : /\ \A i \in Keys : StoredKey(j, r)[i] = Table[r][Lane(W[i])]
             /\ c.member = "in" => StoredKey(j, r)[InPlace] = Table[r].v
  BY <1>1, <1>2, <1>3, <1>4
<1>6. Passing(j) = FilterRows
  BY PassingFilters DEF IsTable
<1>7. \A r : r \in Stored(j) <=> /\ r \in FilterRows
                                 /\ \A n \in DOMAIN j.keys : j.keys[n].cmp = "=" => StoredKey(j, r)[n] # Null
  BY <1>6 DEF Stored
<1>8. \A r : r \in Stored(j) <=> /\ r \in FilterRows
                                 /\ \A i \in Keys : W[i].op = "=" => Table[r][Lane(W[i])] # Null
                                 /\ c.member = "in" => Table[r].v # Null
  <2>. TAKE r
  <2>1. (\A n \in DOMAIN j.keys : j.keys[n].cmp = "=" => StoredKey(j, r)[n] # Null)
          <=> /\ \A i \in Keys : W[i].op = "=" => Table[r][Lane(W[i])] # Null
              /\ c.member = "in" => Table[r].v # Null
    BY <1>1, <1>2, <1>3, <1>5
  <2>. QED
    BY <1>7, <2>1
<1>. QED
  BY <1>4, <1>5, <1>8

\* Two functions on one set are equal where their values are.
LEMMA SameFunctions ==
  ASSUME NEW f, NEW h, NEW D, f = [ n \in D |-> f[n] ], h = [ n \in D |-> h[n] ], \A n \in D : f[n] = h[n]
  PROVE  f = h
OBVIOUS

\* The rows that a request finds are those it wants.
LEMMA TableFinds ==
  ASSUME query \in QuerySet, ~ WhereRefused, ~ Scanned, NEW c \in Calls, ~ TableRefusal(c),
         NEW g, NEW j, IsTable(j, c, g), GuardedBy(c, g), NEW req \in Requests,
         Trap \notin ToSet(KeyValues(j, req))
  PROVE  LET vals == KeyValues(j, req)
         IN Want(c, req) = IF Matches(j, vals) THEN RowsUnder(j, vals, Stored(j)) ELSE {}
<1>. DEFINE vals == KeyValues(j, req)
            shut == g # NoJoin /\ tables[g] = 0
            Found == IF Matches(j, vals) THEN RowsUnder(j, vals, Stored(j)) ELSE {}
<1>1. /\ DOMAIN vals = DOMAIN j.keys /\ vals = [ n \in DOMAIN j.keys |-> vals[n] ]
      /\ \A i \in Keys : vals[i] = IF i = FirstKey /\ shut THEN Null ELSE Outer(i, req)
      /\ c.member = "in" => vals[InPlace] = IF Keys = {} /\ shut THEN Null ELSE Left(c, req)
  BY TableKeyValues
<1>2. /\ DOMAIN j.keys = Keys \union (IF c.member = "in" THEN {InPlace} ELSE {})
      /\ \A i \in Keys : j.keys[i].cmp = W[i].op
      /\ c.member = "in" => j.keys[InPlace].cmp = "="
  BY TableKeysAre
<1>3. \A n \in DOMAIN j.keys : vals[n] # Trap
  BY <1>1 DEF ToSet
<1>. HIDE DEF vals
<1>4. Matches(j, vals) <=> /\ \A i \in Keys : W[i].op = "=" => vals[i] # Null
                           /\ c.member = "in" => vals[InPlace] # Null
  BY <1>1, <1>2 DEF Matches
<1>5. ASSUME NEW r
      PROVE  StoredKey(j, r) = vals <=> /\ \A i \in Keys : Table[r][Lane(W[i])] = vals[i]
                                        /\ c.member = "in" => Table[r].v = vals[InPlace]
  <2>1. /\ StoredKey(j, r) = [ n \in DOMAIN j.keys |-> StoredKey(j, r)[n] ]
        /\ \A i \in Keys : StoredKey(j, r)[i] = Table[r][Lane(W[i])]
        /\ c.member = "in" => StoredKey(j, r)[InPlace] = Table[r].v
    BY StoredAre
  <2>2. (\A n \in DOMAIN j.keys : StoredKey(j, r)[n] = vals[n])
          <=> /\ \A i \in Keys : Table[r][Lane(W[i])] = vals[i]
              /\ c.member = "in" => Table[r].v = vals[InPlace]
    BY <1>2, <2>1
  <2>3. StoredKey(j, r) = vals <=> \A n \in DOMAIN j.keys : StoredKey(j, r)[n] = vals[n]
    BY <1>1, <2>1, SameFunctions
  <2>. QED
    BY <2>2, <2>3
<1>6. \A r : r \in Found <=> /\ r \in FilterRows
                             /\ \A i \in Keys : /\ Table[r][Lane(W[i])] = vals[i]
                                                /\ W[i].op = "=" => vals[i] # Null
                             /\ c.member = "in" => Table[r].v = vals[InPlace] /\ vals[InPlace] # Null
  <2>. TAKE r
  <2>1. r \in Found <=> Matches(j, vals) /\ r \in Stored(j) /\ StoredKey(j, r) = vals
    BY DEF RowsUnder
  <2>2. r \in Stored(j) <=> /\ r \in FilterRows
                            /\ \A i \in Keys : W[i].op = "=" => Table[r][Lane(W[i])] # Null
                            /\ c.member = "in" => Table[r].v # Null
    BY StoredAre
  <2>. QED
    BY <1>4, <1>5, <2>1, <2>2
<1>. HIDE DEF Found
<1>7. CASE ~ shut
  <2>1. \A i \in Keys : vals[i] = Outer(i, req) /\ Outer(i, req) # Trap
    BY <1>1, <1>2, <1>3, <1>7
  <2>2. c.member = "in" => vals[InPlace] = Left(c, req)
    BY <1>1, <1>7
  <2>3. DuckRows(req) = { r \in DOMAIN Table : /\ \A i \in Filters : Test(W[i], "whole", Table[r], NoReq) = TRUE
                                               /\ \A i \in Keys : KeyFits(i, r, req) }
    BY <2>1, TableRows DEF Scanned
  <2>4. \A r : r \in DuckRows(req) <=> r \in FilterRows /\ \A i \in Keys : KeyFits(i, r, req)
    BY <2>3 DEF FilterRows
  <2>5. \A i \in Keys : \A r : KeyFits(i, r, req) <=> Table[r][Lane(W[i])] = vals[i] /\ (W[i].op = "=" => vals[i] # Null)
    BY <2>1 DEF KeyFits
  <2>6. \A r : r \in Found <=> r \in Want(c, req)
    BY <1>6, <2>2, <2>4, <2>5 DEF Want
  <2>. QED
    BY <2>6 DEF Found, vals
<1>8. CASE shut
  <2>1. Guards(c) /\ Blocked(c)
    BY <1>8 DEF GuardedBy
  <2>2. CASE TrapKey
    <3>1. ~ ReachesKey /\ 1 .. FirstKey - 1 \subseteq Filters
      BY <2>1, <2>2 DEF Blocked, TrapKey
    <3>2. FilterRows = {} /\ DuckRows(req) = {}
      <4>1. \A r \in FilterRows : r \in DOMAIN Table /\ \A i \in Filters : Lo(i, r, NoReq) = TRUE
        BY FilterRowsAre
      <4>. QED
        BY <3>1, <4>1, FilterRowsAre DEF ReachesKey
    <3>3. \A r : r \notin Found /\ r \notin Want(c, req)
      BY <1>6, <3>2 DEF Want
    <3>. QED
      BY <3>3 DEF Found, vals
  <2>3. CASE ~ TrapKey
    <3>1. c.member = "in" /\ CanTrap(c.left) /\ Vals(FilterRows) = {}
      BY <2>1, <2>3 DEF Guards, Blocked
    <3>2. Keys = {}
      BY <3>1 DEF TableRefusal, LeftRefused
    <3>3. vals[InPlace] = Null
      BY <1>1, <1>8, <3>1, <3>2
    <3>4. \A r : r \notin Found
      BY <1>6, <3>1, <3>3
    <3>5. \A r \in DuckRows(req) : Table[r].v = Null
      BY <3>1, FilterRowsAre DEF Vals
    <3>6. \A r : r \notin Want(c, req)
      BY <3>1, <3>5 DEF Want
    <3>. QED
      BY <3>4, <3>6 DEF Found, vals
  <2>. QED
    BY <2>2, <2>3
<1>. QED
  BY <1>7, <1>8

\* The three ends of a probe.
LEMMA ProbeEnds ==
  /\ Trapped.trap = TRUE
  /\ Missed.trap = FALSE /\ Missed.hit = FALSE
  /\ \A v : Hit(v).trap = FALSE /\ Hit(v).hit = TRUE /\ Hit(v).val = v
BY DEF Trapped, Missed, Hit

\* A probe, by what its join is.
LEMMA ProbeIs ==
  ASSUME NEW n, NEW req
  PROVE  LET vals == KeyValues(joins[n], req)
         IN /\ Trap \in ToSet(vals) => Probe(n, req) = Trapped
            /\ Trap \notin ToSet(vals) /\ joins[n].how = "guard" => Probe(n, req) = Missed
            /\ Trap \notin ToSet(vals) /\ joins[n].how = "table" => Probe(n, req) = LookUp(n, vals, req)
            /\ Trap \notin ToSet(vals) /\ joins[n].how = "scan" => Probe(n, req) = Scan(n, vals, req)
<1>. DEFINE vals == KeyValues(joins[n], req)
<1>. HIDE DEF vals
<1>1. Probe(n, req) = CASE Trap \in ToSet(vals) -> Trapped
                        [] Trap \notin ToSet(vals) /\ joins[n].how = "guard" -> Missed
                        [] Trap \notin ToSet(vals) /\ joins[n].how = "table" -> LookUp(n, vals, req)
                        [] OTHER -> Scan(n, vals, req)
  BY DEF Probe, vals
<1>2. /\ Trap \in ToSet(vals) => Probe(n, req) = Trapped
      /\ Trap \notin ToSet(vals) /\ joins[n].how = "guard" => Probe(n, req) = Missed
      /\ Trap \notin ToSet(vals) /\ joins[n].how = "table" => Probe(n, req) = LookUp(n, vals, req)
      /\ Trap \notin ToSet(vals) /\ joins[n].how = "scan" => Probe(n, req) = Scan(n, vals, req)
  BY <1>1
<1>. QED
  BY <1>2 DEF vals

\* How a value reads a probe.
LEMMA ReadIs ==
  ASSUME NEW c, NEW req, NEW p, p = Probe(reads[c], req), p.trap \in BOOLEAN
  PROVE  /\ p.trap => Read(c, req) = Trap /\ HitOf(c, req) = Trap
         /\ ~ p.trap /\ p.hit = TRUE => Read(c, req) = p.val
         /\ ~ p.trap /\ p.hit = FALSE /\ HasMiss(c) => Read(c, req) = Miss(c.item)
         /\ ~ p.trap /\ p.hit = FALSE /\ ~ HasMiss(c) =>
              Read(c, req) = IF CountsRows(c.item) /\ ~ c.item.post THEN 0 ELSE Null
         /\ c.member = "in" => HitOf(c, req) = Read(c, req)
         /\ c.member # "in" /\ ~ p.trap => HitOf(c, req) = IF p.hit THEN 1 ELSE 0
<1>1. Read(c, req) = CASE p.trap -> Trap
                       [] ~ p.trap /\ p.hit -> p.val
                       [] ~ p.trap /\ ~ p.hit /\ HasMiss(c) -> Miss(c.item)
                       [] OTHER -> IF CountsRows(c.item) /\ ~ c.item.post THEN 0 ELSE Null
  BY DEF Read
<1>2. HitOf(c, req) = IF c.member = "in" THEN Read(c, req)
                      ELSE IF p.trap THEN Trap ELSE IF p.hit THEN 1 ELSE 0
  BY DEF HitOf
<1>3. HasMiss(c) \in BOOLEAN
  BY DEF HasMiss
<1>. QED
  BY <1>1, <1>2, <1>3

\* A call that the binder does not refuse, over no rows.
LEMMA NoRowsRead ==
  ASSUME query \in QuerySet, NEW c \in Calls, c.member # "any", ~ TableRefusal(c),
         Keys # {} \/ c.member = "in"
  PROVE  /\ Answer(c.item, {}) # Trap
         /\ HasMiss(c) => Answer(c.item, {}) = Miss(c.item)
         /\ ~ HasMiss(c) => Answer(c.item, {}) = IF CountsRows(c.item) /\ ~ c.item.post THEN 0 ELSE Null
<1>1. c.item \in ItemSet /\ (c.member # "value" => c.item = ItemOf("count_star")) /\ c.member \in {"value", "in"}
  BY CallsFit
<1>2. {} \subseteq DOMAIN Table
  OBVIOUS
<1>3. Null # Trap /\ 0 # Trap /\ Null \in Values /\ 0 \in Values
  BY ValuesDiffer DEF Values
<1>4. CASE c.item.fn = "row"
  <2>1. ~ HasMiss(c) /\ ~ CountsRows(c.item)
    BY <1>4 DEF HasMiss, CountsRows
  <2>2. Answer(c.item, {}) = Null
    BY <1>1, <1>2, <1>4, Answers
  <2>. QED
    BY <1>3, <2>1, <2>2
<1>5. CASE c.item.fn # "row"
  <2>1. Answer(c.item, {}) = Miss(c.item)
    BY <1>1, <1>2, <1>5, Answers
  <2>2. CASE HasMiss(c)
    BY <2>1, <2>2 DEF TableRefusal
  <2>3. CASE ~ HasMiss(c)
    <3>1. ~ c.item.post
      BY <1>1, <1>5, <2>3, PlainItems DEF HasMiss
    <3>2. \A v \in Values : Post(c.item, v) = v
      BY <1>1, <1>5, <3>1, PostIs
    <3>3. Miss(c.item) = IF CountsRows(c.item) THEN 0 ELSE Null
      BY <1>3, <3>2 DEF Miss
    <3>. QED
      BY <1>3, <2>1, <2>3, <3>1, <3>3
  <2>. QED
    BY <2>2, <2>3
<1>. QED
  BY <1>4, <1>5

\* The groups of a table, and those that a request does not find.
LEMMA GroupsAre ==
  ASSUME query \in QuerySet, ~ WhereRefused, ~ Scanned, NEW c \in Calls, ~ TableRefusal(c),
         NEW g, NEW j, IsTable(j, c, g), GuardedBy(c, g), NEW req \in Requests,
         Trap \notin ToSet(KeyValues(j, req))
  PROVE  LET vals == KeyValues(j, req)
             found == Matches(j, vals) /\ vals \in GroupKeys(j)
         IN /\ found => /\ TableOf(j)[vals] = Group(c, Want(c, req))
                        /\ ~ TableRefused(j) /\ c.member # "any" => Answer(c.item, Want(c, req)) # Trap
            /\ ~ found => Want(c, req) = {} /\ (Keys # {} \/ c.member = "in")
            /\ DOMAIN TableOf(j) = GroupKeys(j)
<1>. DEFINE vals == KeyValues(j, req)
<1>1. vals = [ n \in DOMAIN j.keys |-> vals[n] ] /\ DOMAIN vals = DOMAIN j.keys
  BY TableKeyValues
<1>2. Want(c, req) = IF Matches(j, vals) THEN RowsUnder(j, vals, Stored(j)) ELSE {}
  BY TableFinds
<1>. HIDE DEF vals
<1>3. TableOf(j) = [ key \in GroupKeys(j) |-> Group(c, RowsUnder(j, key, Stored(j))) ]
  BY DEF TableOf, IsTable
<1>4. ASSUME Matches(j, vals), vals \in GroupKeys(j)
      PROVE  /\ TableOf(j)[vals] = Group(c, Want(c, req))
             /\ ~ TableRefused(j) /\ c.member # "any" => Answer(c.item, Want(c, req)) # Trap
  BY <1>2, <1>3, <1>4 DEF TableRefused, IsTable
<1>5. ASSUME ~ (Matches(j, vals) /\ vals \in GroupKeys(j))
      PROVE  Want(c, req) = {} /\ (Keys # {} \/ c.member = "in")
  <2>1. Want(c, req) = {}
    <3>1. \A r \in Stored(j) : StoredKey(j, r) \in GroupKeys(j)
      BY DEF GroupKeys
    <3>. QED
      BY <1>2, <1>5, <3>1 DEF RowsUnder
  <2>2. ASSUME Keys = {}, c.member # "in"
        PROVE  FALSE
    <3>1. DOMAIN j.keys = {}
      BY <2>2, TableKeysAre
    <3>2. vals = <<>>
      BY <1>1, <3>1
    <3>3. vals \in GroupKeys(j) /\ Matches(j, vals)
      BY <1>1, <3>1, <3>2 DEF GroupKeys, Matches
    <3>. QED
      BY <1>5, <3>3
  <2>. QED
    BY <2>1, <2>2
<1>. QED
  BY <1>3, <1>4, <1>5 DEF vals

\* The left side of ANY against a group's extremes.
LEMMA ResidualIs ==
  ASSUME query \in QuerySet, NEW c \in Calls, c.member = "any", NEW req \in Requests,
         NEW rows, rows \subseteq DOMAIN Table, NEW p, p = Residual(c, Group(c, rows), req)
  PROVE  /\ p.trap \in BOOLEAN /\ (p.trap <=> rows # {} /\ Left(c, req) = Trap)
         /\ ~ p.trap => p.hit = (\E v \in Items(rows) : Compare(c.pred, Left(c, req), v) = TRUE)
<1>. DEFINE group == Group(c, rows)
            tests == { Compare(c.pred, ValueOf(c.left, <<>>, req), group[e]) : e \in Extremes(c.pred) }
<1>1. c.pred \in Preds \ {"="} /\ c.left \in SideSet /\ ~ ReadsTable(c.left)
  BY CallsFit
<1>2. /\ group.count = Cardinality(rows) /\ group.min = Aggregate(ItemOf("min"), rows)
      /\ group.max = Aggregate(ItemOf("max"), rows)
  BY DEF Group
<1>3. Cardinality(rows) \in Nat /\ (Cardinality(rows) = 0 <=> rows = {})
  BY RowsAreFinite
<1>4. group.min \in Values /\ group.max \in Values
  BY <1>2, PlainItems, AggregateFits
<1>. HIDE DEF group
<1>5. tests = { Compare(c.pred, Left(c, req), group[e]) : e \in Extremes(c.pred) }
  BY DEF Left
<1>6. /\ group.count = 0 => p = Missed
      /\ group.count # 0 /\ Trap \in tests => p = Trapped
      /\ group.count # 0 /\ Trap \notin tests => p = IF TRUE \in tests THEN Hit(Null) ELSE Missed
  <2>1. p = CASE group.count = 0 -> Missed
              [] group.count > 0 /\ Trap \in tests -> Trapped
              [] OTHER -> IF TRUE \in tests THEN Hit(Null) ELSE Missed
    BY DEF Residual, group
  <2>2. group.count > 0 <=> group.count # 0
    BY <1>2, <1>3
  <2>. HIDE DEF tests
  <2>3. group.count = 0 => p = Missed
    BY <2>1, <2>2, Zenon
  <2>4. group.count # 0 /\ Trap \in tests => p = Trapped
    BY <2>1, <2>2, Zenon
  <2>5. group.count # 0 /\ Trap \notin tests => p = IF TRUE \in tests THEN Hit(Null) ELSE Missed
    BY <2>1, <2>2, Zenon
  <2>. QED
    BY <2>3, <2>4, <2>5
<1>7. Trap \in tests <=> Left(c, req) = Trap
  <2>1. Extremes(c.pred) # {} /\ Extremes(c.pred) \subseteq {"min", "max"}
    BY <1>1 DEF Extremes, Preds
  <2>2. \A e \in Extremes(c.pred) : group[e] # Trap
    BY <1>4, <2>1, ValuesDiffer
  <2>3. \A e \in Extremes(c.pred) : Compare(c.pred, Left(c, req), group[e]) = Trap <=> Left(c, req) = Trap
    BY <2>2, CompareTraps
  <2>. QED
    BY <1>5, <2>1, <2>3
<1>8. Left(c, req) # Trap =>
        (TRUE \in tests <=> \E v \in Items(rows) : Compare(c.pred, Left(c, req), v) = TRUE)
  <2>. HAVE Left(c, req) # Trap
  <2>1. Left(c, req) \in Values
    BY <1>1, SideValues DEF Left
  <2>2. TRUE \in { Compare(c.pred, Left(c, req), group[e]) : e \in Extremes(c.pred) }
          <=> \E v \in Items(rows) : Compare(c.pred, Left(c, req), v) = TRUE
    <3>. HIDE DEF tests
    <3>. QED
      BY <1>1, <1>2, <2>1, ExtremesSuffice
  <2>. QED
    BY <1>5, <2>2
<1>. HIDE DEF tests
<1>9. rows = {} => ~ \E v \in Items(rows) : Compare(c.pred, Left(c, req), v) = TRUE
  BY DEF Items
<1>. QED
  BY <1>2, <1>3, <1>6, <1>7, <1>8, <1>9, ProbeEnds

\* What a call reads is what DuckDB evaluates for the request.
ReadRight(c, req) ==
  LET p == Probe(reads[c], req)
  IN /\ p.trap \in BOOLEAN /\ (p.trap <=> CallTraps(c, req))
     /\ ~ joins[reads[c]].traps => ~ CallTraps(c, req)
     /\ c.member = "value" /\ ~ Correlated => ~ CallTraps(c, req)
     /\ ~ CallTraps(c, req) =>
          /\ c.member = "value" => Read(c, req) = Answer(c.item, DuckRows(req))
          /\ c.member = "in" => HitOf(c, req) = Cardinality(Want(c, req))
          /\ c.member = "any" => HitOf(c, req) = IF \E v \in Items(DuckRows(req)) : Compare(c.pred, Left(c, req), v) = TRUE
                                                 THEN 1 ELSE 0

\* Reading through a table is right.
LEMMA TableReads ==
  ASSUME query \in QuerySet, ~ WhereRefused, ~ Scanned, NEW c \in Calls, ~ TableRefusal(c),
         NEW g, IsTable(joins[reads[c]], c, g), GuardedBy(c, g),
         tables[reads[c]] = TableOf(joins[reads[c]]), ~ TableRefused(joins[reads[c]]),
         NEW req \in Requests
  PROVE  ReadRight(c, req)
<1>. DEFINE n == reads[c]
            j == joins[n]
            vals == KeyValues(j, req)
            p == Probe(n, req)
            found == Matches(j, vals) /\ vals \in GroupKeys(j)
            some == \E v \in Items(DuckRows(req)) : Compare(c.pred, Left(c, req), v) = TRUE
<1>1. IsTable(j, c, g) /\ tables[n] = TableOf(j) /\ ~ TableRefused(j) /\ j.how = "table" /\ j.call = c
  BY DEF IsTable
<1>2. c.member \in {"value", "in", "any"} /\ c.item \in ItemSet /\ (c.member # "value" => c.item = ItemOf("count_star"))
  BY CallsFit
<1>3. DuckRows(req) \subseteq DOMAIN Table /\ Want(c, req) \subseteq DuckRows(req)
      /\ (c.member # "in" => Want(c, req) = DuckRows(req))
  BY DEF DuckRows, Want
<1>4. Trap \in ToSet(vals) <=> WhereTraps(req) \/ (c.member = "in" /\ LeftStops(c, req))
  BY <1>1, TableValuesTrap
<1>5. Trap \in ToSet(vals) => p = Trapped
  BY ProbeIs
<1>6. Trap \notin ToSet(vals) => p = LookUp(n, vals, req)
  BY <1>1, ProbeIs
<1>7. ASSUME Trap \notin ToSet(vals)
      PROVE  /\ found => /\ tables[n][vals] = Group(c, Want(c, req))
                         /\ c.member # "any" => Answer(c.item, Want(c, req)) # Trap
             /\ ~ found => Want(c, req) = {} /\ (Keys # {} \/ c.member = "in")
             /\ DOMAIN tables[n] = GroupKeys(j)
  BY <1>1, <1>7, GroupsAre
<1>8. ASSUME Trap \notin ToSet(vals)
      PROVE  /\ ~ found => p = Missed
             /\ found /\ c.member = "any" => p = Residual(c, Group(c, Want(c, req)), req)
             /\ found /\ c.member # "any" => p = Hit(Answer(c.item, Want(c, req)))
  <2>1. LookUp(n, vals, req) =
          CASE ~ Matches(j, vals) \/ vals \notin DOMAIN tables[n] -> Missed
            [] OTHER -> IF j.call.member = "any" THEN Residual(j.call, tables[n][vals], req)
                        ELSE Hit(tables[n][vals].val)
    BY DEF LookUp
  <2>2. ~ found => LookUp(n, vals, req) = Missed
    BY <1>7, <1>8, <2>1
  <2>3. found => LookUp(n, vals, req) = IF c.member = "any" THEN Residual(c, tables[n][vals], req)
                                        ELSE Hit(tables[n][vals].val)
    <3>. HAVE found
    <3>1. ~ (~ Matches(j, vals) \/ vals \notin DOMAIN tables[n]) /\ j.call = c
      BY <1>1, <1>7, <1>8
    <3>. HIDE DEF found, vals, j, n
    <3>. QED
      BY <2>1, <3>1, Zenon
  <2>4. c.member # "any" => Group(c, Want(c, req)).val = Answer(c.item, Want(c, req))
    BY DEF Group
  <2>. HIDE DEF found, vals, j, n
  <2>5. found /\ c.member # "any" => LookUp(n, vals, req) = Hit(Answer(c.item, Want(c, req)))
    BY <1>7, <1>8, <2>3, <2>4
  <2>6. found /\ c.member = "any" => LookUp(n, vals, req) = Residual(c, Group(c, Want(c, req)), req)
    BY <1>7, <1>8, <2>3
  <2>. QED
    BY <1>6, <1>8, <2>2, <2>5, <2>6
<1>. HIDE DEF found, vals
<1>9. Trap \in ToSet(vals) => p.trap = TRUE
  BY <1>5, ProbeEnds
<1>10. ASSUME Trap \notin ToSet(vals), c.member = "any"
       PROVE  /\ p.trap \in BOOLEAN /\ (p.trap <=> LeftStops(c, req))
              /\ ~ p.trap => p.hit = some
  <2>1. CASE found
    <3>1. p = Residual(c, Group(c, DuckRows(req)), req)
      BY <1>3, <1>8, <1>10, <2>1
    <3>. QED
      BY <1>3, <1>10, <3>1, ResidualIs DEF LeftStops
  <2>2. CASE ~ found
    <3>1. p = Missed /\ DuckRows(req) = {}
      BY <1>3, <1>7, <1>8, <1>10, <2>2
    <3>. QED
      BY <1>10, <3>1, ProbeEnds DEF LeftStops, Items, Vals
  <2>. QED
    BY <2>1, <2>2
<1>11. ASSUME Trap \notin ToSet(vals), c.member # "any"
       PROVE  /\ p.trap = FALSE /\ Answer(c.item, Want(c, req)) # Trap
              /\ Read(c, req) = Answer(c.item, Want(c, req))
  <2>1. CASE found
    <3>1. p.trap = FALSE /\ p.hit = TRUE /\ p.val = Answer(c.item, Want(c, req))
      BY <1>8, <1>11, <2>1, ProbeEnds
    <3>2. Read(c, req) = p.val
      BY <3>1, ReadIs
    <3>. QED
      BY <1>7, <1>11, <2>1, <3>1, <3>2
  <2>2. CASE ~ found
    <3>1. p.trap = FALSE /\ p.hit = FALSE
      BY <1>8, <1>11, <2>2, ProbeEnds
    <3>2. Want(c, req) = {} /\ (Keys # {} \/ c.member = "in")
      BY <1>7, <1>11, <2>2
    <3>3. /\ HasMiss(c) => Read(c, req) = Miss(c.item)
          /\ ~ HasMiss(c) => Read(c, req) = IF CountsRows(c.item) /\ ~ c.item.post THEN 0 ELSE Null
      BY <3>1, ReadIs
    <3>4. /\ Answer(c.item, {}) # Trap
          /\ HasMiss(c) => Answer(c.item, {}) = Miss(c.item)
          /\ ~ HasMiss(c) => Answer(c.item, {}) = IF CountsRows(c.item) /\ ~ c.item.post THEN 0 ELSE Null
      BY <1>11, <3>2, NoRowsRead
    <3>. QED
      BY <3>1, <3>2, <3>3, <3>4
  <2>. QED
    BY <2>1, <2>2
<1>12. /\ c.member = "value" => ~ LeftStops(c, req)
       /\ c.member # "any" /\ c.member # "in" => c.member = "value"
  BY <1>2 DEF LeftStops
<1>13. p.trap \in BOOLEAN /\ (p.trap <=> CallTraps(c, req))
  <2>1. CASE Trap \in ToSet(vals)
    BY <1>4, <1>9, <2>1 DEF CallTraps
  <2>2. CASE Trap \notin ToSet(vals)
    <3>1. CASE c.member = "any"
      BY <1>4, <1>10, <2>2, <3>1 DEF CallTraps
    <3>2. CASE c.member = "in"
      BY <1>4, <1>11, <2>2, <3>2 DEF CallTraps
    <3>3. CASE c.member = "value"
      BY <1>3, <1>4, <1>11, <1>12, <2>2, <3>3 DEF CallTraps
    <3>. QED
      BY <1>2, <3>1, <3>2, <3>3
  <2>. QED
    BY <2>1, <2>2
<1>14. ~ CallTraps(c, req) => Trap \notin ToSet(vals)
  BY <1>4 DEF CallTraps
<1>15. CallTraps(c, req) => WhereTraps(req) \/ LeftStops(c, req)
  <2>1. ASSUME ~ WhereTraps(req), c.member = "value"
        PROVE  Answer(c.item, DuckRows(req)) # Trap
    BY <1>3, <1>4, <1>11, <1>12, <2>1
  <2>. QED
    BY <2>1 DEF CallTraps
<1>16. WhereTraps(req) => Guards(c)
  BY TableTrapsAre DEF Guards
<1>17. LeftStops(c, req) => CanTrap(c.left) /\ c.member \in {"in", "any"}
  BY <1>2, LeftTraps DEF LeftStops
<1>18. ~ j.traps => ~ CallTraps(c, req)
  BY <1>1, <1>15, <1>16, <1>17 DEF IsTable, Guards
<1>19. ~ Correlated => ~ WhereTraps(req)
  BY TableTrapsAre DEF TrapKey, Correlated
<1>20. c.member = "value" /\ ~ Correlated => ~ CallTraps(c, req)
  BY <1>12, <1>15, <1>19
<1>21. ~ CallTraps(c, req) /\ c.member = "value" => Read(c, req) = Answer(c.item, DuckRows(req))
  BY <1>3, <1>11, <1>14
<1>22. ~ CallTraps(c, req) /\ c.member = "in" => HitOf(c, req) = Cardinality(Want(c, req))
  <2>. HAVE ~ CallTraps(c, req) /\ c.member = "in"
  <2>1. Read(c, req) = Answer(ItemOf("count_star"), Want(c, req))
    BY <1>2, <1>11, <1>14
  <2>2. HitOf(c, req) = Read(c, req)
    BY <1>13, ReadIs
  <2>. QED
    BY <1>3, <2>1, <2>2, Counts
<1>23. ~ CallTraps(c, req) /\ c.member = "any" => HitOf(c, req) = IF some THEN 1 ELSE 0
  <2>. HAVE ~ CallTraps(c, req) /\ c.member = "any"
  <2>1. p.trap \in BOOLEAN /\ ~ p.trap /\ p.hit = some
    BY <1>10, <1>13, <1>14
  <2>2. HitOf(c, req) = IF p.hit THEN 1 ELSE 0
    BY <2>1, ReadIs
  <2>. HIDE DEF some
  <2>. QED
    BY <2>1, <2>2
<1>. QED
  BY <1>13, <1>18, <1>20, <1>21, <1>22, <1>23 DEF ReadRight

-----------------------------------------------------------------------------
(* What a request reads by a scan.                                         *)

\* The steps of a scan: terms where they are written, the upper halves of those that split after.
LEMMA StepsAre ==
  ASSUME query \in QuerySet
  PROVE  /\ \A i \in DOMAIN W : i \in DOMAIN Steps /\ Steps[i] = Lower(i) /\ Lower(i).i = i
                                /\ (IsSplit(W[i]) => Lower(i).half = "lower")
                                /\ (~ IsSplit(W[i]) => Lower(i).half = "whole")
         /\ \A i \in DOMAIN W : IsSplit(W[i]) => Len(W) + i \in DOMAIN Steps /\ Steps[Len(W) + i] = Part(i, "upper")
         /\ \A n \in DOMAIN Steps : n \in DOMAIN W \/ \E i \in DOMAIN W : IsSplit(W[i]) /\ n = Len(W) + i
         /\ \A n \in DOMAIN Steps : n \in Nat /\ n < End /\ Steps[n].i \in DOMAIN W
                                    /\ Steps[n].half \in {"lower", "upper", "whole"}
         /\ End \in Nat /\ \A i \in DOMAIN W : i < Len(W) + 1
<1>. DEFINE B == { i \in DOMAIN W : IsSplit(W[i]) }
<1>1. Len(W) \in Nat /\ DOMAIN W = 1 .. Len(W)
  BY QueryFits
<1>2. Steps = [ n \in DOMAIN W \union Uppers(B) |->
                  IF n \in DOMAIN W THEN Lower(n) ELSE Part(n - Len(W), "upper") ]
  BY DEF Steps
<1>3. B \subseteq DOMAIN W /\ \A i \in DOMAIN W : i \in B <=> IsSplit(W[i])
  OBVIOUS
<1>. HIDE DEF B
<1>4. DOMAIN Steps = DOMAIN W \union Uppers(B) /\ \A i \in DOMAIN W : Steps[i] = Lower(i)
  BY <1>2
<1>5. \A i \in B : Len(W) + i \in Uppers(B) /\ Len(W) + i \notin DOMAIN W /\ (Len(W) + i) - Len(W) = i
  BY <1>1, <1>3 DEF Uppers
<1>6. \A i \in B : Steps[Len(W) + i] = Part(i, "upper")
  BY <1>2, <1>5
<1>7. \A n \in DOMAIN Steps : n \in DOMAIN W \/ \E i \in B : n = Len(W) + i
  BY <1>4 DEF Uppers
<1>8. \A i : /\ Lower(i).i = i /\ (IsSplit(W[i]) => Lower(i).half = "lower")
             /\ (~ IsSplit(W[i]) => Lower(i).half = "whole")
  BY PartIs DEF Lower
<1>9. \A n \in DOMAIN Steps : n \in Nat /\ n < End
  BY <1>1, <1>3, <1>7 DEF End
<1>10. \A n \in DOMAIN Steps : Steps[n].i \in DOMAIN W /\ Steps[n].half \in {"lower", "upper", "whole"}
  <2>. TAKE n \in DOMAIN Steps
  <2>1. CASE n \in DOMAIN W
    BY <1>4, <1>8, <2>1
  <2>2. CASE \E i \in B : n = Len(W) + i
    <3>1. PICK i \in B : n = Len(W) + i
      BY <2>2
    <3>. QED
      BY <1>3, <1>6, <3>1, PartIs
  <2>. QED
    BY <1>7, <2>1, <2>2
<1>11. End \in Nat /\ \A i \in DOMAIN W : i < Len(W) + 1
  BY <1>1 DEF End
<1>12. \A i \in DOMAIN W : IsSplit(W[i]) => Len(W) + i \in DOMAIN Steps /\ Steps[Len(W) + i] = Part(i, "upper")
  BY <1>3, <1>4, <1>5, <1>6
<1>13. \A n \in DOMAIN Steps : n \in DOMAIN W \/ \E i \in DOMAIN W : IsSplit(W[i]) /\ n = Len(W) + i
  BY <1>3, <1>7
<1>. QED
  BY <1>4, <1>8, <1>9, <1>10, <1>11, <1>12, <1>13

\* What the steps test.
LEMMA StepTests ==
  ASSUME query \in QuerySet, NEW d
  PROVE  /\ \A i \in DOMAIN W, r \in DOMAIN Table :
              /\ IsSplit(W[i]) => TestPart(Steps[i], Table[r], d) = Lo(i, r, d)
                                  /\ TestPart(Steps[Len(W) + i], Table[r], d) = Hi(i, r, d)
              /\ ~ IsSplit(W[i]) => TestPart(Steps[i], Table[r], d) = Test(W[i], "whole", Table[r], d)
         /\ DuckRows(d) = { r \in DOMAIN Table : \A n \in DOMAIN Steps : TestPart(Steps[n], Table[r], d) = TRUE }
         /\ \A n \in DOMAIN Steps, r \in DOMAIN Table :
              d \in Requests /\ TestPart(Steps[n], Table[r], d) = Trap => n \in Trapping(Steps)
<1>1. ASSUME NEW i \in DOMAIN W, NEW r \in DOMAIN Table
      PROVE  /\ IsSplit(W[i]) => TestPart(Steps[i], Table[r], d) = Lo(i, r, d)
                                 /\ TestPart(Steps[Len(W) + i], Table[r], d) = Hi(i, r, d)
             /\ ~ IsSplit(W[i]) => TestPart(Steps[i], Table[r], d) = Test(W[i], "whole", Table[r], d)
  <2>1. CASE IsSplit(W[i])
    <3>1. Steps[i].i = i /\ Steps[i].half = "lower" /\ Steps[Len(W) + i].i = i /\ Steps[Len(W) + i].half = "upper"
      BY <2>1, StepsAre, PartIs
    <3>2. /\ TestPart(Steps[i], Table[r], d) = Test(W[i], "lower", Table[r], d)
          /\ TestPart(Steps[Len(W) + i], Table[r], d) = Test(W[i], "upper", Table[r], d)
      BY <3>1 DEF TestPart
    <3>. QED
      BY <2>1, <3>2, TestsByHalf DEF Lo, Hi
  <2>2. CASE ~ IsSplit(W[i])
    <3>1. Steps[i].i = i /\ Steps[i].half = "whole"
      BY <2>2, StepsAre
    <3>. QED
      BY <2>2, <3>1 DEF TestPart
  <2>. QED
    BY <2>1, <2>2
<1>2. ASSUME NEW r \in DOMAIN Table
      PROVE  (\A n \in DOMAIN Steps : TestPart(Steps[n], Table[r], d) = TRUE)
               <=> \A i \in DOMAIN W : Test(W[i], "whole", Table[r], d) = TRUE
  <2>1. \A i \in DOMAIN W : IsSplit(W[i]) =>
          (Test(W[i], "whole", Table[r], d) = TRUE <=> Lo(i, r, d) = TRUE /\ Hi(i, r, d) = TRUE)
    <3>. TAKE i \in DOMAIN W
    <3>. HAVE IsSplit(W[i])
    <3>1. W[i].op = "between"
      BY DEF IsSplit
    <3>2. Lo(i, r, d) # TRUE => Test(W[i], "whole", Table[r], d) = Lo(i, r, d)
      BY <3>1, TestsByHalf DEF Lo
    <3>3. Lo(i, r, d) = TRUE => Test(W[i], "whole", Table[r], d) = Hi(i, r, d)
      BY <3>1, TestsByHalf DEF Lo, Hi
    <3>. QED
      BY <3>2, <3>3
  <2>2. ASSUME \A n \in DOMAIN Steps : TestPart(Steps[n], Table[r], d) = TRUE, NEW i \in DOMAIN W
        PROVE  Test(W[i], "whole", Table[r], d) = TRUE
    <3>1. i \in DOMAIN Steps /\ (IsSplit(W[i]) => Len(W) + i \in DOMAIN Steps)
      BY StepsAre
    <3>. QED
      BY <1>1, <2>1, <2>2, <3>1
  <2>3. ASSUME \A i \in DOMAIN W : Test(W[i], "whole", Table[r], d) = TRUE, NEW n \in DOMAIN Steps
        PROVE  TestPart(Steps[n], Table[r], d) = TRUE
    <3>1. CASE n \in DOMAIN W
      <4>1. CASE IsSplit(W[n])
        BY <1>1, <2>1, <2>3, <3>1, <4>1
      <4>2. CASE ~ IsSplit(W[n])
        BY <1>1, <2>3, <3>1, <4>2
      <4>. QED
        BY <4>1, <4>2
    <3>2. CASE \E i \in DOMAIN W : IsSplit(W[i]) /\ n = Len(W) + i
      BY <1>1, <2>1, <2>3, <3>2
    <3>. QED
      BY <3>1, <3>2, StepsAre
  <2>. QED
    BY <2>2, <2>3
<1>3. DuckRows(d) = { r \in DOMAIN Table : \A i \in DOMAIN W : Test(W[i], "whole", Table[r], d) = TRUE }
  BY DuckRowsAre
<1>4. DuckRows(d) = { r \in DOMAIN Table : \A n \in DOMAIN Steps : TestPart(Steps[n], Table[r], d) = TRUE }
  BY <1>2, <1>3
<1>5. ASSUME NEW n \in DOMAIN Steps, NEW r \in DOMAIN Table, d \in Requests, TestPart(Steps[n], Table[r], d) = Trap
      PROVE  n \in Trapping(Steps)
  <2>1. Steps[n].i \in DOMAIN W /\ Steps[n].half \in {"lower", "upper", "whole"}
    BY StepsAre
  <2>2. W[Steps[n].i] \in Terms /\ Table[r] \in Rows
    BY <2>1, QueryFits
  <2>3. HalfTraps(W[Steps[n].i], Steps[n].half)
    BY <1>5, <2>1, <2>2, HalfMayTrap DEF TestPart
  <2>. QED
    BY <2>3 DEF Trapping, PartTraps
<1>. QED
  BY <1>1, <1>4, <1>5

\* The first step that can trap: before it, none but a first key.
LEMMA FirstTrapIs ==
  ASSUME query \in QuerySet
  PROVE  /\ FirstTrap(Steps) \in Nat /\ FirstTrap(Steps) <= End
         /\ \A n \in Trapping(Steps) : n < FirstTrap(Steps) => Guardable(n) /\ n = FirstKey /\ Guarded(Steps)
         /\ Guarded(Steps) => /\ FirstKey \in Trapping(Steps) /\ FirstKey < FirstTrap(Steps) /\ Guardable(FirstKey)
                              /\ Keys # {} /\ 1 .. FirstKey - 1 \subseteq Filters /\ TrapKey
<1>. DEFINE T == { n \in Trapping(Steps) : ~ Guardable(n) } \union {End}
<1>1. End \in Nat /\ \A n \in DOMAIN Steps : n \in Nat /\ n < End
  BY StepsAre
<1>2. T \subseteq Nat /\ T # {} /\ End \in T
  BY <1>1 DEF Trapping
<1>3. FirstTrap(Steps) = Min(T)
  BY DEF FirstTrap
<1>4. \A n \in Trapping(Steps) : n \notin T => Guardable(n)
  OBVIOUS
<1>. HIDE DEF T
<1>5. Min(T) \in T /\ \A y \in T : Min(T) <= y
  BY <1>2, LeastNatural
<1>6. ASSUME NEW n \in Trapping(Steps), n < FirstTrap(Steps)
      PROVE  Guardable(n) /\ n = FirstKey /\ Guarded(Steps)
  <2>1. n \in Nat
    BY <1>1 DEF Trapping
  <2>2. n \notin T
    <3>1. Min(T) \in Nat
      BY <1>2, <1>5
    <3>2. ~ (Min(T) <= n)
      BY <1>3, <1>6, <2>1, <3>1
    <3>. QED
      BY <1>5, <3>2
  <2>3. Guardable(n)
    BY <1>4, <2>2
  <2>. QED
    BY <1>6, <2>3 DEF Guardable, Guarded
<1>7. ASSUME Guarded(Steps)
      PROVE  /\ FirstKey \in Trapping(Steps) /\ FirstKey < FirstTrap(Steps) /\ Guardable(FirstKey)
             /\ Keys # {} /\ 1 .. FirstKey - 1 \subseteq Filters /\ TrapKey
  <2>1. PICK n \in Trapping(Steps) : n < FirstTrap(Steps)
    BY <1>7 DEF Guarded
  <2>2. Guardable(n) /\ n = FirstKey
    BY <1>6, <2>1
  <2>3. n \in Keys /\ 1 .. n - 1 \subseteq Filters
    BY <2>2 DEF Guardable
  <2>4. W[n] \in Terms /\ KindOf(W[n]) = "key" /\ n \in DOMAIN W
    BY <2>3, Kinds
  <2>5. HalfTraps(W[n], Lower(n).half) /\ HalfSides(W[n], Lower(n).half) \subseteq HalfSides(W[n], "whole")
    <3>1. Steps[n] = Lower(n) /\ Lower(n).i = n
      BY <2>4, StepsAre
    <3>2. PartTraps(Steps[n])
      BY <2>1 DEF Trapping
    <3>. QED
      BY <3>1, <3>2 DEF PartTraps, HalfSides
  <2>6. CanTrap(OuterSide(W[n]))
    <3>1. TermTraps(W[n])
      BY <2>5 DEF TermTraps, HalfTraps
    <3>. QED
      BY <2>4, <3>1, KeyTerms
  <2>. QED
    BY <2>1, <2>2, <2>3, <2>6 DEF TrapKey
<1>. QED
  BY <1>2, <1>3, <1>5, <1>6, <1>7, <1>1

SReaches(req, r, m) == \A q \in DOMAIN Steps : q < m => TestPart(Steps[q], Table[r], req) = TRUE
StepsTrap(req) == \E r \in DOMAIN Table, n \in DOMAIN Steps :
                    SReaches(req, r, n) /\ TestPart(Steps[n], Table[r], req) = Trap
\* The first key's outer side traps under its guard.
KeyStops(req) == Guarded(Steps) /\ Outer(FirstKey, req) = Trap /\ ReachesKey

\* A first key after filters only, in both orders.
LEMMA FirstKeys ==
  ASSUME query \in QuerySet, Keys # {}, 1 .. FirstKey - 1 \subseteq Filters, NEW req \in Requests
  PROVE  /\ FirstKey \in DOMAIN W /\ FirstKey \in DOMAIN Steps /\ FirstKey \in DOMAIN DuckSteps
         /\ ~ IsBetween(FirstKey) /\ 1 .. FirstKey - 1 \subseteq DOMAIN W /\ FirstKey \in Nat
         /\ \A r \in DOMAIN Table :
              /\ Lo(FirstKey, r, req) = Trap <=> Outer(FirstKey, req) = Trap
              /\ TestPart(DuckSteps[FirstKey], Table[r], req) = Lo(FirstKey, r, req)
              /\ TestPart(Steps[FirstKey], Table[r], req) = Lo(FirstKey, r, req)
              /\ DuckReaches(req, r, FirstKey) <=> \A i \in 1 .. FirstKey - 1 : Lo(i, r, NoReq) = TRUE
              /\ (\A i \in BeforeKey : ~ Unsplit(W[i])) =>
                   (SReaches(req, r, FirstKey) <=> \A i \in 1 .. FirstKey - 1 : Lo(i, r, NoReq) = TRUE)
<1>1. FirstKey \in Keys /\ FirstKey \in 1 .. Len(W) /\ FirstKey \in DOMAIN W /\ W[FirstKey] \in Terms
      /\ KindOf(W[FirstKey]) = "key" /\ W[FirstKey].op \in {"=", "isnd"} /\ Len(W) \in Nat /\ DOMAIN W = 1 .. Len(W)
  BY Kinds, QueryFits
<1>2. ~ IsBetween(FirstKey) /\ ~ IsSplit(W[FirstKey])
  BY <1>1 DEF IsBetween, IsSplit
<1>3. FirstKey \in DOMAIN Steps /\ FirstKey \in DOMAIN DuckSteps
  BY <1>1, StepsAre, DuckStepsAre
<1>4. \A i \in 1 .. FirstKey - 1 : i \in DOMAIN W /\ i \in Filters /\ i < FirstKey
  BY <1>1
<1>5. ASSUME NEW r \in DOMAIN Table
      PROVE  Lo(FirstKey, r, req) = Trap <=> Outer(FirstKey, req) = Trap
  <2>1. Table[r] \in Rows
    BY QueryFits
  <2>2. Test(W[FirstKey], "lower", Table[r], req) = Trap <=> Outer(FirstKey, req) = Trap
    BY <1>1, <2>1, KeyTests DEF Outer
  <2>. QED
    BY <2>2, TestsByHalf DEF Lo
<1>6. ASSUME NEW r \in DOMAIN Table
      PROVE  TestPart(DuckSteps[FirstKey], Table[r], req) = Lo(FirstKey, r, req)
  BY <1>1, DuckStepsAre
<1>7. ASSUME NEW r \in DOMAIN Table
      PROVE  TestPart(Steps[FirstKey], Table[r], req) = Lo(FirstKey, r, req)
  <2>1. TestPart(Steps[FirstKey], Table[r], req) = Test(W[FirstKey], "whole", Table[r], req)
    BY <1>1, <1>2, StepTests
  <2>. QED
    BY <1>2, <2>1, TestsByHalf DEF Lo, IsBetween
<1>8. \A i \in 1 .. FirstKey - 1 : \A r : Lo(i, r, req) = Lo(i, r, NoReq)
  BY <1>4, FilterRowsAre
<1>9. ASSUME NEW r \in DOMAIN Table
      PROVE  DuckReaches(req, r, FirstKey) <=> \A i \in 1 .. FirstKey - 1 : Lo(i, r, NoReq) = TRUE
  <2>1. \A i \in 1 .. FirstKey - 1 : i \in DOMAIN DuckSteps /\ TestPart(DuckSteps[i], Table[r], req) = Lo(i, r, NoReq)
    BY <1>4, <1>8, DuckStepsAre
  <2>2. \A m \in DOMAIN DuckSteps : m < FirstKey => m \in 1 .. FirstKey - 1
    BY <1>1, DuckStepsAre
  <2>. QED
    BY <1>4, <2>1, <2>2 DEF DuckReaches
<1>10. ASSUME NEW r \in DOMAIN Table, \A i \in BeforeKey : ~ Unsplit(W[i])
       PROVE  SReaches(req, r, FirstKey) <=> \A i \in 1 .. FirstKey - 1 : Lo(i, r, NoReq) = TRUE
  <2>1. \A i \in 1 .. FirstKey - 1 : TestPart(Lower(i), Table[r], req) = Lo(i, r, req)
    BY <1>10, LowersBefore
  <2>2. \A i \in 1 .. FirstKey - 1 : i \in DOMAIN Steps /\ TestPart(Steps[i], Table[r], req) = Lo(i, r, NoReq)
    BY <1>4, <1>8, <2>1, StepsAre
  <2>3. \A m \in DOMAIN Steps : m < FirstKey => m \in 1 .. FirstKey - 1
    <3>1. \A i \in DOMAIN W : 1 <= i /\ i <= Len(W) /\ i \in Nat
      BY <1>1
    <3>. QED
      BY <1>1, <3>1, StepsAre
  <2>. QED
    BY <1>4, <2>2, <2>3 DEF SReaches
<1>11. \A r \in DOMAIN Table :
         /\ Lo(FirstKey, r, req) = Trap <=> Outer(FirstKey, req) = Trap
         /\ TestPart(DuckSteps[FirstKey], Table[r], req) = Lo(FirstKey, r, req)
         /\ TestPart(Steps[FirstKey], Table[r], req) = Lo(FirstKey, r, req)
  BY <1>5, <1>6, <1>7
<1>12. \A r \in DOMAIN Table : DuckReaches(req, r, FirstKey) <=> \A i \in 1 .. FirstKey - 1 : Lo(i, r, NoReq) = TRUE
  BY <1>9
<1>13. (\A i \in BeforeKey : ~ Unsplit(W[i])) => \A r \in DOMAIN Table :
         SReaches(req, r, FirstKey) <=> \A i \in 1 .. FirstKey - 1 : Lo(i, r, NoReq) = TRUE
  BY <1>10
<1>14. 1 .. FirstKey - 1 \subseteq DOMAIN W /\ FirstKey \in Nat
  BY <1>1, <1>4
<1>. QED
  BY <1>1, <1>2, <1>3, <1>11, <1>12, <1>13, <1>14

\* The scan's order traps where DuckDB's does.
LEMMA ScanOrder ==
  ASSUME query \in QuerySet, NEW c, ~ ScanRefusal(c), NEW req \in Requests
  PROVE  /\ KeyStops(req) => StepsTrap(req)
         /\ \A r \in DOMAIN Table, n \in DOMAIN Steps :
              n < FirstTrap(Steps) /\ SReaches(req, r, n) /\ TestPart(Steps[n], Table[r], req) = Trap
                => KeyStops(req)
         /\ StepsTrap(req) <=> WhereTraps(req)
<1>1. ASSUME Guarded(Steps)
      PROVE  Keys # {} /\ 1 .. FirstKey - 1 \subseteq Filters /\ \A i \in BeforeKey : ~ Unsplit(W[i])
  BY <1>1, FirstTrapIs DEF ScanRefusal, GuardUnsplit
<1>2. ASSUME KeyStops(req)
      PROVE  StepsTrap(req) /\ WhereTraps(req)
  <2>1. Keys # {} /\ 1 .. FirstKey - 1 \subseteq Filters /\ \A i \in BeforeKey : ~ Unsplit(W[i])
    BY <1>1, <1>2 DEF KeyStops
  <2>2. PICK r \in DOMAIN Table : \A i \in 1 .. FirstKey - 1 : Lo(i, r, NoReq) = TRUE
    BY <1>2 DEF KeyStops, ReachesKey
  <2>3. SReaches(req, r, FirstKey) /\ DuckReaches(req, r, FirstKey)
    BY <2>1, <2>2, FirstKeys
  <2>4. /\ FirstKey \in DOMAIN Steps /\ FirstKey \in DOMAIN DuckSteps
        /\ TestPart(Steps[FirstKey], Table[r], req) = Trap /\ TestPart(DuckSteps[FirstKey], Table[r], req) = Trap
    BY <1>2, <2>1, FirstKeys DEF KeyStops
  <2>. QED
    BY <2>3, <2>4 DEF StepsTrap, WhereTraps
<1>3. ASSUME NEW r \in DOMAIN Table, NEW n \in DOMAIN Steps, n < FirstTrap(Steps),
             SReaches(req, r, n), TestPart(Steps[n], Table[r], req) = Trap
      PROVE  KeyStops(req)
  <2>1. n \in Trapping(Steps)
    BY <1>3, StepTests
  <2>2. n = FirstKey /\ Guarded(Steps)
    BY <1>3, <2>1, FirstTrapIs
  <2>3. Keys # {} /\ 1 .. FirstKey - 1 \subseteq Filters /\ \A i \in BeforeKey : ~ Unsplit(W[i])
    BY <1>1, <2>2
  <2>4. Outer(FirstKey, req) = Trap /\ \A i \in 1 .. FirstKey - 1 : Lo(i, r, NoReq) = TRUE
    BY <1>3, <2>2, <2>3, FirstKeys
  <2>. QED
    BY <2>2, <2>4 DEF KeyStops, ReachesKey
<1>4. ASSUME \A i \in DOMAIN W : ~ Unsplit(W[i])
      PROVE  StepsTrap(req) <=> WhereTraps(req)
  <2>1. Steps = DuckSteps
    <3>. DEFINE B == { i \in DOMAIN W : IsSplit(W[i]) }
                C == { i \in DOMAIN W : W[i].op = "between" }
    <3>1. B = C
      BY <1>4 DEF IsSplit, Unsplit
    <3>2. Steps = [ n \in DOMAIN W \union Uppers(B) |->
                      IF n \in DOMAIN W THEN Lower(n) ELSE Part(n - Len(W), "upper") ]
      BY DEF Steps
    <3>3. DuckSteps = [ n \in DOMAIN W \union Uppers(C) |->
                          IF n \in Uppers(C) THEN Part(n - Len(W), "upper")
                          ELSE Part(n, IF n \in C THEN "lower" ELSE "whole") ]
      BY DEF DuckSteps
    <3>4. \A i : i \in C => (IsSplit(W[i]) /\ i \in DOMAIN W)
      BY <3>1
    <3>5. \A i \in DOMAIN W : IsSplit(W[i]) => i \in C
      BY <3>1
    <3>6. \A n \in DOMAIN W : Lower(n) = Part(n, IF n \in C THEN "lower" ELSE "whole")
      <4>. HIDE DEF C
      <4>. QED
        BY <3>4, <3>5 DEF Lower
    <3>7. C \subseteq DOMAIN W
      OBVIOUS
    <3>. HIDE DEF B, C
    <3>8. \A n \in DOMAIN W : n \notin Uppers(C)
      BY <3>7, QueryFits DEF Uppers
    <3>9. \A n \in DOMAIN W \union Uppers(C) : Steps[n] = DuckSteps[n]
      BY <3>1, <3>2, <3>3, <3>6, <3>8
    <3>. QED
      BY <3>1, <3>2, <3>3, <3>9
  <2>. QED
    BY <1>2, <2>1 DEF StepsTrap, WhereTraps, SReaches, DuckReaches
<1>5. ASSUME FirstTrap(Steps) = End
      PROVE  StepsTrap(req) <=> WhereTraps(req)
  <2>1. StepsTrap(req) => KeyStops(req)
    BY <1>3, <1>5, StepsAre DEF StepsTrap
  <2>2. ASSUME NEW r \in DOMAIN Table, NEW n \in DOMAIN DuckSteps, DuckReaches(req, r, n),
               TestPart(DuckSteps[n], Table[r], req) = Trap
        PROVE  KeyStops(req)
    <3>1. PICK i \in DOMAIN W : \/ n = i /\ TestPart(DuckSteps[n], Table[r], req) = Lo(i, r, req)
                                \/ IsBetween(i) /\ TestPart(DuckSteps[n], Table[r], req) = Hi(i, r, req)
      BY DuckStepsAre
    <3>2. W[i] \in Terms /\ Table[r] \in Rows
      BY QueryFits
    <3>3. \/ n = i /\ Test(W[i], "lower", Table[r], req) = Trap
          \/ IsBetween(i) /\ Test(W[i], "upper", Table[r], req) = Trap
      BY <2>2, <3>1, TestsByHalf DEF Lo, Hi
    <3>4. (n = i /\ HalfTraps(W[i], "lower")) \/ (IsBetween(i) /\ HalfTraps(W[i], "upper"))
      BY <3>2, <3>3, HalfMayTrap
    <3>5. HalfTraps(W[i], "lower") => i \in Trapping(Steps)
      <4>. HAVE HalfTraps(W[i], "lower")
      <4>1. HalfTraps(W[i], "whole")
        BY DEF HalfTraps, HalfSides
      <4>2. Steps[i] = Lower(i) /\ Lower(i).i = i /\ i \in DOMAIN Steps /\ Lower(i).half \in {"lower", "whole"}
        BY StepsAre
      <4>. QED
        BY <4>1, <4>2 DEF Trapping, PartTraps
    <3>6. IsBetween(i) /\ HalfTraps(W[i], "upper") => i \in Trapping(Steps) \/ Len(W) + i \in Trapping(Steps)
      <4>. HAVE IsBetween(i) /\ HalfTraps(W[i], "upper")
      <4>1. CASE IsSplit(W[i])
        <5>1. Len(W) + i \in DOMAIN Steps /\ Steps[Len(W) + i].i = i /\ Steps[Len(W) + i].half = "upper"
          BY <4>1, StepsAre, PartIs
        <5>. QED
          BY <5>1 DEF Trapping, PartTraps
      <4>2. CASE ~ IsSplit(W[i])
        <5>1. HalfTraps(W[i], "whole")
          BY DEF HalfTraps, HalfSides
        <5>2. i \in DOMAIN Steps /\ Steps[i].i = i /\ Steps[i].half = "whole"
          BY <4>2, StepsAre
        <5>. QED
          BY <5>1, <5>2 DEF Trapping, PartTraps
      <4>. QED
        BY <4>1, <4>2
    <3>7. \A m \in Trapping(Steps) : m = FirstKey /\ Guarded(Steps)
      BY <1>5, FirstTrapIs, StepsAre DEF Trapping
    <3>8. Guarded(Steps)
      BY <3>4, <3>5, <3>6, <3>7
    <3>9. Keys # {} /\ 1 .. FirstKey - 1 \subseteq Filters
      BY <1>1, <3>8
    <3>10. FirstKey \in DOMAIN W /\ ~ IsBetween(FirstKey)
      BY <3>9, FirstKeys
    <3>11. Len(W) + i \notin DOMAIN W
      BY QueryFits
    <3>12. n = i /\ i = FirstKey
      BY <3>4, <3>5, <3>6, <3>7, <3>10, <3>11
    <3>13. Lo(FirstKey, r, req) = Trap
      BY <3>3, <3>10, <3>12, TestsByHalf DEF Lo
    <3>14. Outer(FirstKey, req) = Trap /\ \A m \in 1 .. FirstKey - 1 : Lo(m, r, NoReq) = TRUE
      BY <2>2, <3>9, <3>12, <3>13, FirstKeys
    <3>. QED
      BY <3>8, <3>14 DEF KeyStops, ReachesKey
  <2>3. WhereTraps(req) => KeyStops(req)
    BY <2>2 DEF WhereTraps
  <2>. QED
    BY <1>2, <2>1, <2>3
<1>6. FirstTrap(Steps) < End => \A i \in DOMAIN W : ~ Unsplit(W[i])
  BY DEF ScanRefusal
<1>7. StepsTrap(req) <=> WhereTraps(req)
  BY <1>4, <1>5, <1>6, FirstTrapIs, StepsAre
<1>. QED
  BY <1>2, <1>3, <1>7

IsScan(j, c, g) ==
  /\ j.how = "scan" /\ j.parts = { Steps[n] : n \in Early("filter") }
  /\ j.keys = [ n \in ScanKeys |-> Key(n, IF n = FirstKey THEN g ELSE NoJoin) ]
  /\ j.preds = [ n \in DOMAIN Steps \ (Early("filter") \union ScanKeys) |-> Steps[n] ]
  /\ j.call = c /\ j.traps = (g # NoJoin \/ FirstTrap(Steps) < End \/ c.item.traps # {})
ScanGuardedBy(g) == \/ g = NoJoin /\ ~ Guarded(Steps)
                    \/ g # NoJoin /\ Guarded(Steps) /\ (tables[g] = 0 <=> ~ ReachesKey)

\* What runs before the first step that can trap: filters at the build, keys
\* that equal; what is left of those steps cannot trap.
LEMMA ScanEarly ==
  ASSUME query \in QuerySet, NEW req \in Requests
  PROVE  /\ \A n \in ScanKeys : /\ n \in Keys /\ n \in DOMAIN Steps /\ n < FirstTrap(Steps) /\ W[n].op = "="
                                /\ Outer(n, req) = Trap => n \in Trapping(Steps)
                                /\ \A r \in DOMAIN Table :
                                     TestPart(Steps[n], Table[r], req) = TRUE <=>
                                       /\ Outer(n, req) # Trap /\ Outer(n, req) # Null
                                       /\ Table[r][Lane(W[n])] = Outer(n, req)
         /\ \A n \in Early("filter") : /\ n \in DOMAIN Steps /\ n < FirstTrap(Steps)
                                       /\ \A r : TestPart(Steps[n], Table[r], req) = TestPart(Steps[n], Table[r], NoReq)
         /\ \A n \in DOMAIN Steps : n \notin Early("filter") \union ScanKeys /\ n \in Trapping(Steps)
                                      => ~ (n < FirstTrap(Steps))
         /\ Guarded(Steps) => FirstKey \in ScanKeys
<1>1. \A n \in Early("key") : n \in Keys /\ Steps[n].i = n /\ Steps[n].half = "whole" /\ n < FirstTrap(Steps) /\ n \in DOMAIN Steps
  <2>. TAKE n \in Early("key")
  <2>1. n \in DOMAIN Steps /\ n < FirstTrap(Steps) /\ KindOf(W[Steps[n].i]) = "key" /\ Steps[n].i \in DOMAIN W
    BY StepsAre DEF Early
  <2>2. Steps[n].i \in Keys
    BY <2>1 DEF Keys, Places
  <2>3. ~ IsSplit(W[Steps[n].i])
    BY <2>2, Kinds DEF IsSplit
  <2>4. CASE n \in DOMAIN W
    BY <2>1, <2>2, <2>3, <2>4, StepsAre
  <2>5. CASE \E i \in DOMAIN W : IsSplit(W[i]) /\ n = Len(W) + i
    BY <2>3, <2>5, StepsAre, PartIs
  <2>. QED
    BY <2>1, <2>4, <2>5, StepsAre
<1>2. \A n \in Keys : n \in DOMAIN W /\ n \in DOMAIN Steps /\ Steps[n].i = n /\ Steps[n].half = "whole"
                      /\ W[n] \in Terms /\ KindOf(W[n]) = "key"
  BY Kinds, StepsAre DEF IsSplit
<1>3. ASSUME NEW n \in ScanKeys
      PROVE  /\ n \in Keys /\ n \in DOMAIN Steps /\ n < FirstTrap(Steps) /\ W[n].op = "="
             /\ Outer(n, req) = Trap => n \in Trapping(Steps)
             /\ \A r \in DOMAIN Table :
                  TestPart(Steps[n], Table[r], req) = TRUE <=>
                    /\ Outer(n, req) # Trap /\ Outer(n, req) # Null
                    /\ Table[r][Lane(W[n])] = Outer(n, req)
  <2>1. n \in Keys /\ n \in DOMAIN Steps /\ n < FirstTrap(Steps) /\ W[n].op = "="
    BY <1>1 DEF ScanKeys
  <2>2. W[n] \in Terms /\ KindOf(W[n]) = "key" /\ Steps[n].i = n /\ Steps[n].half = "whole"
    BY <1>2, <2>1
  <2>3. ASSUME Outer(n, req) = Trap
        PROVE  n \in Trapping(Steps)
    <3>1. OuterSide(W[n]) \in SideSet /\ ~ ReadsTable(OuterSide(W[n]))
      BY <2>2, KeyTerms
    <3>2. CanTrap(OuterSide(W[n]))
      BY <2>3, <3>1, SideValues DEF Outer
    <3>3. TermTraps(W[n])
      BY <2>2, <3>2, KeyTerms
    <3>. QED
      BY <2>1, <2>2, <3>3 DEF Trapping, PartTraps, TermTraps
  <2>4. ASSUME NEW r \in DOMAIN Table
        PROVE  TestPart(Steps[n], Table[r], req) = TRUE <=>
                 /\ Outer(n, req) # Trap /\ Outer(n, req) # Null
                 /\ Table[r][Lane(W[n])] = Outer(n, req)
    <3>1. Table[r] \in Rows
      BY QueryFits
    <3>2. TestPart(Steps[n], Table[r], req) = Test(W[n], "whole", Table[r], req)
      BY <2>2 DEF TestPart
    <3>3. Test(W[n], "whole", Table[r], req) = TRUE <=>
            Outer(n, req) # Trap /\ Table[r][Lane(W[n])] = Outer(n, req) /\ (W[n].op = "=" => Outer(n, req) # Null)
      BY <2>2, <3>1, KeyTests DEF Outer
    <3>. QED
      BY <2>1, <3>2, <3>3
  <2>. QED
    BY <2>1, <2>3, <2>4
<1>4. ASSUME NEW n \in Early("filter")
      PROVE  /\ n \in DOMAIN Steps /\ n < FirstTrap(Steps)
             /\ \A r : TestPart(Steps[n], Table[r], req) = TestPart(Steps[n], Table[r], NoReq)
  <2>1. n \in DOMAIN Steps /\ n < FirstTrap(Steps) /\ KindOf(W[Steps[n].i]) = "filter" /\ Steps[n].i \in DOMAIN W
    BY StepsAre DEF Early
  <2>2. W[Steps[n].i] \in Terms
    BY <2>1, QueryFits
  <2>. QED
    BY <2>1, <2>2, FilterTests DEF TestPart
<1>5. ASSUME NEW n \in DOMAIN Steps, n \notin ScanKeys, n \in Trapping(Steps)
      PROVE  ~ (n < FirstTrap(Steps))
  <2>. SUFFICES ASSUME n < FirstTrap(Steps) PROVE FALSE
    OBVIOUS
  <2>1. n \in Keys /\ W[n].op = "="
    BY <1>5, FirstTrapIs DEF Guardable
  <2>2. n \in Early("key")
    BY <1>2, <2>1 DEF Early
  <2>. QED
    BY <1>5, <2>1, <2>2 DEF ScanKeys
<1>6. Guarded(Steps) => FirstKey \in ScanKeys
  <2>. HAVE Guarded(Steps)
  <2>1. FirstKey \in Keys /\ FirstKey < FirstTrap(Steps) /\ W[FirstKey].op = "="
    BY FirstTrapIs DEF Guardable
  <2>2. FirstKey \in Early("key")
    BY <1>2, <2>1 DEF Early
  <2>. QED
    BY <2>1, <2>2 DEF ScanKeys
<1>. QED
  BY <1>3, <1>4, <1>5, <1>6

\* The key values of a scan trap if the guarded first key does.
LEMMA ScanValues ==
  ASSUME query \in QuerySet, NEW c, NEW g, NEW j, IsScan(j, c, g), ScanGuardedBy(g), NEW req \in Requests
  PROVE  LET vals == KeyValues(j, req)
             shut == g # NoJoin /\ tables[g] = 0
         IN /\ DOMAIN vals = ScanKeys /\ DOMAIN j.keys = ScanKeys /\ vals = [ n \in ScanKeys |-> vals[n] ]
            /\ \A n \in ScanKeys : /\ vals[n] = IF n = FirstKey /\ shut THEN Null ELSE Outer(n, req)
                                   /\ j.keys[n].lane = Lane(W[n]) /\ j.keys[n].cmp = "="
            /\ Trap \in ToSet(vals) <=> KeyStops(req)
<1>. DEFINE vals == KeyValues(j, req)
            shut == g # NoJoin /\ tables[g] = 0
<1>1. /\ DOMAIN j.keys = ScanKeys
      /\ \A n \in ScanKeys : j.keys[n] = Key(n, IF n = FirstKey THEN g ELSE NoJoin)
  BY DEF IsScan
<1>2. \A n \in ScanKeys : /\ j.keys[n].lane = Lane(W[n]) /\ j.keys[n].cmp = W[n].op /\ j.keys[n].side = OuterSide(W[n])
                          /\ j.keys[n].guard = IF n = FirstKey THEN g ELSE NoJoin
  <2>1. \A i, h : /\ Key(i, h).lane = Lane(W[i]) /\ Key(i, h).cmp = W[i].op
                  /\ Key(i, h).side = OuterSide(W[i]) /\ Key(i, h).guard = h
    BY DEF Key
  <2>. QED
    BY <1>1, <2>1
<1>3. vals = [ n \in ScanKeys |-> KeyValue(j.keys[n], req) ]
  BY <1>1 DEF KeyValues
<1>4. DOMAIN vals = ScanKeys /\ vals = [ n \in ScanKeys |-> vals[n] ]
      /\ \A n \in ScanKeys : vals[n] = KeyValue(j.keys[n], req)
  BY <1>3
<1>. HIDE DEF vals
<1>5. \A n \in ScanKeys : vals[n] = IF n = FirstKey /\ shut THEN Null ELSE Outer(n, req)
  BY <1>2, <1>4 DEF KeyValue, Outer
<1>6. Trap \in ToSet(vals) <=> \E n \in ScanKeys : vals[n] = Trap
  BY <1>4 DEF ToSet
<1>7. ASSUME NEW n \in ScanKeys, vals[n] = Trap
      PROVE  KeyStops(req)
  <2>1. Outer(n, req) = Trap /\ ~ (n = FirstKey /\ shut)
    BY <1>5, <1>7, ValuesDiffer
  <2>2. n \in Trapping(Steps) /\ n < FirstTrap(Steps)
    BY <2>1, ScanEarly
  <2>3. n = FirstKey /\ Guarded(Steps)
    BY <2>2, FirstTrapIs
  <2>. QED
    BY <2>1, <2>3 DEF ScanGuardedBy, KeyStops
<1>8. ASSUME KeyStops(req)
      PROVE  \E n \in ScanKeys : vals[n] = Trap
  <2>1. FirstKey \in ScanKeys /\ Outer(FirstKey, req) = Trap /\ ~ shut
    BY <1>8, ScanEarly DEF KeyStops, ScanGuardedBy
  <2>. QED
    BY <1>5, <2>1
<1>9. \A n \in ScanKeys : j.keys[n].cmp = "="
  BY <1>2, ScanEarly
<1>. QED
  BY <1>1, <1>2, <1>4, <1>5, <1>6, <1>7, <1>8, <1>9 DEF vals

\* The rows a scan reads: those that its filters and its keys keep.
LEMMA ScanFinds ==
  ASSUME query \in QuerySet, NEW c, ~ ScanRefusal(c), NEW g, NEW j, IsScan(j, c, g), ScanGuardedBy(g),
         NEW req \in Requests, ~ KeyStops(req)
  PROVE  LET vals == KeyValues(j, req)
             rows == IF Matches(j, vals) THEN RowsUnder(j, vals, Stored(j)) ELSE {}
         IN rows = { r \in DOMAIN Table : \A n \in Early("filter") \union ScanKeys :
                       TestPart(Steps[n], Table[r], req) = TRUE }
<1>. DEFINE vals == KeyValues(j, req)
            shut == g # NoJoin /\ tables[g] = 0
            rows == IF Matches(j, vals) THEN RowsUnder(j, vals, Stored(j)) ELSE {}
            Early0 == Early("filter")
<1>1. /\ DOMAIN vals = ScanKeys /\ DOMAIN j.keys = ScanKeys /\ vals = [ n \in ScanKeys |-> vals[n] ]
      /\ \A n \in ScanKeys : /\ vals[n] = IF n = FirstKey /\ shut THEN Null ELSE Outer(n, req)
                             /\ j.keys[n].lane = Lane(W[n]) /\ j.keys[n].cmp = "="
      /\ Trap \notin ToSet(vals)
  BY ScanValues
<1>. HIDE DEF vals
<1>2. \A n \in ScanKeys : vals[n] # Trap
  BY <1>1 DEF ToSet
<1>3. Matches(j, vals) <=> \A n \in ScanKeys : vals[n] # Null
  BY <1>1 DEF Matches
<1>4. \A r : /\ DOMAIN StoredKey(j, r) = ScanKeys
             /\ StoredKey(j, r) = [ n \in ScanKeys |-> StoredKey(j, r)[n] ]
             /\ \A n \in ScanKeys : StoredKey(j, r)[n] = Table[r][Lane(W[n])]
  BY <1>1 DEF StoredKey
<1>5. \A r : StoredKey(j, r) = vals <=> \A n \in ScanKeys : Table[r][Lane(W[n])] = vals[n]
  <2>. TAKE r
  <2>1. (\A n \in ScanKeys : StoredKey(j, r)[n] = vals[n]) <=> \A n \in ScanKeys : Table[r][Lane(W[n])] = vals[n]
    BY <1>4
  <2>2. StoredKey(j, r) = vals <=> \A n \in ScanKeys : StoredKey(j, r)[n] = vals[n]
    BY <1>1, <1>4, SameFunctions
  <2>. QED
    BY <2>1, <2>2
<1>6. Passing(j) = { r \in DOMAIN Table : \A n \in Early0 : TestPart(Steps[n], Table[r], req) = TRUE }
  <2>1. Passing(j) = { r \in DOMAIN Table : \A n \in Early0 : TestPart(Steps[n], Table[r], NoReq) = TRUE }
    BY DEF Passing, IsScan
  <2>2. \A r : \A n \in Early0 : TestPart(Steps[n], Table[r], req) = TestPart(Steps[n], Table[r], NoReq)
    BY ScanEarly
  <2>. HIDE DEF Early0
  <2>. QED
    BY <2>1, <2>2
<1>. HIDE DEF Early0
<1>7. \A r : r \in rows <=> /\ r \in DOMAIN Table /\ \A n \in Early0 : TestPart(Steps[n], Table[r], req) = TRUE
                            /\ \A n \in ScanKeys : Table[r][Lane(W[n])] = vals[n] /\ vals[n] # Null
  <2>. TAKE r
  <2>1. r \in rows <=> Matches(j, vals) /\ r \in Stored(j) /\ StoredKey(j, r) = vals
    BY DEF RowsUnder
  <2>2. r \in Stored(j) <=> r \in Passing(j) /\ \A n \in ScanKeys : StoredKey(j, r)[n] # Null
    BY <1>1 DEF Stored
  <2>3. r \in Passing(j) <=> r \in DOMAIN Table /\ \A n \in Early0 : TestPart(Steps[n], Table[r], req) = TRUE
    BY <1>6
  <2>. HIDE DEF rows
  <2>. QED
    BY <1>3, <1>4, <1>5, <2>1, <2>2, <2>3
<1>. HIDE DEF rows
<1>8. ASSUME NEW r \in DOMAIN Table, \A n \in Early0 : TestPart(Steps[n], Table[r], req) = TRUE
      PROVE  (\A n \in ScanKeys : Table[r][Lane(W[n])] = vals[n] /\ vals[n] # Null)
               <=> \A n \in ScanKeys : TestPart(Steps[n], Table[r], req) = TRUE
  <2>1. CASE ~ shut
    <3>1. \A n \in ScanKeys : vals[n] = Outer(n, req) /\ Outer(n, req) # Trap
      BY <1>1, <1>2, <2>1
    <3>. QED
      BY <3>1, ScanEarly
  <2>2. CASE shut
    <3>1. Guarded(Steps) /\ ~ ReachesKey
      BY <2>2 DEF ScanGuardedBy
    <3>2. FirstKey \in ScanKeys /\ vals[FirstKey] = Null
      BY <1>1, <2>2, <3>1, ScanEarly
    <3>3. Keys # {} /\ 1 .. FirstKey - 1 \subseteq Filters /\ \A i \in BeforeKey : ~ Unsplit(W[i])
      BY <3>1, FirstTrapIs DEF ScanRefusal, GuardUnsplit
    <3>4. ASSUME NEW i \in 1 .. FirstKey - 1
          PROVE  Lo(i, r, NoReq) = TRUE
      <4>1. i \in Filters /\ i \in DOMAIN W /\ KindOf(W[i]) = "filter" /\ i \in DOMAIN Steps
            /\ Steps[i] = Lower(i) /\ Steps[i].i = i
        BY <3>3, Kinds, StepsAre
      <4>2. i < FirstTrap(Steps)
        <5>1. FirstKey \in Nat /\ FirstKey < FirstTrap(Steps) /\ FirstTrap(Steps) \in Nat
          BY <3>1, <3>3, FirstKeys, FirstTrapIs
        <5>. QED
          BY <5>1
      <4>3. i \in Early0
        BY <4>1, <4>2 DEF Early0, Early
      <4>4. TestPart(Lower(i), Table[r], req) = TRUE
        BY <1>8, <4>1, <4>3
      <4>5. TestPart(Lower(i), Table[r], req) = Lo(i, r, req)
        BY <3>3, LowersBefore
      <4>6. Lo(i, r, req) = Lo(i, r, NoReq)
        BY <4>1, FilterRowsAre
      <4>. QED
        BY <4>4, <4>5, <4>6
    <3>. QED
      BY <3>1, <3>4 DEF ReachesKey
  <2>. QED
    BY <2>1, <2>2
<1>9. \A r : r \in rows <=> r \in DOMAIN Table /\ \A n \in Early0 \union ScanKeys : TestPart(Steps[n], Table[r], req) = TRUE
  BY <1>7, <1>8
<1>10. rows = { r \in DOMAIN Table : \A n \in Early0 \union ScanKeys : TestPart(Steps[n], Table[r], req) = TRUE }
  <2>1. \A r \in rows : r \in DOMAIN Table
    BY <1>9
  <2>. QED
    BY <1>9, <2>1
<1>. QED
  BY <1>10 DEF rows, vals, Early0

\* A scan traps if the WHERE or the item does, and else finds the answer.
LEMMA ScanIs ==
  ASSUME query \in QuerySet, NEW c, ~ ScanRefusal(c), NEW g, NEW n, IsScan(joins[n], c, g), ScanGuardedBy(g),
         tables[n] = TableOf(joins[n]), NEW req \in Requests, ~ KeyStops(req)
  PROVE  LET scan == Scan(n, KeyValues(joins[n], req), req)
         IN /\ WhereTraps(req) => scan = Trapped
            /\ ~ WhereTraps(req) /\ Answer(c.item, DuckRows(req)) = Trap => scan = Trapped
            /\ ~ WhereTraps(req) /\ Answer(c.item, DuckRows(req)) # Trap => scan = Hit(Answer(c.item, DuckRows(req)))
<1>. DEFINE j == joins[n]
            vals == KeyValues(j, req)
            rows == IF Matches(j, vals) THEN RowsUnder(j, vals, tables[n]) ELSE {}
            Reaches(r, m) == \A q \in DOMAIN j.preds : q < m => TestPart(j.preds[q], Table[r], req) = TRUE
            traps == \E r \in rows, m \in DOMAIN j.preds :
                       Reaches(r, m) /\ TestPart(j.preds[m], Table[r], req) = Trap
            kept == { r \in rows : Reaches(r, End) }
            scan == Scan(n, vals, req)
            E == Early("filter") \union ScanKeys
<1>1. IsScan(j, c, g) /\ tables[n] = Stored(j) /\ j.call = c
  BY DEF IsScan, TableOf
<1>2. scan = IF traps THEN Trapped
             ELSE IF Answer(c.item, kept) = Trap THEN Trapped ELSE Hit(Answer(c.item, kept))
  <2>1. scan = IF traps THEN Trapped
               ELSE IF Answer(j.call.item, kept) = Trap THEN Trapped ELSE Hit(Answer(j.call.item, kept))
    BY Zenon DEF Scan
  <2>2. j.call = c
    BY <1>1
  <2>. HIDE DEF scan, traps, kept, j
  <2>. QED
    BY <2>1, <2>2, Zenon
<1>3. rows = { r \in DOMAIN Table : \A m \in E : TestPart(Steps[m], Table[r], req) = TRUE }
  <2>1. (IF Matches(j, vals) THEN RowsUnder(j, vals, Stored(j)) ELSE {})
          = { r \in DOMAIN Table : \A m \in E : TestPart(Steps[m], Table[r], req) = TRUE }
    BY ScanFinds
  <2>2. rows = IF Matches(j, vals) THEN RowsUnder(j, vals, Stored(j)) ELSE {}
    BY <1>1
  <2>. QED
    BY <2>1, <2>2
<1>4. DOMAIN j.preds = DOMAIN Steps \ E /\ \A m \in DOMAIN j.preds : j.preds[m] = Steps[m]
  BY <1>1 DEF IsScan
<1>5. \A m \in E : m \in DOMAIN Steps /\ m < FirstTrap(Steps)
  BY ScanEarly
<1>6. \A m \in DOMAIN Steps : m \notin E /\ m \in Trapping(Steps) => ~ (m < FirstTrap(Steps))
  BY ScanEarly
<1>7. FirstTrap(Steps) \in Nat /\ FirstTrap(Steps) <= End /\ End \in Nat /\ \A m \in DOMAIN Steps : m \in Nat /\ m < End
  BY FirstTrapIs, StepsAre
<1>. HIDE DEF rows, j, vals, E
<1>8. ASSUME NEW r \in rows, NEW m \in Nat, ~ (m < FirstTrap(Steps))
      PROVE  Reaches(r, m) <=> SReaches(req, r, m)
  <2>1. \A q \in E : TestPart(Steps[q], Table[r], req) = TRUE
    BY <1>3
  <2>. QED
    BY <1>4, <2>1 DEF SReaches
<1>9. ASSUME traps PROVE StepsTrap(req)
  <2>1. PICK r \in rows, m \in DOMAIN j.preds : Reaches(r, m) /\ TestPart(j.preds[m], Table[r], req) = Trap
    BY <1>9
  <2>2. r \in DOMAIN Table /\ m \in DOMAIN Steps /\ m \notin E /\ TestPart(Steps[m], Table[r], req) = Trap
    BY <1>3, <1>4, <2>1
  <2>3. ~ (m < FirstTrap(Steps)) /\ m \in Nat
    BY <1>6, <1>7, <2>2, StepTests
  <2>4. SReaches(req, r, m)
    BY <1>8, <2>1, <2>3
  <2>. QED
    BY <2>2, <2>4 DEF StepsTrap
<1>10. ASSUME StepsTrap(req) PROVE traps
  <2>1. PICK r \in DOMAIN Table, m \in DOMAIN Steps : SReaches(req, r, m) /\ TestPart(Steps[m], Table[r], req) = Trap
    BY <1>10 DEF StepsTrap
  <2>2. ~ (m < FirstTrap(Steps)) /\ m \in Nat
    BY <1>7, <2>1, ScanOrder
  <2>3. m \notin E
    BY <1>5, <2>2
  <2>4. \A q \in E : q < m
    BY <1>5, <1>7, <2>2
  <2>5. r \in rows
    BY <1>3, <1>5, <2>1, <2>4 DEF SReaches
  <2>6. m \in DOMAIN j.preds /\ j.preds[m] = Steps[m]
    BY <1>4, <2>3
  <2>7. Reaches(r, m)
    BY <1>8, <2>1, <2>2, <2>5
  <2>. HIDE DEF Reaches
  <2>. QED
    BY <2>1, <2>5, <2>6, <2>7
<1>11. kept = DuckRows(req)
  <2>1. DuckRows(req) = { r \in DOMAIN Table : \A m \in DOMAIN Steps : TestPart(Steps[m], Table[r], req) = TRUE }
    BY StepTests
  <2>2. ~ (End < FirstTrap(Steps))
    BY <1>7
  <2>3. \A r \in rows : Reaches(r, End) <=> SReaches(req, r, End)
    BY <1>7, <1>8, <2>2
  <2>4. \A r : SReaches(req, r, End) <=> \A m \in DOMAIN Steps : TestPart(Steps[m], Table[r], req) = TRUE
    BY <1>7 DEF SReaches
  <2>5. \A r \in DOMAIN Table : (\A m \in DOMAIN Steps : TestPart(Steps[m], Table[r], req) = TRUE) => r \in rows
    BY <1>3, <1>5
  <2>6. \A r \in rows : r \in DOMAIN Table
    BY <1>3
  <2>. HIDE DEF Reaches
  <2>7. kept = { r \in rows : SReaches(req, r, End) }
    BY <2>3
  <2>. HIDE DEF kept
  <2>. QED
    BY <2>1, <2>4, <2>5, <2>6, <2>7
<1>12. traps <=> WhereTraps(req)
  BY <1>9, <1>10, ScanOrder
<1>. HIDE DEF traps, kept, scan
<1>13. /\ WhereTraps(req) => scan = Trapped
       /\ ~ WhereTraps(req) /\ Answer(c.item, DuckRows(req)) = Trap => scan = Trapped
       /\ ~ WhereTraps(req) /\ Answer(c.item, DuckRows(req)) # Trap => scan = Hit(Answer(c.item, DuckRows(req)))
  BY <1>2, <1>11, <1>12
<1>. QED
  BY <1>13 DEF scan, vals, j

\* Reading through a scan is right.
LEMMA ScanReads ==
  ASSUME query \in QuerySet, ~ WhereRefused, Scanned, NEW c \in Calls, ~ ScanRefusal(c),
         NEW g, IsScan(joins[reads[c]], c, g), ScanGuardedBy(g),
         tables[reads[c]] = TableOf(joins[reads[c]]), NEW req \in Requests
  PROVE  ReadRight(c, req)
<1>. DEFINE n == reads[c]
            p == Probe(n, req)
<1>1. c.member = "value" /\ c.item \in ItemSet /\ c.item.fn # "row"
  BY CallsFit DEF ScanRefusal
<1>2. Trap \in ToSet(KeyValues(joins[n], req)) <=> KeyStops(req)
  BY ScanValues
<1>3. joins[n].how = "scan" /\ joins[n].traps = (g # NoJoin \/ FirstTrap(Steps) < End \/ c.item.traps # {})
  BY DEF IsScan
<1>4. KeyStops(req) => p = Trapped
  BY <1>2, ProbeIs
<1>5. ~ KeyStops(req) => p = Scan(n, KeyValues(joins[n], req), req)
  BY <1>2, <1>3, ProbeIs
<1>6. KeyStops(req) => WhereTraps(req)
  BY ScanOrder
<1>7. /\ WhereTraps(req) => p = Trapped
      /\ ~ WhereTraps(req) /\ Answer(c.item, DuckRows(req)) = Trap => p = Trapped
      /\ ~ WhereTraps(req) /\ Answer(c.item, DuckRows(req)) # Trap => p = Hit(Answer(c.item, DuckRows(req)))
  <2>1. CASE KeyStops(req)
    BY <1>4, <1>6, <2>1
  <2>2. CASE ~ KeyStops(req)
    <3>1. /\ WhereTraps(req) => Scan(n, KeyValues(joins[n], req), req) = Trapped
          /\ ~ WhereTraps(req) /\ Answer(c.item, DuckRows(req)) = Trap => Scan(n, KeyValues(joins[n], req), req) = Trapped
          /\ ~ WhereTraps(req) /\ Answer(c.item, DuckRows(req)) # Trap =>
               Scan(n, KeyValues(joins[n], req), req) = Hit(Answer(c.item, DuckRows(req)))
      BY <2>2, ScanIs
    <3>. QED
      BY <1>5, <2>2, <3>1
  <2>. QED
    BY <2>1, <2>2
<1>8. CallTraps(c, req) <=> WhereTraps(req) \/ Answer(c.item, DuckRows(req)) = Trap
  BY <1>1 DEF CallTraps, LeftStops
<1>9. p.trap \in BOOLEAN /\ (p.trap <=> CallTraps(c, req))
  BY <1>7, <1>8, ProbeEnds
<1>10. ~ joins[n].traps => ~ CallTraps(c, req)
  <2>. HAVE ~ joins[n].traps
  <2>1. g = NoJoin /\ ~ (FirstTrap(Steps) < End) /\ c.item.traps = {}
    BY <1>3
  <2>2. ~ Guarded(Steps) /\ FirstTrap(Steps) = End
    BY <2>1, FirstTrapIs, StepsAre DEF ScanGuardedBy
  <2>3. ~ StepsTrap(req)
    <3>. SUFFICES ASSUME NEW r \in DOMAIN Table, NEW m \in DOMAIN Steps, TestPart(Steps[m], Table[r], req) = Trap
                  PROVE  FALSE
      BY DEF StepsTrap
    <3>1. m \in Trapping(Steps) /\ m < FirstTrap(Steps)
      BY <2>2, StepTests, StepsAre
    <3>. QED
      BY <2>2, <3>1, FirstTrapIs
  <2>4. ~ WhereTraps(req)
    BY <2>3, ScanOrder
  <2>5. Answer(c.item, DuckRows(req)) # Trap
    <3>1. DuckRows(req) \subseteq DOMAIN Table
      BY DEF DuckRows
    <3>. QED
      BY <1>1, <2>1, <3>1, Answers
  <2>. QED
    BY <1>8, <2>4, <2>5
<1>11. Correlated
  BY DEF Scanned, LateTrap, Correlated, WhereRefused
<1>12. ~ CallTraps(c, req) => Read(c, req) = Answer(c.item, DuckRows(req))
  <2>. HAVE ~ CallTraps(c, req)
  <2>1. p.trap = FALSE /\ p.hit = TRUE /\ p.val = Answer(c.item, DuckRows(req))
    BY <1>7, <1>8, ProbeEnds
  <2>2. Read(c, req) = p.val
    BY <2>1, ReadIs
  <2>. QED
    BY <2>1, <2>2
<1>. QED
  BY <1>1, <1>9, <1>10, <1>11, <1>12 DEF ReadRight

-----------------------------------------------------------------------------
(* The value of a subquery.                                                *)

\* What the two counts read.
LEMMA CountReads ==
  ASSUME query \in QuerySet, NEW req
  PROVE  /\ ReadRight(RowsCall, req) /\ ~ CallTraps(RowsCall, req) =>
              Read(RowsCall, req) = Cardinality(DuckRows(req))
         /\ ReadRight(ValuesCall, req) /\ ~ CallTraps(ValuesCall, req) =>
              Read(ValuesCall, req) = Cardinality(Vals(DuckRows(req)))
<1>1. DuckRows(req) \subseteq DOMAIN Table
  BY DEF DuckRows
<1>2. RowsCall.member = "value" /\ RowsCall.item = ItemOf("count_star")
      /\ ValuesCall.member = "value" /\ ValuesCall.item = ItemOf("count")
  BY PlainItems, ValueCalls DEF RowsCall, ValuesCall
<1>. QED
  BY <1>1, <1>2, Counts DEF ReadRight

\* Whether a left side finds an item.
LEMMA HitsAre ==
  ASSUME query \in QuerySet, NEW sub \in Subs, sub.form \in {"in", "any"}, NEW req \in Requests,
         ReadRight(MemberCall(sub), req), ~ CallTraps(MemberCall(sub), req)
  PROVE  LET l == Plain(sub.left, <<>>, req)
             hit == HitOf(MemberCall(sub), req)
             some == \E v \in Items(DuckRows(req)) : Compare(PredOf(sub), l, v) = TRUE
         IN /\ hit \in Nat /\ (hit > 0 <=> some)
            /\ l \in Values
            /\ ValueOf(sub.left, <<>>, req) = l
               \/ (ValueOf(sub.left, <<>>, req) = Trap
                   /\ (DuckRows(req) = {} \/ Vals(DuckRows(req)) # DuckRows(req)))
<1>. DEFINE c == MemberCall(sub)
            l == Plain(sub.left, <<>>, req)
            rows == DuckRows(req)
            some == \E v \in Items(rows) : Compare(PredOf(sub), l, v) = TRUE
            someV == \E v \in Items(rows) : Compare(PredOf(sub), Left(c, req), v) = TRUE
<1>1. /\ c.left = sub.left /\ c.pred = PredOf(sub) /\ PredOf(sub) \in Preds
      /\ (c.member = "in" <=> PredOf(sub) = "=") /\ (c.member = "any" <=> PredOf(sub) # "=")
  BY MemberCalls
<1>2. sub.left \in SideSet /\ ~ ReadsTable(sub.left)
  BY SubsFit
<1>3. Left(c, req) = ValueOf(sub.left, <<>>, req)
  BY <1>1 DEF Left
<1>4. l \in Values /\ (Left(c, req) # Trap => Left(c, req) = l) /\ Left(c, req) \in Values \union {Trap}
  BY <1>2, <1>3, SideValues
<1>5. rows \subseteq DOMAIN Table
  BY DEF DuckRows
<1>6. Left(c, req) = Trap => /\ c.member = "in" => Vals(rows) = {}
                             /\ c.member = "any" => rows = {}
  BY DEF CallTraps, LeftStops
<1>7. Items(rows) \subseteq Values /\ (Vals(rows) = {} => Items(rows) \subseteq {Null}) /\ (rows = {} => Items(rows) = {})
      /\ Vals(rows) \subseteq rows
  BY <1>5, ExtremesAre DEF Values, Items, Vals
<1>8. \A v \in Values : Compare(PredOf(sub), l, v) = TRUE <=> l # Null /\ v # Null /\ Holds(PredOf(sub), l, v)
  BY <1>1, <1>4, CompareOthers DEF Preds
<1>9. some <=> someV
  <2>1. CASE Left(c, req) # Trap
    BY <1>4, <2>1
  <2>2. CASE Left(c, req) = Trap
    <3>1. ~ someV
      BY <2>2, CompareHolds
    <3>2. Items(rows) \subseteq {Null}
      BY <1>1, <1>6, <1>7, <2>2
    <3>3. ~ some
      BY <1>7, <1>8, <3>2
    <3>. QED
      BY <3>1, <3>3
  <2>. QED
    BY <2>1, <2>2
<1>. HIDE DEF some
<1>10. CASE c.member = "in"
  <2>1. HitOf(c, req) = Cardinality(Want(c, req))
    BY <1>10 DEF ReadRight
  <2>2. Want(c, req) \subseteq DOMAIN Table /\ Want(c, req) = { r \in rows : Table[r].v = Left(c, req) /\ Left(c, req) # Null }
    BY <1>5, <1>10 DEF Want
  <2>3. Want(c, req) # {} <=> someV
    <3>1. PredOf(sub) = "="
      BY <1>1, <1>10
    <3>2. \A a, b : Holds("=", a, b) <=> a = b
      BY DEF Holds
    <3>3. \A v \in Values : Compare("=", Left(c, req), v) = TRUE <=> Left(c, req) # Null /\ v = Left(c, req)
      <4>. TAKE v \in Values
      <4>1. Compare("=", Left(c, req), v) = TRUE <=>
              /\ Left(c, req) # Trap /\ v # Trap /\ Left(c, req) # Null /\ v # Null /\ Holds("=", Left(c, req), v)
        <5>1. Compare("=", Left(c, req), v) = TRUE <=>
                /\ Left(c, req) # Trap /\ v # Trap
                /\ "=" = "isnd" \/ (Left(c, req) # Null /\ v # Null)
                /\ Holds("=", Left(c, req), v)
          BY CompareHolds
        <5>2. ~ ("=" = "isnd")
          OBVIOUS
        <5>. QED
          BY <5>1, <5>2
      <4>. QED
        BY <3>2, <4>1, ValuesDiffer
    <3>4. someV <=> \E v \in Items(rows) : Left(c, req) # Null /\ v = Left(c, req)
      BY <1>7, <3>1, <3>3
    <3>. QED
      BY <2>2, <3>4 DEF Items
  <2>. HIDE DEF someV
  <2>4. HitOf(c, req) \in Nat /\ (HitOf(c, req) > 0 <=> some)
    BY <1>9, <2>1, <2>2, <2>3, RowsAreFinite
  <2>5. Left(c, req) # Trap \/ rows = {} \/ Vals(rows) # rows
    BY <1>6, <1>10
  <2>. QED
    BY <1>3, <1>4, <2>4, <2>5 DEF some
<1>11. CASE c.member = "any"
  <2>1. HitOf(c, req) = IF someV THEN 1 ELSE 0
    BY <1>1, <1>11 DEF ReadRight
  <2>. HIDE DEF someV
  <2>2. HitOf(c, req) \in Nat /\ (HitOf(c, req) > 0 <=> some)
    BY <1>9, <2>1
  <2>3. Left(c, req) # Trap \/ rows = {}
    BY <1>6, <1>11
  <2>. QED
    BY <1>3, <1>4, <2>2, <2>3 DEF some
<1>. QED
  BY <1>1, <1>10, <1>11

\* What IN, ANY and ALL make of what they read is DuckDB's value.
LEMMA MemberValueRight ==
  ASSUME query \in QuerySet, NEW sub \in Subs, sub.form \in {"in", "any"}, NEW req \in Requests,
         \A c \in {MemberCall(sub), RowsCall, ValuesCall} : ReadRight(c, req) /\ ~ CallTraps(c, req)
  PROVE  /\ MemberValue(sub, req) = DuckMember(sub, DuckRows(req), Plain(sub.left, <<>>, req))
         /\ MemberValue(sub, req) # Trap
<1>. DEFINE l == Plain(sub.left, <<>>, req)
            left == ValueOf(sub.left, <<>>, req)
            hit == HitOf(MemberCall(sub), req)
            rows == DuckRows(req)
            count == Read(RowsCall, req)
            some == \E v \in Items(rows) : Compare(PredOf(sub), l, v) = TRUE
            duck == DuckMember(sub, rows, l)
            value == MemberValue(sub, req)
<1>1. /\ hit \in Nat /\ (hit > 0 <=> some) /\ l \in Values
      /\ left = l \/ (left = Trap /\ (rows = {} \/ Vals(rows) # rows))
  BY HitsAre
<1>2. rows \subseteq DOMAIN Table
  BY DEF DuckRows
<1>3. count = Cardinality(rows) /\ Read(ValuesCall, req) = Cardinality(Vals(rows))
  BY CountReads
<1>4. /\ count \in Nat /\ (count = 0 <=> rows = {})
      /\ Read(ValuesCall, req) < count <=> Vals(rows) # rows
  BY <1>2, <1>3, RowsAreFinite
<1>5. hit # Trap /\ count # Trap
  BY <1>1, <1>4, ValuesDiffer DEF Values
<1>6. /\ some => duck = ~ sub.not
      /\ ~ some /\ (rows = {} \/ (Vals(rows) = rows /\ l # Null)) => duck = sub.not
      /\ ~ some /\ rows # {} /\ (Vals(rows) # rows \/ l = Null) => duck = Null
  BY <1>1, <1>2, DuckMembers
<1>7. value = CASE hit = Trap \/ count = Trap -> Trap
                [] hit # Trap /\ count # Trap /\ hit > 0 -> ~ sub.not
                [] hit = 0 /\ count = 0 -> sub.not
                [] hit = 0 /\ count \notin {0, Trap} ->
                     CASE Read(ValuesCall, req) < count -> Null
                       [] OTHER -> IF left \in {Null, Trap} THEN left ELSE sub.not
  BY DEF MemberValue
<1>. HIDE DEF hit, count, some, duck, value, left, l, rows
<1>8. ~ (hit = 0 /\ hit > 0) /\ (hit = 0 \/ hit > 0)
  BY <1>1
<1>9. hit > 0 => value = ~ sub.not
  BY <1>5, <1>7, <1>8, Zenon
<1>10. hit = 0 /\ count = 0 => value = sub.not
  BY <1>5, <1>7, <1>8, Zenon
<1>11. hit = 0 /\ count # 0 => value = CASE Read(ValuesCall, req) < count -> Null
                                         [] OTHER -> IF left \in {Null, Trap} THEN left ELSE sub.not
  BY <1>5, <1>7, <1>8, Zenon
<1>12. hit = 0 /\ count # 0 /\ Read(ValuesCall, req) < count => value = Null
  BY <1>11, Zenon
<1>13. hit = 0 /\ count # 0 /\ ~ (Read(ValuesCall, req) < count) =>
         value = IF left \in {Null, Trap} THEN left ELSE sub.not
  BY <1>11, Zenon
<1>14. sub.not \in BOOLEAN
  BY SubsFit
<1>15. Null # Trap /\ Trap \notin BOOLEAN /\ Trap \notin Values
  BY ValuesDiffer
<1>16. CASE hit > 0
  BY <1>1, <1>6, <1>9, <1>14, <1>15, <1>16 DEF duck, value, l, rows
<1>17. CASE hit = 0 /\ rows = {}
  BY <1>1, <1>4, <1>6, <1>8, <1>10, <1>14, <1>15, <1>17 DEF duck, value, l, rows
<1>18. CASE hit = 0 /\ rows # {} /\ Vals(rows) # rows
  BY <1>1, <1>4, <1>6, <1>8, <1>12, <1>15, <1>18 DEF duck, value, l, rows
<1>19. CASE hit = 0 /\ rows # {} /\ Vals(rows) = rows
  <2>1. left = l
    BY <1>1, <1>19
  <2>2. value = IF l \in {Null, Trap} THEN l ELSE sub.not
    BY <1>4, <1>13, <1>19, <2>1
  <2>3. l # Trap
    BY <1>1, <1>15
  <2>4. CASE l = Null
    BY <1>1, <1>6, <1>8, <1>15, <1>19, <2>2, <2>4 DEF duck, value, l, rows
  <2>5. CASE l # Null
    <3>1. value = sub.not
      BY <2>2, <2>3, <2>5
    <3>2. duck = sub.not
      BY <1>1, <1>6, <1>8, <1>19, <2>5
    <3>. QED
      BY <1>14, <1>15, <3>1, <3>2 DEF duck, value, l, rows
  <2>. QED
    BY <2>4, <2>5
<1>. QED
  BY <1>8, <1>16, <1>17, <1>18, <1>19

\* So is any subquery's value.
LEMMA SubValueRight ==
  ASSUME query \in QuerySet, NEW sub \in Subs, NEW R, NEW i \in DOMAIN Batch,
         DuckRows(ValueFor(R, i)) = DuckRows(Batch[i]),
         \A c \in ToSet(CallsOf(sub)) : ReadRight(c, Batch[i]) /\ ~ CallTraps(c, Batch[i])
  PROVE  SubValue(sub, Batch[i]) = DuckValue(sub, R, i) /\ SubValue(sub, Batch[i]) # Trap
<1>. DEFINE req == Batch[i]
            rows == DuckRows(req)
<1>0. req \in Requests
  BY QueryFits
<1>1. CASE sub.form = "value"
  <2>1. ReadRight(ValueCall(sub.item), req) /\ ~ CallTraps(ValueCall(sub.item), req)
    BY <1>1, CallsOfFit
  <2>2. ValueCall(sub.item).member = "value" /\ ValueCall(sub.item).item = sub.item
    BY SubsFit, ValueCalls
  <2>3. Read(ValueCall(sub.item), req) = Answer(sub.item, rows) /\ Answer(sub.item, rows) # Trap
    BY <2>1, <2>2 DEF ReadRight, CallTraps
  <2>4. SubValue(sub, req) = Read(ValueCall(sub.item), req)
    BY <1>1, Zenon DEF SubValue
  <2>5. DuckValue(sub, R, i) = Answer(sub.item, rows)
    BY <1>1, Zenon DEF DuckValue
  <2>. QED
    BY <2>3, <2>4, <2>5
<1>2. CASE sub.form = "exists"
  <2>1. ReadRight(RowsCall, req) /\ ~ CallTraps(RowsCall, req)
    BY <1>2, CallsOfFit
  <2>2. Read(RowsCall, req) = Cardinality(rows) /\ rows \subseteq DOMAIN Table
    BY <2>1, CountReads DEF DuckRows
  <2>3. Read(RowsCall, req) \in Nat /\ (Read(RowsCall, req) = 0 <=> rows = {})
    BY <2>2, RowsAreFinite
  <2>4. Read(RowsCall, req) # Trap /\ sub.not \in BOOLEAN
    BY <2>3, SubsFit, ValuesDiffer DEF Values
  <2>5. SubValue(sub, req) = IF Read(RowsCall, req) = Trap THEN Trap
                             ELSE IF sub.not THEN Read(RowsCall, req) = 0 ELSE Read(RowsCall, req) > 0
    BY <1>2, Zenon DEF SubValue
  <2>6. DuckValue(sub, R, i) = ((DuckRows(ValueFor(R, i)) # {}) # sub.not)
    BY <1>2, Zenon DEF DuckValue
  <2>7. SubValue(sub, req) = IF sub.not THEN Read(RowsCall, req) = 0 ELSE Read(RowsCall, req) > 0
    BY <2>4, <2>5, Zenon
  <2>8. DuckValue(sub, R, i) = IF sub.not THEN rows = {} ELSE rows # {}
    <3>1. ((rows # {}) # sub.not) = IF sub.not THEN rows = {} ELSE rows # {}
      BY <2>4
    <3>. QED
      BY <2>6, <3>1
  <2>9. (IF sub.not THEN Read(RowsCall, req) = 0 ELSE Read(RowsCall, req) > 0) = (IF sub.not THEN rows = {} ELSE rows # {})
    BY <2>3, <2>4
  <2>10. (IF sub.not THEN rows = {} ELSE rows # {}) \in BOOLEAN
    BY <2>4
  <2>11. SubValue(sub, req) = DuckValue(sub, R, i)
    BY <2>7, <2>8, <2>9, Zenon
  <2>12. DuckValue(sub, R, i) \in BOOLEAN
    BY <2>8, <2>10, Zenon
  <2>. QED
    BY <2>11, <2>12, ValuesDiffer
<1>3. CASE sub.form \in {"in", "any"}
  <2>1. \A c \in {MemberCall(sub), RowsCall, ValuesCall} : ReadRight(c, req) /\ ~ CallTraps(c, req)
    BY <1>3, CallsOfFit
  <2>2. SubValue(sub, req) = MemberValue(sub, req)
    BY <1>3, Zenon DEF SubValue
  <2>3. DuckValue(sub, R, i) = DuckMember(sub, DuckRows(ValueFor(R, i)), Plain(sub.left, <<>>, Batch[i]))
    BY <1>3, Zenon DEF DuckValue
  <2>4. /\ MemberValue(sub, req) = DuckMember(sub, DuckRows(req), Plain(sub.left, <<>>, req))
        /\ MemberValue(sub, req) # Trap
    BY <1>0, <1>3, <2>1, MemberValueRight
  <2>. QED
    BY <2>2, <2>3, <2>4
<1>. QED
  BY <1>1, <1>2, <1>3, SubsFit

-----------------------------------------------------------------------------
(* The requests of a batch that share a value of what the query correlates.*)

\* A request and the one that stands for it share rows and traps.
LEMMA Shared ==
  ASSUME query \in QuerySet, ~ WhereRefused, NEW R \in SUBSET DOMAIN Batch, NEW i \in R
  PROVE  LET d == ValueFor(R, i)
         IN /\ d \in Distinct(R) /\ Alike(d, Batch[i])
            /\ DuckRows(d) = DuckRows(Batch[i]) /\ (WhereTraps(d) <=> WhereTraps(Batch[i]))
<1>. DEFINE d == ValueFor(R, i)
            Same == { j \in R : Batch[j].x = Batch[i].x }
<1>1. R \subseteq Nat
  BY QueryFits
<1>2. Same \subseteq Nat /\ Same # {}
  BY <1>1
<1>3. Min(Same) \in Same
  BY <1>2, LeastNatural
<1>4. FirstOf(R, i) = Batch[Min(Same)]
  BY DEF FirstOf
<1>5. d \in Distinct(R)
  BY DEF ValueFor, Distinct
<1>6. Alike(d, Batch[i])
  BY <1>3, <1>4 DEF Alike, ValueFor
<1>. QED
  BY <1>5, <1>6, AlikeRequests

\* A distinct value of the batch is that of one of its requests.
LEMMA DistinctAre ==
  ASSUME query \in QuerySet, NEW R \in SUBSET DOMAIN Batch, NEW d \in Distinct(R)
  PROVE  (d = NoReq /\ ~ Correlated) \/ \E i \in R : d = Batch[i]
<1>1. CASE Correlated
  <2>1. PICK i \in R : d = FirstOf(R, i)
    BY <1>1 DEF Distinct
  <2>. DEFINE Same == { j \in R : Batch[j].x = Batch[i].x }
  <2>2. Same \subseteq Nat /\ Same # {}
    BY QueryFits
  <2>3. Min(Same) \in Same
    BY <2>2, LeastNatural
  <2>4. d = Batch[Min(Same)]
    BY <2>1 DEF FirstOf
  <2>. QED
    BY <2>3, <2>4
<1>. QED
  BY <1>1 DEF Distinct

\* What a call traps on for one request of the batch, DuckDB traps on.
LEMMA TrapIsDucks ==
  ASSUME query \in QuerySet, ~ WhereRefused, NEW R \in SUBSET DOMAIN Batch, NEW i \in R,
         NEW sub \in Subs, NEW c \in ToSet(CallsOf(sub)), CallTraps(c, Batch[i])
  PROVE  DuckTraps(sub, R)
<1>. DEFINE d == ValueFor(R, i)
            req == Batch[i]
<1>1. d \in Distinct(R) /\ DuckRows(d) = DuckRows(req) /\ (WhereTraps(d) <=> WhereTraps(req))
  BY Shared
<1>2. DuckRows(req) \subseteq DOMAIN Table
  BY DEF DuckRows
<1>3. /\ RowsCall.member = "value" /\ RowsCall.item = ItemOf("count_star")
      /\ ValuesCall.member = "value" /\ ValuesCall.item = ItemOf("count")
  BY PlainItems, ValueCalls DEF RowsCall, ValuesCall
<1>4. Answer(RowsCall.item, DuckRows(req)) # Trap /\ Answer(ValuesCall.item, DuckRows(req)) # Trap
  <2>1. /\ Answer(RowsCall.item, DuckRows(req)) = Cardinality(DuckRows(req))
        /\ Answer(ValuesCall.item, DuckRows(req)) = Cardinality(Vals(DuckRows(req)))
    BY <1>2, <1>3, Counts
  <2>2. Cardinality(DuckRows(req)) \in Nat /\ Cardinality(Vals(DuckRows(req))) \in Nat
    BY <1>2, RowsAreFinite
  <2>. QED
    BY <2>1, <2>2, ValuesDiffer DEF Values
<1>5. CASE WhereTraps(req)
  BY <1>1, <1>5 DEF DuckTraps
<1>6. CASE c.member = "value" /\ Answer(c.item, DuckRows(req)) = Trap
  <2>1. sub.form = "value" /\ c = ValueCall(sub.item)
    <3>1. c # RowsCall /\ c # ValuesCall
      BY <1>4, <1>6
    <3>2. sub.form \in {"in", "any"} => MemberCall(sub).member # "value"
      BY MemberCalls
    <3>. QED
      BY <1>6, <3>1, <3>2, CallsOfFit, SubsFit
  <2>2. c.item = sub.item
    BY <2>1, SubsFit, ValueCalls
  <2>. QED
    BY <1>1, <1>6, <2>1, <2>2 DEF DuckTraps
<1>7. CASE LeftStops(c, req)
  <2>1. c.member \in {"in", "any"} /\ Left(c, req) = Trap
    BY <1>7 DEF LeftStops
  <2>2. sub.form \in {"in", "any"} /\ c = MemberCall(sub)
    <3>1. c # RowsCall /\ c # ValuesCall
      BY <1>3, <2>1
    <3>2. sub.form = "value" => ValueCall(sub.item).member = "value"
      BY SubsFit, ValueCalls
    <3>. QED
      BY <2>1, <3>1, <3>2, CallsOfFit, SubsFit
  <2>3. ValueOf(sub.left, <<>>, Batch[i]) = Trap
    <3>1. c.left = sub.left
      BY <2>2, MemberCalls
    <3>. QED
      BY <2>1, <3>1 DEF Left
  <2>4. Vals(DuckRows(d)) # {} => Items(DuckRows(d)) \ {Null} # {}
    BY DEF Vals, Items
  <2>5. IF MemberCall(sub).member = "in" THEN Items(DuckRows(d)) \ {Null} # {} ELSE DuckRows(d) # {}
    <3>1. Vals(DuckRows(req)) # {} \/ (c.member # "in" /\ DuckRows(req) # {})
      BY <1>7 DEF LeftStops
    <3>2. Vals(DuckRows(req)) \subseteq DuckRows(req)
      BY DEF Vals
    <3>. QED
      BY <1>1, <2>2, <2>4, <3>1, <3>2
  <2>6. LeftRuns(sub, Distinct(R))
    BY <1>1, <2>5 DEF LeftRuns
  <2>. QED
    BY <2>2, <2>3, <2>6 DEF DuckTraps
<1>. QED
  BY <1>5, <1>6, <1>7 DEF CallTraps

\* DuckDB traps on nothing that no call traps on for some request of the batch.
LEMMA QuietIsDucks ==
  ASSUME query \in QuerySet, ~ WhereRefused, NEW R \in SUBSET DOMAIN Batch, NEW sub \in Subs,
         \A c \in ToSet(CallsOf(sub)) : /\ \A i \in R : ~ CallTraps(c, Batch[i])
                                        /\ c.member = "value" /\ ~ Correlated => ~ CallTraps(c, NoReq),
         sub.form \in {"in", "any"} /\ CanTrap(sub.left) => ~ Correlated
  PROVE  ~ DuckTraps(sub, R)
<1>1. PICK v \in ToSet(CallsOf(sub)) : v.member = "value" /\ (sub.form = "value" => v.item = sub.item)
  <2>1. sub.form = "value" => ValueCall(sub.item) \in ToSet(CallsOf(sub)) /\ ValueCall(sub.item).member = "value"
                              /\ ValueCall(sub.item).item = sub.item
    BY CallsOfFit, SubsFit, ValueCalls
  <2>2. sub.form # "value" => RowsCall \in ToSet(CallsOf(sub))
    BY CallsOfFit, SubsFit
  <2>3. RowsCall.member = "value"
    BY PlainItems, ValueCalls DEF RowsCall
  <2>. QED
    BY <2>1, <2>2, <2>3
<1>2. \A d \in Distinct(R) : ~ CallTraps(v, d)
  BY <1>1, DistinctAre
<1>3. \A d \in Distinct(R) : ~ WhereTraps(d) /\ ~ (sub.form = "value" /\ Answer(sub.item, DuckRows(d)) = Trap)
  BY <1>1, <1>2 DEF CallTraps
<1>4. ASSUME sub.form \in {"in", "any"}, LeftRuns(sub, Distinct(R)), NEW i \in R, ValueOf(sub.left, <<>>, Batch[i]) = Trap
      PROVE  FALSE
  <2>. DEFINE c == MemberCall(sub)
              req == Batch[i]
  <2>1. c \in ToSet(CallsOf(sub)) /\ c.left = sub.left /\ c.member \in {"in", "any"}
    BY <1>4, CallsOfFit, MemberCalls, CallsFit
  <2>2. req \in Requests /\ sub.left \in SideSet /\ ~ ReadsTable(sub.left)
    BY QueryFits, SubsFit
  <2>3. CanTrap(sub.left)
    BY <1>4, <2>2, SideValues
  <2>4. ~ Correlated
    BY <1>4, <2>3
  <2>5. PICK d \in Distinct(R) : IF c.member = "in" THEN Items(DuckRows(d)) \ {Null} # {} ELSE DuckRows(d) # {}
    BY <1>4 DEF LeftRuns
  <2>6. DuckRows(d) = DuckRows(req)
    <3>1. Alike(d, req)
      BY <2>4 DEF Alike
    <3>. QED
      BY <3>1, AlikeRequests
  <2>7. Items(DuckRows(req)) \ {Null} # {} => Vals(DuckRows(req)) # {}
    BY DEF Vals, Items
  <2>8. Left(c, req) = Trap
    BY <1>4, <2>1 DEF Left
  <2>9. LeftStops(c, req)
    BY <2>1, <2>5, <2>6, <2>7, <2>8 DEF LeftStops
  <2>. QED
    BY <2>1, <2>9 DEF CallTraps
<1>. QED
  BY <1>3, <1>4 DEF DuckTraps

-----------------------------------------------------------------------------
(* What depends on the query alone stays the same with it.                 *)

\* The WHERE is the query's.
LEMMA SameWhere ==
  ASSUME query' = query
  PROVE  /\ W' = W /\ Table' = Table /\ Batch' = Batch /\ End' = End
         /\ Keys' = Keys /\ Filters' = Filters /\ Mixed' = Mixed /\ (Correlated' <=> Correlated)
         /\ FirstKey' = FirstKey /\ (TrapKey' <=> TrapKey) /\ (LateTrap' <=> LateTrap)
         /\ (FilterTrap' <=> FilterTrap) /\ (Scanned' <=> Scanned) /\ (WhereRefused' <=> WhereRefused)
         /\ BeforeKey' = BeforeKey /\ InPlace' = InPlace
<1>1. W' = W /\ Table' = Table /\ Batch' = Batch
  BY DEF W, Table, Batch
<1>2. Keys' = Keys /\ Filters' = Filters /\ Mixed' = Mixed
  BY <1>1 DEF Keys, Filters, Mixed, Places
<1>3. (Correlated' <=> Correlated) /\ FirstKey' = FirstKey
  BY <1>2 DEF Correlated, FirstKey
<1>4. (TrapKey' <=> TrapKey) /\ (LateTrap' <=> LateTrap) /\ (FilterTrap' <=> FilterTrap)
  BY <1>1, <1>2, <1>3 DEF TrapKey, LateTrap, FilterTrap
<1>. QED
  BY <1>1, <1>2, <1>3, <1>4 DEF Scanned, WhereRefused, BeforeKey, InPlace, End

\* So are the steps of a scan.
LEMMA SameSteps ==
  ASSUME query' = query
  PROVE  /\ Steps' = Steps /\ FirstTrap(Steps)' = FirstTrap(Steps) /\ (Guarded(Steps)' <=> Guarded(Steps))
         /\ \A i : Lower(i)' = Lower(i)
         /\ \A s : Lowers(s)' = Lowers(s) /\ Whole(s)' = Whole(s)
         /\ \A i, g : Key(i, g)' = Key(i, g)
<1>1. W' = W /\ Keys' = Keys /\ Filters' = Filters /\ FirstKey' = FirstKey /\ End' = End
  BY SameWhere
<1>2. \A i : Lower(i)' = Lower(i)
  BY <1>1 DEF Lower
<1>3. Steps' = Steps
  BY <1>1, <1>2 DEF Steps, Uppers
<1>4. Trapping(Steps)' = Trapping(Steps) /\ \A n : Guardable(n)' <=> Guardable(n)
  BY <1>1, <1>3 DEF Trapping, PartTraps, Guardable
<1>5. FirstTrap(Steps)' = FirstTrap(Steps)
  BY <1>1, <1>4 DEF FirstTrap
<1>. QED
  BY <1>1, <1>2, <1>3, <1>4, <1>5 DEF Guarded, Lowers, Whole, Key

\* So is what binding makes of a call.
LEMMA SameBinding ==
  ASSUME query' = query
  PROVE  /\ \A c : /\ (Guards(c)' <=> Guards(c)) /\ GuardParts(c)' = GuardParts(c) /\ GuardItem(c)' = GuardItem(c)
                   /\ (TableRefusal(c)' <=> TableRefusal(c)) /\ (ScanRefusal(c)' <=> ScanRefusal(c))
         /\ Lowers(BeforeKey)' = Lowers(BeforeKey)
         /\ \A j, c, g : (IsTable(j, c, g)' <=> IsTable(j, c, g)) /\ (IsScan(j, c, g)' <=> IsScan(j, c, g))
<1>1. /\ W' = W /\ Keys' = Keys /\ Filters' = Filters /\ FirstKey' = FirstKey /\ End' = End /\ BeforeKey' = BeforeKey
      /\ (TrapKey' <=> TrapKey) /\ InPlace' = InPlace
  BY SameWhere
<1>2. /\ Steps' = Steps /\ FirstTrap(Steps)' = FirstTrap(Steps) /\ (Guarded(Steps)' <=> Guarded(Steps))
      /\ \A s : Lowers(s)' = Lowers(s) /\ Whole(s)' = Whole(s)
      /\ \A i, g : Key(i, g)' = Key(i, g)
  BY SameSteps
<1>3. Lowers(BeforeKey)' = Lowers(BeforeKey)
  BY <1>1, <1>2 DEF Lowers
<1>14. Whole(Filters)' = Whole(Filters)
  BY <1>1 DEF Whole
<1>4. \A c : (Guards(c)' <=> Guards(c)) /\ GuardItem(c)' = GuardItem(c)
  BY <1>1 DEF Guards, GuardItem
<1>5. \A c : GuardParts(c)' = GuardParts(c)
  BY <1>1, <1>3, <1>14 DEF GuardParts
<1>6. GuardUnsplit' <=> GuardUnsplit
  BY <1>1 DEF GuardUnsplit
<1>7. \A c : TableRefusal(c)' <=> TableRefusal(c)
  BY <1>1, <1>6 DEF TableRefusal, LeftRefused, HasMiss
<1>8. \A c : ScanRefusal(c)' <=> ScanRefusal(c)
  BY <1>1, <1>2, <1>6 DEF ScanRefusal
<1>9. \A c, g : TableKeys(c, g)' = TableKeys(c, g)
  BY <1>1, <1>2 DEF TableKeys
<1>10. \A j, c, g : IsTable(j, c, g)' <=> IsTable(j, c, g)
  BY <1>14, <1>4, <1>9 DEF IsTable
<1>11. Early("filter")' = Early("filter") /\ Early("key")' = Early("key")
  BY <1>1, <1>2 DEF Early
<1>12. ScanKeys' = ScanKeys
  BY <1>1, <1>11 DEF ScanKeys
<1>13. \A j, c, g : IsScan(j, c, g)' <=> IsScan(j, c, g)
  BY <1>1, <1>2, <1>11, <1>12 DEF IsScan
<1>. QED
  BY <1>3, <1>4, <1>5, <1>7, <1>8, <1>10, <1>13

\* So are the answers of tests and items.
LEMMA SameAnswers ==
  ASSUME query' = query
  PROVE  /\ \A p, row, req : TestPart(p, row, req)' = TestPart(p, row, req)
         /\ \A item, rows : Answer(item, rows)' = Answer(item, rows)
         /\ \A item, rows : Aggregate(item, rows)' = Aggregate(item, rows)
<1>1. W' = W /\ Table' = Table
  BY SameWhere
<1>2. \A p, row, req : TestPart(p, row, req)' = TestPart(p, row, req)
  BY <1>1 DEF TestPart
<1>3. \A rows : Vals(rows)' = Vals(rows) /\ Firsts(rows)' = Firsts(rows) /\ SumOver(rows)' = SumOver(rows)
  BY <1>1 DEF Vals, Firsts, SumOver
<1>4. \A item, rows : Aggregate(item, rows)' = Aggregate(item, rows)
  BY <1>1, <1>3 DEF Aggregate
<1>5. \A order, rows : KeptRows(order, rows)' = KeptRows(order, rows)
  BY <1>1 DEF KeptRows, Before, Limit, Offset
<1>6. \A item, rows : RowItem(item, rows)' = RowItem(item, rows)
  BY <1>1, <1>5 DEF RowItem
<1>. QED
  BY <1>2, <1>4, <1>6 DEF Answer

\* So is what the build makes of a join.
LEMMA SameTables ==
  ASSUME query' = query
  PROVE  \A j : TableOf(j)' = TableOf(j) /\ (TableRefused(j)' <=> TableRefused(j))
<1>1. W' = W /\ Table' = Table
  BY SameWhere
<1>2. /\ \A p, row, req : TestPart(p, row, req)' = TestPart(p, row, req)
      /\ \A item, rows : Answer(item, rows)' = Answer(item, rows)
      /\ \A item, rows : Aggregate(item, rows)' = Aggregate(item, rows)
  BY SameAnswers
<1>3. \A j : Passing(j)' = Passing(j)
  BY <1>1, <1>2 DEF Passing
<1>4. \A j, r : StoredKey(j, r)' = StoredKey(j, r)
  BY <1>1 DEF StoredKey
<1>5. \A j : Stored(j)' = Stored(j)
  BY <1>3, <1>4 DEF Stored
<1>6. \A j, key, rows : RowsUnder(j, key, rows)' = RowsUnder(j, key, rows)
  BY <1>4 DEF RowsUnder
<1>13. \A j, key : RowsUnder(j, key, Stored(j))' = RowsUnder(j, key, Stored(j))
  BY <1>4, <1>5 DEF RowsUnder
<1>7. \A j : GroupKeys(j)' = GroupKeys(j)
  BY <1>4, <1>5 DEF GroupKeys
<1>8. \A call, rows : Group(call, rows)' = Group(call, rows)
  BY <1>2 DEF Group
<1>14. \A j : Answer(j.call.item, Passing(j))' = Answer(j.call.item, Passing(j))
  BY <1>2, <1>3
<1>15. \A j, key : Group(j.call, RowsUnder(j, key, Stored(j)))' = Group(j.call, RowsUnder(j, key, Stored(j)))
  BY <1>13, <1>8
<1>9. \A j : TableOf(j)' = TableOf(j)
  BY <1>5, <1>7, <1>14, <1>15 DEF TableOf
<1>10. \A j : BuildTraps(j)' <=> BuildTraps(j)
  BY <1>1, <1>2 DEF BuildTraps
<1>11. \A j, key : Answer(j.call.item, RowsUnder(j, key, Stored(j)))' = Answer(j.call.item, RowsUnder(j, key, Stored(j)))
  BY <1>2, <1>13
<1>12. \A j : TableRefused(j)' <=> TableRefused(j)
  BY <1>13, <1>7, <1>10, <1>11 DEF TableRefused
<1>. QED
  BY <1>9, <1>12

\* So is what DuckDB answers.
LEMMA SameDuck ==
  ASSUME query' = query
  PROVE  DuckAnswers' = DuckAnswers /\ DuckPasses' = DuckPasses /\ (DuckBatchTraps' <=> DuckBatchTraps)
<1>1. W' = W /\ Table' = Table /\ Batch' = Batch /\ (Correlated' <=> Correlated)
  BY SameWhere
<1>2. /\ \A p, row, req : TestPart(p, row, req)' = TestPart(p, row, req)
      /\ \A item, rows : Answer(item, rows)' = Answer(item, rows)
  BY SameAnswers
<1>3. DuckSteps' = DuckSteps
  BY <1>1 DEF DuckSteps, Uppers
<1>4. \A d, r, n : DuckReaches(d, r, n)' <=> DuckReaches(d, r, n)
  BY <1>1, <1>2, <1>3 DEF DuckReaches
<1>5. \A d : DuckRows(d)' = DuckRows(d)
  BY <1>1, <1>4 DEF DuckRows, End
<1>6. \A d : WhereTraps(d)' <=> WhereTraps(d)
  BY <1>1, <1>2, <1>3, <1>4 DEF WhereTraps
<1>7. \A rows : Items(rows)' = Items(rows)
  BY <1>1 DEF Items
<1>8. \A R, i : FirstOf(R, i)' = FirstOf(R, i)
  BY <1>1 DEF FirstOf
<1>9. \A R : Distinct(R)' = Distinct(R)
  BY <1>1, <1>8 DEF Distinct
<1>10. \A R, i : ValueFor(R, i)' = ValueFor(R, i)
  BY <1>1, <1>8 DEF ValueFor
<1>11. \A sub, D : LeftRuns(sub, D)' <=> LeftRuns(sub, D)
  BY <1>5, <1>7 DEF LeftRuns
<1>12. \A sub, R : LeftRuns(sub, Distinct(R))' <=> LeftRuns(sub, Distinct(R))
  BY <1>5, <1>7, <1>9 DEF LeftRuns
<1>13. \A item, d : Answer(item, DuckRows(d))' = Answer(item, DuckRows(d))
  BY <1>2, <1>5
<1>14. \A sub, R : DuckTraps(sub, R)' <=> DuckTraps(sub, R)
  BY <1>1, <1>6, <1>9, <1>12, <1>13 DEF DuckTraps
<1>15. \A sub, rows, left : DuckMember(sub, rows, left)' = DuckMember(sub, rows, left)
  BY <1>7 DEF DuckMember
<1>16. \A R, i : DuckRows(ValueFor(R, i))' = DuckRows(ValueFor(R, i))
  BY <1>5, <1>10
<1>17. \A sub, R, i : DuckValue(sub, R, i)' = DuckValue(sub, R, i)
  <2>1. \A item, R, i : Answer(item, DuckRows(ValueFor(R, i)))' = Answer(item, DuckRows(ValueFor(R, i)))
    BY <1>2, <1>16
  <2>2. \A sub, R, i, left : DuckMember(sub, DuckRows(ValueFor(R, i)), left)' = DuckMember(sub, DuckRows(ValueFor(R, i)), left)
    BY <1>15, <1>16
  <2>. QED
    BY <1>1, <1>16, <2>1, <2>2 DEF DuckValue
<1>18. Reaching' = Reaching
  BY <1>1 DEF Reaching
<1>19. DuckPasses' = DuckPasses
  BY <1>1, <1>17, <1>18 DEF DuckPasses
<1>20. DuckAnswers' = DuckAnswers
  BY <1>1, <1>17, <1>19 DEF DuckAnswers
<1>21. DuckBatchTraps' <=> DuckBatchTraps
  BY <1>14, <1>18, <1>19 DEF DuckBatchTraps, FilterTraps
<1>. QED
  BY <1>19, <1>20, <1>21

-----------------------------------------------------------------------------
(* What has been bound.                                                    *)

\* Every value that the subqueries read, and those still to bind.
Wanted == UNION { ToSet(CallsOf(sub)) : sub \in SubsOf }
Listed(s) == UNION { ToSet(s[m]) : m \in DOMAIN s }
Lists == Seq(Seq(Calls) \ {<<>>})

Guarding(g, needed, parts, item) == \/ g = NoJoin /\ ~ needed
                                    \/ g \in DOMAIN joins /\ needed /\ IsGuard(joins[g], parts, item)
\* The join that a bound value reads was bound as the query asks.
BoundAs(c) ==
  /\ ~ WhereRefused /\ reads[c] \in DOMAIN joins
  /\ ~ Scanned => /\ ~ TableRefusal(c)
                  /\ \E g : /\ IsTable(joins[reads[c]], c, g)
                            /\ Guarding(g, Guards(c), GuardParts(c), GuardItem(c))
  /\ Scanned => /\ ~ ScanRefusal(c)
                /\ \E g : /\ IsScan(joins[reads[c]], c, g)
                          /\ Guarding(g, Guarded(Steps), Lowers(BeforeKey), ItemOf("count_star"))
IsJoin(j) == DOMAIN j = {"how", "parts", "keys", "preds", "call", "traps", "after_where"}
BareGuard(j) == /\ j.how = "guard" /\ j.keys = << >> /\ j.traps = FALSE
                /\ Scanned => Guarded(Steps)
                /\ j.parts = IF TrapKey THEN Lowers(BeforeKey) ELSE Whole(Filters)
BindInv ==
  /\ query \in QuerySet
  /\ joins \in Seq(ToSet(joins)) /\ \A n \in DOMAIN joins : IsJoin(joins[n])
  /\ calls \in Lists
  /\ DOMAIN reads \union Listed(calls) = Wanted
  /\ \A c \in DOMAIN reads : BoundAs(c)
  /\ \A n \in DOMAIN joins : (\E c \in DOMAIN reads : n = reads[c]) \/ BareGuard(joins[n])

\* The first value listed is taken; the rest stay.
LEMMA LaterCallsAre ==
  ASSUME calls \in Lists, calls # <<>>
  PROVE  /\ Call \in Calls /\ LaterCalls \in Lists
         /\ Listed(calls) = {Call} \union Listed(LaterCalls)
<1>. DEFINE T == Seq(Calls) \ {<<>>}
            first == calls[1]
            rest == Tail(calls)
<1>1. calls \in Seq(T) /\ Len(calls) \in Nat \ {0} /\ DOMAIN calls = 1 .. Len(calls) /\ first \in T
  BY LenProperties, EmptySeq DEF Lists
<1>2. first \in Seq(Calls) /\ Len(first) \in Nat \ {0} /\ DOMAIN first = 1 .. Len(first) /\ Call \in Calls /\ Call = first[1]
  BY <1>1, LenProperties, EmptySeq DEF Call
<1>. HIDE DEF T, first
<1>3. rest \in Seq(T) /\ Len(rest) = Len(calls) - 1 /\ DOMAIN rest = 1 .. Len(rest)
      /\ \A m \in 1 .. Len(rest) : rest[m] = calls[m + 1]
  BY <1>1, HeadTailProperties, LenProperties DEF first
<1>4. Listed(calls) = ToSet(first) \union Listed(rest)
  <2>1. \A m \in DOMAIN calls : m = 1 \/ (m - 1 \in DOMAIN rest /\ rest[m - 1] = calls[m])
    BY <1>1, <1>3
  <2>2. \A m \in DOMAIN rest : m + 1 \in DOMAIN calls /\ calls[m + 1] = rest[m]
    BY <1>1, <1>3
  <2>3. 1 \in DOMAIN calls /\ calls[1] = first
    BY <1>1 DEF first
  <2>. HIDE DEF rest
  <2>. QED
    BY <2>1, <2>2, <2>3 DEF Listed
<1>5. CASE Len(first) = 1
  <2>1. LaterCalls = rest
    <3>1. LaterCalls = <<>> \o rest
      BY <1>5 DEF LaterCalls, first
    <3>. QED
      BY <1>3, <3>1, ConcatEmptySeq
  <2>2. ToSet(first) = {Call}
    BY <1>2, <1>5 DEF ToSet
  <2>. QED
    BY <1>2, <1>3, <1>4, <2>1, <2>2 DEF Lists, T
<1>6. CASE Len(first) # 1
  <2>. DEFINE tail == Tail(first)
              new == <<tail>>
  <2>1. first # <<>> /\ tail \in Seq(Calls) /\ Len(tail) = Len(first) - 1 /\ DOMAIN tail = 1 .. Len(tail)
        /\ \A m \in 1 .. Len(tail) : tail[m] = first[m + 1]
    BY <1>2, HeadTailProperties, LenProperties, EmptySeq
  <2>2. tail \in T
    BY <1>2, <1>6, <2>1, EmptySeq DEF T
  <2>3. ToSet(first) = {Call} \union ToSet(tail)
    <3>1. \A m \in DOMAIN first : m = 1 \/ (m - 1 \in DOMAIN tail /\ tail[m - 1] = first[m])
      BY <1>2, <2>1
    <3>2. \A m \in DOMAIN tail : m + 1 \in DOMAIN first /\ first[m + 1] = tail[m]
      BY <1>2, <2>1
    <3>3. 1 \in DOMAIN first
      BY <1>2
    <3>. HIDE DEF tail
    <3>. QED
      BY <1>2, <3>1, <3>2, <3>3 DEF ToSet
  <2>. HIDE DEF tail
  <2>4. LaterCalls = new \o rest
    BY <1>2, <1>6 DEF LaterCalls, first, tail
  <2>5. new \in Seq(T) /\ Len(new) = 1 /\ DOMAIN new = {1} /\ new[1] = tail
    BY <2>2
  <2>. HIDE DEF new, rest
  <2>6. LaterCalls \in Seq(T) /\ Len(LaterCalls) = 1 + Len(rest) /\ DOMAIN LaterCalls = 1 .. 1 + Len(rest)
        /\ \A m \in 1 .. 1 + Len(rest) : LaterCalls[m] = IF m <= 1 THEN new[m] ELSE rest[m - 1]
    <3>1. Len(rest) \in Nat
      BY <1>3, LenProperties
    <3>2. /\ new \o rest \in Seq(T) /\ Len(new \o rest) = Len(new) + Len(rest)
          /\ \A m \in 1 .. Len(new) + Len(rest) :
               (new \o rest)[m] = IF m <= Len(new) THEN new[m] ELSE rest[m - Len(new)]
      BY <1>3, <2>5, ConcatProperties
    <3>3. DOMAIN (new \o rest) = 1 .. Len(new \o rest)
      BY <3>2, LenProperties
    <3>. QED
      BY <2>4, <2>5, <3>1, <3>2, <3>3
  <2>7. Listed(LaterCalls) = ToSet(tail) \union Listed(rest)
    <3>0. Len(rest) \in Nat
      BY <1>1, <1>3
    <3>1. \A m \in DOMAIN LaterCalls : (m = 1 /\ LaterCalls[m] = tail) \/ (m - 1 \in DOMAIN rest /\ rest[m - 1] = LaterCalls[m])
      BY <1>3, <2>5, <2>6, <3>0
    <3>2. \A m \in DOMAIN rest : m + 1 \in DOMAIN LaterCalls /\ LaterCalls[m + 1] = rest[m]
      BY <1>3, <2>6, <3>0
    <3>3. 1 \in DOMAIN LaterCalls /\ LaterCalls[1] = tail
      BY <2>5, <2>6, <3>0
    <3>. QED
      BY <3>1, <3>2, <3>3 DEF Listed
  <2>. QED
    BY <1>2, <1>4, <2>3, <2>6, <2>7 DEF Lists, T
<1>. QED
  BY <1>5, <1>6

\* A join, after the guard it reads, is added to those bound before.
NewList(new, g, G, J1) == /\ new \in Seq({G, J1}) /\ Len(new) = (IF g # NoJoin THEN 2 ELSE 1)
                          /\ new[Len(new)] = J1 /\ (g # NoJoin => new[1] = G)

\* A list of a join, after its guard if it has one.
LEMMA NewListIs ==
  ASSUME NEW G, NEW J1, NEW g
  PROVE  NewList((IF g = NoJoin THEN <<>> ELSE <<G>>) \o <<J1>>, g, G, J1)
<1>. DEFINE U == {G, J1}
            pre == IF g = NoJoin THEN <<>> ELSE <<G>>
            last == <<J1>>
<1>1. pre \in Seq(U) /\ Len(pre) = (IF g # NoJoin THEN 1 ELSE 0) /\ (g # NoJoin => pre[1] = G)
  <2>1. g # NoJoin => pre = <<G>>
    OBVIOUS
  <2>2. g = NoJoin => pre = <<>>
    OBVIOUS
  <2>3. <<G>> \in Seq(U) /\ Len(<<G>>) = 1 /\ <<G>>[1] = G
    OBVIOUS
  <2>4. <<>> \in Seq(U) /\ Len(<<>>) = 0
    OBVIOUS
  <2>. HIDE DEF pre, U
  <2>5. CASE g # NoJoin
    BY <2>1, <2>3, <2>5
  <2>6. CASE g = NoJoin
    BY <2>2, <2>4, <2>6
  <2>. QED
    BY <2>5, <2>6
<1>2. last \in Seq(U) /\ Len(last) = 1 /\ last[1] = J1
  OBVIOUS
<1>. HIDE DEF pre, last, U
<1>3. /\ pre \o last \in Seq(U) /\ Len(pre \o last) = Len(pre) + Len(last)
      /\ \A i \in 1 .. Len(pre) + Len(last) :
           (pre \o last)[i] = IF i <= Len(pre) THEN pre[i] ELSE last[i - Len(pre)]
  BY <1>1, <1>2, ConcatProperties
<1>4. NewList(pre \o last, g, G, J1)
  BY <1>1, <1>2, <1>3 DEF NewList, U
<1>. QED
  BY <1>4 DEF pre, last

AddedTo(all, n, g, G, J1) ==
  /\ all \in Seq(ToSet(all)) /\ n \in DOMAIN all /\ all[n] = J1
  /\ \A m \in DOMAIN joins : m \in DOMAIN all /\ all[m] = joins[m]
  /\ g # NoJoin => g \in DOMAIN all /\ all[g] = G
  /\ \A m \in DOMAIN all : m \in DOMAIN joins \/ m = n \/ (g # NoJoin /\ m = g)

\* Added to those bound, it leaves them where they are.
LEMMA NewJoinsAre ==
  ASSUME joins \in Seq(ToSet(joins)), NEW G, NEW J1, NEW g \in {NoJoin, Len(joins) + 1},
         NEW new, NewList(new, g, G, J1)
  PROVE  AddedTo(joins \o new, Len(joins) + Len(new), g, G, J1)
<1>. DEFINE all == joins \o new
            n == Len(joins) + Len(new)
            U == ToSet(joins) \union {G, J1}
<1>1. Len(joins) \in Nat /\ DOMAIN joins = 1 .. Len(joins) /\ joins \in Seq(U)
  BY LenProperties, SeqMonotonic
<1>2. g # NoJoin => g = Len(joins) + 1
  OBVIOUS
<1>4. new \in Seq(U) /\ Len(new) = (IF g # NoJoin THEN 2 ELSE 1) /\ DOMAIN new = 1 .. Len(new)
      /\ new[Len(new)] = J1 /\ (g # NoJoin => new[1] = G)
  <2>1. {G, J1} \subseteq U
    OBVIOUS
  <2>. HIDE DEF U
  <2>. QED
    BY <2>1, SeqMonotonic, LenProperties DEF NewList
<1>. HIDE DEF U
<1>5. all \in Seq(U) /\ Len(all) = Len(joins) + Len(new) /\ DOMAIN all = 1 .. Len(joins) + Len(new)
      /\ \A i \in 1 .. Len(joins) + Len(new) : all[i] = IF i <= Len(joins) THEN joins[i] ELSE new[i - Len(joins)]
  <2>1. /\ all \in Seq(U) /\ Len(all) = Len(joins) + Len(new)
        /\ \A i \in 1 .. Len(joins) + Len(new) : all[i] = IF i <= Len(joins) THEN joins[i] ELSE new[i - Len(joins)]
    BY <1>1, <1>4, ConcatProperties
  <2>2. DOMAIN all = 1 .. Len(all)
    BY <2>1, LenProperties
  <2>. QED
    BY <2>1, <2>2
<1>. HIDE DEF all
<1>6. all \in Seq(ToSet(all))
  <2>1. ToSet(all) = { all[i] : i \in DOMAIN all }
    BY DEF ToSet
  <2>. QED
    BY <1>5, <2>1, LenProperties
<1>7. n \in DOMAIN all /\ all[n] = J1
  BY <1>1, <1>4, <1>5
<1>8. \A m \in DOMAIN joins : m \in DOMAIN all /\ all[m] = joins[m]
  BY <1>1, <1>4, <1>5
<1>9. g # NoJoin => g \in DOMAIN all /\ all[g] = G
  BY <1>1, <1>2, <1>4, <1>5
<1>10. \A m \in DOMAIN all : m \in DOMAIN joins \/ m = n \/ (g # NoJoin /\ m = g)
  <2>1. g # NoJoin => Len(new) = 2
    BY <1>4
  <2>2. g = NoJoin => Len(new) = 1
    BY <1>4
  <2>. TAKE m \in DOMAIN all
  <2>3. m \in Nat /\ m <= Len(joins) + Len(new) /\ (m \in DOMAIN joins <=> m <= Len(joins)) /\ m > 0
    BY <1>1, <1>4, <1>5
  <2>. HIDE DEF n
  <2>0. Len(joins) \in Nat
    BY <1>1
  <2>4. CASE g = NoJoin
    <3>1. m <= Len(joins) \/ m = Len(joins) + 1
      <4>1. Len(new) = 1
        BY <2>2, <2>4
      <4>2. m \in Nat /\ m <= Len(joins) + Len(new)
        BY <2>3
      <4>. QED
        BY <2>0, <4>1, <4>2
    <3>2. n = Len(joins) + 1
      BY <2>2, <2>4 DEF n
    <3>. QED
      BY <2>3, <3>1, <3>2
  <2>5. CASE g # NoJoin
    <3>1. m <= Len(joins) \/ m = Len(joins) + 1 \/ m = Len(joins) + 2
      <4>1. Len(new) = 2
        BY <2>1, <2>5
      <4>2. m \in Nat /\ m <= Len(joins) + Len(new)
        BY <2>3
      <4>. QED
        BY <2>0, <4>1, <4>2
    <3>2. n = Len(joins) + 2
      BY <2>1, <2>5 DEF n
    <3>. QED
      BY <1>2, <2>3, <2>5, <3>1, <3>2
  <2>. QED
    BY <2>4, <2>5
<1>. QED
  BY <1>6, <1>7, <1>8, <1>9, <1>10 DEF all, AddedTo

\* Joins that are bound stay as they are, but for where they run.
SameJoin(j, k) == /\ j.how = k.how /\ j.parts = k.parts /\ j.keys = k.keys /\ j.preds = k.preds
                  /\ j.call = k.call /\ j.traps = k.traps

\* Whether a join is a guard is up to the query.
LEMMA SameGuards ==
  ASSUME query' = query
  PROVE  \A j : BareGuard(j)' <=> BareGuard(j)
<1>1. (Scanned' <=> Scanned) /\ (TrapKey' <=> TrapKey) /\ Filters' = Filters
  BY SameWhere
<1>2. Guarded(Steps)' <=> Guarded(Steps)
  BY SameSteps
<1>3. Lowers(BeforeKey)' = Lowers(BeforeKey)
  BY SameBinding
<1>4. Whole(Filters)' = Whole(Filters)
  BY <1>1 DEF Whole
<1>. QED
  BY <1>1, <1>2, <1>3, <1>4 DEF BareGuard

\* A bound value stays bound as the query asks.
LEMMA BoundStays ==
  ASSUME query' = query, \A n \in DOMAIN joins : n \in DOMAIN joins' /\ SameJoin(joins'[n], joins[n]),
         NEW c, BoundAs(c), reads'[c] = reads[c]
  PROVE  BoundAs(c)'
<1>1. /\ (WhereRefused' <=> WhereRefused) /\ (Scanned' <=> Scanned) /\ (Guarded(Steps)' <=> Guarded(Steps))
      /\ (Guards(c)' <=> Guards(c)) /\ GuardParts(c)' = GuardParts(c) /\ GuardItem(c)' = GuardItem(c)
      /\ (TableRefusal(c)' <=> TableRefusal(c)) /\ (ScanRefusal(c)' <=> ScanRefusal(c))
      /\ Lowers(BeforeKey)' = Lowers(BeforeKey)
  BY SameWhere, SameSteps, SameBinding
<1>2. /\ \A j, g : (IsTable(j, c, g)' <=> IsTable(j, c, g)) /\ (IsScan(j, c, g)' <=> IsScan(j, c, g))
  BY SameBinding
<1>3. reads[c] \in DOMAIN joins /\ reads'[c] \in DOMAIN joins' /\ SameJoin(joins'[reads'[c]], joins[reads[c]])
  BY DEF BoundAs
<1>4. \A g, parts, item : g \in DOMAIN joins /\ IsGuard(joins[g], parts, item)
                            => g \in DOMAIN joins' /\ IsGuard(joins'[g], parts, item)
  BY DEF SameJoin, IsGuard
<1>5. \A j, k, g : SameJoin(j, k) => (IsTable(k, c, g) => IsTable(j, c, g)) /\ (IsScan(k, c, g) => IsScan(j, c, g))
  BY DEF SameJoin, IsTable, IsScan
<1>6. \A j, parts, item : IsGuard(j, parts, item)' <=> IsGuard(j, parts, item)
  BY DEF IsGuard
<1>7. CASE ~ Scanned
  <2>1. PICK g : /\ IsTable(joins[reads[c]], c, g) /\ Guarding(g, Guards(c), GuardParts(c), GuardItem(c))
    BY <1>7 DEF BoundAs
  <2>2. IsTable(joins[reads[c]], c, g)'
    BY <1>2, <1>3, <1>5, <2>1
  <2>3. Guarding(g, Guards(c), GuardParts(c), GuardItem(c))'
    BY <1>1, <1>4, <1>6, <2>1 DEF Guarding
  <2>. QED
    BY <1>1, <1>3, <1>7, <2>2, <2>3 DEF BoundAs
<1>8. CASE Scanned
  <2>1. PICK g : /\ IsScan(joins[reads[c]], c, g)
                 /\ Guarding(g, Guarded(Steps), Lowers(BeforeKey), ItemOf("count_star"))
    BY <1>8 DEF BoundAs
  <2>2. IsScan(joins[reads[c]], c, g)'
    BY <1>2, <1>3, <1>5, <2>1
  <2>3. Guarding(g, Guarded(Steps), Lowers(BeforeKey), ItemOf("count_star"))'
    BY <1>1, <1>4, <1>6, <2>1 DEF Guarding
  <2>. QED
    BY <1>1, <1>3, <1>8, <2>2, <2>3 DEF BoundAs
<1>. QED
  BY <1>7, <1>8

Stages == {"bind", "build", "head", "where", "tail", "emit", "served", "refused", "trapped"}
\* What has been placed and built.
Prepared(n) == /\ joins[n].after_where = (~ query.many /\ n \notin ReadByWhere)
               /\ query.many => ~ joins[n].traps
Built(n) == tables[n] = TableOf(joins[n]) /\ ~ TableRefused(joins[n])
PrepareInv ==
  /\ at \in Stages
  /\ at = "bind" => tables = <<>>
  /\ at \in {"bind", "build"} => answers = <<>>
  /\ at \notin {"bind", "refused"} =>
       /\ calls = <<>> /\ tables \in Seq(ToSet(tables)) /\ Len(tables) <= Len(joins)
       /\ \A n \in DOMAIN joins : Prepared(n)
       /\ \A n \in DOMAIN tables : Built(n)
       /\ at # "build" => Len(tables) = Len(joins)

\* Every value is still to bind.
LEMMA BindInit == Init => BindInv
<1>. SUFFICES ASSUME Init PROVE BindInv
  OBVIOUS
<1>. DEFINE subs == query.select \o query.filter
<1>1. query \in QuerySet
  BY QueriesAssumption DEF Init
<1>2. subs \in Seq(Subs)
  BY <1>1, QueryFits, ConcatProperties
<1>3. Len(subs) \in Nat /\ DOMAIN subs = 1 .. Len(subs) /\ \A n \in DOMAIN subs : subs[n] \in Subs
  BY <1>2, LenProperties, ElementOfSeq
<1>4. calls = [ n \in DOMAIN subs |-> CallsOf(subs[n]) ] /\ joins = <<>> /\ reads = << >>
  BY DEF Init
<1>5. SubsOf = { subs[n] : n \in DOMAIN subs }
  BY DEF SubsOf, ToSet
<1>. HIDE DEF subs
<1>6. \A n \in DOMAIN subs : calls[n] \in Seq(Calls) \ {<<>>}
  <2>. TAKE n \in DOMAIN subs
  <2>1. CallsOf(subs[n]) \in Seq(Calls) /\ Len(CallsOf(subs[n])) > 0
    BY <1>3, CallsOfFit
  <2>2. Len(<<>>) = 0
    OBVIOUS
  <2>. QED
    BY <1>4, <2>1, <2>2
<1>7. calls \in Lists
  <2>. DEFINE T == Seq(Calls) \ {<<>>}
  <2>1. \A n \in 1 .. Len(subs) : calls[n] \in T
    BY <1>3, <1>6
  <2>2. calls = [ n \in 1 .. Len(subs) |-> calls[n] ]
    BY <1>3, <1>4
  <2>. HIDE DEF T
  <2>3. calls \in Seq(T)
    BY <1>3, <2>1, <2>2
  <2>. QED
    BY <2>3 DEF Lists, T
<1>8. DOMAIN reads = {} /\ DOMAIN joins = {} /\ joins \in Seq(ToSet(joins))
  BY <1>4
<1>9. Listed(calls) = Wanted
  <2>1. DOMAIN calls = DOMAIN subs /\ \A n \in DOMAIN subs : calls[n] = CallsOf(subs[n])
    BY <1>4
  <2>2. Listed(calls) = UNION { ToSet(CallsOf(subs[n])) : n \in DOMAIN subs }
    BY <2>1 DEF Listed
  <2>. QED
    BY <1>5, <2>2 DEF Wanted
<1>. QED
  BY <1>1, <1>7, <1>8, <1>9 DEF BindInv

\* What the subqueries read is up to the query.
LEMMA WantedStays == query' = query => Wanted' = Wanted
BY DEF Wanted, SubsOf

\* A step that binds one value more.
LEMMA BoundKeeps ==
  ASSUME BindInv, calls # <<>>, Call \notin DOMAIN reads, NEW G, NEW J1,
         NEW g \in {NoJoin, Len(joins) + 1},
         NEW new, NewList(new, g, G, J1),
         NEW call, call = Call, Bound(call, new), g # NoJoin => BareGuard(G), IsJoin(G), IsJoin(J1), BoundAs(call)'
  PROVE  BindInv'
<1>1. /\ joins' = joins \o new /\ calls' = LaterCalls /\ query' = query
      /\ DOMAIN reads' = DOMAIN reads \union {call} /\ reads'[call] = Len(joins) + Len(new)
      /\ \A c \in DOMAIN reads : reads'[c] = reads[c]
  BY DEF Bound
<1>2. /\ joins' \in Seq(ToSet(joins'))
      /\ \A m \in DOMAIN joins : m \in DOMAIN joins' /\ joins'[m] = joins[m]
      /\ \A m \in DOMAIN joins' : \/ m \in DOMAIN joins
                                  \/ m = Len(joins) + Len(new) /\ joins'[m] = J1
                                  \/ g # NoJoin /\ joins'[m] = G
  <2>1. joins \in Seq(ToSet(joins))
    BY DEF BindInv
  <2>2. AddedTo(joins \o new, Len(joins) + Len(new), g, G, J1)
    BY <2>1, NewJoinsAre, Zenon
  <2>. QED
    BY <1>1, <2>2 DEF AddedTo
<1>3. Wanted' = Wanted /\ LaterCalls \in Lists /\ Listed(calls) = {call} \union Listed(LaterCalls)
  BY <1>1, WantedStays, LaterCallsAre DEF BindInv
<1>4. Lists' = Lists /\ Listed(calls)' = Listed(LaterCalls)
  BY <1>1 DEF Lists, Listed
<1>5. \A c \in DOMAIN reads' : BoundAs(c)'
  <2>. TAKE c \in DOMAIN reads'
  <2>1. CASE c = call
    BY <2>1
  <2>2. CASE c # call
    <3>1. \A n \in DOMAIN joins : n \in DOMAIN joins' /\ SameJoin(joins'[n], joins[n])
      BY <1>2 DEF SameJoin
    <3>2. BoundAs(c) /\ reads'[c] = reads[c]
      BY <1>1, <2>2 DEF BindInv
    <3>. QED
      BY <1>1, <3>1, <3>2, BoundStays
  <2>. QED
    BY <2>1, <2>2
<1>6. \A n \in DOMAIN joins' : (\E c \in DOMAIN reads' : n = reads'[c]) \/ BareGuard(joins'[n])
  <2>. TAKE n \in DOMAIN joins'
  <2>1. n \in DOMAIN joins => (\E c \in DOMAIN reads : n = reads[c]) \/ BareGuard(joins[n])
    BY DEF BindInv
  <2>. QED
    BY <1>1, <1>2, <2>1
<1>7. query' \in QuerySet' /\ QuerySet' = QuerySet
  BY <1>1 DEF BindInv
<1>8. DOMAIN reads' \union Listed(calls)' = Wanted'
  BY <1>1, <1>3, <1>4 DEF BindInv
<1>9. calls' \in Lists'
  BY <1>1, <1>3, <1>4
<1>10. joins' \in Seq(ToSet(joins))'
  BY <1>2
<1>11. \A n \in DOMAIN joins' : IsJoin(joins'[n])
  BY <1>2 DEF BindInv
<1>12. \A n \in DOMAIN joins' : ((\E c \in DOMAIN reads : n = reads[c]) \/ BareGuard(joins[n]))'
  BY <1>1, <1>6, SameGuards
<1>. QED
  BY <1>5, <1>7, <1>8, <1>9, <1>10, <1>11, <1>12 DEF BindInv, IsJoin

\* The joins that binding makes are a table, a scan and a guard as they should be.
LEMMA MadeJoins ==
  /\ \A c, g : IsTable(TableJoin(c, g), c, g) /\ IsScan(ScanJoin(c, g), c, g)
  /\ \A parts, item : IsGuard(GuardJoin(parts, item), parts, item)
  /\ (\A c, g : IsJoin(TableJoin(c, g)) /\ IsJoin(ScanJoin(c, g))) /\ \A parts, item : IsJoin(GuardJoin(parts, item))
<1>1. \A c, g : IsTable(TableJoin(c, g), c, g)
  BY DEF IsTable, TableJoin, Join
<1>2. \A c, g : IsScan(ScanJoin(c, g), c, g)
  BY DEF IsScan, ScanJoin, Join
<1>3. \A parts, item : IsGuard(GuardJoin(parts, item), parts, item)
  BY DEF IsGuard, GuardJoin, Join
<1>4. (\A c, g : IsJoin(TableJoin(c, g)) /\ IsJoin(ScanJoin(c, g))) /\ \A parts, item : IsJoin(GuardJoin(parts, item))
  BY DEF TableJoin, ScanJoin, GuardJoin, Join, IsJoin
<1>. QED
  BY <1>1, <1>2, <1>3, <1>4

\* A value bound to a table is bound as the query asks.
LEMMA TableBinds ==
  ASSUME BindInv, BindTable
  PROVE  BindInv'
<1>1. PICK call : call = Call
  OBVIOUS
<1>2. PICK g : g = IF Guards(call) THEN Len(joins) + 1 ELSE NoJoin
  OBVIOUS
<1>3. PICK G : G = GuardJoin(GuardParts(call), GuardItem(call))
  OBVIOUS
<1>4. PICK J1 : J1 = TableJoin(call, g)
  OBVIOUS
<1>5. PICK new : new = (IF g = NoJoin THEN <<>> ELSE <<G>>) \o <<J1>>
  OBVIOUS
<1>6. /\ calls # <<>> /\ Call \notin DOMAIN reads /\ ~ WhereRefused /\ ~ Scanned /\ ~ TableRefusal(call)
      /\ Bound(call, new)
  BY <1>1, <1>2, <1>3, <1>4, <1>5 DEF BindTable
<1>7. NewList(new, g, G, J1) /\ g \in {NoJoin, Len(joins) + 1}
  BY <1>2, <1>5, NewListIs
<1>8. joins \in Seq(ToSet(joins)) /\ Len(joins) \in Nat
  BY LenProperties DEF BindInv
<1>9. (g # NoJoin <=> Guards(call)) /\ (g = NoJoin <=> ~ Guards(call))
  BY <1>2, <1>8 DEF NoJoin
<1>10. AddedTo(joins \o new, Len(joins) + Len(new), g, G, J1)
  BY <1>7, <1>8, NewJoinsAre, Zenon
<1>11. joins' = joins \o new /\ reads'[call] = Len(joins) + Len(new) /\ query' = query
  BY <1>6 DEF Bound
<1>12. reads'[call] \in DOMAIN joins' /\ joins'[reads'[call]] = J1 /\ (g # NoJoin => g \in DOMAIN joins' /\ joins'[g] = G)
  BY <1>10, <1>11 DEF AddedTo
<1>13. /\ (~ WhereRefused)' /\ (~ Scanned)' /\ (~ TableRefusal(call))' /\ (Guards(call)' <=> Guards(call))
       /\ GuardParts(call)' = GuardParts(call) /\ GuardItem(call)' = GuardItem(call)
       /\ \A j : (IsTable(j, call, g)' <=> IsTable(j, call, g))
  BY <1>6, <1>11, SameWhere, SameBinding
<1>14. IsTable(J1, call, g) /\ IsGuard(G, GuardParts(call), GuardItem(call)) /\ IsJoin(G) /\ IsJoin(J1)
  BY <1>3, <1>4, MadeJoins
<1>18. BareGuard(G)
  BY <1>6, <1>14 DEF BareGuard, IsGuard, GuardParts
<1>15. IsTable(joins[reads[call]], call, g)'
  BY <1>12, <1>13, <1>14
<1>16. Guarding(g, Guards(call), GuardParts(call), GuardItem(call))'
  BY <1>9, <1>12, <1>13, <1>14 DEF Guarding, IsGuard
<1>17. BoundAs(call)'
  BY <1>12, <1>13, <1>15, <1>16 DEF BoundAs
<1>. QED
  BY <1>1, <1>6, <1>7, <1>14, <1>18, <1>17, BoundKeeps, Zenon

\* So is one bound to a scan.
LEMMA ScanBinds ==
  ASSUME BindInv, BindScan
  PROVE  BindInv'
<1>1. PICK call : call = Call
  OBVIOUS
<1>2. PICK g : g = IF Guarded(Steps) THEN Len(joins) + 1 ELSE NoJoin
  OBVIOUS
<1>3. PICK G : G = GuardJoin(Lowers(BeforeKey), ItemOf("count_star"))
  OBVIOUS
<1>4. PICK J1 : J1 = ScanJoin(call, g)
  OBVIOUS
<1>5. PICK new : new = (IF g = NoJoin THEN <<>> ELSE <<G>>) \o <<J1>>
  OBVIOUS
<1>6. /\ calls # <<>> /\ Call \notin DOMAIN reads /\ ~ WhereRefused /\ Scanned /\ ~ ScanRefusal(call)
      /\ Bound(call, new)
  BY <1>1, <1>2, <1>3, <1>4, <1>5 DEF BindScan
<1>7. NewList(new, g, G, J1) /\ g \in {NoJoin, Len(joins) + 1}
  BY <1>2, <1>5, NewListIs
<1>8. joins \in Seq(ToSet(joins)) /\ Len(joins) \in Nat
  BY LenProperties DEF BindInv
<1>9. (g # NoJoin <=> Guarded(Steps)) /\ (g = NoJoin <=> ~ Guarded(Steps))
  BY <1>2, <1>8 DEF NoJoin
<1>10. AddedTo(joins \o new, Len(joins) + Len(new), g, G, J1)
  BY <1>7, <1>8, NewJoinsAre, Zenon
<1>11. joins' = joins \o new /\ reads'[call] = Len(joins) + Len(new) /\ query' = query
  BY <1>6 DEF Bound
<1>12. reads'[call] \in DOMAIN joins' /\ joins'[reads'[call]] = J1 /\ (g # NoJoin => g \in DOMAIN joins' /\ joins'[g] = G)
  BY <1>10, <1>11 DEF AddedTo
<1>13. /\ (~ WhereRefused)' /\ Scanned' /\ (~ ScanRefusal(call))' /\ (Guarded(Steps)' <=> Guarded(Steps))
       /\ Lowers(BeforeKey)' = Lowers(BeforeKey)
       /\ \A j : (IsScan(j, call, g)' <=> IsScan(j, call, g))
  BY <1>6, <1>11, SameWhere, SameSteps, SameBinding
<1>14. IsScan(J1, call, g) /\ IsGuard(G, Lowers(BeforeKey), ItemOf("count_star")) /\ IsJoin(G) /\ IsJoin(J1)
  BY <1>3, <1>4, MadeJoins
<1>18. g # NoJoin => BareGuard(G)
  <2>1. g # NoJoin => TrapKey
    BY <1>9, FirstTrapIs DEF BindInv
  <2>. QED
    BY <1>9, <1>14, <2>1 DEF BareGuard, IsGuard
<1>15. IsScan(joins[reads[call]], call, g)'
  BY <1>12, <1>13, <1>14
<1>16. Guarding(g, Guarded(Steps), Lowers(BeforeKey), ItemOf("count_star"))'
  BY <1>9, <1>12, <1>13, <1>14 DEF Guarding, IsGuard
<1>17. BoundAs(call)'
  BY <1>12, <1>13, <1>15, <1>16 DEF BoundAs
<1>. QED
  BY <1>1, <1>6, <1>7, <1>14, <1>18, <1>17, BoundKeeps, Zenon

\* Where nothing is bound, what was bound stays.
LEMMA BindFrozen ==
  ASSUME BindInv, query' = query, reads' = reads, joins' = joins, calls' = calls
  PROVE  BindInv'
<1>1. \A n \in DOMAIN joins : n \in DOMAIN joins' /\ SameJoin(joins'[n], joins[n])
  BY DEF SameJoin
<1>2. \A c \in DOMAIN reads' : BoundAs(c)'
  BY <1>1, BoundStays DEF BindInv
<1>3. Wanted' = Wanted /\ Listed(calls)' = Listed(calls) /\ Lists' = Lists
  BY WantedStays DEF Listed, Lists
<1>4. query' \in QuerySet' /\ joins' \in Seq(ToSet(joins))' /\ \A n \in DOMAIN joins' : IsJoin(joins'[n])
  BY DEF BindInv
<1>5. \A n \in DOMAIN joins' : ((\E c \in DOMAIN reads : n = reads[c]) \/ BareGuard(joins[n]))'
  BY SameGuards DEF BindInv
<1>. QED
  BY <1>2, <1>3, <1>4, <1>5 DEF BindInv, IsJoin

\* Every step keeps what has been bound.
LEMMA BindNext ==
  ASSUME BindInv, [Next]_vars
  PROVE  BindInv'
<1>1. CASE BindTable
  BY <1>1, TableBinds
<1>2. CASE BindScan
  BY <1>2, ScanBinds
<1>3. CASE BindAgain
  <2>1. calls # <<>> /\ Call \in DOMAIN reads /\ calls' = LaterCalls /\ query' = query /\ joins' = joins /\ reads' = reads
    BY <1>3 DEF BindAgain
  <2>2. LaterCalls \in Lists /\ Listed(calls) = {Call} \union Listed(LaterCalls)
    BY <2>1, LaterCallsAre DEF BindInv
  <2>3. \A n \in DOMAIN joins : n \in DOMAIN joins' /\ SameJoin(joins'[n], joins[n])
    BY <2>1 DEF SameJoin
  <2>4. \A c \in DOMAIN reads' : BoundAs(c)'
    BY <2>1, <2>3, BoundStays DEF BindInv
  <2>5. Wanted' = Wanted /\ Listed(calls)' = Listed(LaterCalls) /\ Lists' = Lists /\ calls' \in Lists'
    BY <2>1, <2>2, WantedStays DEF Listed, Lists
  <2>6. DOMAIN reads' \union Listed(calls)' = Wanted'
    BY <2>1, <2>2, <2>5 DEF BindInv
  <2>7. query' \in QuerySet' /\ joins' \in Seq(ToSet(joins))' /\ \A n \in DOMAIN joins' : IsJoin(joins'[n])
    BY <2>1 DEF BindInv
  <2>8. \A n \in DOMAIN joins' : ((\E c \in DOMAIN reads : n = reads[c]) \/ BareGuard(joins[n]))'
    BY <2>1, SameGuards DEF BindInv
  <2>. QED
    BY <2>4, <2>5, <2>6, <2>7, <2>8 DEF BindInv, IsJoin
<1>4. CASE PlaceJoins
  <2>1. joins' = Placed /\ query' = query /\ calls' = calls /\ reads' = reads
    BY <1>4 DEF PlaceJoins
  <2>2. joins \in Seq(ToSet(joins)) /\ Len(joins) \in Nat /\ DOMAIN joins = 1 .. Len(joins)
    BY LenProperties DEF BindInv
  <2>3. DOMAIN joins' = DOMAIN joins /\ \A n \in DOMAIN joins : joins'[n] = [joins[n] EXCEPT !.after_where = ~ query.many /\ n \notin ReadByWhere]
    BY <2>1 DEF Placed
  <2>4. joins' \in Seq(ToSet(joins'))
    <3>1. joins' = [ n \in 1 .. Len(joins) |-> joins'[n] ]
      BY <2>1, <2>2 DEF Placed
    <3>3. PICK v : v = joins'
      OBVIOUS
    <3>4. PICK n : n = Len(joins)
      OBVIOUS
    <3>5. n \in Nat /\ v = [ i \in 1 .. n |-> v[i] ]
      BY <2>2, <3>1, <3>3, <3>4
    <3>6. v \in Seq({ v[i] : i \in 1 .. n })
      BY <3>5
    <3>7. ToSet(v) = { v[i] : i \in 1 .. n }
      BY <3>5 DEF ToSet
    <3>8. v \in Seq(ToSet(v))
      BY <3>6, <3>7, Zenon
    <3>. QED
      BY <3>3, <3>8, Zenon
  <2>5. \A n \in DOMAIN joins : n \in DOMAIN joins' /\ SameJoin(joins'[n], joins[n])
    BY <2>3 DEF SameJoin, BindInv, IsJoin
  <2>6. \A c \in DOMAIN reads' : BoundAs(c)'
    BY <2>1, <2>5, BoundStays DEF BindInv
  <2>7. Wanted' = Wanted /\ Listed(calls)' = Listed(calls) /\ Lists' = Lists
    BY <2>1, WantedStays DEF Listed, Lists
  <2>8. \A n \in DOMAIN joins' : ((\E c \in DOMAIN reads : n = reads[c]) \/ BareGuard(joins[n]))'
    <3>1. \A j, k : SameJoin(j, k) /\ BareGuard(k) => BareGuard(j)
      BY DEF BareGuard, SameJoin
    <3>2. \A n \in DOMAIN joins' : (\E c \in DOMAIN reads : n = reads[c]) \/ BareGuard(joins'[n])
      BY <2>3, <2>5, <3>1 DEF BindInv
    <3>. QED
      BY <2>1, <3>2, SameGuards
  <2>9. \A n \in DOMAIN joins' : IsJoin(joins'[n])
    BY <2>3 DEF BindInv, IsJoin
  <2>10. query' \in QuerySet' /\ joins' \in Seq(ToSet(joins))' /\ calls' \in Lists' /\ DOMAIN reads' \union Listed(calls)' = Wanted'
    BY <2>1, <2>4, <2>7 DEF BindInv
  <2>. QED
    BY <2>6, <2>8, <2>9, <2>10 DEF BindInv, IsJoin
<1>5. CASE BindRefused \/ RefuseMany \/ BuildTable \/ BuildRefused \/ StartServing
           \/ HeadProbes \/ Where \/ TailProbes \/ Emit \/ Finish \/ Ended \/ UNCHANGED vars
  <2>1. query' = query /\ reads' = reads /\ joins' = joins /\ calls' = calls
    BY <1>5, Zenon DEF BindRefused, RefuseMany, BuildTable, BuildRefused, StartServing, HeadProbes, Where, TailProbes,
              Emit, Finish, Ended, vars, Refuse, Step, Served
  <2>. QED
    BY <2>1, BindFrozen
<1>. QED
  BY <1>1, <1>2, <1>3, <1>4, <1>5 DEF Next

\* Nothing is placed or built at first.
LEMMA PrepareInit == Init => PrepareInv
<1>. SUFFICES ASSUME Init PROVE PrepareInv
  OBVIOUS
<1>. QED
  BY DEF Init, PrepareInv, Stages

\* A join that was placed and built stays so.
LEMMA PrepareFrozen ==
  ASSUME query' = query, reads' = reads, joins' = joins
  PROVE  /\ \A n : Prepared(n)' <=> Prepared(n)
         /\ tables' = tables => \A n : Built(n)' <=> Built(n)
<1>1. ReadByWhere' = ReadByWhere
  BY DEF ReadByWhere
<1>. QED
  BY <1>1, SameTables DEF Prepared, Built

\* Every step keeps what has been placed and built.
LEMMA PrepareNext ==
  ASSUME BindInv, PrepareInv, [Next]_vars
  PROVE  PrepareInv'
<1>0. /\ at \in Stages /\ (at = "bind" => tables = <<>>) /\ (at \in {"bind", "build"} => answers = <<>>)
      /\ at \notin {"bind", "refused"} =>
           /\ calls = <<>> /\ tables \in Seq(ToSet(tables)) /\ Len(tables) <= Len(joins)
           /\ \A n \in DOMAIN joins : Prepared(n)
           /\ \A n \in DOMAIN tables : Built(n)
           /\ at # "build" => Len(tables) = Len(joins)
  BY DEF PrepareInv
<1>6. joins \in Seq(ToSet(joins)) /\ Len(joins) \in Nat /\ DOMAIN joins = 1 .. Len(joins)
  BY LenProperties DEF BindInv
<1>1. CASE BindTable \/ BindScan \/ BindAgain
  <2>1. at = "bind" /\ at' = at /\ tables' = tables /\ answers' = answers
    BY <1>1, Zenon DEF BindTable, BindScan, BindAgain, Bound
  <2>. QED
    BY <1>0, <2>1 DEF PrepareInv, Stages
<1>2. CASE BindRefused \/ RefuseMany \/ BuildRefused
  <2>1. at' = "refused"
    BY <1>2, Zenon DEF BindRefused, RefuseMany, BuildRefused, Refuse
  <2>. QED
    BY <2>1 DEF PrepareInv, Stages
<1>3. CASE PlaceJoins
  <2>1. /\ at = "bind" /\ calls = <<>> /\ ~ ManyRefused /\ joins' = Placed /\ at' = "build"
        /\ query' = query /\ calls' = calls /\ reads' = reads /\ tables' = tables /\ answers' = answers
    BY <1>3 DEF PlaceJoins
  <2>2. DOMAIN joins' = DOMAIN joins /\ \A n \in DOMAIN joins : joins'[n] = [joins[n] EXCEPT !.after_where = ~ query.many /\ n \notin ReadByWhere]
    BY <2>1 DEF Placed
  <2>3. \A n \in DOMAIN joins : /\ joins'[n].after_where = (~ query.many /\ n \notin ReadByWhere)
                                /\ joins'[n].traps = joins[n].traps
    BY <2>2 DEF BindInv, IsJoin
  <2>4. ReadByWhere' = ReadByWhere
    BY <2>1 DEF ReadByWhere
  <2>5. \A n \in DOMAIN joins' : Prepared(n)'
    BY <2>1, <2>2, <2>3, <2>4 DEF Prepared, ManyRefused
  <2>6. Len(joins') \in Nat
    <3>1. joins' \in Seq(ToSet(joins'))
      <4>1. BindInv'
        BY BindNext
      <4>. QED
        BY <4>1 DEF BindInv
    <3>. QED
      BY <3>1, LenProperties
  <2>7. tables' = <<>> /\ tables' \in Seq(ToSet(tables')) /\ Len(tables') = 0 /\ DOMAIN tables' = {}
    BY <1>0, <2>1
  <2>8. tables' \in Seq(ToSet(tables))' /\ Len(tables)' <= Len(joins)'
    BY <2>6, <2>7
  <2>. QED
    BY <1>0, <2>1, <2>5, <2>7, <2>8 DEF PrepareInv, Stages
<1>4. CASE BuildTable
  <2>1. /\ at = "build" /\ Len(tables) < Len(joins) /\ ~ TableRefused(J) /\ tables' = Append(tables, TableOf(J))
        /\ query' = query /\ at' = at /\ calls' = calls /\ joins' = joins /\ reads' = reads /\ answers' = answers
    BY <1>4 DEF BuildTable, Building
  <2>. DEFINE T == ToSet(tables) \union {TableOf(J)}
  <2>2. tables \in Seq(ToSet(tables)) /\ tables \in Seq(T) /\ TableOf(J) \in T
    BY <1>0, <2>1, SeqMonotonic
  <2>3. Len(tables) \in Nat /\ DOMAIN tables = 1 .. Len(tables)
    BY <2>2, LenProperties
  <2>. HIDE DEF T
  <2>4. /\ tables' \in Seq(T) /\ Len(tables') = Len(tables) + 1
        /\ tables'[Len(tables) + 1] = TableOf(J)
        /\ \A i \in 1 .. Len(tables) : tables'[i] = tables[i]
    BY <2>1, <2>2, AppendProperties
  <2>5. DOMAIN tables' = 1 .. Len(tables) + 1
    BY <2>4, LenProperties
  <2>6. tables' \in Seq(ToSet(tables'))
    <3>1. PICK v : v = tables'
      OBVIOUS
    <3>2. v \in Seq({ v[i] : i \in DOMAIN v })
      BY <2>4, <3>1, LenProperties
    <3>3. ToSet(v) = { v[i] : i \in DOMAIN v }
      BY DEF ToSet
    <3>4. v \in Seq(ToSet(v))
      BY <3>2, <3>3, Zenon
    <3>. QED
      BY <3>1, <3>4
  <2>7. \A n \in DOMAIN tables' : Built(n)'
    <3>. TAKE n \in DOMAIN tables'
    <3>1. \A j : TableOf(j)' = TableOf(j) /\ (TableRefused(j)' <=> TableRefused(j))
      BY <2>1, SameTables
    <3>2. CASE n \in DOMAIN tables
      <4>1. tables[n] = TableOf(joins[n]) /\ ~ TableRefused(joins[n])
        BY <1>0, <2>1, <3>2 DEF Built
      <4>2. tables'[n] = tables[n]
        BY <2>3, <2>4, <3>2
      <4>. QED
        BY <2>1, <3>1, <4>1, <4>2 DEF Built
    <3>3. CASE n \notin DOMAIN tables
      <4>1. n = Len(tables) + 1
        BY <2>3, <2>5, <3>3
      <4>2. tables'[n] = TableOf(joins[n]) /\ ~ TableRefused(joins[n])
        BY <2>1, <2>4, <4>1 DEF J
      <4>. QED
        BY <2>1, <3>1, <4>2 DEF Built
    <3>. QED
      BY <3>2, <3>3
  <2>8. \A n \in DOMAIN joins' : Prepared(n)'
    BY <1>0, <2>1, PrepareFrozen
  <2>9. Len(tables)' <= Len(joins)'
    BY <1>6, <2>1, <2>3, <2>4
  <2>. QED
    BY <1>0, <2>1, <2>6, <2>7, <2>8, <2>9 DEF PrepareInv, Stages
<1>5. CASE \/ StartServing \/ HeadProbes \/ Where \/ TailProbes \/ Emit \/ Finish \/ Ended \/ UNCHANGED vars
  <2>1. /\ query' = query /\ reads' = reads /\ joins' = joins /\ calls' = calls /\ tables' = tables
    BY <1>5, Zenon DEF StartServing, HeadProbes, Where, TailProbes, Emit, Finish, Ended, vars, Step, Served
  <2>2. \A n : (Prepared(n)' <=> Prepared(n)) /\ (Built(n)' <=> Built(n))
    BY <2>1, PrepareFrozen
  <2>3. \/ at' = at /\ answers' = answers
        \/ at = "build" /\ at' = "head" /\ Len(tables) = Len(joins)
        \/ at \in {"head", "where", "tail", "emit"} /\ at' \in {"head", "where", "tail", "emit", "served", "trapped"}
    <3>1. CASE StartServing \/ Ended \/ UNCHANGED vars
      BY <3>1, Zenon DEF StartServing, Ended, vars
    <3>2. CASE HeadProbes
      BY <3>2, Zenon DEF HeadProbes, Serving, Step
    <3>3. CASE Where
      BY <3>3 DEF Where, Serving, Step, Served
    <3>4. CASE TailProbes
      BY <3>4, Zenon DEF TailProbes, Serving, Step
    <3>5. CASE Emit
      BY <3>5 DEF Emit, Serving, Step, Served
    <3>6. CASE Finish
      BY <3>6, Zenon DEF Finish, Step
    <3>. QED
      BY <1>5, <3>1, <3>2, <3>3, <3>4, <3>5, <3>6
  <2>4. tables' \in Seq(ToSet(tables))' <=> tables \in Seq(ToSet(tables))
    BY <2>1
  <2>5. CASE at' = at /\ answers' = answers
    BY <1>0, <2>1, <2>2, <2>5 DEF PrepareInv, Stages
  <2>6. CASE at = "build" /\ at' = "head" /\ Len(tables) = Len(joins)
    BY <1>0, <2>1, <2>2, <2>6 DEF PrepareInv, Stages
  <2>7. CASE at \in {"head", "where", "tail", "emit"} /\ at' \in {"head", "where", "tail", "emit", "served", "trapped"}
    BY <1>0, <2>1, <2>2, <2>7 DEF PrepareInv, Stages
  <2>. QED
    BY <2>3, <2>5, <2>6, <2>7
<1>. QED
  BY <1>1, <1>2, <1>3, <1>4, <1>5 DEF Next

-----------------------------------------------------------------------------
(* Serving.                                                                *)

Started == at \in {"head", "where", "tail", "emit", "served", "trapped"}

\* The subqueries are those of the SELECT list and of the WHERE; their calls are the values wanted.
LEMMA WantedAre ==
  ASSUME query \in QuerySet
  PROVE  /\ SubsOf = ToSet(query.select) \union ToSet(query.filter)
         /\ SubsOf \subseteq Subs /\ Wanted \subseteq Calls
         /\ \A sub \in SubsOf : ToSet(CallsOf(sub)) \subseteq Wanted
<1>1. query.select \in Seq(Subs) /\ query.filter \in Seq(Subs)
  BY QueryFits
<1>. DEFINE s == query.select
            t == query.filter
<1>2. /\ s \o t \in Seq(Subs) /\ Len(s \o t) = Len(s) + Len(t)
      /\ \A i \in 1 .. Len(s) + Len(t) : (s \o t)[i] = IF i <= Len(s) THEN s[i] ELSE t[i - Len(s)]
  BY <1>1, ConcatProperties
<1>3. /\ DOMAIN (s \o t) = 1 .. Len(s \o t) /\ DOMAIN s = 1 .. Len(s) /\ DOMAIN t = 1 .. Len(t)
      /\ Len(s) \in Nat /\ Len(t) \in Nat
      /\ \A i \in DOMAIN s : s[i] \in Subs
      /\ \A i \in DOMAIN t : t[i] \in Subs
  BY <1>1, <1>2, LenProperties, ElementOfSeq
<1>. DEFINE u == s \o t
            l == Len(s)
            m == Len(t)
<1>6. SubsOf = ToSet(u)
  BY DEF SubsOf
<1>10. /\ l \in Nat /\ m \in Nat /\ DOMAIN s = 1 .. l /\ DOMAIN t = 1 .. m /\ DOMAIN u = 1 .. l + m
       /\ \A i \in 1 .. l + m : u[i] = IF i <= l THEN s[i] ELSE t[i - l]
  BY <1>2, <1>3
<1>. HIDE DEF s, t, u, l, m
<1>4. /\ \A i \in DOMAIN u : (i \in DOMAIN s /\ u[i] = s[i]) \/ (i - l \in DOMAIN t /\ u[i] = t[i - l])
      /\ \A i \in DOMAIN s : i \in DOMAIN u /\ u[i] = s[i]
  BY <1>10
<1>5. \A i \in DOMAIN t : i + l \in DOMAIN u /\ u[i + l] = t[i]
  <2>. TAKE i \in DOMAIN t
  <2>1. i \in Nat /\ i > 0 /\ i <= m
    BY <1>10
  <2>2. ~ (i + l <= l) /\ i + l - l = i /\ i + l \in 1 .. l + m
    BY <1>10, <2>1
  <2>. QED
    BY <1>10, <2>2
<1>7. ToSet(u) = ToSet(s) \union ToSet(t)
  BY <1>4, <1>5 DEF ToSet
<1>8. ToSet(s) \subseteq Subs /\ ToSet(t) \subseteq Subs
  BY <1>3 DEF ToSet
<1>9. \A sub \in Subs : ToSet(CallsOf(sub)) \subseteq Calls
  <2>. TAKE sub \in Subs
  <2>1. CallsOf(sub) \in Seq(Calls)
    BY CallsOfFit
  <2>. QED
    BY <2>1, LenProperties DEF ToSet
<1>. QED
  BY <1>6, <1>7, <1>8, <1>9 DEF s, t, Wanted

\* Once serving starts, every value wanted is read right.
LEMMA ReadsRight ==
  ASSUME BindInv, PrepareInv, Started
  PROVE  /\ Wanted = DOMAIN reads
         /\ \A c \in Wanted : /\ ~ WhereRefused /\ reads[c] \in DOMAIN joins
                              /\ \A req \in Requests : ReadRight(c, req)
                              /\ c.member # "value" /\ CanTrap(c.left) => ~ Correlated
<1>1. /\ query \in QuerySet /\ calls = <<>> /\ DOMAIN reads \union Listed(calls) = Wanted
      /\ \A c \in DOMAIN reads : BoundAs(c)
  BY DEF BindInv, PrepareInv, Started
<1>2. Wanted = DOMAIN reads
  <2>1. DOMAIN calls = {}
    BY <1>1
  <2>2. Listed(calls) = {}
    BY <2>1 DEF Listed
  <2>. QED
    BY <1>1, <2>2
<1>3. /\ Len(joins) \in Nat /\ DOMAIN joins = 1 .. Len(joins) /\ DOMAIN tables = DOMAIN joins
      /\ \A n \in DOMAIN joins : tables[n] = TableOf(joins[n]) /\ ~ TableRefused(joins[n])
  BY LenProperties DEF BindInv, PrepareInv, Started, Built
<1>4. \A g \in DOMAIN joins : g # NoJoin
  BY <1>3 DEF NoJoin
<1>5. Wanted \subseteq Calls
  BY <1>1, WantedAre
<1>6. ASSUME NEW c \in Wanted
      PROVE  /\ ~ WhereRefused /\ reads[c] \in DOMAIN joins
             /\ \A req \in Requests : ReadRight(c, req)
             /\ c.member # "value" /\ CanTrap(c.left) => ~ Correlated
  <2>1. c \in Calls /\ BoundAs(c) /\ ~ WhereRefused /\ reads[c] \in DOMAIN joins
    BY <1>1, <1>2, <1>5, <1>6 DEF BoundAs
  <2>2. c.member # "value" /\ CanTrap(c.left) => ~ Correlated
    <3>1. Scanned => ~ ScanRefusal(c)
      BY <2>1 DEF BoundAs
    <3>2. ~ Scanned => ~ TableRefusal(c)
      BY <2>1 DEF BoundAs
    <3>. QED
      BY <3>1, <3>2 DEF ScanRefusal, TableRefusal, LeftRefused, Correlated, Scanned
  <2>3. CASE ~ Scanned
    <3>1. ~ TableRefusal(c)
      BY <2>1, <2>3 DEF BoundAs
    <3>2. PICK g : /\ IsTable(joins[reads[c]], c, g) /\ Guarding(g, Guards(c), GuardParts(c), GuardItem(c))
      BY <2>1, <2>3 DEF BoundAs
    <3>3. GuardedBy(c, g)
      <4>1. CASE g = NoJoin /\ ~ Guards(c)
        BY <4>1 DEF GuardedBy
      <4>2. CASE g \in DOMAIN joins /\ Guards(c) /\ IsGuard(joins[g], GuardParts(c), GuardItem(c))
        <5>1. TableOf(joins[g]) = 0 <=> Blocked(c)
          BY <1>1, <2>1, <2>3, <3>1, <4>2, TableGuard
        <5>2. tables[g] = TableOf(joins[g]) /\ g # NoJoin
          BY <1>3, <1>4, <4>2
        <5>. QED
          BY <4>2, <5>1, <5>2 DEF GuardedBy
      <4>. QED
        BY <3>2, <4>1, <4>2 DEF Guarding
    <3>4. tables[reads[c]] = TableOf(joins[reads[c]]) /\ ~ TableRefused(joins[reads[c]])
      BY <1>3, <2>1
    <3>5. \A req \in Requests : ReadRight(c, req)
      BY <1>1, <2>1, <2>3, <3>1, <3>2, <3>3, <3>4, TableReads
    <3>. QED
      BY <2>1, <2>2, <3>5
  <2>4. CASE Scanned
    <3>1. ~ ScanRefusal(c)
      BY <2>1, <2>4 DEF BoundAs
    <3>2. PICK g : /\ IsScan(joins[reads[c]], c, g)
                   /\ Guarding(g, Guarded(Steps), Lowers(BeforeKey), ItemOf("count_star"))
      BY <2>1, <2>4 DEF BoundAs
    <3>3. ScanGuardedBy(g)
      <4>1. CASE g = NoJoin /\ ~ Guarded(Steps)
        BY <4>1 DEF ScanGuardedBy
      <4>2. CASE g \in DOMAIN joins /\ Guarded(Steps) /\ IsGuard(joins[g], Lowers(BeforeKey), ItemOf("count_star"))
        <5>1. Keys # {} /\ 1 .. FirstKey - 1 \subseteq Filters /\ TrapKey
          BY <1>1, <4>2, FirstTrapIs
        <5>2. \A i \in BeforeKey : ~ Unsplit(W[i])
          BY <3>1, <4>2, <5>1 DEF ScanRefusal, GuardUnsplit
        <5>3. TableOf(joins[g]) = 0 <=> ~ ReachesKey
          BY <1>1, <4>2, <5>1, <5>2, KeyGuard
        <5>4. tables[g] = TableOf(joins[g]) /\ g # NoJoin
          BY <1>3, <1>4, <4>2
        <5>. QED
          BY <4>2, <5>3, <5>4 DEF ScanGuardedBy
      <4>. QED
        BY <3>2, <4>1, <4>2 DEF Guarding
    <3>4. tables[reads[c]] = TableOf(joins[reads[c]])
      BY <1>3, <2>1
    <3>5. \A req \in Requests : ReadRight(c, req)
      BY <1>1, <2>1, <2>4, <3>1, <3>2, <3>3, <3>4, ScanReads
    <3>. QED
      BY <2>1, <2>2, <3>5
  <2>. QED
    BY <2>3, <2>4
<1>. QED
  BY <1>2, <1>6

\* A join that traps traps for a value that reads it.
LEMMA TrapsAreRead ==
  ASSUME BindInv, PrepareInv, Started, NEW n \in DOMAIN joins, NEW req \in Requests, Probe(n, req).trap
  PROVE  /\ joins[n].traps /\ ~ Unforced(joins[n])
         /\ \E c \in Wanted : n = reads[c]
         /\ \A c \in Wanted : n = reads[c] => CallTraps(c, req)
<1>1. Wanted = DOMAIN reads /\ \A c \in Wanted : ReadRight(c, req)
  BY ReadsRight
<1>2. ~ BareGuard(joins[n])
  <2>. SUFFICES ASSUME BareGuard(joins[n]) PROVE FALSE
    OBVIOUS
  <2>1. DOMAIN KeyValues(joins[n], req) = {}
    BY DEF BareGuard, KeyValues
  <2>2. Trap \notin ToSet(KeyValues(joins[n], req))
    BY <2>1 DEF ToSet
  <2>3. Probe(n, req) = Missed
    BY <2>2, Zenon DEF Probe, BareGuard
  <2>. QED
    BY <2>3 DEF Missed
<1>3. PICK c \in Wanted : n = reads[c]
  BY <1>1, <1>2 DEF BindInv
<1>4. \A d \in Wanted : n = reads[d] => CallTraps(d, req) /\ joins[n].traps
  BY <1>1 DEF ReadRight
<1>. QED
  BY <1>3, <1>4 DEF Unforced

\* The values of a subquery that reads through joins that do not trap.
LEMMA ValuesRight ==
  ASSUME BindInv, PrepareInv, Started, NEW R \in SUBSET DOMAIN Batch, NEW i \in R, NEW sub \in SubsOf,
         \A c \in ToSet(CallsOf(sub)) : ~ Probe(reads[c], Batch[i]).trap
  PROVE  SubValue(sub, Batch[i]) = DuckValue(sub, R, i) /\ SubValue(sub, Batch[i]) # Trap
<1>1. query \in QuerySet /\ Batch[i] \in Requests /\ i \in DOMAIN Batch
  BY QueryFits DEF BindInv
<1>2. sub \in Subs /\ ToSet(CallsOf(sub)) \subseteq Wanted
  BY <1>1, WantedAre
<1>3. \A c \in ToSet(CallsOf(sub)) : ReadRight(c, Batch[i]) /\ ~ CallTraps(c, Batch[i])
  <2>. TAKE c \in ToSet(CallsOf(sub))
  <2>1. ReadRight(c, Batch[i])
    BY <1>1, <1>2, ReadsRight
  <2>2. ~ CallTraps(c, Batch[i])
    BY <2>1 DEF ReadRight
  <2>. QED
    BY <2>1, <2>2
<1>4. ~ WhereRefused
  <2>1. ToSet(CallsOf(sub)) # {}
    <3>1. CallsOf(sub) \in Seq(Calls) /\ Len(CallsOf(sub)) > 0
      BY <1>2, CallsOfFit
    <3>2. 1 \in DOMAIN CallsOf(sub)
      BY <3>1, LenProperties
    <3>. QED
      BY <3>2 DEF ToSet
  <2>. QED
    BY <1>2, <2>1, ReadsRight
<1>5. DuckRows(ValueFor(R, i)) = DuckRows(Batch[i])
  BY <1>1, <1>4, Shared
<1>. QED
  BY <1>1, <1>2, <1>3, <1>5, SubValueRight

\* A request for which no probe traps has the values of its subqueries.
LEMMA QuietSubs ==
  ASSUME BindInv, PrepareInv, Started, NEW R \in SUBSET DOMAIN Batch, NEW sub \in SubsOf,
         \A c \in ToSet(CallsOf(sub)), i \in R : ~ Probe(reads[c], Batch[i]).trap
  PROVE  ~ DuckTraps(sub, R)
<1>1. query \in QuerySet /\ \A i \in R : Batch[i] \in Requests
  BY QueryFits DEF BindInv
<1>2. sub \in Subs /\ ToSet(CallsOf(sub)) \subseteq Wanted
  BY <1>1, WantedAre
<1>3. \A c \in ToSet(CallsOf(sub)) : \A i \in R : ~ CallTraps(c, Batch[i])
  <2>. TAKE c \in ToSet(CallsOf(sub))
  <2>. TAKE i \in R
  <2>1. ReadRight(c, Batch[i])
    BY <1>1, <1>2, ReadsRight
  <2>. QED
    BY <2>1 DEF ReadRight
<1>4. \A c \in ToSet(CallsOf(sub)) : c.member = "value" /\ ~ Correlated => ~ CallTraps(c, NoReq)
  <2>. TAKE c \in ToSet(CallsOf(sub))
  <2>1. NoReq \in Requests
    BY NoReqIs DEF NoReqFits
  <2>2. ReadRight(c, NoReq)
    BY <1>2, <2>1, ReadsRight
  <2>. QED
    BY <2>2 DEF ReadRight
<1>5. sub.form \in {"in", "any"} /\ CanTrap(sub.left) => ~ Correlated
  <2>. SUFFICES ASSUME sub.form \in {"in", "any"}, CanTrap(sub.left) PROVE ~ Correlated
    OBVIOUS
  <2>1. MemberCall(sub) \in ToSet(CallsOf(sub)) /\ MemberCall(sub).left = sub.left /\ MemberCall(sub).member # "value"
    BY <1>2, CallsOfFit, MemberCalls
  <2>. QED
    BY <1>2, <2>1, ReadsRight
<1>6. ~ WhereRefused
  <2>1. ToSet(CallsOf(sub)) # {}
    <3>1. CallsOf(sub) \in Seq(Calls) /\ Len(CallsOf(sub)) > 0
      BY <1>2, CallsOfFit
    <3>2. 1 \in DOMAIN CallsOf(sub)
      BY <3>1, LenProperties
    <3>. QED
      BY <3>2 DEF ToSet
  <2>. QED
    BY <1>2, <2>1, ReadsRight
<1>. QED
  BY <1>1, <1>2, <1>3, <1>4, <1>5, <1>6, QuietIsDucks

\* A probe that traps is that of a subquery on which DuckDB stops.
LEMMA TrappedSubs ==
  ASSUME BindInv, PrepareInv, Started, NEW R \in SUBSET DOMAIN Batch, NEW i \in R, NEW sub \in SubsOf,
         NEW c \in ToSet(CallsOf(sub)), Probe(reads[c], Batch[i]).trap
  PROVE  DuckTraps(sub, R)
<1>1. query \in QuerySet /\ Batch[i] \in Requests /\ i \in DOMAIN Batch
  BY QueryFits DEF BindInv
<1>2. sub \in Subs /\ c \in Wanted
  BY <1>1, WantedAre
<1>3. ReadRight(c, Batch[i]) /\ ~ WhereRefused
  BY <1>1, <1>2, ReadsRight
<1>4. CallTraps(c, Batch[i])
  BY <1>3 DEF ReadRight
<1>. QED
  BY <1>1, <1>2, <1>3, <1>4, TrapIsDucks

-----------------------------------------------------------------------------
\* The requests served so far.
Quiet(i) == \A n \in DOMAIN joins : ~ Probe(n, Batch[i]).trap
QuietBefore(i) == \A n \in DOMAIN joins : ~ joins[n].after_where => ~ Probe(n, Batch[i]).trap
Right(i, row) == QuietBefore(i) /\ (i \in DuckPasses => Quiet(i)) /\ row = DuckAnswers[i]
Now == Len(answers) + 1
ServeInv ==
  /\ answers \in Seq(ToSet(answers)) /\ Len(answers) <= Len(Batch)
  /\ \A i \in DOMAIN answers : Right(i, answers[i])
  /\ at \in {"where", "tail", "emit"} => Len(answers) < Len(Batch) /\ QuietBefore(Now)
  /\ at \in {"tail", "emit"} => Now \in DuckPasses
  /\ at = "emit" => Quiet(Now)
  /\ at = "served" => Len(answers) = Len(Batch)
  /\ at = "trapped" => DuckBatchTraps

\* The WHERE has one subquery at most.
LEMMA FilterIs ==
  ASSUME query \in QuerySet
  PROVE  /\ query.filter = <<>> => ToSet(query.filter) = {}
         /\ query.filter # <<>> => ToSet(query.filter) = {query.filter[1]}
<1>1. query.filter \in Seq(Subs) /\ Len(query.filter) <= 1
  BY QueryFits
<1>2. DOMAIN query.filter = 1 .. Len(query.filter) /\ Len(query.filter) \in Nat
      /\ (query.filter # <<>> => Len(query.filter) # 0)
  BY <1>1, LenProperties, EmptySeq
<1>3. query.filter # <<>> => DOMAIN query.filter = {1}
  BY <1>1, <1>2
<1>. QED
  BY <1>3 DEF ToSet

\* The joins that the WHERE reads run before it.
LEMMA FilterQuiet ==
  ASSUME BindInv, PrepareInv, Started, NEW i \in DOMAIN Batch, QuietBefore(i),
         NEW sub \in ToSet(query.filter)
  PROVE  sub \in SubsOf /\ \A c \in ToSet(CallsOf(sub)) : ~ Probe(reads[c], Batch[i]).trap
<1>1. query \in QuerySet
  BY DEF BindInv
<1>2. sub \in SubsOf /\ ToSet(CallsOf(sub)) \subseteq Wanted
  BY <1>1, WantedAre
<1>3. ASSUME NEW c \in ToSet(CallsOf(sub))
      PROVE  ~ Probe(reads[c], Batch[i]).trap
  <2>1. reads[c] \in ReadByWhere
    BY DEF ReadByWhere
  <2>2. reads[c] \in DOMAIN joins
    BY <1>2, <1>3, ReadsRight
  <2>3. ~ joins[reads[c]].after_where
    <3>1. Prepared(reads[c])
      BY <2>2 DEF PrepareInv, Started
    <3>. QED
      BY <2>1, <3>1 DEF Prepared
  <2>. QED
    BY <2>2, <2>3 DEF QuietBefore
<1>. QED
  BY <1>2, <1>3

\* If a probe before the WHERE traps, DuckDB stops.
LEMMA HeadStops ==
  ASSUME BindInv, PrepareInv, Started, NEW i \in DOMAIN Batch, NEW n \in DOMAIN joins,
         ~ joins[n].after_where, Probe(n, Batch[i]).trap
  PROVE  FilterTraps
<1>1. query \in QuerySet /\ Batch[i] \in Requests
  BY QueryFits DEF BindInv
<1>2. joins[n].traps
  BY <1>1, TrapsAreRead
<1>3. Prepared(n)
  BY DEF PrepareInv, Started
<1>4. n \in ReadByWhere
  BY <1>2, <1>3 DEF Prepared
<1>5. PICK sub \in ToSet(query.filter) : \E c \in ToSet(CallsOf(sub)) : n = reads[c]
  BY <1>4 DEF ReadByWhere
<1>6. PICK c \in ToSet(CallsOf(sub)) : n = reads[c]
  BY <1>5
<1>7. sub \in SubsOf
  BY <1>1, WantedAre
<1>8. DOMAIN Batch \in SUBSET DOMAIN Batch
  OBVIOUS
<1>9. DuckTraps(sub, DOMAIN Batch)
  BY <1>6, <1>7, <1>8, TrappedSubs
<1>. QED
  BY <1>9 DEF FilterTraps, Reaching

\* If one after it traps, DuckDB stops.
LEMMA TailStops ==
  ASSUME BindInv, PrepareInv, Started, NEW i \in DuckPasses, QuietBefore(i), NEW n \in DOMAIN joins,
         Probe(n, Batch[i]).trap
  PROVE  DuckBatchTraps
<1>1. query \in QuerySet /\ DuckPasses \in SUBSET DOMAIN Batch /\ Batch[i] \in Requests
  BY QueryFits DEF BindInv, DuckPasses, Reaching
<1>2. PICK c \in Wanted : n = reads[c]
  BY <1>1, TrapsAreRead
<1>3. Prepared(n) /\ joins[n].after_where
  BY DEF PrepareInv, Started, QuietBefore
<1>4. n \notin ReadByWhere
  BY <1>3 DEF Prepared
<1>5. PICK sub \in SubsOf : c \in ToSet(CallsOf(sub))
  BY DEF Wanted
<1>6. sub \in ToSet(query.select)
  <2>1. sub \notin ToSet(query.filter)
    BY <1>2, <1>4, <1>5 DEF ReadByWhere
  <2>. QED
    BY <1>1, <2>1, WantedAre
<1>7. DuckTraps(sub, DuckPasses)
  BY <1>1, <1>2, <1>5, TrappedSubs
<1>. QED
  BY <1>6, <1>7 DEF DuckBatchTraps

\* What the WHERE makes of a request.
LEMMA WhereIs ==
  ASSUME BindInv, PrepareInv, Started, NEW i \in DOMAIN Batch, QuietBefore(i)
  PROVE  /\ i \in DuckPasses <=> /\ Batch[i].x \in query.passes
                                 /\ query.filter = <<>> \/ IsTrue(query.filter[1], SubValue(query.filter[1], Batch[i]))
         /\ query.filter # <<>> => SubValue(query.filter[1], Batch[i]) # Trap
<1>1. query \in QuerySet
  BY DEF BindInv
<1>2. DOMAIN Batch \in SUBSET DOMAIN Batch /\ Reaching = DOMAIN Batch
  BY DEF Reaching
<1>3. \A sub \in ToSet(query.filter) : /\ SubValue(sub, Batch[i]) = DuckValue(sub, Reaching, i)
                                       /\ SubValue(sub, Batch[i]) # Trap
  <2>. TAKE sub \in ToSet(query.filter)
  <2>1. sub \in SubsOf /\ \A c \in ToSet(CallsOf(sub)) : ~ Probe(reads[c], Batch[i]).trap
    BY FilterQuiet
  <2>. QED
    BY <1>2, <2>1, ValuesRight
<1>4. i \in DuckPasses <=> /\ Batch[i].x \in query.passes
                           /\ \A sub \in ToSet(query.filter) : IsTrue(sub, DuckValue(sub, Reaching, i))
  BY <1>2 DEF DuckPasses
<1>5. CASE query.filter = <<>>
  <2>1. ToSet(query.filter) = {}
    BY <1>1, <1>5, FilterIs
  <2>. QED
    BY <1>4, <1>5, <2>1
<1>6. CASE query.filter # <<>>
  <2>1. ToSet(query.filter) = {query.filter[1]}
    BY <1>1, <1>6, FilterIs
  <2>. QED
    BY <1>3, <1>4, <1>6, <2>1
<1>. QED
  BY <1>5, <1>6

\* The row of a request that passes is DuckDB's.
LEMMA RowIs ==
  ASSUME BindInv, PrepareInv, Started, NEW i \in DuckPasses, Quiet(i)
  PROVE  RowOf(Batch[i]) = DuckAnswers[i] /\ Trap \notin ToSet(RowOf(Batch[i]))
<1>1. query \in QuerySet /\ DuckPasses \in SUBSET DOMAIN Batch /\ i \in DOMAIN Batch
  BY DEF BindInv, DuckPasses, Reaching
<1>2. \A n \in DOMAIN query.select : /\ SubValue(query.select[n], Batch[i]) = DuckValue(query.select[n], DuckPasses, i)
                                     /\ SubValue(query.select[n], Batch[i]) # Trap
  <2>. TAKE n \in DOMAIN query.select
  <2>1. query.select[n] \in ToSet(query.select)
    BY DEF ToSet
  <2>2. query.select[n] \in SubsOf /\ ToSet(CallsOf(query.select[n])) \subseteq Wanted
    BY <1>1, <2>1, WantedAre
  <2>3. \A c \in ToSet(CallsOf(query.select[n])) : ~ Probe(reads[c], Batch[i]).trap
    BY <2>2, ReadsRight DEF Quiet
  <2>. QED
    BY <1>1, <2>2, <2>3, ValuesRight
<1>3. DuckAnswers[i] = [ n \in DOMAIN query.select |->
                            IF Batch[i].x \in query.select[n].when
                            THEN DuckValue(query.select[n], DuckPasses, i) ELSE Null ]
  BY <1>1 DEF DuckAnswers
<1>4. RowOf(Batch[i]) = DuckAnswers[i]
  BY <1>2, <1>3 DEF RowOf
<1>5. \A n \in DOMAIN query.select : RowOf(Batch[i])[n] # Trap /\ DOMAIN RowOf(Batch[i]) = DOMAIN query.select
  BY <1>2, ValuesDiffer DEF RowOf
<1>6. DOMAIN RowOf(Batch[i]) = DOMAIN query.select
  BY DEF RowOf
<1>. QED
  BY <1>4, <1>5, <1>6 DEF ToSet

\* Every request served: DuckDB serves the batch, and with these rows.
LEMMA BatchIs ==
  ASSUME BindInv, PrepareInv, Started, ServeInv, Len(answers) = Len(Batch)
  PROVE  ~ DuckBatchTraps /\ answers = DuckAnswers
<1>1. query \in QuerySet /\ DuckPasses \in SUBSET DOMAIN Batch /\ DOMAIN Batch \in SUBSET DOMAIN Batch
  BY DEF BindInv, DuckPasses, Reaching
<1>2. DOMAIN answers = DOMAIN Batch
  BY <1>1, QueryFits, LenProperties DEF ServeInv
<1>3. \A i \in DOMAIN Batch : QuietBefore(i) /\ (i \in DuckPasses => Quiet(i)) /\ answers[i] = DuckAnswers[i]
  BY <1>2 DEF ServeInv, Right
<1>4. answers = DuckAnswers
  <2>1. DOMAIN DuckAnswers = DOMAIN Batch /\ DuckAnswers = [ i \in DOMAIN Batch |-> DuckAnswers[i] ]
    BY DEF DuckAnswers
  <2>2. answers = [ i \in DOMAIN answers |-> answers[i] ]
    BY LenProperties DEF ServeInv
  <2>. QED
    BY <1>2, <1>3, <2>1, <2>2
<1>5. \A sub \in ToSet(query.filter) : ~ DuckTraps(sub, Reaching)
  <2>. TAKE sub \in ToSet(query.filter)
  <2>1. \A i \in DOMAIN Batch : sub \in SubsOf /\ \A c \in ToSet(CallsOf(sub)) : ~ Probe(reads[c], Batch[i]).trap
    BY <1>3, FilterQuiet
  <2>2. sub \in SubsOf
    BY <1>1, WantedAre
  <2>. QED
    BY <1>1, <2>1, <2>2, QuietSubs DEF Reaching
<1>6. \A sub \in ToSet(query.select) : ~ DuckTraps(sub, DuckPasses)
  <2>. TAKE sub \in ToSet(query.select)
  <2>1. sub \in SubsOf /\ ToSet(CallsOf(sub)) \subseteq Wanted
    BY <1>1, WantedAre
  <2>2. \A c \in ToSet(CallsOf(sub)), i \in DuckPasses : ~ Probe(reads[c], Batch[i]).trap
    BY <1>1, <1>3, <2>1, ReadsRight DEF Quiet
  <2>. QED
    BY <1>1, <2>1, <2>2, QuietSubs
<1>. QED
  BY <1>4, <1>5, <1>6 DEF DuckBatchTraps, FilterTraps

\* A probe reads the query, the joins and their tables.
LEMMA SameProbes ==
  ASSUME query' = query, joins' = joins, tables' = tables
  PROVE  \A n, req : Probe(n, req)' = Probe(n, req)
<1>1. W' = W /\ Table' = Table /\ End' = End
  BY SameWhere
<1>2. /\ \A p, row, req : TestPart(p, row, req)' = TestPart(p, row, req)
      /\ \A item, rows : Answer(item, rows)' = Answer(item, rows)
  BY SameAnswers
<1>3. \A key, req : KeyValue(key, req)' = KeyValue(key, req)
  BY DEF KeyValue
<1>4. \A j, req : KeyValues(j, req)' = KeyValues(j, req)
  BY <1>3 DEF KeyValues
<1>5. \A n, vals, req : LookUp(n, vals, req)' = LookUp(n, vals, req)
  BY DEF LookUp
<1>6. \A j, key, rows : RowsUnder(j, key, rows)' = RowsUnder(j, key, rows)
  BY <1>1 DEF RowsUnder, StoredKey
<1>7. \A n, vals : RowsUnder(joins[n], vals, tables[n])' = RowsUnder(joins[n], vals, tables[n])
  BY <1>6
<1>8. \A n, vals, req : Scan(n, vals, req)' = Scan(n, vals, req)
  BY <1>1, <1>2, <1>7 DEF Scan
<1>9. \A n, req : KeyValues(joins[n], req)' = KeyValues(joins[n], req)
  BY <1>4
<1>10. \A n, req : LookUp(n, KeyValues(joins[n], req), req)' = LookUp(n, KeyValues(joins[n], req), req)
  BY <1>5, <1>9
<1>11. \A n, req : Scan(n, KeyValues(joins[n], req), req)' = Scan(n, KeyValues(joins[n], req), req)
  BY <1>8, <1>9
<1>. QED
  BY <1>9, <1>10, <1>11 DEF Probe

\* What was served right stays right.
LEMMA ServeFrozen ==
  ASSUME query' = query, joins' = joins, tables' = tables
  PROVE  /\ \A i : (Quiet(i)' <=> Quiet(i)) /\ (QuietBefore(i)' <=> QuietBefore(i))
         /\ \A i, row : Right(i, row)' <=> Right(i, row)
         /\ DuckPasses' = DuckPasses /\ Batch' = Batch /\ (DuckBatchTraps' <=> DuckBatchTraps)
<1>1. Batch' = Batch /\ DuckPasses' = DuckPasses /\ DuckAnswers' = DuckAnswers /\ (DuckBatchTraps' <=> DuckBatchTraps)
  BY SameWhere, SameDuck
<1>2. \A n, i : Probe(n, Batch[i])' = Probe(n, Batch[i])
  BY <1>1, SameProbes
<1>3. \A i : (Quiet(i)' <=> Quiet(i)) /\ (QuietBefore(i)' <=> QuietBefore(i))
  BY <1>2 DEF Quiet, QuietBefore
<1>4. \A i, row : Right(i, row)' <=> Right(i, row)
  BY <1>1, <1>3 DEF Right
<1>. QED
  BY <1>1, <1>3, <1>4

\* Nothing is served at first.
LEMMA ServeInit == Init /\ BindInv => ServeInv
<1>. SUFFICES ASSUME Init, BindInv PROVE ServeInv
  OBVIOUS
<1>1. answers = <<>> /\ at = "bind"
  BY DEF Init
<1>2. Len(Batch) \in Nat
  BY QueryFits DEF BindInv
<1>. QED
  BY <1>1, <1>2 DEF ServeInv

\* A request is answered, by a row that is right for it.
LEMMA ServedKeeps ==
  ASSUME BindInv, ServeInv, Len(answers) < Len(Batch), NEW row, Right(Now, row), Served(row)
  PROVE  ServeInv'
<1>1. /\ answers' = Append(answers, row) /\ at' = "head"
      /\ query' = query /\ joins' = joins /\ tables' = tables
  BY DEF Served
<1>. DEFINE T == ToSet(answers) \union {row}
<1>2. answers \in Seq(T) /\ row \in T
  BY SeqMonotonic DEF ServeInv
<1>3. Len(answers) \in Nat /\ DOMAIN answers = 1 .. Len(answers)
  BY <1>2, LenProperties
<1>. HIDE DEF T
<1>4. /\ answers' \in Seq(T) /\ Len(answers') = Len(answers) + 1
      /\ answers'[Len(answers) + 1] = row
      /\ \A i \in 1 .. Len(answers) : answers'[i] = answers[i]
  BY <1>1, <1>2, AppendProperties
<1>5. DOMAIN answers' = 1 .. Len(answers) + 1
  BY <1>4, LenProperties
<1>6. answers' \in Seq(ToSet(answers'))
  <2>1. PICK v : v = answers'
    OBVIOUS
  <2>2. v \in Seq({ v[i] : i \in DOMAIN v })
    BY <1>4, <2>1, LenProperties
  <2>3. ToSet(v) = { v[i] : i \in DOMAIN v }
    BY DEF ToSet
  <2>4. v \in Seq(ToSet(v))
    BY <2>2, <2>3, Zenon
  <2>. QED
    BY <2>1, <2>4
<1>7. /\ \A i, r : Right(i, r)' <=> Right(i, r)
      /\ Batch' = Batch
  BY <1>1, ServeFrozen
<1>8. Len(answers') <= Len(Batch')
  BY <1>3, <1>4, <1>7, QueryFits DEF BindInv
<1>9. \A i \in DOMAIN answers' : Right(i, answers'[i])
  <2>. TAKE i \in DOMAIN answers'
  <2>1. CASE i \in DOMAIN answers
    <3>1. answers'[i] = answers[i]
      BY <1>3, <1>4, <2>1
    <3>. QED
      BY <2>1, <3>1 DEF ServeInv
  <2>2. CASE i \notin DOMAIN answers
    <3>1. i = Len(answers) + 1
      BY <1>3, <1>5, <2>2
    <3>. QED
      BY <1>4, <3>1 DEF Now
  <2>. QED
    BY <2>1, <2>2
<1>10. \A i \in DOMAIN answers' : (Right(i, answers[i]))'
  BY <1>7, <1>9
<1>11. answers' \in Seq(ToSet(answers))' /\ Len(answers)' <= Len(Batch)'
  BY <1>6, <1>8
<1>. QED
  BY <1>1, <1>10, <1>11 DEF ServeInv

\* A step of serving that answers no request.
LEMMA StepKeeps ==
  ASSUME ServeInv, query' = query, joins' = joins, tables' = tables, answers' = answers,
         at' \in {"where", "tail", "emit"} => Len(answers) < Len(Batch) /\ QuietBefore(Now),
         at' \in {"tail", "emit"} => Now \in DuckPasses,
         at' = "emit" => Quiet(Now),
         at' = "served" => Len(answers) = Len(Batch),
         at' = "trapped" => DuckBatchTraps
  PROVE  ServeInv'
<1>1. /\ \A i : (Quiet(i)' <=> Quiet(i)) /\ (QuietBefore(i)' <=> QuietBefore(i))
      /\ \A i, row : Right(i, row)' <=> Right(i, row)
      /\ DuckPasses' = DuckPasses /\ Batch' = Batch /\ (DuckBatchTraps' <=> DuckBatchTraps)
  BY ServeFrozen
<1>2. Now' = Now
  BY DEF Now
<1>3. answers' \in Seq(ToSet(answers))' /\ Len(answers)' <= Len(Batch)'
  BY <1>1 DEF ServeInv
<1>4. \A i \in DOMAIN answers' : (Right(i, answers[i]))'
  BY <1>1 DEF ServeInv
<1>5. (Quiet(Now)' <=> Quiet(Now)) /\ (QuietBefore(Now)' <=> QuietBefore(Now))
  BY <1>1, <1>2
<1>. QED
  BY <1>1, <1>2, <1>3, <1>4, <1>5 DEF ServeInv

\* Every step keeps what has been served.
LEMMA ServeNext ==
  ASSUME BindInv, PrepareInv, ServeInv, [Next]_vars
  PROVE  ServeInv'
<1>0. query \in QuerySet /\ Len(Batch) \in Nat /\ DOMAIN Batch = 1 .. Len(Batch)
  BY QueryFits DEF BindInv
<1>1. answers \in Seq(ToSet(answers)) /\ Len(answers) \in Nat /\ DOMAIN answers = 1 .. Len(answers) /\ Len(answers) <= Len(Batch)
  BY LenProperties DEF ServeInv
<1>2. Len(answers) < Len(Batch) => Now \in DOMAIN Batch
  BY <1>0, <1>1 DEF Now
<1>10. Req = Batch[Now]
  BY DEF Req, Now
<1>3. CASE BindTable \/ BindScan \/ BindAgain \/ BindRefused \/ PlaceJoins \/ RefuseMany
           \/ BuildTable \/ BuildRefused \/ StartServing
  <2>1. at \in {"bind", "build"} /\ at' \in {"bind", "build", "head", "refused"} /\ answers' = answers /\ query' = query
    BY <1>3, Zenon DEF BindTable, BindScan, BindAgain, BindRefused, PlaceJoins, RefuseMany,
                       BuildTable, BuildRefused, StartServing, Building, Bound, Refuse
  <2>2. answers' = <<>>
    BY <2>1 DEF PrepareInv
  <2>3. Batch' = Batch
    BY <2>1 DEF Batch
  <2>4. answers' \in Seq(ToSet(answers))' /\ Len(answers)' <= Len(Batch)' /\ DOMAIN answers' = {}
    BY <1>0, <2>2, <2>3
  <2>. QED
    BY <2>1, <2>4 DEF ServeInv
<1>4. CASE HeadProbes
  <2>1. /\ at = "head" /\ Len(answers) < Len(Batch) /\ at' = (IF ForcedTraps(FALSE) THEN "trapped" ELSE "where")
        /\ query' = query /\ joins' = joins /\ tables' = tables /\ answers' = answers
    BY <1>4 DEF HeadProbes, Serving, Step
  <2>2. Started /\ Now \in DOMAIN Batch /\ Batch[Now] \in Requests
    BY <1>0, <1>2, <2>1, QueryFits DEF Started
  <2>3. \A n \in DOMAIN joins : Prepared(n)
    BY <2>2 DEF PrepareInv, Started
  <2>4. CASE ForcedTraps(FALSE)
    <3>1. PICK n \in DOMAIN joins : joins[n].after_where = FALSE /\ Probe(n, Batch[Now]).trap
      BY <1>10, <2>4 DEF ForcedTraps
    <3>2. FilterTraps
      BY <2>2, <3>1, HeadStops
    <3>. QED
      BY <2>1, <2>4, <3>2, StepKeeps DEF DuckBatchTraps
  <2>5. CASE ~ ForcedTraps(FALSE)
    <3>1. QuietBefore(Now)
      <4>. SUFFICES ASSUME NEW n \in DOMAIN joins, ~ joins[n].after_where, Probe(n, Batch[Now]).trap PROVE FALSE
        BY DEF QuietBefore
      <4>1. ~ Unforced(joins[n])
        BY <2>2, TrapsAreRead
      <4>2. joins[n].after_where = FALSE
        <5>1. joins[n].after_where = (~ query.many /\ n \notin ReadByWhere)
          BY <2>3 DEF Prepared
        <5>. QED
          BY <5>1
      <4>. QED
        BY <1>10, <2>5, <4>1, <4>2 DEF ForcedTraps
    <3>. QED
      BY <2>1, <2>5, <3>1, StepKeeps
  <2>. QED
    BY <2>4, <2>5
<1>5. CASE Where
  <2>. DEFINE v == IF query.filter = <<>> \/ Req.x \notin query.passes THEN Null
                   ELSE SubValue(query.filter[1], Req)
  <2>1. /\ at = "where" /\ Len(answers) < Len(Batch)
        /\ CASE v = Trap -> Step("trapped")
             [] v # Trap /\ Req.x \in query.passes
                /\ (query.filter = <<>> \/ IsTrue(query.filter[1], v)) -> Step("tail")
             [] OTHER -> Served(<<>>)
    BY <1>5 DEF Where, Serving
  <2>2. Started /\ Now \in DOMAIN Batch /\ QuietBefore(Now)
    BY <1>2, <2>1 DEF Started, ServeInv
  <2>3. /\ Now \in DuckPasses <=> /\ Req.x \in query.passes
                                  /\ query.filter = <<>> \/ IsTrue(query.filter[1], SubValue(query.filter[1], Req))
        /\ query.filter # <<>> => SubValue(query.filter[1], Req) # Trap
    BY <1>10, <2>2, WhereIs
  <2>4. v # Trap
    BY <2>3, ValuesDiffer
  <2>5. (Req.x \in query.passes /\ (query.filter = <<>> \/ IsTrue(query.filter[1], v))) <=> Now \in DuckPasses
    <3>1. CASE query.filter = <<>> \/ Req.x \notin query.passes
      BY <2>3, <3>1
    <3>2. CASE ~ (query.filter = <<>> \/ Req.x \notin query.passes)
      <4>1. v = SubValue(query.filter[1], Req)
        BY <3>2
      <4>. HIDE DEF v
      <4>. QED
        BY <2>3, <3>2, <4>1
    <3>. QED
      BY <3>1, <3>2
  <2>. HIDE DEF v
  <2>6. IF Now \in DuckPasses THEN Step("tail") ELSE Served(<<>>)
    BY <2>1, <2>4, <2>5, Zenon
  <2>7. CASE Now \in DuckPasses
    <3>1. at' = "tail" /\ query' = query /\ joins' = joins /\ tables' = tables /\ answers' = answers
      BY <2>6, <2>7 DEF Step
    <3>. QED
      BY <2>1, <2>2, <2>7, <3>1, StepKeeps
  <2>8. CASE Now \notin DuckPasses
    <3>1. Served(<<>>)
      BY <2>6, <2>8
    <3>2. Right(Now, <<>>)
      BY <2>2, <2>8 DEF Right, DuckAnswers
    <3>. QED
      BY <2>1, <3>1, <3>2, ServedKeeps
  <2>. QED
    BY <2>7, <2>8
<1>6. CASE TailProbes
  <2>1. /\ at = "tail" /\ Len(answers) < Len(Batch) /\ at' = (IF ForcedTraps(TRUE) THEN "trapped" ELSE "emit")
        /\ query' = query /\ joins' = joins /\ tables' = tables /\ answers' = answers
    BY <1>6 DEF TailProbes, Serving, Step
  <2>2. Started /\ Now \in DOMAIN Batch /\ Batch[Now] \in Requests /\ QuietBefore(Now) /\ Now \in DuckPasses
    BY <1>0, <1>2, <2>1, QueryFits DEF Started, ServeInv
  <2>3. \A n \in DOMAIN joins : Prepared(n)
    BY <2>2 DEF PrepareInv, Started
  <2>4. CASE ForcedTraps(TRUE)
    <3>1. PICK n \in DOMAIN joins : Probe(n, Batch[Now]).trap
      BY <1>10, <2>4 DEF ForcedTraps
    <3>2. DuckBatchTraps
      BY <2>2, <3>1, TailStops
    <3>. QED
      BY <2>1, <2>4, <3>2, StepKeeps
  <2>5. CASE ~ ForcedTraps(TRUE)
    <3>1. Quiet(Now)
      <4>. SUFFICES ASSUME NEW n \in DOMAIN joins, Probe(n, Batch[Now]).trap PROVE FALSE
        BY DEF Quiet
      <4>1. ~ Unforced(joins[n])
        BY <2>2, TrapsAreRead
      <4>2. joins[n].after_where
        BY <2>2 DEF QuietBefore
      <4>3. joins[n].after_where = TRUE
        <5>1. joins[n].after_where = (~ query.many /\ n \notin ReadByWhere)
          BY <2>3 DEF Prepared
        <5>. QED
          BY <4>2, <5>1
      <4>. QED
        BY <1>10, <2>5, <4>1, <4>3 DEF ForcedTraps
    <3>. QED
      BY <2>1, <2>2, <2>5, <3>1, StepKeeps
  <2>. QED
    BY <2>4, <2>5
<1>7. CASE Emit
  <2>1. /\ at = "emit" /\ Len(answers) < Len(Batch)
        /\ IF Trap \in ToSet(RowOf(Req)) THEN Step("trapped") ELSE Served(RowOf(Req))
    BY <1>7 DEF Emit, Serving
  <2>2. Started /\ QuietBefore(Now) /\ Now \in DuckPasses /\ Quiet(Now)
    BY <2>1 DEF Started, ServeInv
  <2>3. RowOf(Req) = DuckAnswers[Now] /\ Trap \notin ToSet(RowOf(Req))
    BY <1>10, <2>2, RowIs
  <2>4. Served(RowOf(Req))
    BY <2>1, <2>3
  <2>5. Right(Now, RowOf(Req))
    BY <2>2, <2>3 DEF Right
  <2>6. PICK row : row = RowOf(Req)
    OBVIOUS
  <2>. QED
    BY <2>1, <2>4, <2>5, <2>6, ServedKeeps
<1>8. CASE Finish
  <2>1. /\ Len(answers) = Len(Batch) /\ at' = "served"
        /\ query' = query /\ joins' = joins /\ tables' = tables /\ answers' = answers
    BY <1>8 DEF Finish, Step
  <2>. QED
    BY <2>1, StepKeeps
<1>9. CASE Ended \/ UNCHANGED vars
  <2>1. at' = at /\ query' = query /\ joins' = joins /\ tables' = tables /\ answers' = answers
    BY <1>9 DEF Ended, vars
  <2>. QED
    BY <2>1, StepKeeps DEF ServeInv
<1>. QED
  BY <1>3, <1>4, <1>5, <1>6, <1>7, <1>8, <1>9 DEF Next

-----------------------------------------------------------------------------
Inv == BindInv /\ PrepareInv /\ ServeInv

\* The three parts are inductive.
LEMMA InvHolds == Spec => []Inv
<1>1. Init => Inv
  BY BindInit, PrepareInit, ServeInit DEF Inv
<1>2. Inv /\ [Next]_vars => Inv'
  BY BindNext, PrepareNext, ServeNext DEF Inv
<1>. QED
  BY <1>1, <1>2, PTL DEF Spec

\* A batch that is served holds DuckDB's rows, and DuckDB serves it too: every
\* value was read through a join that answers as DuckDB does (ReadsRight), and
\* no probe trapped for any request on the way.
THEOREM AnswersAreDuckDBsHolds == Spec => []AnswersAreDuckDBs
<1>1. Inv => AnswersAreDuckDBs
  <2>. SUFFICES ASSUME Inv, at = "served" PROVE ~ DuckBatchTraps /\ answers = DuckAnswers
    BY DEF AnswersAreDuckDBs
  <2>1. BindInv /\ PrepareInv /\ ServeInv /\ Started /\ Len(answers) = Len(Batch)
    BY DEF Inv, Started, ServeInv
  <2>. QED
    BY <2>1, BatchIs
<1>. QED
  BY <1>1, InvHolds, PTL

\* A batch that traps is one that DuckDB stops on: the probe or the value that
\* trapped is that of a request and a subquery that DuckDB evaluates.
THEOREM TrapsAreDuckDBsHolds == Spec => []TrapsAreDuckDBs
<1>1. Inv => TrapsAreDuckDBs
  BY DEF Inv, ServeInv, TrapsAreDuckDBs
<1>. QED
  BY <1>1, InvHolds, PTL

-----------------------------------------------------------------------------
(* The forms that are promised to be served.                               *)

Promise == Readable /\ (Harmless \/ Scannable)

\* What is promised is up to the query.
LEMMA SamePromise ==
  ASSUME query' = query
  PROVE  Promise' <=> Promise
<1>1. W' = W /\ Table' = Table /\ Mixed' = Mixed /\ (Correlated' <=> Correlated) /\ SubsOf' = SubsOf
  BY SameWhere DEF SubsOf
<1>2. Readable' <=> Readable
  BY <1>1 DEF Readable
<1>3. Harmless' <=> Harmless
  BY <1>1 DEF Harmless
<1>4. Scannable' <=> Scannable
  BY <1>1 DEF Scannable
<1>. QED
  BY <1>2, <1>3, <1>4 DEF Promise

\* The values that a promised query reads.
LEMMA PromisedValues ==
  ASSUME query \in QuerySet, Harmless \/ Scannable, NEW c \in Wanted
  PROVE  /\ c \in Calls /\ c.item \in ItemSet /\ c.item.fn # "row" /\ c.item.traps = {} /\ c.item.order = <<>>
         /\ Harmless => ~ CanTrap(c.left) /\ ~ RefsJoin(c.left)
         /\ Scannable => c.member = "value" /\ ~ c.item.distinct
<1>1. PICK sub \in SubsOf : c \in ToSet(CallsOf(sub))
  BY DEF Wanted
<1>2. sub \in Subs /\ c \in Calls
  BY WantedAre
<1>3. Simple(sub) /\ (Harmless => ~ CanTrap(sub.left) /\ ~ RefsJoin(sub.left))
      /\ (Scannable => sub.form \in {"value", "exists"} /\ ~ sub.item.distinct)
  BY DEF Harmless, Scannable
<1>4. \A fn \in {"count_star", "count"} :
        LET d == ValueCall(ItemOf(fn))
        IN d.item.fn = fn /\ d.item.traps = {} /\ d.item.order = <<>> /\ d.member = "value" /\ ~ d.item.distinct
  BY PlainItems, ValueCalls
<1>5. c.item \in ItemSet /\ (c.member = "value" => ~ CanTrap(c.left) /\ ~ RefsJoin(c.left))
  BY <1>2, CallsFit
<1>6. CASE sub.form = "value"
  <2>1. c = ValueCall(sub.item) /\ sub.item \in ItemSet
    BY <1>1, <1>2, <1>6, CallsOfFit, SubsFit
  <2>2. c.item = sub.item /\ c.member = "value"
    BY <2>1, ValueCalls
  <2>. QED
    BY <1>2, <1>3, <1>5, <2>2 DEF Simple
<1>7. CASE sub.form = "exists"
  <2>1. c = ValueCall(ItemOf("count_star"))
    BY <1>1, <1>2, <1>7, CallsOfFit DEF RowsCall
  <2>. QED
    BY <1>2, <1>4, <1>5, <2>1
<1>8. CASE sub.form \in {"in", "any"}
  <2>1. c \in {MemberCall(sub), RowsCall, ValuesCall} /\ ~ Scannable
    BY <1>1, <1>2, <1>3, <1>8, CallsOfFit
  <2>2. CASE c = MemberCall(sub)
    <3>1. c.item = ItemOf("count_star") /\ c.left = sub.left
      BY <1>2, <1>8, <2>2, MemberCalls
    <3>2. c.item.fn # "row" /\ c.item.traps = {} /\ c.item.order = <<>>
      BY <3>1, PlainItems
    <3>. QED
      BY <1>2, <1>3, <1>5, <2>1, <3>1, <3>2
  <2>3. CASE c \in {RowsCall, ValuesCall}
    BY <1>2, <1>4, <1>5, <2>3 DEF RowsCall, ValuesCall
  <2>. QED
    BY <2>1, <2>2, <2>3
<1>. QED
  BY <1>2, <1>6, <1>7, <1>8, SubsFit

\* Binding refuses none of them.
LEMMA PromisedBind ==
  ASSUME query \in QuerySet, Promise
  PROVE  /\ ~ WhereRefused
         /\ Harmless => ~ Scanned /\ ~ TrapKey
         /\ \A c \in Wanted : /\ ~ Scanned => ~ TableRefusal(c)
                              /\ Scanned => ~ ScanRefusal(c)
<1>1. /\ Keys \subseteq DOMAIN W /\ Filters \subseteq DOMAIN W /\ Mixed \subseteq DOMAIN W
      /\ \A i \in Keys : W[i] \in Terms /\ KindOf(W[i]) = "key"
      /\ Keys # {} => FirstKey \in Keys
  BY Kinds
<1>2. ASSUME Harmless
      PROVE  ~ LateTrap /\ ~ FilterTrap /\ ~ TrapKey /\ ~ Scanned
  <2>1. \A i \in DOMAIN W : ~ TermTraps(W[i])
    BY <1>2 DEF Harmless
  <2>2. \A i \in Keys : ~ CanTrap(OuterSide(W[i]))
    BY <1>1, <2>1, KeyTerms
  <2>3. ~ LateTrap /\ ~ FilterTrap /\ ~ TrapKey
    BY <1>1, <2>1, <2>2 DEF LateTrap, FilterTrap, TrapKey
  <2>. QED
    BY <1>2, <2>3 DEF Scanned, Harmless
<1>3. ~ WhereRefused
  <2>1. \A i \in DOMAIN W : ~ KeyRefused(W[i]) /\ ~ MixedRefused(W[i])
    BY DEF Promise, Readable
  <2>2. FilterTrap => Correlated
    BY <1>2 DEF Promise, Scannable
  <2>. QED
    BY <1>1, <2>1, <2>2 DEF WhereRefused
<1>4. ~ GuardUnsplit
  <2>1. Scannable => \A i \in Filters : ~ Unsplit(W[i])
    BY <1>1 DEF Scannable
  <2>. QED
    BY <1>2, <2>1 DEF Promise, GuardUnsplit, BeforeKey
<1>5. ASSUME NEW c \in Wanted
      PROVE  /\ ~ Scanned => ~ TableRefusal(c)
             /\ Scanned => ~ ScanRefusal(c)
  <2>1. /\ c \in Calls /\ c.item \in ItemSet /\ c.item.fn # "row" /\ c.item.traps = {} /\ c.item.order = <<>>
        /\ Harmless => ~ CanTrap(c.left) /\ ~ RefsJoin(c.left)
        /\ Scannable => c.member = "value" /\ ~ c.item.distinct
    BY PromisedValues DEF Promise
  <2>2. ~ ItemRefused(c.item)
    BY <2>1 DEF ItemRefused, DraftRefused
  <2>3. ~ LeftRefused(c)
    BY <2>1 DEF LeftRefused, Promise
  <2>4. Miss(c.item) # Trap
    <3>1. Answer(c.item, {}) = Miss(c.item) /\ Answer(c.item, {}) # Trap
      BY <2>1, Answers
    <3>. QED
      BY <3>1
  <2>5. ~ TableRefusal(c)
    BY <1>4, <2>2, <2>3, <2>4 DEF TableRefusal
  <2>6. ASSUME Scanned PROVE ~ ScanRefusal(c)
    <3>1. Scannable
      BY <1>2, <2>6 DEF Promise
    <3>2. \A i \in DOMAIN W : ~ Unsplit(W[i])
      BY <3>1 DEF Scannable
    <3>. QED
      BY <1>4, <2>1, <3>1, <3>2 DEF ScanRefusal
  <2>. QED
    BY <2>5, <2>6
<1>. QED
  BY <1>2, <1>3, <1>5

\* No join has a part that can trap: those of a filter that may are read by
\* each request, and a guard counts the rows before the first step that may.
LEMMA PartsAreQuiet ==
  ASSUME BindInv, NEW n \in DOMAIN joins
  PROVE  ~ BuildTraps(joins[n])
<1>. DEFINE j == joins[n]
<1>0. query \in QuerySet
  BY DEF BindInv
<1>1. /\ \A i \in Filters : i \in DOMAIN W /\ W[i] \in Terms
      /\ \A i \in DOMAIN W : W[i] \in Terms
      /\ \A i \in Keys : KindOf(W[i]) = "key"
      /\ Keys \cap Filters = {}
  BY <1>0, Kinds, QueryFits
<1>2. \A i \in Filters : Lower(i).i = i /\ Lower(i).half \in {"lower", "whole"}
  BY <1>0, <1>1, StepsAre
<1>3. ASSUME ~ Scanned, j.parts = Whole(Filters) \/ j.parts = Lowers(BeforeKey), NEW p \in j.parts
      PROVE  p.i \in DOMAIN W /\ p.half \in {"lower", "upper", "whole"} /\ ~ PartTraps(p)
  <2>1. PICK i \in Filters : p = Part(i, "whole") \/ p = Lower(i)
    BY <1>3 DEF Whole, Lowers, BeforeKey
  <2>2. p.i = i /\ p.half \in {"lower", "whole"}
    BY <1>2, <2>1, PartIs
  <2>3. ~ TermTraps(W[i])
    BY <1>3, <2>1 DEF Scanned, FilterTrap
  <2>4. HalfSides(W[i], p.half) \subseteq Sides(W[i])
    BY <1>1, SidesOfTerm
  <2>5. ~ HalfTraps(W[i], p.half)
    BY <2>3, <2>4 DEF TermTraps, HalfTraps, Sides
  <2>. QED
    BY <1>1, <2>2, <2>5 DEF PartTraps
<1>4. ASSUME Guarded(Steps), j.parts = Lowers(BeforeKey), NEW p \in j.parts
      PROVE  p.i \in DOMAIN W /\ p.half \in {"lower", "upper", "whole"} /\ ~ PartTraps(p)
  <2>1. PICK i \in BeforeKey : p = Lower(i)
    BY <1>4 DEF Lowers
  <2>2. i \in Filters /\ i < FirstKey
    BY DEF BeforeKey
  <2>3. i \in DOMAIN Steps /\ Steps[i] = p /\ p.i = i /\ p.half \in {"lower", "whole"} /\ i \in Nat
    BY <1>0, <1>1, <1>2, <2>1, <2>2, StepsAre
  <2>4. FirstKey < FirstTrap(Steps) /\ FirstTrap(Steps) \in Nat /\ FirstKey \in Nat
    <3>1. Keys # {} /\ FirstKey < FirstTrap(Steps) /\ FirstTrap(Steps) \in Nat
      BY <1>0, <1>4, FirstTrapIs
    <3>. QED
      BY <1>0, <3>1, Kinds
  <2>5. i < FirstTrap(Steps) /\ i # FirstKey
    BY <2>2, <2>3, <2>4
  <2>6. i \notin Trapping(Steps)
    BY <1>0, <2>5, FirstTrapIs
  <2>. QED
    BY <1>1, <2>2, <2>3, <2>6 DEF Trapping
<1>5. ASSUME j.parts = { Steps[m] : m \in Early("filter") }, NEW p \in j.parts
      PROVE  p.i \in DOMAIN W /\ p.half \in {"lower", "upper", "whole"} /\ ~ PartTraps(p)
  <2>1. PICK m \in Early("filter") : p = Steps[m]
    BY <1>5
  <2>2. m \in DOMAIN Steps /\ m < FirstTrap(Steps) /\ KindOf(W[p.i]) = "filter"
    BY <2>1 DEF Early
  <2>3. p.i \in DOMAIN W /\ p.half \in {"lower", "upper", "whole"}
    BY <1>0, <2>1, <2>2, StepsAre
  <2>4. m \notin Trapping(Steps)
    <3>. SUFFICES ASSUME m \in Trapping(Steps) PROVE FALSE
      OBVIOUS
    <3>1. m \in Keys
      BY <1>0, <2>2, FirstTrapIs DEF Guardable
    <3>2. m \in DOMAIN W
      BY <1>0, <3>1, Kinds
    <3>3. p.i = m
      BY <1>0, <2>1, <3>2, StepsAre
    <3>4. KindOf(W[m]) = "key"
      BY <1>1, <3>1
    <3>. QED
      BY <2>2, <3>3, <3>4
  <2>. QED
    BY <2>1, <2>2, <2>3, <2>4 DEF Trapping
<1>6. \A p \in j.parts : p.i \in DOMAIN W /\ p.half \in {"lower", "upper", "whole"} /\ ~ PartTraps(p)
  <2>1. (\E c \in DOMAIN reads : n = reads[c] /\ BoundAs(c)) \/ BareGuard(j)
    BY DEF BindInv
  <2>2. CASE BareGuard(j)
    <3>1. Guarded(Steps) => TrapKey
      BY <1>0, FirstTrapIs
    <3>2. CASE ~ Scanned
      BY <1>3, <2>2, <3>2 DEF BareGuard
    <3>3. CASE Scanned
      BY <1>4, <2>2, <3>1, <3>3 DEF BareGuard
    <3>. QED
      BY <3>2, <3>3
  <2>3. ASSUME NEW c \in DOMAIN reads, n = reads[c], BoundAs(c)
        PROVE  \A p \in j.parts : p.i \in DOMAIN W /\ p.half \in {"lower", "upper", "whole"} /\ ~ PartTraps(p)
    <3>1. CASE ~ Scanned
      BY <1>3, <2>3, <3>1 DEF BoundAs, IsTable
    <3>2. CASE Scanned
      BY <1>5, <2>3, <3>2 DEF BoundAs, IsScan
    <3>. QED
      BY <3>1, <3>2
  <2>. QED
    BY <2>1, <2>2, <2>3
<1>. HIDE DEF j
<1>7. ASSUME NEW r \in DOMAIN Table, NEW p \in j.parts, TestPart(p, Table[r], NoReq) = Trap
      PROVE  FALSE
  <2>1. Table[r] \in Rows /\ NoReq \in Requests
    BY <1>0, QueryFits, NoReqIs DEF NoReqFits
  <2>2. HalfTraps(W[p.i], p.half)
    BY <1>1, <1>6, <1>7, <2>1, HalfMayTrap DEF TestPart
  <2>. QED
    BY <1>6, <2>2 DEF PartTraps
<1>8. ~ BuildTraps(j)
  BY <1>7 DEF BuildTraps
<1>. QED
  BY <1>8 DEF j

\* The build refuses none of them.
LEMMA PromisedBuild ==
  ASSUME BindInv, Promise, NEW n \in DOMAIN joins
  PROVE  ~ TableRefused(joins[n]) /\ (query.many => ~ joins[n].traps)
<1>. DEFINE j == joins[n]
<1>0. query \in QuerySet /\ DOMAIN reads \subseteq Wanted
  BY DEF BindInv
<1>1. ~ BuildTraps(j)
  BY PartsAreQuiet
<1>2. (\E c \in DOMAIN reads : n = reads[c] /\ BoundAs(c)) \/ BareGuard(j)
  BY DEF BindInv
<1>3. \A key, rows : rows \subseteq DOMAIN Table => RowsUnder(j, key, rows) \subseteq DOMAIN Table
  BY DEF RowsUnder
<1>4. Stored(j) \subseteq DOMAIN Table
  BY DEF Stored, Passing
<1>5. CASE BareGuard(j)
  BY <1>1, <1>5 DEF BareGuard, TableRefused
<1>6. ASSUME NEW c \in DOMAIN reads, n = reads[c], BoundAs(c), ~ Scanned
      PROVE  ~ TableRefused(j) /\ (query.many => ~ j.traps)
  <2>1. j.how = "table" /\ j.call = c /\ j.traps = (Guards(c) \/ (c.member = "any" /\ CanTrap(c.left)))
    BY <1>6 DEF BoundAs, IsTable
  <2>2. /\ c.item \in ItemSet /\ c.item.fn # "row" /\ c.item.traps = {}
        /\ Harmless => ~ CanTrap(c.left)
    BY <1>0, PromisedValues DEF Promise
  <2>3. \A rows : rows \subseteq DOMAIN Table => Answer(c.item, rows) # Trap
    BY <1>0, <2>2, Answers
  <2>4. ~ TableRefused(j)
    BY <1>1, <1>3, <1>4, <2>1, <2>3 DEF TableRefused
  <2>5. ASSUME query.many PROVE ~ j.traps
    <3>1. Harmless
      BY <2>5 DEF Promise, Scannable
    <3>2. ~ TrapKey
      BY <1>0, <3>1, PromisedBind
    <3>. QED
      BY <2>1, <2>2, <3>1, <3>2 DEF Guards
  <2>. QED
    BY <2>4, <2>5
<1>7. ASSUME NEW c \in DOMAIN reads, n = reads[c], BoundAs(c), Scanned
      PROVE  ~ TableRefused(j) /\ (query.many => ~ j.traps)
  <2>1. j.how = "scan"
    BY <1>7 DEF BoundAs, IsScan
  <2>2. Scannable
    BY <1>0, <1>7, PromisedBind DEF Promise
  <2>3. Cardinality(DOMAIN Table) <= ScanLimit /\ ~ query.many
    BY <2>2 DEF Scannable
  <2>4. \A rows : rows \subseteq DOMAIN Table =>
          Cardinality(rows) \in Nat /\ Cardinality(rows) <= Cardinality(DOMAIN Table)
    BY <1>0, RowsAreFinite
  <2>5. ScanLimit \in Nat /\ Cardinality(DOMAIN Table) \in Nat
    BY <2>4, SubqueryAssumption
  <2>6. \A rows : rows \subseteq DOMAIN Table => ~ (Cardinality(rows) > ScanLimit)
    BY <2>3, <2>4, <2>5
  <2>. QED
    BY <1>1, <1>3, <1>4, <2>1, <2>3, <2>6 DEF TableRefused
<1>. QED
  BY <1>2, <1>5, <1>6, <1>7

\* No step refuses a query that is promised to be served.
LEMMA PromiseStays ==
  ASSUME Inv, PromisedFormsServe, [Next]_vars
  PROVE  PromisedFormsServe'
<1>. SUFFICES ASSUME Promise', at' = "refused" PROVE FALSE
  BY DEF PromisedFormsServe, Promise
<1>1. query' = query
  BY DEF Next, BindTable, BindScan, BindAgain, BindRefused, PlaceJoins, RefuseMany, BuildTable, BuildRefused,
         StartServing, HeadProbes, Where, TailProbes, Emit, Finish, Ended, Bound, Refuse, Step, Served, vars
<1>2. Promise
  BY <1>1, SamePromise
<1>3. at # "refused"
  BY <1>2 DEF PromisedFormsServe, Promise
<1>4. BindInv /\ PrepareInv /\ query \in QuerySet
  BY DEF Inv, BindInv
<1>5. BindRefused \/ RefuseMany \/ BuildRefused
  BY <1>3 DEF Next, BindTable, BindScan, BindAgain, PlaceJoins, BuildTable,
         StartServing, HeadProbes, Where, TailProbes, Emit, Finish, Ended, Bound, Refuse, Step, Served, vars
<1>6. CASE BindRefused
  <2>1. Call \in Wanted
    BY <1>4, <1>6, LaterCallsAre DEF BindInv, BindRefused
  <2>2. ~ WhereRefused /\ (~ Scanned => ~ TableRefusal(Call)) /\ (Scanned => ~ ScanRefusal(Call))
    BY <1>2, <1>4, <2>1, PromisedBind
  <2>. QED
    BY <1>6, <2>2 DEF BindRefused
<1>7. CASE RefuseMany
  BY <1>2, <1>4, <1>7, PromisedBuild DEF RefuseMany, ManyRefused
<1>8. CASE BuildRefused
  <2>1. at = "build" /\ Len(tables) < Len(joins) /\ TableRefused(joins[Len(tables) + 1])
    BY <1>8 DEF BuildRefused, Building, J
  <2>2. joins \in Seq(ToSet(joins)) /\ tables \in Seq(ToSet(tables))
    BY <1>4, <2>1 DEF BindInv, PrepareInv
  <2>3. DOMAIN joins = 1 .. Len(joins) /\ Len(joins) \in Nat /\ Len(tables) \in Nat
    BY <2>2, LenProperties
  <2>4. Len(tables) + 1 \in DOMAIN joins
    BY <2>1, <2>3
  <2>. QED
    BY <1>2, <1>4, <2>1, <2>4, PromisedBuild
<1>. QED
  BY <1>5, <1>6, <1>7, <1>8

\* The forms that form_refusal promises are served: neither the binder nor the
\* build refuses them.
THEOREM PromisedFormsServeHolds == Spec => []PromisedFormsServe
<1>1. Init => PromisedFormsServe
  BY DEF Init, PromisedFormsServe
<1>2. Inv /\ PromisedFormsServe /\ [Next]_vars => PromisedFormsServe'
  BY PromiseStays
<1>. QED
  BY <1>1, <1>2, InvHolds, PTL DEF Spec
=============================================================================
