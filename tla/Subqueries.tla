----------------------------- MODULE Subqueries -----------------------------
(***************************************************************************)
(* Subqueries over one static table                                        *)
(* (packages/confit/src/specializer/frontend/subquery.rs): how the binder  *)
(* turns them into hidden LEFT joins to tables that the build computes, or *)
(* into a scan for each request, where those joins run, and what a request *)
(* reads through them. Joins of FROM, the loops that run a fold and the    *)
(* arithmetic of the aggregates are in JoinLoops and StaticTables.         *)
(*                                                                         *)
(* A side of a comparison is [of, traps, tells]: what it reads, a column   *)
(* of the table ("k", "v"), the request ("x"), both ("vx"), a joined table *)
(* ("joined") or nothing ("one"); the values on which it traps; whether it *)
(* tells -0.0 from 0.0. A WHERE term is [op, a, b, c, split]: "=", "isnd"  *)
(* (IS NOT DISTINCT FROM), "<", or "between", a BETWEEN b AND c, which may *)
(* bind as something other than two comparisons. A SELECT item is [fn,     *)
(* distinct, post, traps, null, order]: an aggregate of v or the one row's *)
(* v ("row"), an expression over it if post, which traps on some values    *)
(* and answers `null' for a NULL, and [desc, limit, offset] or <<>>.       *)
(* A subquery is [form, item, left, pred, not, when]: "value", "exists",   *)
(* "in" or "any"; `when' are the requests whose CASE reads it. A query is  *)
(* [where, select, filter, passes, many, table, batch]: the WHERE of every *)
(* subquery, those in the SELECT list, those in its own WHERE beside a     *)
(* test of x, rows [k, v], requests [x, neg], x = 0 being -0.0 if neg.     *)
(***************************************************************************)
EXTENDS Integers, FiniteSetsExt, SequencesExt

CONSTANTS
  Null, Trap,
  ScanLimit,  \* plan::SCAN_LIMIT
  Queries     \* the queries, with their static table and batch

ASSUME SubqueryAssumption ==
  /\ ScanLimit \in Nat
  /\ Null \notin Int \union BOOLEAN /\ Trap \notin Int \union BOOLEAN \union {Null}

\* What the parser and the binder make of a query.
Values == Int \union {Null}
SideSet == [of : {"k", "v", "x", "vx", "joined", "one"}, traps : SUBSET Values, tells : BOOLEAN]
Preds == {"=", "<>", "<", "<=", ">", ">="}
Terms == { t \in [op : {"=", "isnd", "<", "between"}, a : SideSet, b : SideSet, c : SideSet,
                  split : BOOLEAN] : t.op # "between" => t.c = t.b }
OrderSet == [desc : BOOLEAN, limit : Int, offset : Int]
ItemSet == { item \in [fn : {"count_star", "count", "sum", "min", "max", "row"}, distinct : BOOLEAN,
                       post : BOOLEAN, traps : SUBSET Values, null : Values,
                       order : {<<>>} \union OrderSet] :
              item.fn # "row" /\ ~ item.post => item.traps = {} /\ item.null = Null }
Subs == { sub \in [form : {"value", "exists", "in", "any"}, item : ItemSet, left : SideSet,
                    pred : Preds, not : BOOLEAN, when : SUBSET Values] :
           /\ sub.left.of \in {"x", "joined", "one"}
           /\ sub.form = "in" => sub.pred = "=" }
QuerySet == { q \in [where : Seq(Terms), select : Seq(Subs), filter : Seq(Subs),
                     passes : SUBSET Values, many : BOOLEAN, table : Seq([k : Values, v : Values]),
                     batch : Seq([x : Values, neg : BOOLEAN])] : Len(q.filter) <= 1 }
ASSUME QueriesAssumption == Queries \subseteq QuerySet

VARIABLES
  query,
  at,       \* "bind", "build", "head", "where", "tail", "emit", then
            \* "served", "refused" or "trapped"
  calls,    \* the subquery values still to bind
  joins,    \* the hidden joins
  reads,    \* agg_reads: the join each bound value reads
  tables,   \* what the build made of the joins' tables so far
  answers   \* of the requests served: a row, or "dropped"

vars == <<query, at, calls, joins, reads, tables, answers>>

W == query.where
Table == query.table
Lanes == {"k", "v"}

---------------------------------------------------------------------------
(* Sides and terms, and what they answer.                                  *)

ReadsTable(side) == side.of \in Lanes \union {"vx"}           \* Inner::reads
ReadsOuter(side) == side.of \in {"x", "vx", "joined"}
IsCol(side) == side.of \in Lanes /\ side.traps = {}           \* Inner::col
CanTrap(side) == side.traps # {}
RefsJoin(side) == side.of = "joined"
\* double_taint: an operation that tells -0.0 from 0.0 over a request value.
TellsZeros(side) == side.tells /\ ReadsOuter(side)

\* 1 / x: another answer for -0.0 than for 0.0.
OuterValue(side, req) == CASE side.tells /\ req.x = 0 /\ req.neg -> 1
                           [] side.tells /\ req.x = 0 /\ ~ req.neg -> 2
                           [] OTHER -> req.x
Plain(side, row, req) ==
  CASE side.of \in Lanes -> row[side.of]
    [] side.of = "one" -> 1
    [] side.of = "vx" -> IF Null \in {row.v, req.x} THEN Null ELSE row.v + OuterValue(side, req)
    [] OTHER -> OuterValue(side, req)
ValueOf(side, row, req) ==
  IF Plain(side, row, req) \in side.traps THEN Trap ELSE Plain(side, row, req)

Holds(pred, l, r) == \/ pred \in {"=", "isnd", "<=", ">="} /\ l = r
                     \/ pred = "<>" /\ l # r
                     \/ pred \in {"<", "<="} /\ l < r
                     \/ pred \in {">", ">="} /\ l > r
Compare(pred, l, r) == IF Trap \in {l, r} THEN Trap
                       ELSE IF pred # "isnd" /\ Null \in {l, r} THEN Null ELSE Holds(pred, l, r)

\* A term, or the half of a BETWEEN that a part names.
HalfSides(t, half) == IF half = "upper" THEN {t.a, t.c}
                      ELSE IF half = "lower" THEN {t.a, t.b} ELSE {t.a, t.b, t.c}
TestHalf(t, half, row, req) ==
  IF half = "upper" THEN Compare("<=", ValueOf(t.a, row, req), ValueOf(t.c, row, req))
  ELSE Compare(IF t.op = "between" THEN ">=" ELSE t.op,
               ValueOf(t.a, row, req), ValueOf(t.b, row, req))
Test(t, half, row, req) ==
  LET lower == TestHalf(t, half, row, req)
  IN IF half = "whole" /\ t.op = "between" /\ lower = TRUE THEN TestHalf(t, "upper", row, req)
     ELSE lower
HalfTraps(t, half) == \E side \in HalfSides(t, half) : CanTrap(side)
TermTraps(t) == HalfTraps(t, "whole")

NoReq == [x |-> Null, neg |-> FALSE]

---------------------------------------------------------------------------
(* The split of the WHERE: subquery_value.                                 *)

Sides(t) == HalfSides(t, "whole")
ReadsOnly(t) == \A side \in Sides(t) : ~ ReadsOuter(side)
IsKey(t) == /\ t.op \in {"=", "isnd"}
            /\ \/ IsCol(t.a) /\ ~ ReadsTable(t.b)
               \/ IsCol(t.b) /\ ~ ReadsTable(t.a)
KindOf(t) == CASE ReadsOnly(t) -> "filter"
               [] ~ ReadsOnly(t) /\ IsKey(t) -> "key"
               [] OTHER -> "mixed"
Lane(t) == IF IsCol(t.a) THEN t.a.of ELSE t.b.of
OuterSide(t) == IF IsCol(t.a) THEN t.b ELSE t.a

\* The places of the WHERE's terms of a kind.
Places(kind) == { i \in DOMAIN W : KindOf(W[i]) = kind }
Keys == Places("key")
Filters == Places("filter")
Mixed == Places("mixed")
Correlated == Keys # {} \/ Mixed # {}
FirstKey == Min(Keys)

\* The first key's outer side traps, after filters only: trap_key.
TrapKey == /\ Keys # {} /\ CanTrap(OuterSide(W[FirstKey]))
           /\ 1 .. FirstKey - 1 \subseteq Filters
LateTrap == \E i \in Keys : CanTrap(OuterSide(W[i])) /\ ~ 1 .. i - 1 \subseteq Filters
FilterTrap == \E i \in Filters : TermTraps(W[i])
ScannedLess == Mixed # {} \/ LateTrap   \* mutant: a filter that traps stays in the build
Scanned == Mixed # {} \/ LateTrap \/ FilterTrap

\* Refusals of the terms alone.
KeyRefused(t) == RefsJoin(OuterSide(t)) \/ TellsZeros(OuterSide(t))
MixedRefused(t) == \E side \in Sides(t) : RefsJoin(side) \/ TellsZeros(side)
WhereRefused == \/ \E i \in Keys : KeyRefused(W[i])
                \/ \E i \in Mixed : MixedRefused(W[i])
                \/ FilterTrap /\ ~ Correlated

---------------------------------------------------------------------------
(* Parts of the WHERE: a term's place and the half of it.                  *)

IsSplit(t) == t.op = "between" /\ t.split
Unsplit(t) == t.op = "between" /\ ~ t.split
Part(i, half) == [i |-> i, half |-> half]
Whole(places) == { Part(i, "whole") : i \in places }
\* The terms as guarded_key counts them before a key.
Lower(i) == Part(i, IF IsSplit(W[i]) THEN "lower" ELSE "whole")
Lowers(places) == { Lower(i) : i \in places }
TestPart(p, row, req) == Test(W[p.i], p.half, row, req)
PartTraps(p) == HalfTraps(W[p.i], p.half)

\* The steps of a scan, by number: the terms as written, then upper halves.
End == 2 * Len(W) + 1
Uppers(terms) == { Len(W) + i : i \in terms }
WrittenOrder == [ n \in DOMAIN W |-> Part(n, "whole") ]   \* mutant: a BETWEEN whole where it is written
Steps == LET split == { i \in DOMAIN W : IsSplit(W[i]) }
         IN [ n \in DOMAIN W \union Uppers(split) |->
                IF n \in DOMAIN W THEN Lower(n) ELSE Part(n - Len(W), "upper") ]

Guardable(n) == n \in Keys /\ n = FirstKey /\ W[n].op = "=" /\ 1 .. n - 1 \subseteq Filters
Trapping(steps) == { n \in DOMAIN steps : PartTraps(steps[n]) }
\* The first step that can trap, other than a first key under a guard.
FirstTrap(steps) == Min({ n \in Trapping(steps) : ~ Guardable(n) } \union {End})
Guarded(steps) == \E n \in Trapping(steps) : n < FirstTrap(steps)

---------------------------------------------------------------------------
(* The values a subquery reads: a call is [member, item, left, pred].      *)

ItemOf(fn) == [fn |-> fn, distinct |-> FALSE, post |-> FALSE, traps |-> {}, null |-> Null,
               order |-> <<>>]
NoSide == [of |-> "one", traps |-> {}, tells |-> FALSE]
ValueCall(item) == [member |-> "value", item |-> item, left |-> NoSide, pred |-> "="]
\* ALL is NOT over ANY with the opposite comparison, and = ANY is IN.
Opposite == [p \in {"=", "<>", "<", "<=", ">", ">="} |->
               CASE p = "=" -> "<>" [] p = "<>" -> "=" [] p = "<" -> ">=" [] p = ">=" -> "<"
                 [] p = ">" -> "<=" [] p = "<=" -> ">"]
PredOf(sub) == IF sub.form = "any" /\ sub.not THEN Opposite[sub.pred] ELSE sub.pred
MemberCall(sub) == [member |-> IF PredOf(sub) = "=" THEN "in" ELSE "any",
                    item |-> ItemOf("count_star"), left |-> sub.left, pred |-> PredOf(sub)]
RowsCall == ValueCall(ItemOf("count_star"))
ValuesCall == ValueCall(ItemOf("count"))
CallsOf(sub) == CASE sub.form = "value" -> <<ValueCall(sub.item)>>
                  [] sub.form = "exists" -> <<RowsCall>>
                  [] OTHER -> <<MemberCall(sub), RowsCall, ValuesCall>>

CountsRows(item) == item.fn \in {"count_star", "count"}
Extremes(pred) == CASE pred \in {"<", "<="} -> {"max"}
                    [] pred \in {">", ">="} -> {"min"}
                    [] pred = "<>" -> {"min", "max"}

Vals(rows) == { r \in rows : Table[r].v # Null }
Firsts(rows) == { r \in rows : \A q \in rows : Table[q].v = Table[r].v => r <= q }
SumOver(rows) == LET S[r \in 0 .. Len(Table)] ==
                       IF r = 0 THEN 0 ELSE S[r - 1] + (IF r \in rows THEN Table[r].v ELSE 0)
                 IN S[Len(Table)]
\* agg_call: over DISTINCT values the extremes are those of all values.
Aggregate(item, rows) ==
  LET vals == { Table[r].v : r \in Vals(rows) }
      read == IF item.distinct THEN Firsts(Vals(rows)) ELSE Vals(rows)
  IN CASE item.fn = "count_star" -> Cardinality(rows)
       [] item.fn = "count" -> Cardinality(read)
       [] item.fn \notin {"count_star", "count"} /\ vals = {} -> Null
       [] item.fn = "sum" /\ vals # {} -> SumOver(read)
       [] item.fn = "min" /\ vals # {} -> Min(vals)
       [] item.fn = "max" /\ vals # {} -> Max(vals)
Post(item, v) == CASE v \in item.traps -> Trap
                   [] v \notin item.traps /\ v = Null -> item.null
                   [] OTHER -> v

\* order_draft, row_count, row_order: LIMIT NULL is none, OFFSET NULL is 0.
DraftRefused(order) == order # <<>> /\ (order.limit < -1 \/ order.offset < -1)
Limit(order) == IF order = <<>> \/ order.limit = -1 THEN Cardinality(DOMAIN Table) ELSE order.limit
Offset(order) == IF order = <<>> \/ order.offset = -1 THEN 0 ELSE order.offset
Before(order, q, r) ==
  LET x == Table[q].v  y == Table[r].v
      ahead == CASE x = Null -> FALSE
                 [] x # Null /\ y = Null -> TRUE
                 [] OTHER -> IF order # <<>> /\ order.desc THEN x > y ELSE x < y
  IN ahead \/ (x = y /\ q < r)
KeptRows(order, rows) ==
  LET rank(r) == Cardinality({ q \in rows : Before(order, q, r) })
  IN { r \in rows : rank(r) >= Offset(order) /\ rank(r) < Offset(order) + Limit(order) }
RowItem(item, rows) ==
  LET kept == KeptRows(item.order, rows)
  IN CASE Cardinality(kept) > 1 \/ (\E r \in rows : Post(item, Table[r].v) = Trap) -> Trap
       [] kept = {} -> Null
       [] OTHER -> Post(item, Table[CHOOSE r \in kept : TRUE].v)
\* The item over the rows that a request matches.
Answer(item, rows) == IF item.fn = "row" THEN RowItem(item, rows)
                      ELSE Post(item, Aggregate(item, rows))

---------------------------------------------------------------------------
(* Binding: one value of a subquery a step, with the joins it reads.       *)

NoJoin == 0
Key(i, guard) == [lane |-> Lane(W[i]), cmp |-> W[i].op, side |-> OuterSide(W[i]), guard |-> guard]
\* The IN test, one more key.
InPlace == Len(W) + 1
InKey(call, guard) == [lane |-> "v", cmp |-> "=", side |-> call.left, guard |-> guard]

Join(how, parts, keys, preds, call, traps) ==
  [how |-> how, parts |-> parts, keys |-> keys, preds |-> preds, call |-> call,
   traps |-> traps, after_where |-> FALSE]
GuardJoin(parts, item) == Join("guard", parts, << >>, << >>, ValueCall(item), FALSE)

\* The next value to bind, and those after it.
Call == calls[1][1]
LaterCalls == (IF Len(calls[1]) = 1 THEN <<>> ELSE <<Tail(calls[1])>>) \o Tail(calls)
Bound(call, new) ==
  /\ joins' = joins \o new
  /\ reads' = [ c \in DOMAIN reads \union {call} |->
                  IF c = call THEN Len(joins) + Len(new) ELSE reads[c] ]
  /\ calls' = LaterCalls
  /\ UNCHANGED <<query, at, tables, answers>>

Refuse == at' = "refused" /\ UNCHANGED <<query, calls, joins, reads, tables, answers>>

ItemRefused(item) == \/ DraftRefused(item.order)
                     \/ item.order # <<>> /\ item.fn # "row"

\* Whether DuckDB evaluates a left side that traps for one request depends
\* on the other requests of the batch.
LeftRefused(call) == /\ call.member # "value"
                     /\ \/ RefsJoin(call.left)
                        \/ CanTrap(call.left) /\ Keys # {}

\* What a request that matches no group reads, computed by the binder.
Miss(item) == Post(item, IF CountsRows(item) THEN 0 ELSE Null)
HasMiss(call) == call.member = "value" /\ call.item.post /\ call.item.fn # "row" /\ Keys # {}

BeforeKey == { i \in Filters : i < FirstKey }
GuardParts(call) == IF TrapKey THEN Lowers(BeforeKey) ELSE Whole(Filters)
GuardItem(call) == IF TrapKey THEN ItemOf("count_star") ELSE ItemOf("count")
GuardUnsplit == TrapKey /\ \E i \in BeforeKey : Unsplit(W[i])
Guards(call) == TrapKey \/ (call.member = "in" /\ CanTrap(call.left))

TableRefusal(call) == \/ ItemRefused(call.item) \/ LeftRefused(call) \/ GuardUnsplit
                      \/ HasMiss(call) /\ Miss(call.item) = Trap

TableKeys(call, guard) ==
  [ i \in Keys \union (IF call.member = "in" THEN {InPlace} ELSE {}) |->
      IF i \in Keys THEN Key(i, IF i = FirstKey THEN guard ELSE NoJoin)
      ELSE InKey(call, IF Keys = {} THEN guard ELSE NoJoin) ]
TableJoin(call, guard) ==
  Join("table", Whole(Filters), TableKeys(call, guard), << >>, call,
       Guards(call) \/ (call.member = "any" /\ CanTrap(call.left)))

\* subquery_value: a table grouped by the keys, and the count that guards a
\* first key, or a left side of IN, that can trap.
BindTable ==
  /\ at = "bind" /\ calls # <<>> /\ Call \notin DOMAIN reads
  /\ ~ WhereRefused /\ ~ Scanned /\ ~ TableRefusal(Call)
  /\ LET guard == IF Guards(Call) THEN Len(joins) + 1 ELSE NoJoin
     IN Bound(Call, (IF guard = NoJoin THEN <<>> ELSE <<GuardJoin(GuardParts(Call), GuardItem(Call))>>)
                    \o <<TableJoin(Call, guard)>>)

ScanRefusal(call) ==
  \/ call.member # "value" \/ call.item.order # <<>> \/ call.item.fn = "row" \/ call.item.distinct
  \/ FirstTrap(Steps) < End /\ \E i \in DOMAIN W : Unsplit(W[i])
  \/ Guarded(Steps) /\ GuardUnsplit

\* scan_value: before the first step that can trap, filters at build, keys
\* that equal, and terms; from it on, every term in DuckDB's order.
Early(kind) == { n \in DOMAIN Steps : n < FirstTrap(Steps) /\ KindOf(W[Steps[n].i]) = kind }
ScanKeys == { n \in Early("key") : W[n].op = "=" }
ScanJoin(call, guard) ==
  Join("scan", { Steps[n] : n \in Early("filter") },
       [ n \in ScanKeys |-> Key(n, IF n = FirstKey THEN guard ELSE NoJoin) ],
       [ n \in DOMAIN Steps \ (Early("filter") \union ScanKeys) |-> Steps[n] ], call,
       guard # NoJoin \/ FirstTrap(Steps) < End \/ call.item.traps # {})

BindScan ==
  /\ at = "bind" /\ calls # <<>> /\ Call \notin DOMAIN reads
  /\ ~ WhereRefused /\ Scanned /\ ~ ScanRefusal(Call)
  /\ LET guard == IF Guarded(Steps) THEN Len(joins) + 1 ELSE NoJoin
     IN Bound(Call, (IF guard = NoJoin THEN <<>>
                     ELSE <<GuardJoin(Lowers(BeforeKey), ItemOf("count_star"))>>)
                    \o <<ScanJoin(Call, guard)>>)

\* The same text bound again reads the same join.
BindAgain ==
  /\ at = "bind" /\ calls # <<>> /\ Call \in DOMAIN reads
  /\ calls' = LaterCalls /\ UNCHANGED <<query, at, joins, reads, tables, answers>>

BindRefused ==
  /\ at = "bind" /\ calls # <<>> /\ Call \notin DOMAIN reads
  /\ \/ WhereRefused
     \/ ~ WhereRefused /\ Scanned /\ ScanRefusal(Call)
     \/ ~ WhereRefused /\ ~ Scanned /\ TableRefusal(Call)
  /\ Refuse

\* A hidden join that the WHERE does not read runs after it.
ReadByWhere == { reads[c] : c \in UNION { ToSet(CallsOf(sub)) : sub \in ToSet(query.filter) } }
Placed == [ j \in DOMAIN joins |->
              [joins[j] EXCEPT !.after_where = ~ query.many /\ j \notin ReadByWhere] ]
ManyRefused == query.many /\ \E j \in DOMAIN joins : joins[j].traps

PlaceJoins ==
  /\ at = "bind" /\ calls = <<>> /\ ~ ManyRefused
  /\ joins' = Placed /\ at' = "build"
  /\ UNCHANGED <<query, calls, reads, tables, answers>>
RefuseMany == at = "bind" /\ calls = <<>> /\ ManyRefused /\ Refuse

---------------------------------------------------------------------------
(* The build: one hidden table a step, over every row of the static table. *)

Building == at = "build" /\ Len(tables) < Len(joins)
J == joins[Len(tables) + 1]

Passing(j) == { r \in DOMAIN Table : \A p \in j.parts : TestPart(p, Table[r], NoReq) = TRUE }
StoredKey(j, r) == [ n \in DOMAIN j.keys |-> Table[r][j.keys[n].lane] ]
Stored(j) == { r \in Passing(j) : \A n \in DOMAIN j.keys :
                                    j.keys[n].cmp = "=" => StoredKey(j, r)[n] # Null }
RowsUnder(j, key, rows) == { r \in rows : StoredKey(j, r) = key }
GroupKeys(j) == { StoredKey(j, r) : r \in Stored(j) } \union (IF DOMAIN j.keys = {} THEN {<<>>} ELSE {})

Group(call, rows) ==
  IF call.member = "any"
  THEN [count |-> Cardinality(rows), min |-> Aggregate(ItemOf("min"), rows),
        max |-> Aggregate(ItemOf("max"), rows)]
  ELSE [val |-> Answer(call.item, rows)]

\* The guard's count, the groups, or the rows that a scan reads.
TableOf(j) == CASE j.how = "guard" -> Answer(j.call.item, Passing(j))
                [] j.how = "table" -> [ key \in GroupKeys(j) |->
                                          Group(j.call, RowsUnder(j, key, Stored(j))) ]
                [] j.how = "scan" -> Stored(j)
BuildTraps(j) == \E r \in DOMAIN Table, p \in j.parts : TestPart(p, Table[r], NoReq) = Trap
TableRefused(j) ==
  \/ BuildTraps(j)
  \/ /\ j.how = "table" /\ j.call.member # "any"
     /\ \E key \in GroupKeys(j) : Answer(j.call.item, RowsUnder(j, key, Stored(j))) = Trap
  \/ /\ j.how = "scan"
     /\ \E key \in GroupKeys(j) : Cardinality(RowsUnder(j, key, Stored(j))) > ScanLimit

BuildTable == /\ Building /\ ~ TableRefused(J)
              /\ tables' = Append(tables, TableOf(J))
              /\ UNCHANGED <<query, at, calls, joins, reads, answers>>
BuildRefused == Building /\ TableRefused(J) /\ Refuse
StartServing == /\ at = "build" /\ Len(tables) = Len(joins)
                /\ at' = "head" /\ UNCHANGED <<query, calls, joins, reads, tables, answers>>

---------------------------------------------------------------------------
(* A request: what it reads through a join.                                *)

Batch == query.batch
Req == Batch[Len(answers) + 1]

KeyValue(key, req) == IF key.guard # NoJoin /\ tables[key.guard] = 0 THEN Null
                      ELSE ValueOf(key.side, <<>>, req)
KeyValues(j, req) == [ n \in DOMAIN j.keys |-> KeyValue(j.keys[n], req) ]
Matches(j, vals) == \A n \in DOMAIN vals : j.keys[n].cmp = "=" => vals[n] # Null

Trapped == [trap |-> TRUE, hit |-> FALSE, val |-> Null]
Missed == [trap |-> FALSE, hit |-> FALSE, val |-> Null]
Hit(v) == [trap |-> FALSE, hit |-> TRUE, val |-> v]

\* quantified_residual: the left side against the extremes of a group.
Residual(call, group, req) ==
  LET tests == { Compare(call.pred, ValueOf(call.left, <<>>, req), group[e]) :
                   e \in Extremes(call.pred) }
  IN CASE group.count = 0 -> Missed
       [] group.count > 0 /\ Trap \in tests -> Trapped
       [] OTHER -> IF TRUE \in tests THEN Hit(Null) ELSE Missed

LookUp(n, vals, req) ==
  LET j == joins[n]
  IN CASE ~ Matches(j, vals) \/ vals \notin DOMAIN tables[n] -> Missed
       [] OTHER -> IF j.call.member = "any" THEN Residual(j.call, tables[n][vals], req)
                   ELSE Hit(tables[n][vals].val)

\* emit_fold: each predicate over the rows on which those before it are TRUE.
Scan(n, vals, req) ==
  LET j == joins[n]
      rows == IF Matches(j, vals) THEN RowsUnder(j, vals, tables[n]) ELSE {}
      Reaches(r, m) == \A q \in DOMAIN j.preds : q < m => TestPart(j.preds[q], Table[r], req) = TRUE
      traps == \E r \in rows, m \in DOMAIN j.preds :
                 Reaches(r, m) /\ TestPart(j.preds[m], Table[r], req) = Trap
      Item(v) == IF v = Trap THEN Trapped ELSE Hit(v)
  IN IF traps THEN Trapped
     ELSE Item(Answer(j.call.item, { r \in rows : Reaches(r, End) }))

Probe(n, req) ==
  LET With(vals) == CASE Trap \in ToSet(vals) -> Trapped
                      [] Trap \notin ToSet(vals) /\ joins[n].how = "guard" -> Missed
                      [] Trap \notin ToSet(vals) /\ joins[n].how = "table" -> LookUp(n, vals, req)
                      [] OTHER -> Scan(n, vals, req)
  IN With(KeyValues(joins[n], req))

\* A value that a call bound: count_or_zero, or the item over no rows.
Read(call, req) ==
  LET Of(p) == CASE p.trap -> Trap
                 [] ~ p.trap /\ p.hit -> p.val
                 [] ~ p.trap /\ ~ p.hit /\ HasMiss(call) -> Miss(call.item)
                 [] OTHER -> IF CountsRows(call.item) /\ ~ call.item.post THEN 0 ELSE Null
  IN Of(Probe(reads[call], req))
HitOf(call, req) == IF call.member = "in" THEN Read(call, req)
                    ELSE LET Of(p) == IF p.trap THEN Trap ELSE IF p.hit THEN 1 ELSE 0
                         IN Of(Probe(reads[call], req))

\* member_value: the left side is evaluated last.
MemberValue(sub, req) ==
  LET hit == HitOf(MemberCall(sub), req)
      rows == Read(RowsCall, req)
      left == ValueOf(sub.left, <<>>, req)
  IN CASE hit = Trap \/ rows = Trap -> Trap
       [] hit # Trap /\ rows # Trap /\ hit > 0 -> ~ sub.not
       [] hit = 0 /\ rows = 0 -> sub.not
       [] hit = 0 /\ rows \notin {0, Trap} ->
            CASE Read(ValuesCall, req) < rows -> Null
              [] OTHER -> IF left \in {Null, Trap} THEN left ELSE sub.not

SubValue(sub, req) ==
  LET Exists(rows) == IF rows = Trap THEN Trap ELSE IF sub.not THEN rows = 0 ELSE rows > 0
  IN CASE sub.form = "value" -> Read(ValueCall(sub.item), req)
       [] sub.form = "exists" -> Exists(Read(RowsCall, req))
       [] OTHER -> MemberValue(sub, req)
IsTrue(sub, v) == IF sub.form = "value" THEN v # Null /\ v > 0 ELSE v = TRUE

---------------------------------------------------------------------------
(* Serving: the joins before the WHERE, the WHERE, those after it, the row.*)

NeverForced(j) == j.how = "scan"   \* mutant: a fold that traps runs where it is read
\* A fold that cannot trap runs where a value reads it.
Unforced(j) == j.how = "scan" /\ ~ j.traps
ForcedTraps(after) == \E n \in DOMAIN joins : /\ joins[n].after_where = after
                                              /\ ~ Unforced(joins[n]) /\ Probe(n, Req).trap

Step(to) == at' = to /\ UNCHANGED <<query, calls, joins, reads, tables, answers>>
Served(row) == /\ answers' = Append(answers, row) /\ at' = "head"
               /\ UNCHANGED <<query, calls, joins, reads, tables>>

Serving(stage) == at = stage /\ Len(answers) < Len(Batch)
HeadProbes == Serving("head") /\ Step(IF ForcedTraps(FALSE) THEN "trapped" ELSE "where")
Where ==
  /\ Serving("where")
  /\ \E v \in { IF query.filter = <<>> \/ Req.x \notin query.passes THEN Null
                 ELSE SubValue(query.filter[1], Req) } :
       CASE v = Trap -> Step("trapped")
         [] v # Trap /\ Req.x \in query.passes
            /\ (query.filter = <<>> \/ IsTrue(query.filter[1], v)) -> Step("tail")
         [] OTHER -> Served(<<>>)
TailProbes == Serving("tail") /\ Step(IF ForcedTraps(TRUE) THEN "trapped" ELSE "emit")
RowOf(req) == [ n \in DOMAIN query.select |->
                  IF req.x \in query.select[n].when THEN SubValue(query.select[n], req) ELSE Null ]
Emit == /\ Serving("emit")
        /\ \E row \in {RowOf(Req)} : IF Trap \in ToSet(row) THEN Step("trapped") ELSE Served(row)
Finish == at = "head" /\ Len(answers) = Len(Batch) /\ Step("served")

Ended == at \in {"served", "refused", "trapped"} /\ UNCHANGED vars

Init == /\ query \in Queries
        /\ at = "bind" /\ joins = <<>> /\ reads = << >> /\ tables = <<>> /\ answers = <<>>
        /\ calls = [ n \in DOMAIN (query.select \o query.filter) |->
                       CallsOf((query.select \o query.filter)[n]) ]

Next == \/ BindTable \/ BindScan \/ BindAgain \/ BindRefused \/ PlaceJoins \/ RefuseMany
        \/ BuildTable \/ BuildRefused \/ StartServing
        \/ HeadProbes \/ Where \/ TailProbes \/ Emit \/ Finish \/ Ended

Spec == Init /\ [][Next]_vars

---------------------------------------------------------------------------
(* What DuckDB answers, as subquery.rs states it (lines 37-46): the WHERE  *)
(* over the pairs of a row and a distinct correlated value of the batch,   *)
(* each term over the pairs on which those before it are TRUE, the upper   *)
(* half of each BETWEEN after every other term; the item once for each     *)
(* such value; a subquery that reads nothing of the outer query once for   *)
(* the batch, an empty one too.                                            *)

DuckSteps ==
  LET betweens == { i \in DOMAIN W : W[i].op = "between" }
  IN [ n \in DOMAIN W \union Uppers(betweens) |->
         IF n \in Uppers(betweens) THEN Part(n - Len(W), "upper")
         ELSE Part(n, IF n \in betweens THEN "lower" ELSE "whole") ]

\* The distinct values of the requests R, each the first of its kind.
FirstOf(R, i) == Batch[Min({ j \in R : Batch[j].x = Batch[i].x })]
Distinct(R) == IF Correlated THEN { FirstOf(R, i) : i \in R } ELSE {NoReq}
ValueFor(R, i) == IF Correlated THEN FirstOf(R, i) ELSE NoReq

DuckReaches(d, r, n) == \A m \in DOMAIN DuckSteps : m < n => TestPart(DuckSteps[m], Table[r], d) = TRUE
DuckRows(d) == { r \in DOMAIN Table : DuckReaches(d, r, End) }
Items(rows) == { Table[r].v : r \in rows }

WhereTraps(d) == \E r \in DOMAIN Table, n \in DOMAIN DuckSteps :
                   DuckReaches(d, r, n) /\ TestPart(DuckSteps[n], Table[r], d) = Trap
\* A hash join evaluates the left side of IN once it holds an item; a nested
\* loop join that of another comparison once it has a row.
LeftRuns(sub, D) == \E d \in D : IF MemberCall(sub).member = "in" THEN Items(DuckRows(d)) \ {Null} # {}
                                 ELSE DuckRows(d) # {}
DuckTraps(sub, R) ==
  \/ \E d \in Distinct(R) : \/ WhereTraps(d)
                            \/ sub.form = "value" /\ Answer(sub.item, DuckRows(d)) = Trap
  \/ /\ sub.form \in {"in", "any"} /\ LeftRuns(sub, Distinct(R))
     /\ \E i \in R : ValueOf(sub.left, <<>>, Batch[i]) = Trap

\* IN and ANY over the items: TRUE, FALSE or NULL, and NOT of it.
DuckMember(sub, rows, left) ==
  LET pred == IF sub.form = "in" THEN "=" ELSE sub.pred
      Agrees(v) == Compare(pred, left, v)
      some == sub.form = "in" \/ ~ sub.not
      any == \E v \in Items(rows) : Agrees(v) = some
      unknown == \E v \in Items(rows) : Agrees(v) = Null
  IN CASE any -> IF sub.form = "in" THEN ~ sub.not ELSE some
       [] ~ any /\ unknown -> Null
       [] OTHER -> IF sub.form = "in" THEN sub.not ELSE ~ some
DuckValue(sub, R, i) ==
  LET rows == DuckRows(ValueFor(R, i))
  IN CASE sub.form = "value" -> Answer(sub.item, rows)
       [] sub.form = "exists" -> (rows # {}) # sub.not
       [] OTHER -> DuckMember(sub, rows, Plain(sub.left, <<>>, Batch[i]))

Reaching == DOMAIN Batch
DuckPasses == { i \in Reaching : /\ Batch[i].x \in query.passes
                                 /\ \A sub \in ToSet(query.filter) :
                                      IsTrue(sub, DuckValue(sub, Reaching, i)) }
DuckAnswers == [ i \in DOMAIN Batch |->
                   IF i \notin DuckPasses THEN <<>>
                   ELSE [ n \in DOMAIN query.select |->
                            IF Batch[i].x \in query.select[n].when
                            THEN DuckValue(query.select[n], DuckPasses, i) ELSE Null ] ]
FilterTraps == \E sub \in ToSet(query.filter) : DuckTraps(sub, Reaching)
DuckBatchTraps == FilterTraps \/ \E sub \in ToSet(query.select) : DuckTraps(sub, DuckPasses)

---------------------------------------------------------------------------
(* Properties.                                                             *)

\* A batch that is served holds DuckDB's rows, and DuckDB serves it too: the
\* hidden tables, the guards, the scans, the values over no rows and the
\* joins placed before or after the WHERE lose no value and hide no trap
\* (subquery.rs and frontend/mod.rs, where the hidden joins are placed).
AnswersAreDuckDBs == at = "served" => ~ DuckBatchTraps /\ answers = DuckAnswers

\* A batch that traps is one that DuckDB stops on: no term, key, left side or
\* item runs for a row or a request that DuckDB keeps from it
\* (guarded_key, quantified_residual, scan_value, JoinSpec::after_where).
TrapsAreDuckDBs == at = "trapped" => DuckBatchTraps

\* What form_refusal promises (subquery.rs:230-256): a WHERE of keys and
\* filters that cannot trap serves any value whose item cannot trap, and a
\* WHERE that reads the outer query serves an aggregate by a scan, whatever
\* its terms trap on, if no key shares more rows than a scan may read.
SubsOf == ToSet(query.select \o query.filter)
Simple(sub) == sub.item.fn # "row" /\ sub.item.traps = {} /\ sub.item.order = <<>>
Harmless == /\ Mixed = {} /\ \A i \in DOMAIN W : ~ TermTraps(W[i])
            /\ \A sub \in SubsOf : Simple(sub) /\ ~ CanTrap(sub.left) /\ ~ RefsJoin(sub.left)
Scannable == /\ Correlated /\ ~ query.many /\ Cardinality(DOMAIN Table) <= ScanLimit
             /\ \A i \in DOMAIN W : ~ Unsplit(W[i])
             /\ \A sub \in SubsOf : sub.form \in {"value", "exists"} /\ Simple(sub)
                                   /\ ~ sub.item.distinct
Readable == \A i \in DOMAIN W : ~ KeyRefused(W[i]) /\ ~ MixedRefused(W[i])
PromisedFormsServe == Readable /\ (Harmless \/ Scannable) => at # "refused"
=============================================================================
