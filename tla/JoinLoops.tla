----------------------------- MODULE JoinLoops ------------------------------
(***************************************************************************)
(* The row code of a query with joins (packages/confit/src/specializer/    *)
(* lower.rs): lower_stage_head and emit_probe, which probe a map per join  *)
(* and give at most one row; lower_many_loops, one loop per join, nested   *)
(* in FROM order, under shape='many'; and emit_fold, the loop over a       *)
(* scalar subquery's rows, forced at its join as a fold that can trap is.  *)
(* One action is one block of the generated code. The module builds the    *)
(* static tables (StaticTables), prepares them, and runs one input row of  *)
(* one stage.                                                              *)
(*                                                                         *)
(* The state of an open loop is its frame on the live stack: i, end, the   *)
(* flag `any', and the lanes of the row it read: `row' is <<r>> for row r of  *)
(* its table, <<>> for the lanes' defaults, and the rows kept of a fold.   *)
(***************************************************************************)
EXTENDS StaticTables

CONSTANTS
  Holds(_, _, _), \* what is left of an ON, named, over the row before and a value
  Passes(_, _),   \* a WHERE, named, over a value
  MaxRows  \* bound: rows emitted, and rows that evaluate one join's keys

ASSUME MaxRowsAssumption == MaxRows \in Nat

VARIABLES
  input,   \* the input row: the cell its first join's key reads
  statics, \* the prepared entries of each join's table
  pc,      \* the block that runs next
  frames,  \* the open loops, outermost first
  cur,     \* the loop, or fold, whose block runs
  out,     \* the output rows: for each, the rows it joins
  probed   \* history: the rows at which each join's keys were evaluated

rowVars == <<input, statics, pc, frames, cur, out, probed>>
vars == <<plan, tables, at, groups, verdict, input, statics, pc, frames, cur, out, probed>>

N == Len(Joins)

\* The join that comes next, the one `cur' belongs to while it is open.
K == Len(frames) + 1

NoFrame == [i |-> 0, end |-> 0, any |-> FALSE, row |-> <<>>]

\* The rows by their numbers: the source's, or the groups'.
Served(k) == IF Plain(Joins[k].build.how) THEN Joins[k].table ELSE tables[k]

Default == 0
Lane(k, row) == IF row = <<>> THEN Default ELSE Served(k)[row[1]].val

\* What an expression reads of the k-th join: NULL under a false hit flag. An
\* INNER loop's hit is a constant. A fold's value depends on its rows, in
\* order; the value of the first one stands for it.
Hit(k, f) == IF Joins[k].kind = "inner" THEN TRUE ELSE f.any
Cell(k, f) == IF Hit(k, f) THEN Lane(k, f.row) ELSE Null

\* The row before join k: what its keys and its ON see.
Outer == IF frames = <<>> THEN input ELSE Cell(Len(frames), frames[Len(frames)])

\* A join's key expressions all read the row before it.
Key(k, cell) == [i \in DOMAIN Joins[k].cmps |-> cell]

Truth(k, outer, row) == Holds(Joins[k].on, outer, Lane(k, row))

\* The rows joined so far, <<>> for a null-extension.
Pick(k, f) == IF Hit(k, f) THEN f.row ELSE <<>>
Picks == [k \in DOMAIN frames |-> Pick(k, frames[k])]

-----------------------------------------------------------------------------
Init ==
  /\ BuildInit
  /\ input = Null /\ statics = <<>> /\ pc = "prepare" /\ frames = <<>> /\ cur = NoFrame /\ out = <<>>
  /\ probed = [k \in 1 .. N |-> <<>>]

Build == BuildNext /\ UNCHANGED rowVars

\* prepare_statics: a map refuses a key it has twice, a multimap does not.
Prepare ==
  /\ pc = "prepare" /\ verdict = "built"
  /\ statics' = [k \in 1 .. N |-> Entries(Joins[k].cmps, tables[k])]
  /\ pc' = IF \E k \in 1 .. N : ~ plan.many /\ Joins[k].kind # "fold" /\ HasDuplicate(statics'[k])
           THEN "refused" ELSE "ready"
  /\ UNCHANGED <<buildVars, input, frames, cur, out, probed>>

\* A request's row, over the tables prepared once.
Serve ==
  /\ pc = "ready"
  /\ input' \in Cells /\ pc' = "entry"
  /\ UNCHANGED <<buildVars, statics, frames, cur, out, probed>>

Probing(kinds) == pc = "entry" /\ K <= N /\ Joins[K].kind \in kinds
Probed == Len(probed[K]) < MaxRows /\ probed' = [probed EXCEPT ![K] = Append(@, Picks)]

ProbeOf(k) == ProbeRange(Joins[k].cmps, statics[k], Key(k, Outer))

\* entry_k of a loop or a fold: the keys, and the range of their rows.
Entry ==
  /\ Probing({"inner", "left", "fold"}) /\ (plan.many \/ Joins[K].kind = "fold")
  /\ Probed
  /\ LET rg == ProbeOf(K)
         fold == Joins[K].kind = "fold" IN
     /\ cur' = [NoFrame EXCEPT !.i = rg[1], !.end = rg[2]]
     /\ pc' = IF fold THEN "foldheader" ELSE "header"
  /\ UNCHANGED <<buildVars, input, statics, frames, out>>

\* entries.get(i): past the end is a trap.
EntryAt(k, i) == IF i + 1 \in DOMAIN statics[k] THEN <<statics[k][i + 1].row>> ELSE <<>>

HeaderPast == pc' = IF cur.i <= cur.end THEN "body" ELSE "after"   \* mutant
HeaderTest == pc' = IF cur.i < cur.end THEN "body" ELSE "after"

Header == pc = "header" /\ HeaderTest /\ UNCHANGED <<buildVars, input, statics, frames, cur, out, probed>>

\* The frame goes on the live stack: the next join's entry.
Open(f) == frames' = Append(frames, f) /\ cur' = NoFrame /\ pc' = "entry"

Rejected(f) == [f EXCEPT !.i = @ + 1]

\* body: ProbeRead, then the residual of ON, which gates the match and `any'.
Body ==
  /\ pc = "body"
  /\ LET row == EntryAt(K, cur.i)
         matches == row # <<>> /\ Truth(K, Outer, row) IN
     \/ matches /\ Open([i |-> cur.i + 1, end |-> cur.end, any |-> TRUE, row |-> row])
     \/ /\ ~ matches
        /\ cur' = Rejected(cur)
        /\ pc' = IF row = <<>> THEN "trap" ELSE "header"
        /\ UNCHANGED frames
  /\ UNCHANGED <<buildVars, input, statics, out, probed>>

HitExtension == [NoFrame EXCEPT !.any = TRUE]   \* mutant
Extension == NoFrame

\* after: a LEFT join without a match null-extends; the loop is over else.
After ==
  /\ pc = "after"
  /\ IF Joins[K].kind = "left" /\ ~ cur.any
     THEN Open(Extension)
     ELSE pc' = "done" /\ UNCHANGED <<frames, cur>>
  /\ UNCHANGED <<buildVars, input, statics, out, probed>>

\* continue_args: the loop goes on with its next row, `any' set, whether its
\* row was a match or a null-extension (whose range is empty).
ContinuedAsIs(f) == f        \* mutant
Continued(f) == [f EXCEPT !.any = TRUE]

Continue ==
  LET f == frames[Len(frames)]
      fold == Joins[Len(frames)].kind = "fold" IN
  /\ frames' = SubSeq(frames, 1, Len(frames) - 1)
  /\ cur' = Continued(f)
  /\ pc' = IF fold THEN "done" ELSE "header"

\* done: the next row of the loop around, or the input row is over.
Done ==
  /\ pc = "done"
  /\ IF frames = <<>> THEN pc' = "over" /\ UNCHANGED <<frames, cur>> ELSE Continue
  /\ UNCHANGED <<buildVars, input, statics, out, probed>>

-----------------------------------------------------------------------------
(***************************************************************************)
(* emit_fold: the rows of the range on which the predicate is TRUE.        *)
(***************************************************************************)

FoldHeader ==
  /\ pc = "foldheader"
  /\ IF cur.i < cur.end THEN pc' = "foldbody" /\ UNCHANGED <<frames, cur>>
     ELSE Open([cur EXCEPT !.i = 0, !.end = 0])
  /\ UNCHANGED <<buildVars, input, statics, out, probed>>

FoldBody ==
  /\ pc = "foldbody"
  /\ LET row == EntryAt(K, cur.i) IN
     /\ cur' = IF row # <<>> /\ Truth(K, Outer, row)
               THEN [cur EXCEPT !.i = @ + 1, !.any = TRUE, !.row = @ \o row]
               ELSE Rejected(cur)
     /\ pc' = IF row = <<>> THEN "trap" ELSE "foldheader"
  /\ UNCHANGED <<buildVars, input, statics, frames, out, probed>>

-----------------------------------------------------------------------------
(***************************************************************************)
(* One row at most: lower_stage_head.                                      *)
(***************************************************************************)

Matched(k) ==
  LET r == Found(Joins[k].cmps, statics[k], Key(k, Outer)) IN
  IF r # 0 /\ Truth(k, Outer, <<r>>) THEN <<r>> ELSE <<>>

ProbeMap ==
  /\ ~ plan.many /\ Probing({"inner", "left"})
  /\ Probed
  /\ LET row == Matched(K) IN
     IF row = <<>> /\ Joins[K].kind = "inner"
     THEN pc' = "over" /\ UNCHANGED <<frames, cur>>
     ELSE Open([NoFrame EXCEPT !.any = row # <<>>, !.row = row])
  /\ UNCHANGED <<buildVars, input, statics, out>>

-----------------------------------------------------------------------------
\* After the last join: WHERE, then the stores and the emit.
WhereHolds == Passes(plan.where, Cell(N, frames[N]))

Leave == IF plan.many THEN Continue ELSE pc' = "over" /\ UNCHANGED <<frames, cur>>

EmitRow ==
  /\ pc = "entry" /\ K > N /\ WhereHolds /\ Len(out) < MaxRows
  /\ out' = Append(out, Picks)
  /\ Leave
  /\ UNCHANGED <<buildVars, input, statics, probed>>

DropRow ==
  /\ pc = "entry" /\ K > N /\ ~ WhereHolds
  /\ Leave
  /\ UNCHANGED <<buildVars, input, statics, out, probed>>

RowNext == \/ Prepare \/ Serve \/ Entry \/ Header \/ Body \/ After \/ Done
           \/ FoldHeader \/ FoldBody \/ ProbeMap \/ EmitRow \/ DropRow
Next == Build \/ RowNext

\* The generated code runs on; nothing is asked of the build but its tables.
Spec == Init /\ [][Next]_vars /\ WF_rowVars(RowNext)

-----------------------------------------------------------------------------
(***************************************************************************)
(* The join as SQL has it, over the tables themselves.                     *)
(***************************************************************************)

\* The cell an expression reads of a pick, and of the row before join k.
CellOf(k, pick) == IF pick = <<>> THEN Null ELSE Served(k)[pick[1]].val

Before(picks) == IF picks = <<>> THEN input ELSE CellOf(Len(picks), picks[Len(picks)])

\* The rows of join k that match, with `=' and IS NOT DISTINCT FROM as SQL
\* has them.
Matches(k, picks) ==
  LET outer == Before(picks) IN
  { r \in DOMAIN Served(k) :
      /\ Plain(Joins[k].build.how) => Served(k)[r].keep
      /\ SameKey(Joins[k].cmps, Served(k)[r].key, Key(k, outer)) /\ Truth(k, outer, <<r>>) }

Extensions(k, picks) ==
  LET m == Matches(k, picks) IN
  CASE Joins[k].kind = "fold"              -> {Sorting(m)}
    [] Joins[k].kind = "left" /\ m = {}    -> {<<>>}
    [] OTHER                               -> { <<r>> : r \in m }

\* The rows that reach join k + 1.
Reaching ==
  LET R[k \in 0 .. N] ==
        IF k = 0 THEN {<<>>}
        ELSE UNION { { Append(p, x) : x \in Extensions(k, p) } : p \in R[k - 1] }
  IN  R

Expected == { p \in Reaching[N] : Passes(plan.where, CellOf(N, p[N])) }

\* FROM order: the first join varies slowest, each in its table's order.
Precedes(p, q) ==
  \E k \in 1 .. N :
    p[k] # q[k] /\ (\A j \in 1 .. k - 1 : p[j] = q[j]) /\ p[k][1] < q[k][1]

-----------------------------------------------------------------------------
(***************************************************************************)
(* Properties.                                                             *)
(***************************************************************************)

\* The loops compute the join: when the input row is over, the rows emitted are
\* those of SQL, each once, in FROM order; and join k's keys were evaluated, and
\* could trap, once for every row that the joins before it produce, matched or
\* null-extended, and for no other.
JoinIsExact ==
  pc = "over" =>
    /\ { out[i] : i \in DOMAIN out } = Expected
    /\ \A i, j \in DOMAIN out : i < j => Precedes(out[i], out[j])
    /\ \A k \in 1 .. N :
         /\ { probed[k][i] : i \in DOMAIN probed[k] } = Reaching[k - 1]
         /\ Len(probed[k]) = Cardinality(Reaching[k - 1])

\* A build that is not refused answers what DuckDB answers, whatever the order
\* DuckDB reads a table in: the rows are those some request can match, every
\* group has its one row, and a scan's extremes are the same over any of the
\* rows a request keeps.
AnyOrder(j, key) ==
  \A S \in SUBSET { r \in RowsOf(j, key) : j.table[r].val # Null } : S # {} =>
    \A fn \in {"min", "max"} :
      Cardinality({ DuckAggregate([j.build EXCEPT !.fn = fn], rows) : rows \in Orders(j, S) }) = 1
Finished == pc = "prepare" /\ at = 1 /\ tables # <<>>
LastJoin == Joins[Len(tables)]
LastTable == tables[Len(tables)]

TableIsWhole(j, table) ==
  IF Plain(j.build.how)
  THEN /\ { table[i].row : i \in DOMAIN table } = Matchable(j)
       /\ Len(table) = Cardinality(Matchable(j))
  ELSE /\ { table[i].key : i \in DOMAIN table } = GroupKeys(j)
       /\ Len(table) = Cardinality(GroupKeys(j))
TablesAreWhole == Finished => TableIsWhole(LastJoin, LastTable)

ScanIsOrderFree(j) ==
  j.build.how = "rows" => \A key \in GroupKeys(j) :
    Cardinality(RowsOf(j, key)) <= j.build.limit /\ (j.build.ties \/ AnyOrder(j, key))
ScansAreOrderFree == Finished => ScanIsOrderFree(LastJoin)

GroupsAreOrderFree ==
  Finished /\ ~ Plain(LastJoin.build.how) =>
    \A i \in DOMAIN LastTable : \A x \in DuckAnswers(LastJoin, LastTable[i].key) :
      Agrees(LastJoin.build, LastTable[i], x)

BuildIsOrderFree == TablesAreWhole /\ ScansAreOrderFree /\ GroupsAreOrderFree

\* What a build refuses, it has to: a key cannot be read, a row some request can match
\* has the NULL its table is declared not to hold, some request would trap, what DuckDB
\* computes depends on its order, or a partial sum may leave the range of its type.
Sizes(j, key) ==
  LET of == ValuesRead(j.build, [ i \in 1 .. Cardinality(RowsOf(j, key)) |->
                                    j.table[Sorting(RowsOf(j, key))[i]] ])
      sizes == [ i \in DOMAIN of |-> Magnitude(Ord(of[i])) ]
  IN [n |-> Len(of), sum |-> Running(sizes, FALSE)[Len(of)],
      odd |-> \E i \in DOMAIN of : ~ Finite(of[i])]
MayLeaveRange(j, s) ==
  LET abs == Rounded(s.sum, 1)
  IN CASE j.build.fn = "sum" -> s.sum > MaxSum
       [] j.build.fn = "avg" -> s.sum > MaxAvg
       [] j.build.fn \in {"fsum", "favg"} ->
            s.odd \/ ~ Finite(abs) \/ ~ Finite(abs + FloatBound(abs, s.n))
       [] OTHER -> FALSE
OrderTells(j, key) ==
  \E p, q \in Orders(j, RowsOf(j, key)) :
    IF j.build.how = "item" THEN DuckItem(j, p) # DuckItem(j, q)
    ELSE DuckAggregate(j.build, p) # DuckAggregate(j.build, q)
Unanswerable(j, key) ==
  IF j.build.how = "rows"
  THEN Cardinality(RowsOf(j, key)) > j.build.limit \/ ~ AnyOrder(j, key)
  ELSE \/ Trap \in DuckAnswers(j, key)
       \/ ~ DoubleSum(j.build) /\ OrderTells(j, key)
       \/ j.build.how = "aggs" /\ MayLeaveRange(j, Sizes(j, key))
BuildsRefuseForCause ==
  verdict = "refused" =>
    \/ \E r \in DOMAIN J.table : J.table[r].keep /\ KeyFate(J.cmps, J.table[r].key) = "unreadable"
    \/ \E r \in Matchable(J) : NullRefused(J, J.table[r])
    \/ \E key \in GroupKeys(J) : Unanswerable(J, key)

\* And a map is refused exactly if two of its rows would match one probe: the
\* neighbours prepare_statics looks at are enough.
MapsRefuseDuplicates ==
  pc \in {"refused", "over"} /\ ~ plan.many =>
    (pc = "refused" <=>
       \E k \in 1 .. N : Joins[k].kind # "fold" /\ \E q, r \in DOMAIN tables[k] :
         q < r /\ SameKey(Joins[k].cmps, tables[k][q].key, tables[k][r].key))

\* Nothing is refused without a cause, by a build or by the preparation of maps.
RefusedForCause == BuildsRefuseForCause /\ MapsRefuseDuplicates

\* The flag every read of a joined column is gated by says whether the open
\* row is a match.
FlagsTellMatches ==
  LET k == Len(frames) IN
  pc = "entry" /\ k > 0 =>
    (Joins[k].kind = "left" =>
       (frames[k].any <=> Matches(k, SubSeq(Picks, 1, k - 1)) # {}))

\* Every input row ends, once the tables are built.
RowEnds == verdict = "built" ~> pc \in {"over", "refused"}
=============================================================================
