------------------------------ MODULE SqlExpr -------------------------------
(***************************************************************************)
(* The bound scalar expressions a stage projects                           *)
(* (packages/confit/src/specializer/plan.rs, SExpr), and what SQL answers  *)
(* for one over a row: a value, NULL, or the first trap.                   *)
(*                                                                         *)
(* A node is [op, fn, n, ty, nul, kids]: the kind, the operator within the *)
(* kind, its number (a column, a constant, the item a Seq answers, a UDF's *)
(* lane, a shared value, a join's column), its type, whether the front end could not prove  *)
(* it non-NULL, and its sub-expressions in the order they are evaluated. A *)
(* CASE's are condition, result, condition, result, ..., and its default,  *)
(* when there is one, last.                                                *)
(*                                                                         *)
(* Every value is a small integer: a string is its length, FALSE is 0, and *)
(* the doubles are -8 .. 8 with the infinities and NaN above them in       *)
(* DuckDB's order. The width that matters is kept: `i8' is narrower than   *)
(* `i64', `u64' than `i128', and all are checked, never wrapping.          *)
(***************************************************************************)
EXTENDS Integers, Sequences, FiniteSets

Inf == 9
NaN == 10
NegInf == -9

\* SExpr.ty as far as lanes and ranges tell types apart: the integers of the
\* i64 lane, and those of the i128 lane, UBIGINT and HUGEINT.
IntTypes == {"i8", "i64"}
WideTypes == {"u64", "i128"}
AllInts == IntTypes \union WideTypes
IntRange(ty) == CASE ty = "i8" -> <<-2, 1>> [] ty = "i64" -> <<-4, 3>>
                 [] ty = "u64" -> <<0, 5>> [] ty = "i128" -> <<-8, 7>>
MinOf(ty) == IntRange(ty)[1]
MaxOf(ty) == IntRange(ty)[2]
Lane(ty)  == CASE ty = "i8" -> "i64" [] ty = "u64" -> "i128" [] OTHER -> ty
Fits(v, ty) == ty \in AllInts => v \in MinOf(ty) .. MaxOf(ty)

\* DECIMALs are scaled integers, to the base of two here: `d1' has one digit
\* after its point and three in all, `d0' a single digit.
ScaleOf(ty)  == IF ty = "d1" THEN 1 ELSE 0
DigitsOf(ty) == IF ty = "d1" THEN 3 ELSE 1
IsDec(ty)    == ty \in {"d0", "d1"}

\* The bits of a narrow width, at which a shift empties it.
NarrowBits == 2

\* Limits of the string operations: the positions substr and a subscript
\* accept, and the longest string that may be built.
Positions == -3 .. 2
MaxPosition == 2
BuildCap  == 4
PadCap    == 2

\* The kinds that only read what is already there.
Leaves == {"col", "slot", "static", "hit", "shared", "let", "lit", "null"}

\* A static column and a join's hit by one number: the join's tens, and the
\* value column (from 1; 0 is the hit).
JoinOf(e) == e.n \div 10
ValOf(e)  == e.n % 10

IsConst(e)  == e.op \in {"lit", "null"}
Arms(e)     == Len(e.kids) \div 2
Cond(e, i)  == e.kids[2 * i - 1]
Result(e, i) == e.kids[2 * i]
HasDefault(e) == Len(e.kids) % 2 = 1
Default(e)  == e.kids[Len(e.kids)]

\* Whether a zero divisor answers NULL instead of trapping.
ZeroDivisorNulls(fn, ty) == fn = "idiv" \/ (fn = "rem" /\ ty \in AllInts)

---------------------------------------------------------------------------
(* Outcomes: a value, NULL, or a trap and which one.                        *)

Val(v)  == [is |-> "val", n |-> v]
Null    == [is |-> "null", n |-> 0]
Trap(m) == [is |-> "trap", n |-> m]
Bool(b) == IF b THEN 1 ELSE 0

RangeTrap == 1   \* integer overflow, a value past its width
DomainTrap == 2  \* ln, sqrt, sin, log(b, x), an unknown model id
SubstrTrap == 3  \* a position past substr's range
EscapeTrap == 4  \* an ESCAPE of more than one byte
PadTrap == 5     \* nothing to pad with
CapTrap == 6     \* a string past the builder's cap
InputTrap == 7   \* jaccard over an empty string
RaiseTrap(m) == 10 + m

Checked(v, ty) == IF Fits(v, ty) THEN Val(v) ELSE Trap(RangeTrap)

\* IEEE arithmetic, as far as the infinities and NaN go.
FClip(v) == IF v > 8 THEN Inf ELSE IF v < -8 THEN NegInf ELSE v
FAdd(a, b) == IF NaN \in {a, b} \/ {a, b} = {Inf, NegInf} THEN NaN
              ELSE IF {a, b} \cap {Inf, NegInf} # {}
                   THEN (CHOOSE x \in {a, b} : x \in {Inf, NegInf})
                   ELSE FClip(a + b)
FNeg(a) == IF a = NaN THEN NaN ELSE -a
FMul(a, b) == IF NaN \in {a, b} \/ (0 \in {a, b} /\ {a, b} \cap {Inf, NegInf} # {})
              THEN NaN ELSE FClip(a * b)
FDiv(a, b) ==
  CASE NaN \in {a, b} -> NaN
    [] b = 0 -> IF a = 0 THEN NaN ELSE IF a > 0 THEN Inf ELSE NegInf
    [] b \in {Inf, NegInf} -> IF a \in {Inf, NegInf} THEN NaN ELSE 0
    [] OTHER -> FClip(IF b > 0 THEN a \div b ELSE (-a) \div (-b))

\* Division and remainder toward zero, as Rust and DuckDB divide.
AbsInt(a) == IF a < 0 THEN -a ELSE a
Quot(a, b) == LET q == AbsInt(a) \div AbsInt(b) IN IF (a < 0) = (b < 0) THEN q ELSE -q
Remd(a, b) == a - b * Quot(a, b)

\* DECIMAL arithmetic within the digits of its type, and its conversions: to
\* fewer digits after the point half away from zero, NULL standing for failure.
FitsDec(v, ty) == AbsInt(v) < 2 ^ DigitsOf(ty)
DecArith(fn, a, b, ty) ==
  LET r == CASE fn = "add" -> a + b [] fn = "sub" -> a - b [] fn = "mul" -> a * b
             [] fn = "rem" -> Remd(a, b)
  IN IF FitsDec(r, ty) THEN Val(r) ELSE Trap(RangeTrap)
HalfAway(v) == LET h == (AbsInt(v) + 1) \div 2 IN IF v < 0 THEN -h ELSE h
DecConvert(v, from, to) ==
  LET r == CASE ScaleOf(from) < ScaleOf(to) -> v * 2
             [] ScaleOf(from) > ScaleOf(to) -> HalfAway(v)
             [] OTHER -> v
  IN IF IF IsDec(to) THEN FitsDec(r, to) ELSE Fits(r, to) THEN Val(r) ELSE Null
DecUnary(fn, v) == IF fn = "abs" THEN AbsInt(v) ELSE 2 * Quot(v, 2)

\* Integer arithmetic at the width of the node; b # 0 for a division. HUGEINTs
\* are multiplied by their magnitudes, so the least one comes of itself only.
IntArith(fn, a, b, ty) ==
  CASE fn = "add" -> Checked(a + b, ty)
    [] fn = "sub" -> Checked(a - b, ty)
    [] fn = "mul" -> IF ty = "i128" /\ a * b = MinOf(ty) /\ MinOf(ty) \notin {a, b}
                     THEN Trap(RangeTrap) ELSE Checked(a * b, ty)
    [] fn = "idiv" -> Checked(Quot(a, b), ty)
    [] fn = "rem" -> IF a = MinOf(ty) /\ b = -1 THEN Trap(RangeTrap) ELSE Val(Remd(a, b))
    [] fn = "shr" -> IF b < 0 \/ b >= (IF ty = "i8" THEN NarrowBits ELSE 3) THEN Val(0)
                     ELSE Val(a \div 2^b)

FloatArith(fn, a, b) ==
  CASE fn = "add" -> FAdd(a, b)
    [] fn = "sub" -> FAdd(a, FNeg(b))
    [] fn = "mul" -> FMul(a, b)
    [] fn \in {"div", "idiv"} -> FDiv(a, b)

Compare(fn, a, b) ==
  CASE fn = "eq" -> a = b [] fn = "ne" -> a # b
    [] fn = "lt" -> a < b [] fn = "le" -> a <= b
    [] fn = "gt" -> a > b [] fn = "ge" -> a >= b

\* One unary double operation, where the ones that raise raise.
Math1(fn, a) ==
  CASE fn = "fneg" -> Val(FNeg(a))
    [] fn = "ln" -> IF a = NaN \/ a > 0 THEN Val(IF a >= Inf THEN a ELSE a - 1)
                    ELSE Trap(DomainTrap)
    [] fn = "sqrt" -> IF a >= 0 THEN Val(a) ELSE Trap(DomainTrap)
    [] fn = "sin" -> IF a \in {Inf, NegInf} THEN Trap(DomainTrap) ELSE Val(a)

\* The number a string spells, which is its length here, unless the type does
\* not hold it.
Parsed(n, to) == IF Fits(n, to) THEN Val(n) ELSE Null

\* A conversion, by the types on its two sides; NULL stands for failure. A
\* DOUBLE has to lie above the least HUGEINT.
Convert(v, from, to) ==
  CASE to = "i1" -> Val(Bool(v # 0))
    [] to = "f64" -> Val(v)
    [] from = "str" -> Parsed(v, to)
    [] from = "f64" -> IF ~Fits(v, to) \/ (to = "i128" /\ v = MinOf(to)) THEN Null ELSE Val(v)
    [] OTHER -> IF Fits(v, to) THEN Val(v) ELSE Null

\* The string operations, over lengths. How much of a string of n characters
\* the window [from, end) shows, positions counting from 1.
Window(n, from, end) ==
  LET lo == IF from < 1 THEN 1 ELSE from
      hi == IF end > n + 1 THEN n + 1 ELSE end
  IN IF hi <= lo THEN 0 ELSE hi - lo
FromEnd(n, i) == IF i < 0 THEN n + 1 + i ELSE i

\* A negative length goes backwards, and no length is the longest one.
Substr(n, start, len) ==
  LET from == FromEnd(n, start)
  IN IF start \notin Positions \/ len \notin Positions THEN Trap(SubstrTrap)
     ELSE Val(IF len >= 0 THEN Window(n, from, from + len) ELSE Window(n, from + len, from))
Extract(n, i) == IF i \notin Positions THEN Trap(SubstrTrap)
                 ELSE Val(Bool(FromEnd(n, i) \in 1 .. n))
Slice(n, lo, hi) == Val(Window(n, FromEnd(n, lo), FromEnd(n, hi) + 1))
Repeat(n, times) == IF times <= 0 THEN Val(0)
                    ELSE IF n * times > BuildCap THEN Trap(CapTrap) ELSE Val(n * times)
Pad(n, len, by) ==
  CASE len <= 0 -> Val(0)
    [] len \in 1 .. n -> Val(len)
    [] OTHER -> IF by = 0 THEN Trap(PadTrap) ELSE IF len > PadCap THEN Trap(CapTrap) ELSE Val(len)
Jaccard(n, m) == IF 0 \in {n, m} THEN Trap(InputTrap) ELSE Val(Bool(n = m))
Hamming(n, m) == IF 0 \in {n, m} \/ n # m THEN Trap(InputTrap) ELSE Val(0)
Like(n, m, escape) == IF escape > 1 THEN Trap(EscapeTrap) ELSE Val(Bool(n = m))

Text(fn, a) ==
  CASE fn = "substr" -> Substr(a[1], a[2], IF Len(a) = 3 THEN a[3] ELSE MaxPosition)
    [] fn = "extract" -> Extract(a[1], a[2])
    [] fn = "slice" -> Slice(a[1], a[2], a[3])
    [] fn = "repeat" -> Repeat(a[1], a[2])
    [] fn = "pad" -> Pad(a[1], a[2], a[3])
    [] fn = "like" -> Like(a[1], a[2], IF Len(a) = 3 THEN a[3] ELSE 0)
    [] fn = "jaccard" -> Jaccard(a[1], a[2])
    [] fn = "hamming" -> Hamming(a[1], a[2])
    [] fn = "concat" -> Val(a[1] + a[2])
    [] fn = "length" -> Val(a[1])

\* The answer of the operation alone, when no operand is NULL.
Apply(e, a) ==
  CASE e.op = "arith" ->
         IF ZeroDivisorNulls(e.fn, e.ty) /\ a[2] = 0 THEN Null
         ELSE IF e.ty = "f64" THEN Val(FloatArith(e.fn, a[1], a[2]))
         ELSE IntArith(e.fn, a[1], a[2], e.ty)
    [] e.op = "cmp" -> Val(Bool(Compare(e.fn, a[1], a[2])))
    [] e.op = "not" -> Val(1 - a[1])
    [] e.op = "i2f" -> Val(a[1])
    [] e.op = "i2d" -> Val(a[1] * 2 ^ ScaleOf(e.ty))
    [] e.op = "d2f" -> Val(FDiv(a[1], 2 ^ ScaleOf(e.kids[1].ty)))
    [] e.op = "dec" -> IF e.fn = "rem" /\ a[2] = 0 THEN Null ELSE DecArith(e.fn, a[1], a[2], e.ty)
    [] e.op = "dunary" -> Val(DecUnary(e.fn, a[1]))
    [] e.op = "dcast" -> LET r == DecConvert(a[1], e.kids[1].ty, e.ty)
                         IN IF r = Null /\ e.fn = "cast" THEN Trap(RangeTrap) ELSE r
    [] e.op = "abs" -> IF e.ty = "f64" THEN Val(IF a[1] = NaN THEN NaN ELSE AbsInt(a[1]))
                       ELSE Checked(AbsInt(a[1]), e.ty)
    [] e.op = "math1" -> Math1(e.fn, a[1])
    [] e.op = "logb" -> IF a[1] <= 0 \/ a[1] = 1 \/ a[2] <= 0 THEN Trap(DomainTrap) ELSE Val(a[2])
    [] e.op = "text" -> Text(e.fn, a)
    [] e.op = "cast" -> LET r == Convert(a[1], e.kids[1].ty, e.ty)
                        IN IF r = Null /\ e.fn = "cast" THEN Trap(RangeTrap) ELSE r

\* A user's function answers NULL for a NULL argument here, and its lane n
\* otherwise; lane 0 is whether the call answered at all.
Extern(e, rs) ==
  LET known == \A i \in DOMAIN rs : rs[i].is # "null"
  IN IF e.n = 0 THEN Val(Bool(known))
     ELSE IF known THEN Val((rs[1].n + e.n) % 2) ELSE Null

\* A tree model knows the id 0 only, and has an answer for a missing feature.
Predict(rs) ==
  IF rs[1].is = "null" THEN Null
  ELSE IF rs[1].n # 0 THEN Trap(DomainTrap)
  ELSE Val(IF rs[2].is = "null" \/ rs[2].n = NaN THEN 1 ELSE 0)

FirstTrap(rs) == LET at == CHOOSE i \in DOMAIN rs :
                             rs[i].is = "trap" /\ \A j \in 1 .. i - 1 : rs[j].is # "trap"
                 IN rs[at]
AnyTrap(rs) == \E i \in DOMAIN rs : rs[i].is = "trap"
AnyNull(rs) == \E i \in DOMAIN rs : rs[i].is = "null"

Kleene(op, x, y) ==
  LET dec == Val(IF op = "and" THEN 0 ELSE 1)
  IN IF dec \in {x, y} THEN dec ELSE IF Null \in {x, y} THEN Null
     ELSE Val(IF op = "and" THEN 1 ELSE 0)

\* greatest/least: the first argument that no other one beats.
Extreme(fn, rs) ==
  LET known == { i \in DOMAIN rs : rs[i].is = "val" }
      Beats(v, w) == IF fn = "greatest" THEN v > w ELSE v < w
  IN IF known = {} THEN Null
     ELSE rs[CHOOSE i \in known : \A j \in known : ~Beats(rs[j].n, rs[i].n)]

---------------------------------------------------------------------------
(* What SQL answers for an expression over a row: every operand in order,  *)
(* except that a CASE evaluates its conditions until one is TRUE and then  *)
(* that arm only, and that AND and OR are lazy where only TRUE counts.     *)

\* An expression is read for its value, for its truth, or as a CASE from some
\* arm on.
RECURSIVE SqlAs(_, _, _, _)
Sql(e, row) == SqlAs("value", e, 1, row)
SqlTrue(e, row) == SqlAs("truth", e, 1, row)
SqlCase(e, row, i) == SqlAs("case", e, i, row)

SqlValue(e, row) ==
  LET rs == [ i \in DOMAIN e.kids |-> Sql(e.kids[i], row) ]
  IN CASE e.op \in {"col", "slot", "static", "hit"} -> row[e.n]
       [] e.op = "lit" -> Val(e.n)
       [] e.op = "null" -> Null
       [] e.op = "raise" -> Trap(RaiseTrap(e.n))
       [] e.op = "case" -> SqlCase(e, row, 1)
       [] OTHER ->
            IF AnyTrap(rs) THEN FirstTrap(rs)
            ELSE CASE e.op = "seq" -> rs[e.n]
                   [] e.op = "extreme" -> Extreme(e.fn, rs)
                   [] e.op \in {"and", "or"} -> Kleene(e.op, rs[1], rs[2])
                   [] e.op = "isnull" -> Val(Bool((rs[1] = Null) = (e.n = 0)))
                   [] e.op = "extern" -> Extern(e, rs)
                   [] e.op = "predict" -> Predict(rs)
                   [] OTHER -> IF AnyNull(rs) THEN Null
                               ELSE Apply(e, [ i \in DOMAIN rs |-> rs[i].n ])

\* Whether e is TRUE, where FALSE and NULL count the same: 1 or 0, or a trap.
SqlTruth(e, row) ==
  IF e.op \in {"and", "or"}
  THEN LET l == SqlTrue(e.kids[1], row)
       IN IF l.is = "trap" \/ l = Val(IF e.op = "and" THEN 0 ELSE 1) THEN l
          ELSE SqlTrue(e.kids[2], row)
  ELSE LET r == Sql(e, row) IN IF r.is = "trap" THEN r ELSE Val(Bool(r = Val(1)))

SqlArms(e, row, i) ==
  IF i > Arms(e) THEN IF HasDefault(e) THEN Sql(Default(e), row) ELSE Null
  ELSE LET c == SqlTrue(Cond(e, i), row)
       IN IF c.is = "trap" THEN c
          ELSE IF c = Val(1) THEN Sql(Result(e, i), row)
          ELSE SqlCase(e, row, i + 1)

SqlAs(how, e, i, row) ==
  CASE how = "value" -> SqlValue(e, row)
    [] how = "truth" -> SqlTruth(e, row)
    [] how = "case" -> SqlArms(e, row, i)

-----------------------------------------------------------------------------
(***************************************************************************)
(* What SQL answers for a row of a plan                                    *)
(* (packages/confit/src/specializer/plan.rs, Plan, Stage, JoinSpec, Fold): *)
(* the stages in order, and in a stage its joins, its WHERE, the joins     *)
(* that only its SELECT list reads, and its columns in SELECT order. The   *)
(* reference the lowered program is held against.                          *)
(*                                                                         *)
(* A plan is [joins, stages]. A stage is [joins, pred, items, lets]; a     *)
(* join is [kind, keys, nd, residual, after, rows, nul, fold, scan]: its   *)
(* kind, its key expressions and which compare IS NOT DISTINCT FROM, the   *)
(* rest of its ON, whether it runs after the WHERE, the rows of its table  *)
(* as [keys, vals] and which columns hold NULLs, the fold it computes      *)
(* instead, and whether a fold reads its rows. What may be absent is a     *)
(* sequence of at most one.                                                *)
(***************************************************************************)

\* A row while its stage is computed: its values, or the trap that ended it.
Going(row) == [trap |-> 0, row |-> row]
Ended(m)   == [trap |-> m, row |-> << >>]

Extend(row, j, hit, vals) ==
  [ x \in DOMAIN row \union {10 * j} \union { 10 * j + c : c \in DOMAIN vals } |->
      IF x = 10 * j THEN Val(Bool(hit))
      ELSE IF x \in { 10 * j + c : c \in DOMAIN vals } THEN vals[x - 10 * j] ELSE row[x] ]

SqlAll(es, row) == [ i \in DOMAIN es |-> Sql(es[i], row) ]

SqlKeysMatch(spec, ks, r) ==
  \A i \in DOMAIN ks : ks[i] = r.keys[i] /\ (spec.nd[i] \/ ks[i] # Null)

\* One table row joins when its keys match and the rest of the ON is TRUE.
SqlProbe(j, spec, row) ==
  LET nulls == [ c \in DOMAIN spec.nul |-> Null ]
      Joined(r, on) ==
        IF on.is = "trap" THEN Ended(on.n)
        ELSE Going(Extend(row, j, on = Val(1), IF on = Val(1) THEN r.vals ELSE nulls))
      On(r) == IF spec.residual = <<>> THEN Val(1)
               ELSE Sql(spec.residual[1], Extend(row, j, TRUE, r.vals))
      Of(cand) == IF cand = <<>> THEN Going(Extend(row, j, FALSE, nulls))
                  ELSE Joined(cand[1], On(cand[1]))
      Keyed(ks) == IF AnyTrap(ks) THEN Ended(FirstTrap(ks).n)
                   ELSE Of(SelectSeq(spec.rows, LAMBDA r : SqlKeysMatch(spec, ks, r)))
  IN Keyed(SqlAll(spec.keys, row))

\* An aggregate over the rows kept: NULL over none, but for the counts.
Aggregate(agg, kept) ==
  LET known == SelectSeq(kept, LAMBDA r : agg.fn # "count_star" /\ r.vals[agg.arg] # Null)
      of == [ i \in DOMAIN known |-> known[i].vals[agg.arg].n ]
      Total[i \in 0 .. Len(of)] == IF i = 0 THEN 0 ELSE Total[i - 1] + of[i]
      best == CHOOSE v \in { of[i] : i \in DOMAIN of } :
                \A i \in DOMAIN of : IF agg.fn = "min" THEN v <= of[i] ELSE v >= of[i]
  IN CASE agg.fn = "count_star" -> Val(Len(kept))
       [] agg.fn = "count" -> Val(Len(known))
       [] known = <<>> -> Null
       [] agg.fn = "sum" -> Val(Total[Len(of)])
       [] OTHER -> Val(best)

\* A scalar subquery over the rows of its table that this row keeps.
SqlFold(j, spec, joins, row) ==
  LET fold == spec.fold[1]
      src == joins[fold.rows]
      none == [ a \in DOMAIN fold.aggs |-> Null ]
      Holds(r) == IF fold.pred = <<>> THEN Val(1)
                  ELSE SqlTrue(fold.pred[1], Extend(row, fold.rows, TRUE, r.vals))
      Item(aggs, post) == IF post.is = "trap" THEN Ended(post.n)
                          ELSE Going(Extend(row, j, TRUE, Append(aggs, post)))
      Over(kept, aggs) ==
        IF fold.post = <<>>
        THEN Going(Extend(row, j, kept # <<>>, IF kept = <<>> THEN none ELSE aggs))
        ELSE Item(aggs, Sql(fold.post[1], Extend(row, j, TRUE, aggs)))
      Kept(kept) == Over(kept, [ a \in DOMAIN fold.aggs |-> Aggregate(fold.aggs[a], kept) ])
      Of(cand, holds) ==
        IF AnyTrap(holds) THEN Ended(FirstTrap(holds).n)
        ELSE LET Chosen[i \in 0 .. Len(cand)] ==
                   IF i = 0 THEN <<>>
                   ELSE Chosen[i - 1] \o IF holds[i] = Val(1) THEN <<cand[i]>> ELSE <<>>
             IN Kept(Chosen[Len(cand)])
      Rows(cand) == Of(cand, [ i \in DOMAIN cand |-> Holds(cand[i]) ])
      Keyed(ks) == IF AnyTrap(ks) THEN Ended(FirstTrap(ks).n)
                   ELSE Rows(SelectSeq(src.rows, LAMBDA r : SqlKeysMatch(src, ks, r)))
  IN Keyed(SqlAll(src.keys, row))

\* A stage's joins, those before the WHERE or those after it.
RECURSIVE SqlJoins(_, _, _, _, _)
SqlJoins(joins, js, i, after, row) ==
  IF i > Len(js) THEN [is |-> "go", n |-> 0, row |-> row]
  ELSE LET spec == joins[js[i]]
           Next(r) ==
             IF r.trap # 0 THEN [is |-> "trap", n |-> r.trap, row |-> row]
             ELSE IF spec.kind = "inner" /\ r.row[10 * js[i]] # Val(1)
             THEN [is |-> "skip", n |-> 0, row |-> row]
             ELSE SqlJoins(joins, js, i + 1, after, r.row)
       IN IF spec.scan \/ spec.after # after THEN SqlJoins(joins, js, i + 1, after, row)
          ELSE Next(IF spec.fold # <<>> THEN SqlFold(js[i], spec, joins, row)
                    ELSE SqlProbe(js[i], spec, row))

\* The row the columns of stage k are read from, or how the row ended before.
SqlScope(plan, k, row) ==
  LET stage == plan.stages[k]
      Joined(r, where) ==
        CASE where.is = "trap" -> [is |-> "trap", n |-> where.n, row |-> row]
          [] where = Val(0) -> [is |-> "skip", n |-> 0, row |-> row]
          [] OTHER -> SqlJoins(plan.joins, stage.joins, 1, TRUE, r)
      Of(joined) ==
        IF joined.is # "go" THEN joined
        ELSE Joined(joined.row, IF stage.pred = <<>> THEN Val(1)
                                ELSE SqlTrue(stage.pred[1], joined.row))
  IN Of(SqlJoins(plan.joins, stage.joins, 1, FALSE, row))

\* A stage over its input row: its columns, or how it ended before them.
SqlStage(plan, k, row) ==
  LET Columns(vals) == IF AnyTrap(vals) THEN [is |-> "trap", n |-> FirstTrap(vals).n, row |-> row]
                       ELSE [is |-> "go", n |-> 0, row |-> vals]
      Of(scope) == IF scope.is # "go" THEN scope
                   ELSE Columns(SqlAll(plan.stages[k].items, scope.row))
  IN Of(SqlScope(plan, k, row))

\* The row after k stages, or how it ended: [is, n, row].
RECURSIVE SqlAfter(_, _, _)
SqlAfter(plan, k, row) ==
  IF k = 0 THEN [is |-> "go", n |-> 0, row |-> row]
  ELSE LET Of(r) == IF r.is = "go" THEN SqlStage(plan, k, r.row) ELSE r
       IN Of(SqlAfter(plan, k - 1, row))
SqlAnswer(plan, row) == SqlAfter(plan, Len(plan.stages), row)
=============================================================================
