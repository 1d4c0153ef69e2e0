------------------------------ MODULE EmitExpr ------------------------------
(***************************************************************************)
(* How lowering computes an expression                                     *)
(* (packages/confit/src/specializer/lower.rs, FB::emit): not as Sql says   *)
(* it, one value or NULL at a time, but over lanes. A lane is a payload    *)
(* and a validity flag, or no flag where the lowering could prove the      *)
(* value known; the payload under a FALSE flag is whatever came out, and   *)
(* an instruction that traps must never see it.                            *)
(*                                                                         *)
(* The operators below are the emitted code run over one row, in the order *)
(* of the blocks that row takes. A run's state st is                       *)
(*   cols, live, at   the row, the live stack, where each shared value is; *)
(*   joins            the joins of the plan, each with its static rows;    *)
(*   sites, probes    the user functions called, and the joins probed,     *)
(*                    since the block began;                               *)
(*   seeds            the joins whose lanes outlive a block, while their   *)
(*                    own residual or fold is computed;                    *)
(*   trap             0, or the trap the run ended with.                   *)
(***************************************************************************)
EXTENDS Sharing

CONSTANTS
  SelectCaseOps,   \* SELECT_CASE_OPS
  DispatchMinArms, \* DISPATCH_MIN_ARMS
  LinearTests      \* how many constants a dispatch tests in turn

ASSUME LimitsAssumption == SelectCaseOps \in Nat /\ DispatchMinArms \in Nat \ {0}
                           /\ LinearTests \in Nat \ {0}

\* A flag is 0 or 1 at run time; NoFlag, when there is no flag register.
NoFlag == 2
LaneOf(f, v) == [flag |-> f, v |-> v]
NullLane == LaneOf(0, 0)
OutcomeOf(l) == IF l.flag = 0 THEN Null ELSE Val(l.v)
Known(l) == IF l.flag = NoFlag THEN 1 ELSE l.flag

\* combine_flags, and over several lanes.
Combine(f, g) == IF f = NoFlag THEN g ELSE IF g = NoFlag THEN f ELSE f * g
FlagOf(ls) == LET All[i \in 0 .. Len(ls)] ==
                    IF i = 0 THEN NoFlag ELSE Combine(All[i - 1], ls[i].flag)
              IN All[Len(ls)]

\* masked, masked_to: the payload, or a safe one under the flag given.
Masked(f, v, safe) == IF f = 0 THEN safe ELSE v
Truthy(l) == IF l.flag = 0 THEN 0 ELSE l.v

\* Only the block that made a call, or a probe, knows of it.
Switch(st) == [st EXCEPT !.sites = << >>, !.probes = st.seeds]
With(f, k, v) == [ x \in DOMAIN f \union {k} |-> IF x = k THEN v ELSE f[x] ]
Stop(st, m) == [st EXCEPT !.trap = m]
InternalError == 99

---------------------------------------------------------------------------
(* The instructions: lanes in, a lane or a trap out.                        *)

\* What an instruction answers for the payloads it was given, as an outcome.
LaneArith(e, a, b) ==
  IF e.ty = "f64" THEN Val(FloatArith(e.fn, a, b))
  ELSE IF e.fn = "shr" /\ e.ty = "i8" /\ b >= NarrowBits THEN Val(0)
  ELSE IntArith(e.fn, a, b, Lane(e.ty))

\* Integer payloads are masked under the flag of the result, a zero divisor
\* clearing it, so that a NULL row computes 0 op 0, or 0 / 1.
EmitArith(e, a, b) ==
  LET plain == Combine(a.flag, b.flag)
      tested == /\ ZeroDivisorNulls(e.fn, e.ty)
                /\ ~ (e.kids[2].op = "lit" /\ e.kids[2].n # 0)
      flag == IF tested THEN Combine(plain, Bool(b.v # 0)) ELSE plain
      mask == e.ty # "f64" /\ flag # NoFlag
      va == IF mask THEN Masked(flag, a.v, 0) ELSE a.v
      vb == IF mask THEN Masked(flag, b.v, IF e.fn \in {"idiv", "rem"} THEN 1 ELSE 0) ELSE b.v
      r == IF e.fn = "rem" /\ va = MinOf(e.ty) /\ vb = -1 THEN Trap(RangeTrap)
           ELSE LaneArith(e, va, vb)
  IN [flag |-> flag, r |-> r]

\* An instruction that cannot trap takes its operands as they are.
EmitPlain(e, ls) ==
  LET args == [ i \in DOMAIN ls |-> ls[i].v ]
  IN [flag |-> FlagOf(ls), r |-> Apply(e, args)]
EmitCompare(e, a, b) == [flag |-> Combine(a.flag, b.flag), r |-> Val(Bool(Compare(e.fn, a.v, b.v)))]
EmitNot(e, l) == [flag |-> l.flag, r |-> Val(1 - l.v)]
EmitIsNull(e, l) == [flag |-> NoFlag, r |-> Val(IF e.n = 1 THEN Known(l) ELSE 1 - Known(l))]

\* Of the string operations that trap, substr and LIKE mask operands each by
\* its own flag, the distances and the pads under the flag of all of them;
\* repeat and a subscript mask nothing.
EmitSubstr(e, ls) ==
  LET args == [ i \in DOMAIN ls |-> IF i = 1 THEN ls[i].v ELSE Masked(ls[i].flag, ls[i].v, 0) ]
  IN [flag |-> FlagOf(ls), r |-> Text("substr", args)]
EmitLike(e, ls) ==
  LET args == [ i \in DOMAIN ls |-> Masked(ls[i].flag, ls[i].v, 0) ]
  IN [flag |-> FlagOf(ls), r |-> Text("like", args)]
EmitDistance(e, a, b) ==
  LET flag == Combine(a.flag, b.flag)
  IN [flag |-> flag, r |-> Text(e.fn, <<Masked(flag, a.v, 1), Masked(flag, b.v, 1)>>)]
EmitPad(e, ls) ==
  LET flag == FlagOf(ls)
  IN [flag |-> flag, r |-> Text("pad", <<ls[1].v, Masked(flag, ls[2].v, 0), ls[3].v>>)]

EmitText(e, ls) ==
  CASE e.fn = "substr" -> EmitSubstr(e, ls)
    [] e.fn = "like" -> EmitLike(e, ls)
    [] e.fn \in {"jaccard", "hamming"} -> EmitDistance(e, ls[1], ls[2])
    [] e.fn = "pad" -> EmitPad(e, ls)
    [] OTHER -> EmitPlain(e, ls)

\* A logarithm masks to 1, the rest to 0; a sign change needs no mask.
EmitMath1(e, l) ==
  [flag |-> l.flag,
   r |-> Math1(e.fn, IF e.fn = "fneg" THEN l.v
                     ELSE Masked(l.flag, l.v, IF e.fn = "ln" THEN 1 ELSE 0))]

EmitLogb(e, a, b) ==
  LET flag == Combine(a.flag, b.flag)
  IN [flag |-> flag, r |-> Apply(e, <<Masked(flag, a.v, 2), Masked(flag, b.v, 1)>>)]

EmitAbs(e, l) ==
  [flag |-> l.flag,
   r |-> IF e.ty = "f64" THEN Apply(e, <<l.v>>)
         ELSE Checked(AbsInt(Masked(l.flag, l.v, 0)), Lane(e.ty))]

\* A cast converts lanes: a width alone changes nothing here, its check being
\* the narrow trap. TRY has a flag even where nothing can fail.
EmitSimpleCast(e, l) ==
  LET from == Lane(e.kids[1].ty)
      a == IF from = "f64" /\ Lane(e.ty) = "i64" THEN Masked(l.flag, l.v, 0) ELSE l.v
      c == Convert(a, from, Lane(e.ty))
  IN [flag |-> IF e.fn = "try" THEN Known(l) ELSE l.flag,
      r |-> IF from = Lane(e.ty) THEN Val(l.v) ELSE IF c = Null THEN Trap(RangeTrap) ELSE c]

\* A conversion that may fail on the row's payload: CAST traps on a row that
\* is there, TRY_CAST clears the flag.
Tried(e, l, c) ==
  CASE e.fn = "try" -> [flag |-> Combine(l.flag, Bool(c # Null)), r |-> Val(c.n)]
    [] e.fn = "cast" /\ c = Null /\ l.flag # 0 -> [flag |-> l.flag, r |-> Trap(RangeTrap)]
    [] OTHER -> [flag |-> l.flag, r |-> Val(c.n)]

\* A parse checks the width itself; a DOUBLE under TRY is converted only where
\* it is known and in range.
EmitParse(e, l) == Tried(e, l, Convert(l.v, "str", e.ty))
EmitGuarded(e, l) == Tried(e, l, IF l.flag = 0 THEN Null ELSE Convert(l.v, "f64", Lane(e.ty)))

\* wide_cast: the i128 lane on either side. Integers are masked, their width
\* is checked at both ends, and between widths of one lane that is all.
WideCast(e) == "i128" \in {Lane(e.kids[1].ty), Lane(e.ty)}
EmitWideCast(e, l) ==
  LET from == e.kids[1].ty
      total == CastIsTotal(from, e.ty)
      a == IF {from, e.ty} \subseteq AllInts /\ ~ (total /\ Lane(from) = Lane(e.ty))
           THEN Masked(l.flag, l.v, 0) ELSE l.v
      c == Convert(a, from, e.ty)
  IN IF total THEN [flag |-> IF e.fn = "try" THEN Known(l) ELSE l.flag, r |-> c] ELSE Tried(e, l, c)

EmitCast(e, l) ==
  LET from == e.kids[1].ty
  IN CASE WideCast(e) -> EmitWideCast(e, l)
       [] ~WideCast(e) /\ from = "str" -> EmitParse(e, l)
       [] ~WideCast(e) /\ from = "f64" /\ e.ty \in IntTypes /\ e.fn = "try" -> EmitGuarded(e, l)
       [] OTHER -> EmitSimpleCast(e, l)

\* DECIMALs: a NULL row computes 0 op 0, or 0 % 1 at the divisor's scale, and
\* converts 0; so does a row whose TRY_CAST fails.
EmitDec(e, a, b) ==
  LET plain == Combine(a.flag, b.flag)
      tested == e.fn = "rem" /\ ~ (e.kids[2].op = "lit" /\ e.kids[2].n # 0)
      flag == IF tested THEN Combine(plain, Bool(b.v # 0)) ELSE plain
      safe == IF e.fn = "rem" THEN 2 ^ ScaleOf(e.kids[2].ty) ELSE 0
  IN [flag |-> flag, r |-> DecArith(e.fn, Masked(flag, a.v, 0), Masked(flag, b.v, safe), e.ty)]

EmitDecCast(e, l) ==
  LET c == DecConvert(Masked(l.flag, l.v, 0), e.kids[1].ty, e.ty)
  IN CASE e.fn = "try" -> [flag |-> Combine(l.flag, Bool(c # Null)), r |-> Val(c.n)]
       [] OTHER -> [flag |-> l.flag, r |-> IF c = Null THEN Trap(RangeTrap) ELSE c]

\* The three-valued flag algebra of AND and OR.
KleeneCombine(is_and, a, b) ==
  LET val == IF is_and THEN a.v * b.v ELSE IF a.v + b.v > 0 THEN 1 ELSE 0
      decides(l) == IF is_and THEN 1 - l.v ELSE l.v
      or(x, y) == IF x + y > 0 THEN 1 ELSE 0
  IN LaneOf(CASE a.flag = NoFlag /\ b.flag = NoFlag -> NoFlag
              [] b.flag = NoFlag -> or(a.flag, decides(b))
              [] a.flag = NoFlag -> or(b.flag, decides(a))
              [] OTHER -> or(or(a.flag * b.flag, a.flag * decides(a)), b.flag * decides(b)),
            val)

\* A running extreme: the held lane goes when it is NULL or beaten.
EmitExtreme(e, ls) ==
  LET beats(x, y) == IF e.fn = "greatest" THEN x > y ELSE x < y
      Held[i \in 1 .. Len(ls)] ==
        IF i = 1 THEN ls[1]
        ELSE LET m == Held[i - 1]
                 l == ls[i]
                 take == l.flag # 0 /\ (m.flag = 0 \/ beats(l.v, m.v))
             IN LaneOf(IF NoFlag \in {l.flag, m.flag} THEN NoFlag
                       ELSE IF l.flag + m.flag > 0 THEN 1 ELSE 0,
                       IF take THEN l.v ELSE m.v)
  IN Held[Len(ls)]

\* A NULL feature is handed over as NaN; only the id's flag is the answer's.
EmitPredict(ls) ==
  [flag |-> ls[1].flag,
   r |-> Predict(<<Val(Masked(ls[1].flag, ls[1].v, 0)),
                   Val(Masked(ls[2].flag, ls[2].v, NaN))>>)]

\* One instruction over its operands' lanes, the narrow check aside.
Instruction(e, ls) ==
  CASE e.op = "arith" -> EmitArith(e, ls[1], ls[2])
    [] e.op = "cmp" -> EmitCompare(e, ls[1], ls[2])
    [] e.op = "not" -> EmitNot(e, ls[1])
    [] e.op \in {"i2f", "i2d", "d2f", "dunary"} -> EmitPlain(e, ls)
    [] e.op = "dec" -> EmitDec(e, ls[1], ls[2])
    [] e.op = "dcast" -> EmitDecCast(e, ls[1])
    [] e.op = "isnull" -> EmitIsNull(e, ls[1])
    [] e.op = "text" -> EmitText(e, ls)
    [] e.op = "math1" -> EmitMath1(e, ls[1])
    [] e.op = "logb" -> EmitLogb(e, ls[1], ls[2])
    [] e.op = "abs" -> EmitAbs(e, ls[1])
    [] e.op = "cast" -> EmitCast(e, ls[1])
    [] e.op = "predict" -> EmitPredict(ls)

\* narrow_result_can_escape, and the block that checking it ends.
NarrowChecked(e) == e.ty \in {"i8", "u64"} /\ e.op \notin Leaves \union {"case"}
SplitsBlock(e) ==
  \/ NarrowChecked(e)
  \/ e.op = "raise"
  \/ e.op = "cast" /\ e.fn = "cast" /\ e.kids[1].ty = "str"
  \/ e.op = "cast" /\ e.fn = "cast" /\ WideCast(e) /\ ~ CastIsTotal(e.kids[1].ty, e.ty)
  \/ e.op = "cast" /\ e.fn = "try" /\ e.kids[1].ty = "f64" /\ e.ty \in IntTypes

\* The instruction's lane, its own trap or the narrow one.
Finish(e, x, st) ==
  LET lane == LaneOf(x.flag, x.r.n)
      escapes == NarrowChecked(e) /\ x.flag # 0 /\ ~ Fits(x.r.n, e.ty)
  IN CASE x.r.is = "trap" -> [lane |-> NullLane, st |-> Stop(st, x.r.n)]
       [] x.r.is # "trap" /\ escapes -> [lane |-> NullLane, st |-> Stop(st, RangeTrap)]
       [] OTHER -> [lane |-> lane, st |-> IF SplitsBlock(e) THEN Switch(st) ELSE st]

---------------------------------------------------------------------------
(* CASE: which of its three lowerings.                                      *)

\* dispatch_key: {<<x, c>>} for a condition x = c over a plain integer x.
DispatchKey(c) ==
  IF c.op # "cmp" \/ c.fn # "eq" THEN {}
  ELSE { <<c.kids[i], c.kids[3 - i].n>> :
           i \in { j \in {1, 2} :
                     /\ c.kids[3 - j].op = "lit" /\ (j = 2 => c.kids[2].op # "lit")
                     /\ c.kids[j].op \in {"col", "slot", "static"} /\ c.kids[j].ty \in IntTypes } }

\* dispatch_table: the arms before `stop' that test one x, each constant with
\* its first arm; empty when there are too few.
DispatchTable(e, from) ==
  LET key(i) == CHOOSE k \in DispatchKey(Cond(e, i)) : TRUE
      same(i) == /\ DispatchKey(Cond(e, i)) # {}
                 /\ \A k \in DispatchKey(Cond(e, i)) : k[1] = key(from)[1]
      inTable == IF from > Arms(e) \/ DispatchKey(Cond(e, from)) = {} THEN {}
                 ELSE { i \in from .. Arms(e) : \A j \in from .. i : same(j) }
      first == { i \in inTable : \A j \in inTable : key(j)[2] = key(i)[2] => i <= j }
  IN IF Cardinality(inTable) < DispatchMinArms THEN {}
     ELSE {[x |-> key(from)[1], after |-> from + Cardinality(inTable),
            rows |-> { <<key(i)[2], i>> : i \in first }]}

RECURSIVE Sorted(_)
Sorted(rows) == IF rows = {} THEN <<>>
                ELSE LET m == CHOOSE m \in rows : \A r \in rows : m[1] <= r[1]
                     IN <<m>> \o Sorted(rows \ {m})

\* dispatch_search: halve on x < c, then test in turn; 0 for no arm.
RECURSIVE Search(_, _)
Search(table, v) ==
  IF Len(table) <= LinearTests
  THEN LET hit == { i \in DOMAIN table : table[i][1] = v }
       IN IF hit = {} THEN 0 ELSE table[CHOOSE i \in hit : TRUE][2]
  ELSE LET mid == Len(table) \div 2
       IN IF v < table[mid + 1][1] THEN Search(SubSeq(table, 1, mid), v)
          ELSE Search(SubSeq(table, mid + 1, Len(table)), v)

\* few_ops as a count; too many for a kind it does not admit.
RECURSIVE Ops(_)
Ops(e) ==
  IF e.op \in Leaves \ {"let"} THEN 0
  ELSE IF e.op \notin {"cmp", "and", "or", "arith", "not", "isnull", "i2f", "abs", "case"}
  THEN SelectCaseOps + 1
  ELSE LET Sum[i \in 0 .. Len(e.kids)] == IF i = 0 THEN 1 ELSE Sum[i - 1] + Ops(e.kids[i])
       IN Sum[Len(e.kids)]

NullGuard(e) == /\ Len(e.kids) = 3 /\ Result(e, 1).op = "null"
                /\ Ops(Cond(e, 1)) <= SelectCaseOps

SelectHasty(e) ==   \* mutant: an arm that can trap is computed as well
  Ops(e) <= SelectCaseOps \/ NullGuard(e)
SelectCase(e) == /\ Ops(e) <= SelectCaseOps \/ NullGuard(e)
                 /\ \A i \in DOMAIN e.kids : ~ CanTrap(e.kids[i])

\* A branch's lane as the CASE's block parameter: flagged when the CASE may be
\* NULL, and unflagged, its flag dropped, when it may not.
Joined(e, l) == LaneOf(IF e.nul THEN Known(l) ELSE NoFlag, l.v)
JoinAt(e, r) == [lane |-> Joined(e, r.lane), st |-> Switch(r.st)]

\* case_select: every part was computed, and the last arm's select comes first.
EmitSelect(e, ls) ==
  LET parts == Arms(e)
      Acc[i \in 1 .. parts + 1] ==
        IF i = parts + 1 THEN IF HasDefault(e) THEN ls[Len(ls)] ELSE NullLane
        ELSE LET keep == Truthy(ls[2 * i - 1])
                 l == ls[2 * i]
             IN LaneOf(IF ~e.nul THEN NoFlag
                       ELSE IF keep = 1 THEN Known(l) ELSE Known(Acc[i + 1]),
                       IF keep = 1 THEN l.v ELSE Acc[i + 1].v)
  IN LaneOf(IF e.nul THEN Acc[1].flag ELSE NoFlag, Acc[1].v)

---------------------------------------------------------------------------
(* The run.                                                                 *)

\* What is emitted of an expression is emitted inside one of the others: its
\* value, its truth, a CASE from some arm on, by dispatch or as a chain, or the
\* probe of the join it reads.
NoExpr == [op |-> "null", fn |-> "", n |-> 0, ty |-> "i1", nul |-> TRUE, kids |-> <<>>]
RECURSIVE Emitted(_, _, _, _)
Run(e, st) == Emitted("value", e, 1, st)

\* emit_truth: TRUE or not, AND and OR lazy, each in blocks of its own.
RunTruth(e, st) == Emitted("truth", e, 1, st)
RunCase(e, i, st) == Emitted("case", e, i, st)
RunChain(e, i, st) == Emitted("chain", e, i, st)
RunProbe(j, st) == Emitted("probe", NoExpr, j, st)

\* The expressions es, in order, unless one traps.
RunFrom(es, st) ==
  LET From[i \in 0 .. Len(es)] ==
        IF i = 0 THEN [ls |-> <<>>, st |-> st]
        ELSE LET before == From[i - 1]
             IN IF before.st.trap # 0 THEN before
                ELSE LET r == Run(es[i], before.st)
                     IN [ls |-> Append(before.ls, r.lane), st |-> r.st]
  IN From[Len(es)]

Truth(e, st) ==
  IF e.op \in {"and", "or"}
  THEN LET l == RunTruth(e.kids[1], st)
           decided == l.lane.v = (IF e.op = "and" THEN 0 ELSE 1)
           r == IF decided THEN l ELSE RunTruth(e.kids[2], Switch(l.st))
       IN IF l.st.trap # 0 THEN l ELSE [r EXCEPT !.st = Switch(r.st)]
  ELSE LET r == Run(e, st) IN [r EXCEPT !.lane = LaneOf(NoFlag, Truthy(r.lane))]

\* case: the arms from i on, dispatched, selected, or tried in turn.
CaseFrom(e, i, st) ==
  LET table == DispatchTable(e, i)
      dispatched(t) ==
        LET x == Run(t.x, st)
            arm == IF x.lane.flag = 0 THEN 0 ELSE Search(Sorted(t.rows), x.lane.v)
        IN JoinAt(e, IF arm # 0 THEN Run(Result(e, arm), Switch(x.st))
                     ELSE IF t.after <= Arms(e) THEN RunCase(e, t.after, Switch(x.st))
                     ELSE RunChain(e, t.after, Switch(x.st)))
      kids == SubSeq(e.kids, 2 * i - 1, Len(e.kids))
      selected == RunFrom(kids, st)
  IN IF table # {} THEN dispatched(CHOOSE t \in table : TRUE)
     ELSE IF SelectCase(e)
     THEN [lane |-> IF selected.st.trap # 0 THEN NullLane
                    ELSE EmitSelect([e EXCEPT !.kids = kids], selected.ls),
           st |-> selected.st]
     ELSE RunChain(e, i, st)

\* The chain: a condition's blocks per arm, then the default's.
ChainFrom(e, i, st) ==
  IF i > Arms(e)
  THEN JoinAt(e, IF HasDefault(e) THEN Run(Default(e), st) ELSE [lane |-> NullLane, st |-> st])
  ELSE LET c == RunTruth(Cond(e, i), st)
       IN IF c.st.trap # 0 THEN c
          ELSE IF c.lane.v = 1 THEN JoinAt(e, Run(Result(e, i), Switch(c.st)))
          ELSE RunChain(e, i + 1, Switch(c.st))

\* emit_extern: the call is made once per site and block.
RunExtern(e, st) ==
  LET Answer(o) == LaneOf(IF e.n = 0 THEN NoFlag ELSE Bool(o # Null), o.n)
      Call(rs, s) == [lane |-> Answer(Extern(e, rs)),
                      st |-> [s EXCEPT !.sites = With(@, e.fn, rs)]]
      Of(r) == IF r.st.trap # 0 THEN [lane |-> NullLane, st |-> r.st]
               ELSE Call([ i \in DOMAIN r.ls |-> OutcomeOf(r.ls[i]) ], r.st)
  IN IF e.fn \in DOMAIN st.sites THEN [lane |-> Answer(Extern(e, st.sites[e.fn])), st |-> st]
     ELSE Of(RunFrom(e.kids, st))

\* The rows of join j whose keys are the lanes ks: a plain key that is NULL
\* matches nothing, one compared IS NOT DISTINCT FROM matches NULL.
KeysMatch(row, spec, ks) ==
  \A i \in DOMAIN ks : IF spec.nd[i] THEN row.keys[i] = OutcomeOf(ks[i])
                       ELSE ks[i].flag # 0 /\ row.keys[i] = Val(ks[i].v)
RowsOf(spec, ks) == SelectSeq(spec.rows, LAMBDA row : KeysMatch(row, spec, ks))

\* A static row's value lanes; those of a miss are invalid, or a default.
ValueLanes(spec, found) ==
  [ c \in DOMAIN spec.nul |->
      IF found = <<>> THEN IF spec.nul[c] THEN NullLane ELSE LaneOf(NoFlag, 0)
      ELSE LET o == found[1].vals[c]
           IN LaneOf(IF spec.nul[c] THEN Bool(o # Null) ELSE NoFlag, o.n) ]

\* What one more kept row does to an accumulator: a count counts what is not
\* NULL, the others start with the first value and join each later one.
Accumulate(fn, acc, x) ==
  IF fn = "count_star" THEN LaneOf(NoFlag, acc.v + 1)
  ELSE IF fn = "count" THEN LaneOf(NoFlag, acc.v + Known(x))
  ELSE IF x.flag = 0 THEN acc
  ELSE LaneOf(1, IF acc.flag = 0 THEN IF fn = "sum" THEN acc.v + x.v ELSE x.v
                 ELSE CASE fn = "sum" -> acc.v + x.v
                        [] fn = "min" -> IF x.v < acc.v THEN x.v ELSE acc.v
                        [] fn = "max" -> IF x.v > acc.v THEN x.v ELSE acc.v)

\* The loop of emit_fold over the rows rs of the row join: each keeps the row
\* when the predicate is TRUE, in blocks of its own.
RunFoldRows(fold, rs, zero, st) ==
  LET spec == st.joins[fold.rows]
      Truly(s) == IF fold.pred = <<>> THEN [lane |-> LaneOf(NoFlag, 1), st |-> s]
                  ELSE RunTruth(fold.pred[1], Switch(s))
      Kept(accs, lanes) ==
        [ a \in DOMAIN accs |->
            Accumulate(fold.aggs[a].fn, accs[a],
                       IF fold.aggs[a].fn = "count_star" THEN NullLane
                       ELSE lanes[fold.aggs[a].arg]) ]
      From[i \in 0 .. Len(rs)] ==
        IF i = 0 THEN [any |-> 0, accs |-> zero, st |-> Switch(st)]
        ELSE LET f == From[i - 1] IN
             IF f.st.trap # 0 THEN f
             ELSE LET lanes == ValueLanes(spec, <<rs[i]>>)
                      p == Truly([Switch(f.st) EXCEPT
                                    !.seeds = With(@, fold.rows, [hit |-> 1, lanes |-> lanes])])
                  IN IF p.st.trap # 0 THEN [f EXCEPT !.st = p.st]
                     ELSE [any |-> IF p.lane.v = 1 THEN 1 ELSE f.any,
                           accs |-> IF p.lane.v = 1 THEN Kept(f.accs, lanes) ELSE f.accs,
                           st |-> Switch([p.st EXCEPT !.seeds = st.seeds])]
  IN From[Len(rs)]

\* emit_fold: the keys, the loop, and the item over the aggregates.
RunFold(j, st) ==
  LET fold == st.joins[j].fold[1]
      spec == st.joins[fold.rows]
      zero == [ a \in DOMAIN fold.aggs |->
                  LaneOf(IF fold.aggs[a].fn \in {"count", "count_star"} THEN NoFlag ELSE 0, 0) ]
      Stopped(s) == [hit |-> 0, lanes |-> zero, st |-> s]
      Cached(h, lanes, s) == [hit |-> h, lanes |-> lanes,
                              st |-> [s EXCEPT !.probes = With(@, j, [hit |-> h, lanes |-> lanes])]]
      Item(accs, post) ==
        IF post.st.trap # 0 THEN Stopped(post.st)
        ELSE Cached(1, Append(accs, LaneOf(Known(post.lane), post.lane.v)),
                    [post.st EXCEPT !.seeds = st.seeds])
      Seeded(f) == [f.st EXCEPT !.seeds = With(@, j, [hit |-> 1, lanes |-> f.accs])]
      Folded(f) ==
        IF f.st.trap # 0 THEN Stopped(f.st)
        ELSE IF fold.post = <<>> THEN Cached(f.any, f.accs, f.st)
        ELSE Item(f.accs, LET s == Seeded(f) IN Run(fold.post[1], [s EXCEPT !.probes = s.seeds]))
      Keyed(k) == IF k.st.trap # 0 THEN Stopped(k.st)
                  ELSE Folded(RunFoldRows(fold, RowsOf(spec, k.ls), zero, Switch(k.st)))
  IN Keyed(RunFrom(spec.keys, st))

\* emit_probe: the map probe, and over a hit the residual; once per block.
ProbeJoin(j, st) ==
  LET spec == st.joins[j]
      Cached(h, lanes, s) == [hit |-> h, lanes |-> lanes,
                              st |-> [s EXCEPT !.probes = With(@, j, [hit |-> h, lanes |-> lanes])]]
      Seeded(lanes, s) == [Switch(s) EXCEPT !.seeds = With(@, j, [hit |-> 1, lanes |-> lanes])]
      Tested(lanes, seeds, r) ==
        IF r.st.trap # 0 THEN [hit |-> 0, lanes |-> lanes, st |-> r.st]
        ELSE Cached(Truthy(r.lane), lanes, Switch([r.st EXCEPT !.seeds = seeds]))
      Of(found, lanes, s) ==
        CASE s.trap # 0 -> [hit |-> 0, lanes |-> lanes, st |-> s]
          [] s.trap = 0 /\ spec.residual = <<>> -> Cached(Bool(found # <<>>), lanes, s)
          [] s.trap = 0 /\ spec.residual # <<>> /\ found = <<>> -> Cached(0, lanes, Switch(s))
          [] OTHER -> Tested(lanes, s.seeds, Run(spec.residual[1], Switch(Seeded(lanes, s))))
      Found(k, found) == Of(found, ValueLanes(spec, found), k.st)
      Keyed(k) == Found(k, RowsOf(spec, k.ls))
  IN CASE j \in DOMAIN st.probes ->
            [hit |-> st.probes[j].hit, lanes |-> st.probes[j].lanes, st |-> st]
       [] j \in DOMAIN st.seeds \/ spec.scan ->
            [hit |-> 0, lanes |-> ValueLanes(spec, <<>>), st |-> Stop(st, InternalError)]
       [] spec.fold # <<>> -> RunFold(j, st)
       [] OTHER -> Keyed(RunFrom(spec.keys, st))

\* A static column: known where its join hit, and where its row has a value.
RunStatic(e, st) ==
  LET Of(hit, l, s) == [lane |-> LaneOf(Combine(hit, l.flag), l.v), st |-> s]
      Probed(p) ==
        Of(IF st.joins[JoinOf(e)].kind = "inner" THEN NoFlag ELSE p.hit,
           IF p.st.trap # 0 THEN NullLane ELSE p.lanes[ValOf(e)], p.st)
  IN Probed(RunProbe(JoinOf(e), st))

\* What joins its operands' lanes without an instruction that can trap.
Selection(e, ls) ==
  LET Of(l) == [flag |-> l.flag, r |-> Val(l.v)]
  IN Of(CASE e.op = "seq" -> ls[e.n]
          [] e.op = "extreme" -> EmitExtreme(e, ls)
          [] OTHER -> KleeneCombine(e.op = "and", ls[1], ls[2]))

Value(e, st) ==
  LET col == st.cols[e.n]
      HitLane(p) == [lane |-> LaneOf(NoFlag, p.hit), st |-> p.st]
      EndOf(x, s) == IF s.trap # 0 THEN [lane |-> NullLane, st |-> s] ELSE Finish(e, x, s)
      Called(x) == EndOf([flag |-> x.lane.flag, r |-> Val(x.lane.v)], x.st)
      Operated(r) ==
        IF r.st.trap # 0 THEN [lane |-> NullLane, st |-> r.st]
        ELSE Finish(e, IF e.op \in {"seq", "extreme", "and", "or"} THEN Selection(e, r.ls)
                       ELSE Instruction(e, r.ls), r.st)
  IN CASE e.op = "col" -> [lane |-> LaneOf(IF e.nul THEN Bool(col # Null) ELSE NoFlag, col.n),
                           st |-> st]
       [] e.op = "slot" -> [lane |-> st.live[e.n], st |-> st]
       [] e.op = "shared" -> IF st.at[e.n] = 0
                             THEN [lane |-> NullLane, st |-> Stop(st, InternalError)]
                             ELSE [lane |-> st.live[st.at[e.n]], st |-> st]
       [] e.op = "static" -> RunStatic(e, st)
       [] e.op = "hit" -> HitLane(RunProbe(JoinOf(e), st))
       [] e.op = "lit" -> [lane |-> LaneOf(NoFlag, e.n), st |-> st]
       [] e.op = "null" -> [lane |-> NullLane, st |-> st]
       [] e.op = "raise" -> [lane |-> NullLane, st |-> Stop(st, RaiseTrap(e.n))]
       [] e.op = "case" -> RunCase(e, 1, st)
       [] e.op = "extern" -> Called(RunExtern(e, st))
       [] OTHER -> Operated(RunFrom(e.kids, st))

Emitted(how, e, i, st) ==
  CASE how = "value" -> Value(e, st)
    [] how = "truth" -> Truth(e, st)
    [] how = "case" -> CaseFrom(e, i, st)
    [] how = "chain" -> ChainFrom(e, i, st)
    [] how = "probe" -> ProbeJoin(i, st)
=============================================================================
