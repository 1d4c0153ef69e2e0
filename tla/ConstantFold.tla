---------------------------- MODULE ConstantFold ----------------------------
(***************************************************************************)
(* Prepare-time folding (packages/confit/src/specializer/fold.rs): every   *)
(* all-constant subtree becomes a constant, and a constant condition picks *)
(* its CASE arm. What would trap stays, to trap when its row comes, and an *)
(* operand that is not constant is never dropped, for its trap.            *)
(***************************************************************************)
EXTENDS SqlExpr

LitOf(v, ty) == [op |-> "lit", fn |-> "", n |-> v, ty |-> ty, nul |-> FALSE, kids |-> <<>>]
NullFold(ty) == [op |-> "null", fn |-> "", n |-> 0, ty |-> ty, nul |-> TRUE, kids |-> <<>>]

AsOutcome(e) == IF e.op = "null" THEN Null ELSE Val(e.n)

\* A constant outcome as the node that stands for it; a trap stays a node.
OutcomeNode(r, e) == CASE r.is = "val" -> LitOf(r.n, e.ty)
                       [] r.is = "null" -> NullFold(e.ty)
                       [] OTHER -> e

AllConst(e)  == \A i \in DOMAIN e.kids : IsConst(e.kids[i])
SomeNull(e)  == \E i \in DOMAIN e.kids : e.kids[i].op = "null"
Operands(e)  == [ i \in DOMAIN e.kids |-> e.kids[i].n ]

\* A strict operation over constants: NULL for a NULL, else its own answer
\* unless that is a trap.
FoldStrict(e) ==
  IF ~ AllConst(e) THEN e
  ELSE IF SomeNull(e) THEN NullFold(e.ty)
  ELSE OutcomeNode(Apply(e, Operands(e)), e)

\* DECIMAL arithmetic: a NULL on either side is the answer, and so is a zero
\* divisor, whatever the other side is.
FoldDec(e) ==
  IF SomeNull(e) \/ (e.fn = "rem" /\ e.kids[2].op = "lit" /\ e.kids[2].n = 0)
  THEN NullFold(e.ty)
  ELSE FoldStrict(e)

FoldKleene(e) ==
  IF AllConst(e)
  THEN OutcomeNode(Kleene(e.op, AsOutcome(e.kids[1]), AsOutcome(e.kids[2])), e)
  ELSE e

FoldIsNull(e) ==
  LET a == e.kids[1]
  IN CASE a.op = "lit" -> LitOf(e.n, "i1")
       [] a.op = "null" -> LitOf(1 - e.n, "i1")
       [] OTHER -> e

\* Sign change alone folds over a value; every unary function over NULL.
FoldMath1(e) ==
  LET a == e.kids[1]
  IN CASE a.op = "null" -> NullFold(e.ty)
       [] a.op = "lit" /\ e.fn = "fneg" -> LitOf(FNeg(a.n), e.ty)
       [] OTHER -> e

\* abs stays over the lane's minimum only, whatever the width of the node.
FoldAbs(e) ==
  LET a == e.kids[1]
  IN CASE a.op = "null" -> NullFold(e.ty)
       [] a.op = "lit" /\ e.ty = "f64" -> LitOf(IF a.n = NaN THEN NaN ELSE AbsInt(a.n), e.ty)
       [] a.op = "lit" /\ a.n # MinOf(Lane(a.ty)) -> LitOf(AbsInt(a.n), e.ty)
       [] OTHER -> e

\* A cast of NULL is NULL, an integer literal of the i64 lane changes width
\* where it fits, a string literal is parsed to a number unless a CAST would
\* fail, and the exact conversions are made; every other cast waits.
FoldCast(e) ==
  LET a == e.kids[1]
      parsed == Parsed(a.n, e.ty)
  IN CASE a.op = "null" -> NullFold(e.ty)
       [] a.op = "lit" /\ e.fn = "cast" /\ e.ty \in IntTypes /\ a.ty \in IntTypes
            /\ Fits(a.n, e.ty) -> LitOf(a.n, e.ty)
       [] a.op = "lit" /\ e.ty \in IntTypes /\ a.ty = "i1" -> LitOf(a.n, e.ty)
       [] a.op = "lit" /\ e.ty = "f64" /\ a.ty \in IntTypes -> LitOf(a.n, e.ty)
       [] a.op = "lit" /\ a.ty = "str" /\ e.ty \in AllInts \union {"f64"} ->
            IF parsed = Null /\ e.fn = "cast" THEN e ELSE OutcomeNode(parsed, e)
       [] OTHER -> e

\* Constant items of a Seq cannot trap: only the answer and the rest stay.
FoldSeq(e) ==
  LET kept == { i \in DOMAIN e.kids : i = e.n \/ ~ IsConst(e.kids[i]) }
      rank(i) == Cardinality({ j \in kept : j <= i })
      nth(k) == CHOOSE i \in kept : rank(i) = k
      kids == [ k \in 1 .. Cardinality(kept) |-> e.kids[nth(k)] ]
  IN IF Len(kids) = 1 THEN kids[1]
     ELSE [e EXCEPT !.kids = kids, !.n = rank(e.n)]

\* An arm leaves its CASE at the node's width, and only when reading it means
\* the same in every context; any other keeps a CASE WHEN TRUE around it.
Retype(r, ty) == IF r.ty # ty /\ r.ty \in IntTypes /\ ty \in IntTypes
                 THEN [r EXCEPT !.ty = ty] ELSE r
Escape(e, r) == IF r.op \in {"lit", "null", "col", "slot"} THEN Retype(r, e.ty)
                ELSE [e EXCEPT !.kids = <<LitOf(1, "i1"), Retype(r, e.ty)>>]

\* Constant conditions pick, in the order the row would try them.
FoldCase(e) ==
  LET IsTrue(i) == Cond(e, i).op = "lit" /\ Cond(e, i).n = 1
      IsDead(i) == Cond(e, i).op = "null" \/ (Cond(e, i).op = "lit" /\ Cond(e, i).n = 0)
      trues == { i \in 1 .. Arms(e) : IsTrue(i) }
      stop == IF trues = {} THEN Arms(e) + 1
              ELSE CHOOSE i \in trues : \A j \in trues : i <= j
      kept == { i \in 1 .. stop - 1 : ~ IsDead(i) }
      Before[i \in 0 .. Arms(e)] ==
        IF i = 0 THEN <<>>
        ELSE Before[i - 1] \o IF i \in kept THEN <<Cond(e, i), Result(e, i)>> ELSE <<>>
      rest == CASE trues # {} -> <<Result(e, stop)>>
                [] HasDefault(e) -> <<Default(e)>>
                [] OTHER -> <<>>
  IN IF kept = {} THEN IF rest = <<>> THEN NullFold(e.ty) ELSE Escape(e, rest[1])
     ELSE [e EXCEPT !.kids = Before[Arms(e)] \o rest]

\* The operations over which nothing folds, their operands aside: what they
\* answer, or raise, is the row's.
RowTime == {"text", "logb", "predict", "extern", "extreme"}

\* One node whose sub-expressions are folded.
FoldNode(e) ==
  CASE e.op \in {"arith", "cmp", "not", "i2f", "i2d", "d2f", "dunary", "dcast"} -> FoldStrict(e)
    [] e.op = "dec" -> FoldDec(e)
    [] e.op \in {"and", "or"} -> FoldKleene(e)
    [] e.op = "isnull" -> FoldIsNull(e)
    [] e.op = "math1" -> FoldMath1(e)
    [] e.op = "abs" -> FoldAbs(e)
    [] e.op = "cast" -> FoldCast(e)
    [] e.op = "seq" -> FoldSeq(e)
    [] e.op = "case" -> FoldCase(e)
    [] e.op \in RowTime \union Leaves \union {"raise"} -> e

RECURSIVE Fold(_)
Fold(e) == FoldNode([e EXCEPT !.kids = [ i \in DOMAIN e.kids |-> Fold(e.kids[i]) ]])

-----------------------------------------------------------------------------
(***************************************************************************)
(* Which expressions can trap, and what a sibling kept only for its traps  *)
(* must still evaluate (packages/confit/src/specializer/plan.rs). Lowering *)
(* computes what cannot trap early, or on rows that never asked for it, so *)
(* a wrong `cannot' makes a row fail that SQL answers.                     *)
(***************************************************************************)

\* A double constant read through the promotions around it.
RECURSIVE StripFloat(_)
StripFloat(e) == IF e.op = "i2f" THEN StripFloat(e.kids[1]) ELSE e

IsDoubleConst(e) == LET s == StripFloat(e)
                    IN s.op = "lit" /\ s.ty \in {"f64", "i64"} /\ s.n # NaN
DoubleConst(e) == StripFloat(e).n

Mirrored(fn) == CASE fn = "lt" -> "gt" [] fn = "le" -> "ge"
                  [] fn = "gt" -> "lt" [] fn = "ge" -> "le" [] OTHER -> fn

\* A comparison against a constant as [fn, x, k], constant on the right.
AgainstConst(c) ==
  IF c.op # "cmp" THEN {}
  ELSE IF IsDoubleConst(c.kids[2])
       THEN {[fn |-> c.fn, x |-> c.kids[1], k |-> DoubleConst(c.kids[2])]}
  ELSE IF IsDoubleConst(c.kids[1])
       THEN {[fn |-> Mirrored(c.fn), x |-> c.kids[2], k |-> DoubleConst(c.kids[1])]}
  ELSE {}

\* The conditions a condition that was taken, or passed, stands for.
RECURSIVE Conjuncts(_, _)
Conjuncts(c, taken) ==
  IF c.op = (IF taken THEN "and" ELSE "or")
  THEN Conjuncts(c.kids[1], taken) \union Conjuncts(c.kids[2], taken)
  ELSE {c}

GuardsLoose(c, taken, a, strict) ==   \* mutant: zero counts as positive
  \E p \in Conjuncts(c, taken) : \E g \in AgainstConst(p) :
    /\ StripFloat(g.x) = StripFloat(a)
    /\ <<g.fn, taken>> \in {<<"le", FALSE>>, <<"gt", TRUE>>, <<"lt", FALSE>>, <<"ge", TRUE>>}
    /\ g.k >= 0

\* Whether c, TRUE or else FALSE or NULL, leaves `a' positive (strict) or
\* non-negative, NaN or NULL.
Guards(c, taken, a, strict) ==
  \E p \in Conjuncts(c, taken) : \E g \in AgainstConst(p) :
    /\ StripFloat(g.x) = StripFloat(a)
    /\ \/ <<g.fn, taken>> \in {<<"le", FALSE>>, <<"gt", TRUE>>} /\ g.k >= 0
       \/ /\ <<g.fn, taken>> \in {<<"lt", FALSE>>, <<"ge", TRUE>>}
          /\ IF strict THEN g.k > 0 ELSE g.k >= 0

\* Whether c leaves `a' finite, NaN or NULL: a guard on abs(a).
FiniteGuard(c, taken, a) ==
  \E p \in Conjuncts(c, taken) : \E g \in AgainstConst(p) :
    /\ StripFloat(g.x).op = "abs"
    /\ StripFloat(StripFloat(g.x).kids[1]) = StripFloat(a)
    /\ \/ <<g.fn, taken>> \in {<<"eq", FALSE>>, <<"ge", FALSE>>, <<"ne", TRUE>>} /\ g.k = Inf
       \/ <<g.fn, taken>> = <<"lt", TRUE>>
       \/ <<g.fn, taken>> = <<"le", TRUE>> /\ g.k \notin {Inf, NegInf}

\* Whether every value of one type converts to the other.
CastIsTotal(from, to) ==
  \/ from = to
  \/ to = "f64" /\ from \in AllInts \union {"i1"}
  \/ from = "i1" /\ to \in AllInts
  \/ to = "i1" /\ from \in AllInts \union {"f64"}
  \/ from \in AllInts /\ to \in AllInts
     /\ MinOf(to) <= MinOf(from) /\ MaxOf(from) <= MaxOf(to)

\* Whether a DECIMAL holds every value of the source: with fewer digits after
\* the point it needs one more before it, for a carry.
DecCastIsTotal(from, to) ==
  LET before(ty) == DigitsOf(ty) - ScaleOf(ty)
  IN CASE IsDec(from) /\ IsDec(to) ->
            IF ScaleOf(to) >= ScaleOf(from) THEN before(to) >= before(from)
            ELSE before(to) > before(from)
       [] from \in AllInts /\ IsDec(to) ->
            -(2 ^ before(to)) < MinOf(from) /\ MaxOf(from) < 2 ^ before(to)
       [] OTHER -> FALSE

\* A closed expression: it reads no input and runs no user code.
RECURSIVE BindFoldable(_)
BindFoldable(e) ==
  /\ e.op \notin (Leaves \ {"lit", "null"}) \union {"extern", "predict", "raise"}
  /\ \A i \in DOMAIN e.kids : BindFoldable(e.kids[i])

\* The operations that raise on no input, their operands aside.
Total(e) ==
  \/ e.op \in {"cmp", "and", "or", "not", "isnull", "i2f", "d2f", "seq", "extreme"}
  \/ e.op = "dcast" /\ e.fn = "cast" /\ DecCastIsTotal(e.kids[1].ty, e.ty)
  \/ e.op \in {"arith", "abs"} /\ e.ty = "f64"
  \/ e.op = "math1" /\ e.fn = "fneg"
  \/ e.op = "cast" /\ (e.fn = "try" \/ CastIsTotal(e.kids[1].ty, e.ty))
  \/ e.op = "text" /\ (e.fn \in {"concat", "length", "slice"} \/ (e.fn = "like" /\ Len(e.kids) = 2))

\* can_trap_under: facts are the CASE conditions decided on the way to e, each
\* with whether it was taken.
RECURSIVE CanTrapUnder(_, _)
CanTrapUnder(e, facts) ==
  LET AnyKid == \E i \in DOMAIN e.kids : CanTrapUnder(e.kids[i], facts)
      Passed(i) == facts \union { <<Cond(e, j), FALSE>> : j \in 1 .. i - 1 }
  IN CASE e.op \in Leaves -> FALSE
       [] e.op = "math1" /\ e.fn \in {"ln", "sqrt"} ->
            AnyKid \/ ~ \E f \in facts : Guards(f[1], f[2], e.kids[1], e.fn = "ln")
       [] e.op = "math1" /\ e.fn = "sin" ->
            AnyKid \/ ~ \E f \in facts : FiniteGuard(f[1], f[2], e.kids[1])
       [] e.op = "case" ->
            \/ \E i \in 1 .. Arms(e) :
                 \/ CanTrapUnder(Cond(e, i), Passed(i))
                 \/ CanTrapUnder(Result(e, i), Passed(i) \union {<<Cond(e, i), TRUE>>})
            \/ HasDefault(e) /\ CanTrapUnder(Default(e), Passed(Arms(e) + 1))
       [] Total(e) -> AnyKid
       \* A closed constant that folds to a value cannot trap.
       [] OTHER -> ~ (BindFoldable(e) /\ IsConst(Fold(e)))

CanTrap(e) == CanTrapUnder(e, {})

\* may_trap, the coarser one that decides which conditions of a join may be
\* evaluated over one side alone.
RECURSIVE MayTrap(_)
MayTrap(e) ==
  \/ e.op \notin Leaves \union {"cmp", "and", "or", "not", "isnull", "i2f", "d2f", "i2d", "case", "extreme"}
  \/ \E i \in DOMAIN e.kids : MayTrap(e.kids[i])

TrapsOnlyInOperands(e) ==
  \/ e.op \in {"arith", "abs"} /\ e.ty = "f64"
  \/ e.op \in {"cmp", "not", "isnull", "i2f"}
  \/ e.op = "cast" /\ (e.fn = "try" \/ CastIsTotal(e.kids[1].ty, e.ty))

\* trap_skeleton, as a sequence of at most one expression.
RECURSIVE TrapSkeleton(_)
TrapSkeleton(e) ==
  IF ~ CanTrap(e) THEN <<>>
  ELSE IF e.op = "case"
  THEN LET Kept(r) == LET s == TrapSkeleton(r) IN IF s = <<>> THEN <<NullFold(e.ty)>> ELSE s
           OfArm[i \in 0 .. Arms(e)] ==
             IF i = 0 THEN <<>>
             ELSE OfArm[i - 1] \o <<Cond(e, i)>> \o Kept(Result(e, i))
       IN <<[e EXCEPT !.nul = TRUE,
                      !.kids = OfArm[Arms(e)] \o
                        IF HasDefault(e) THEN TrapSkeleton(Default(e)) ELSE <<>>]>>
  ELSE IF TrapsOnlyInOperands(e)
  THEN LET Parts[i \in 0 .. Len(e.kids)] ==
             IF i = 0 THEN <<>> ELSE Parts[i - 1] \o TrapSkeleton(e.kids[i])
           parts == Parts[Len(e.kids)]
           last == parts[Len(parts)]
       IN IF Len(parts) < 2 THEN parts
          ELSE <<[op |-> "seq", fn |-> "", n |-> Len(parts), ty |-> last.ty,
                  nul |-> last.nul, kids |-> parts]>>
  ELSE <<e>>
=============================================================================
