--------------------------- MODULE MCCompiledRow ---------------------------
(***************************************************************************)
(* Programs for the compiled executor: every opcode on its own, calls that *)
(* follow one another through the scratch slots, and shapes of control     *)
(* flow in which values are shared, passed on, dropped or computed twice.  *)
(***************************************************************************)
EXTENDS CompiledRow

Of(v, lane) == [val |-> v, ty |-> lane]
Inst(op, imm, uses, dsts) ==
  [op |-> op, imm |-> imm, uses |-> uses, dsts |-> dsts, col |-> NoCol]
Ld(v, lane)  == Inst("load", <<lane, v>>, <<>>, << Of(v, lane) >>)
LdOpt(f, v, lane) == Inst("load.opt", <<lane, v>>, <<>>, << Of(f, "i1"), Of(v, lane) >>)
St(c, v, lane) == [Inst("store", <<>>, << Of(v, lane) >>, <<>>) EXCEPT !.col = c]
StOpt(c, f, v, lane) ==
  [Inst("store.opt", <<>>, << Of(f, "i1"), Of(v, lane) >>, <<>>) EXCEPT !.col = c]
Edge1(to, args) == [to |-> to, args |-> args]
T(op, cond, edges) == [op |-> op, cond |-> cond, edges |-> edges]
Emit == T("emit", NoVal, <<>>)
Block(params, insts, term) == [params |-> params, insts |-> insts, term |-> term]
Straight(insts) == 0 :> Block(<<>>, insts, Emit)
Once(p)  == [prog |-> p, rows |-> 1, calls |-> 1]
Twice(p) == [prog |-> p, rows |-> 2, calls |-> 2]

-----------------------------------------------------------------------------
(* Every opcode: its operands loaded, its results stored.                  *)

ImmOf(op) ==
  CASE op \in {"icmp", "fcmp", "dcmp", "scmp"} -> <<"le">>
    [] op \in {"ftoi", "round2f", "round2i", "slike", "sord", "slen", "spad"} -> <<1>>
    [] op = "slike.esc" -> <<0>>
    [] op = "itof" -> <<0>>
    [] op \in {"dtof", "itod", "dtos"} -> <<3>>
    [] op \in {"dadd", "dsub", "dmul", "drem"} -> <<38>>
    [] op \in {"dabs", "dceil", "dfloor", "dround", "dtrunc"} -> <<1, 2>>
    [] op \in {"dcast.dd", "dcast_ok.d"} -> <<DecTy(9, 2), DecTy(18, 4)>>
    [] op = "dcast.di" -> <<DecTy(9, 2), Ty("i32")>>
    [] op = "dcast.id" -> <<Ty("i64"), DecTy(9, 2)>>
    [] op = "dcast_ok.i" -> <<Ty("i16"), Ty("u8")>>
    [] op = "ston.d" -> <<Ty("u64")>>
    [] op = "ston.i" -> <<Ty("i8")>>
    [] op = "rematch" -> <<4>>
    [] op \in {"reextract", "rereplace"} -> <<4, 1>>
    [] op = "strim" -> <<"lead">>
    [] op \in {"const." \o l : l \in Lanes} -> <<1>>
    [] OTHER -> <<>>
\* Other immediates of the same opcodes.
Variants ==
  { <<"itof", <<1>>>>, <<"ftoi", <<0>>>>, <<"slen", <<0>>>>, <<"sord", <<0>>>>,
    <<"dadd", <<0>>>>, <<"dsub", <<0>>>>, <<"dmul", <<0>>>>, <<"strim", <<"both">>>>,
    <<"const.str", <<0>>>>, <<"ston.d", <<DecTy(9, 2)>>>>, <<"ston.d", <<Ty("i128")>>>>,
    <<"dcast.dd", <<Ty("i128"), Ty("u64")>>>>, <<"fcmp", <<"ne">>>> }
Opcodes == { <<op, ImmOf(op)>> : op \in PureOps } \union Variants

Operands1(op) == [i \in DOMAIN ShapeOf(op).takes |-> Of(i, ShapeOf(op).takes[i])]
Results(op, from) == [i \in DOMAIN ShapeOf(op).gives |-> Of(from + i, ShapeOf(op).gives[i])]
Loads(op)  == [i \in DOMAIN Operands1(op) |-> Ld(i, Operands1(op)[i].ty)]
Apply(x)   == Inst(x[1], x[2], Operands1(x[1]), Results(x[1], 10))
LastOf(s)  == s[Len(s)]
Kept1(x) ==
  LET r == Results(x[1], 10) IN
  Straight(Loads(x[1]) \o << Apply(x), St("a", r[1].val, r[1].ty),
                             St("b", LastOf(r).val, LastOf(r).ty) >>)
\* The result is never read; another result follows through the same slots.
Followed(x) ==
  LET r == Results(x[1], 10) IN
  Straight(Loads(x[1]) \o << Ld(5, "i64"), Apply(x),
                             Inst("itos", <<>>, << Of(5, "i64") >>, << Of(20, "str") >>),
                             St("a", 20, "str"), St("b", LastOf(r).val, LastOf(r).ty) >>)
Unread(x) ==
  Straight(Loads(x[1]) \o << Ld(5, "i64"), Apply(x), St("a", 5, "i64"), St("b", 5, "i64") >>)

OpQueries ==
  { Once(Kept1(x)) : x \in Opcodes }
    \union { Once(Followed(x)) : x \in { x \in Opcodes :
               x[1] \in {"sconcat", "stoi", "stof", "ston.d", "dadd", "htos", "ftoh"} } }
    \union { Once(Unread(x)) : x \in { x \in Opcodes :
               x[1] \in {"iadd", "fsqrt", "slike", "dcast.di", "spad", "habs", "fadd"} } }

-----------------------------------------------------------------------------
(* Columns, statics, and calls out of the program.                         *)

Nullable == { Twice(Straight(<< LdOpt(1, 2, l), Ld(3, l),
                                StOpt("a", 1, 2, l), St("b", 3, l) >>)) : l \in Lanes }

LaneOfStatic(s) == StaticLane(s)
Statics ==
  { Twice(Straight(<< Inst("sload.opt", <<s>>, <<>>, << Of(1, "i1"), Of(2, LaneOfStatic(s)) >>),
                      StOpt("a", 1, 2, LaneOfStatic(s)), St("b", 1, "i1") >>)) : s \in 1 .. 5 }
  \union
  { Once(Straight(<< Inst("sload", <<s>>, <<>>, << Of(2, LaneOfStatic(s)) >>),
                     Ld(3, "i64"), Inst("itos", <<>>, << Of(3, "i64") >>, << Of(4, "str") >>),
                     St("a", 2, LaneOfStatic(s)), St("b", 4, "str") >>)) : s \in 6 .. 10 }

\* A probe by a NULL-able key of every lane; then one with fewer keys.
Probes ==
  Once(Straight(<<
    Ld(1, "str"), LdOpt(2, 3, "dec"), Ld(4, "f64"), Ld(5, "i1"),
    Inst("probe", <<11>>, << Of(2, "i1"), Of(3, "dec"), Of(1, "str"), Of(4, "f64"), Of(5, "i1") >>,
         << Of(6, "i1"), Of(7, "str"), Of(8, "f64"), Of(9, "dec") >>),
    Inst("probe", <<12>>, << Of(1, "str") >>, << Of(12, "i1"), Of(13, "i1") >>),
    StOpt("a", 6, 7, "str"), StOpt("b", 12, 13, "i1") >>))
Externs ==
  Once(Straight(<<
    LdOpt(1, 2, "str"), LdOpt(3, 4, "f64"),
    Inst("ecall", <<21>>, << Of(1, "i1"), Of(2, "str"), Of(3, "i1"), Of(4, "f64") >>,
         << Of(5, "i1"), Of(6, "i1"), Of(7, "i64"), Of(8, "i1"), Of(9, "str") >>),
    Inst("and", <<>>, << Of(5, "i1"), Of(6, "i1") >>, << Of(10, "i1") >>),
    Inst("and", <<>>, << Of(5, "i1"), Of(8, "i1") >>, << Of(11, "i1") >>),
    StOpt("a", 10, 7, "i64"), StOpt("b", 11, 9, "str") >>))
Predictions ==
  Twice(Straight(<<
    Ld(1, "i64"), Ld(2, "f64"), Ld(3, "i64"),
    Inst("itof", <<0>>, << Of(3, "i64") >>, << Of(4, "f64") >>),
    Inst("predict", <<31>>, << Of(1, "i64"), Of(2, "f64"), Of(4, "f64"), Of(2, "f64") >>,
         << Of(5, "f64") >>),
    Inst("ftoi", <<0>>, << Of(5, "f64") >>, << Of(6, "i64") >>),
    St("a", 5, "f64"), St("b", 6, "i64") >>))
OutsideQueries == Nullable \union Statics \union {Probes, Externs, Predictions}

-----------------------------------------------------------------------------
(* Control flow.                                                           *)

F(op, d, x, y) == Inst(op, <<>>, << Of(x, "f64"), Of(y, "f64") >>, << Of(d, "f64") >>)
G(op, d, x)    == Inst(op, <<>>, << Of(x, "f64") >>, << Of(d, "f64") >>)
FNum(v)        == Inst("const.f64", <<v>>, <<>>, << Of(v, "f64") >>)
Par(v)         == Of(v, "f64")
Brif(c, t, e)  == T("brif", c, << t, e >>)
Out2(x, y)     == << St("a", x, "f64"), St("b", y, "f64") >>

\* Read on two branches, no one place above both but where it is built.
SharedSum ==
  (0 :> Block(<<>>, << Ld(1, "f64"), Ld(2, "f64"), Ld(3, "i1"), F("fadd", 4, 1, 2),
                       F("fmul", 5, 4, 4), FNum(9) >>,
              Brif(3, Edge1(1, <<5, 9>>), Edge1(2, <<5, 4>>)))) @@
  (1 :> Block(<< Par(6), Par(10) >>, Out2(6, 10), Emit)) @@
  (2 :> Block(<< Par(7), Par(8) >>, << G("fneg", 11, 7) >> \o Out2(11, 8), Emit))
\* Read above two branches as well as on them: one place after all.
Above ==
  (0 :> Block(<<>>, << Ld(1, "f64"), Ld(2, "f64"), Ld(3, "i1"), F("fsub", 4, 1, 2),
                       G("fneg", 5, 4), G("fabs", 6, 4), St("a", 4, "f64") >>,
              Brif(3, Edge1(1, <<5>>), Edge1(2, <<6>>)))) @@
  (1 :> Block(<< Par(7) >>, << St("b", 7, "f64") >>, Emit)) @@
  (2 :> Block(<< Par(8) >>, << St("b", 8, "f64") >>, Emit))
\* Three readers: a branch within a branch, and what both pass on.
Nested ==
  (0 :> Block(<<>>, << Ld(1, "f64"), Ld(2, "f64"), Ld(3, "i1"), Ld(4, "i1"),
                       F("fdiv", 5, 1, 2), G("fabs", 6, 5) >>,
              Brif(3, Edge1(1, <<5, 6, 4>>), Edge1(2, <<6>>)))) @@
  (1 :> Block(<< Par(7), Par(8), Of(9, "i1") >>, <<>>,
              Brif(9, Edge1(3, <<7, 8>>), Edge1(4, <<8>>)))) @@
  (2 :> Block(<< Par(10) >>, Out2(10, 10), Emit)) @@
  (3 :> Block(<< Par(11), Par(12) >>, Out2(11, 12), Emit)) @@
  (4 :> Block(<< Par(13) >>, Out2(13, 13), Emit))
\* The join takes one value both ways (same), or each its own.
Join(left, right) ==
  (0 :> Block(<<>>, << Ld(1, "f64"), Ld(2, "f64"), Ld(3, "i1"), F("fsub", 4, 1, 2) >>,
              Brif(3, Edge1(1, <<1, 4>>), Edge1(2, <<1, 4>>)))) @@
  (1 :> Block(<< Par(5), Par(6) >>, <<>>, T("jump", NoVal, << Edge1(3, <<left>>) >>))) @@
  (2 :> Block(<< Par(7), Par(8) >>, << F("fadd", 9, 7, 8) >>,
              T("jump", NoVal, << Edge1(3, <<right>>) >>))) @@
  (3 :> Block(<< Par(10) >>, << G("ffloor", 11, 10) >> \o Out2(10, 11), Emit))
\* A row that is dropped, that a block traps on, or that two calls may fail.
Ends ==
  (0 :> Block(<<>>, << Ld(1, "i64"), Ld(2, "i1"), Ld(3, "i1"),
                       Inst("iadd", <<>>, << Of(1, "i64"), Of(1, "i64") >>, << Of(4, "i64") >>),
                       Inst("idiv", <<>>, << Of(4, "i64"), Of(1, "i64") >>, << Of(5, "i64") >>) >>,
              Brif(2, Edge1(1, <<3>>), Edge1(2, <<4, 5>>)))) @@
  (1 :> Block(<< Of(6, "i1") >>, <<>>, Brif(6, Edge1(3, <<>>), Edge1(4, <<>>)))) @@
  (2 :> Block(<< Of(7, "i64"), Of(8, "i64") >>, << St("a", 7, "i64"), St("b", 8, "i64") >>, Emit)) @@
  (3 :> Block(<<>>, <<>>, T("trap", NoVal, <<>>))) @@
  (4 :> Block(<<>>, <<>>, T("skip", NoVal, <<>>)))
\* Equal values, written twice, commuted, negated, folded, never read.
Equal ==
  Straight(<< Ld(1, "f64"), Ld(2, "f64"), F("fadd", 3, 1, 2), F("fadd", 4, 2, 1),
              G("fneg", 5, 1), G("fneg", 6, 2), F("fmul", 7, 5, 6), F("fmul", 8, 2, 1),
              G("fneg", 9, 5), FNum(10), FNum(11), F("fdiv", 12, 10, 11), F("fsub", 13, 1, 2),
              F("fadd", 14, 3, 4), F("fadd", 15, 7, 8), F("fadd", 16, 9, 12),
              F("fadd", 17, 14, 15), F("fadd", 18, 17, 16) >> \o Out2(18, 9))
Chosen ==
  Straight(<< Ld(1, "f64"), Ld(2, "f64"), LdOpt(3, 4, "f64"), F("fadd", 5, 1, 2),
              F("fadd", 6, 2, 1), G("fabs", 7, 5), G("fabs", 8, 6),
              Inst("select.f64", <<>>, << Of(3, "i1"), Of(7, "f64"), Of(8, "f64") >>,
                   << Of(9, "f64") >>),
              Inst("and", <<>>, << Of(3, "i1"), Of(3, "i1") >>, << Of(10, "i1") >>),
              StOpt("a", 10, 4, "f64"), St("b", 9, "f64") >>)
\* Only the interpreter runs it.
Many ==
  (0 :> Block(<<>>, << Ld(1, "f64"), FNum(2) >> \o Out2(1, 2),
              T("emit.to", NoVal, << Edge1(1, <<>>) >>))) @@
  (1 :> Block(<<>>, <<>>, T("skip", NoVal, <<>>)))
\* Too many registers for the floor; within it, too many values as built.
Texts(n) == [i \in 1 .. n |-> Inst("itos", <<>>, << Of(1, "i64") >>, << Of(20 + i, "str") >>)]
TooManyTexts == Straight(<< Ld(1, "i64") >> \o Texts(9) \o
                         << St("a", 1, "i64"), St("b", 29, "str") >>)
Sums(from, x, y) == [i \in 1 .. 22 |-> F("fadd", from + i, x, y)]
TooManyValues ==
  (0 :> Block(<<>>, << Ld(1, "f64"), FNum(2) >> \o Sums(20, 1, 2),
              T("jump", NoVal, << Edge1(1, <<1, 2>>) >>))) @@
  (1 :> Block(<< Par(3), Par(4) >>, Sums(50, 3, 4) \o Out2(3, 51), Emit))

ControlQueries ==
  { Twice(SharedSum), Once(Above), Once(Nested), Once(Join(5, 7)), Once(Join(6, 9)), Once(Join(5, 8)),
    Twice(Ends), Once(Equal), Twice(Chosen), Once(Many), Once(TooManyTexts),
    Once(TooManyValues) }

MCVals    == 1 .. 100
MCQueries == OpQueries \union OutsideQueries \union ControlQueries
=============================================================================
