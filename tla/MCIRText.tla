------------------------------ MODULE MCIRText ------------------------------
(***************************************************************************)
(* Programs for IRRoundTrip: every opcode once, behind constants of the    *)
(* lanes it takes; every declaration; and control flow with arguments. Two *)
(* of them are edited by one token on their way.                           *)
(***************************************************************************)
EXTENDS IRRoundTrip

Money == Dec(4, 1)

Col(name, ty, nullable) == [name |-> name, ty |-> ty, nullable |-> nullable]
Inst(v, field, dsts, args) == [op |-> <<v, field>>, dsts |-> dsts, args |-> args]
Term(op, args, edges) == [op |-> op, args |-> args, edges |-> edges]
Edge(to, args) == [to |-> to, args |-> args]
Block(params, insts, term) == [params |-> params, insts |-> insts, term |-> term]
Param(v, ty) == [val |-> v, ty |-> ty]

Bare == [statics |-> <<>>, regexes |-> <<>>, externs |-> <<>>, name |-> "infer",
         inCols |-> <<>>, outCols |-> <<>>, blocks |-> <<>>]
Straight(insts) == <<Block(<<>>, insts, Term("Emit", <<>>, <<>>))>>

StaticOf(kind, keys, values) ==
  [kind |-> kind, ty |-> I1, nullable |-> FALSE, keys |-> keys, values |-> values, n |-> 0]
Scalar(ty, nullable) ==
  [kind |-> "scalar", ty |-> ty, nullable |-> nullable, keys |-> <<>>, values |-> <<>>, n |-> 0]
Forest(n) == [StaticOf("model", <<>>, <<>>) EXCEPT !.n = n]

-----------------------------------------------------------------------------
(* One constant of each lane, numbered with gaps. *)

Consts ==
  << Inst("Const", "i64", <<10>>, <<Number(-3)>>),
     Inst("Const", "f64", <<11>>, <<Float("fin", 2)>>),
     Inst("Const", "str", <<12>>, <<Text("a b")>>),
     Inst("Const", "i128", <<13>>, <<Number(9)>>),
     Inst("Const", "i1", <<14>>, <<Id("true")>>),
     Inst("Const", "dec", <<15>>, <<Scale(4, 1), Number(12)>>) >>

i == Val(10)
f == Val(11)
s == Val(12)
h == Val(13)
b == Val(14)
d == Val(15)

Vals(v, n) == [k \in 1 .. n |-> v]

\* The constant of a lane.
OfLane == [i64 |-> i, f64 |-> f, i128 |-> h, i1 |-> b]

Ops ==
  { Inst("Bin", op, <<30>>, Vals(OfLane[BinSig(op).s], 2)) : op \in BinOps }
  \union { Inst("Num1", op, <<30>>, <<OfLane[NumSig(op).s]>>) : op \in NumberOps }
  \union { Inst("Str2", op, <<30>>, <<s, s>>) : op \in StringOps }
  \union { Inst("Str1", op, <<30>>, <<s>>) : op \in Str1Ops }
  \union { Inst("Str3", op, <<30>>, <<s, s, s>>) : op \in {"sreplace", "stranslate"} }
  \union { Inst("Str2i", op, <<30>>, <<s, i>>) : op \in {"srepeat", "sextract"} }
  \union { Inst("Cmp", p, <<30>>, <<c[1], c[2], c[2]>>) :
             p \in Preds, c \in {<<I64, i>>, <<I128, h>>, <<F64, f>>, <<Str, s>>, <<Money, d>>} }
  \union { Inst("Dop", op, <<30>>, <<Number(c), Money, d, d>>) :
             op \in {"add", "sub", "mul", "rem"}, c \in {0, 18, 38} }
  \union { Inst("Dunary", op, <<30>>, <<Number(1), Number(0), Money, d>>) :
             op \in {"abs", "ceil", "floor", "round", "trunc"} }
  \union { Inst("Const", "f64", <<30>>, <<Float(w, 0)>>) : w \in {"nan", "-nan", "inf", "-inf"} }
  \union { Inst(v, "", <<30>>, <<Money, Dec(6, 2), d>>) : v \in {"Dcast", "DcastOk"} }
  \union { Inst("Dtos", "", <<30>>, <<Scale(4, 1), d>>), Inst("Dtof", "", <<30>>, <<Scale(4, 1), d>>),
           Inst("Itod", "", <<30>>, <<Scale(4, 1), i>>) }
  \union { Inst("Not", "", <<30>>, <<b>>), Inst("Select", "", <<30>>, <<b, i, i>>) }
  \union { Inst(v[1], v[2], <<30>>, <<i>>) : v \in {<<"Itof", "">>, <<"Itof", "narrow">>, <<"Itos", "">>} }
  \union { Inst("Ftoi", m, <<30>>, <<f>>) : m \in {"trunc", "nearest"} }
  \union { Inst("Round2f", m, <<30>>, <<f, i>>) : m \in {"", "trunc"} }
  \union { Inst("Round2i", m, <<30>>, <<i, i>>) : m \in {"", "trunc"} }
  \union { Inst("Htof", "", <<30>>, <<h>>), Inst("Htos", "", <<30>>, <<h>>),
           Inst("Ftoh", "", <<30>>, <<f>>), Inst("Ftos", "", <<30>>, <<f>>) }
  \union { Inst("StonOpt", "", <<30, 31>>, <<Ty("u16"), s>>), Inst("StoiOpt", "", <<30, 31>>, <<s>>),
           Inst("StofOpt", "", <<30, 31>>, <<s>>) }
  \union { Inst("Slike", m, <<30>>, Vals(s, n)) : m \in {"", "ci"}, n \in {2, 3} }
  \union { Inst("SLen", m, <<30>>, <<s>>) : m \in {"", "bytes"} }
  \union { Inst("Sconcat", "", <<30>>, <<s, s>>), Inst("Sslice", "", <<30>>, <<s, i, i>>) }
  \union { Inst("Spad", m, <<30>>, <<s, i, s>>) : m \in {"left", "right"} }
  \union { Inst("Sord", m, <<30>>, <<s>>) : m \in {"", "empty_zero"} }
  \union { Inst("Strim", m, <<30>>, <<s, s>>) : m \in {"both", "lead", "trail"} }
  \union { Inst("Ssubstr", "", <<30>>, <<s, i, i>>), Inst("Ssubstr", "rest", <<30>>, <<s, i>>) }

OpPrograms == { [Bare EXCEPT !.blocks = Straight(Append(Consts, op))] : op \in Ops }

-----------------------------------------------------------------------------
(* Every declaration, and the instructions that name one. *)

Declared ==
  [statics |-> << Scalar(I64, FALSE), Scalar(Dec(6, 2), TRUE), Forest(1),
                  StaticOf("map", <<I64, Str>>, <<F64>>),
                  StaticOf("multimap", <<Str>>, <<I64, Str>>),
                  StaticOf("batchmap", <<>>, <<I64>>),
                  StaticOf("map", <<I64>>, <<>>) >>,
   regexes |-> << [pattern |-> "x+", ci |-> FALSE, dotall |-> FALSE, rewrite |-> <<>>],
                  [pattern |-> "y", ci |-> TRUE, dotall |-> TRUE, rewrite |-> <<"z">>] >>,
   externs |-> << [name |-> "udf", params |-> <<F64>>, rets |-> <<F64>>,
                   retNames |-> <<>>, impure |-> FALSE],
                  [name |-> "multi", params |-> <<>>, rets |-> <<I64, Str>>,
                   retNames |-> <<"n", "s t">>, impure |-> TRUE] >>,
   name |-> "infer",
   inCols |-> <<Col("x", I64, FALSE), Col("a b", Str, TRUE)>>,
   outCols |-> <<Col("y", F64, TRUE), Col("a b", I64, FALSE)>>,
   blocks |-> Straight(
     << Inst("Load", "", <<1>>, <<Column("in", 0)>>),
        Inst("LoadOpt", "", <<3, 2>>, <<Column("in", 1)>>),
        Inst("Sload", "", <<4>>, <<Static(0)>>),
        Inst("SloadOpt", "", <<5, 6>>, <<Static(1)>>),
        Inst("Probe", "", <<7, 8>>, <<Static(3), Val(1), Val(2)>>),
        Inst("ProbeRange", "", <<9, 10>>, <<Static(4), Val(2)>>),
        Inst("ProbeRead", "", <<11, 12>>, <<Static(4), Val(9)>>),
        Inst("ProbeRange", "", <<13, 14>>, <<Static(5)>>),
        Inst("ProbeRead", "", <<15>>, <<Static(5), Val(13)>>),
        Inst("Probe", "", <<16>>, <<Static(6), Val(15)>>),
        Inst("Predict", "", <<17>>, <<Static(2), Val(1), Val(8)>>),
        Inst("ExternCall", "", <<18, 19, 20>>, <<Extern(0), Val(7), Val(17)>>),
        Inst("ExternCall", "", <<21, 22, 23, 24, 25>>, <<Extern(1)>>),
        Inst("ReMatch", "", <<26>>, <<Regex(0), Val(2)>>),
        Inst("ReExtract", "", <<27>>, <<Regex(0), Number(1), Val(2)>>),
        Inst("ReReplace", "global", <<28>>, <<Regex(1), Val(2)>>),
        Inst("ReReplace", "", <<29>>, <<Regex(1), Val(28)>>),
        Inst("StoreOpt", "", <<>>, <<Column("out", 0), Val(19), Val(20)>>),
        Inst("Store", "", <<>>, <<Column("out", 1), Val(1)>>) >>)]

\* A short program with one of each kind of declaration, edited anywhere.
Header ==
  [Declared EXCEPT
     !.statics = <<Scalar(I64, TRUE), StaticOf("map", <<I64>>, <<Str>>)>>,
     !.externs = <<[name |-> "multi", params |-> <<I64>>, rets |-> <<I64>>,
                    retNames |-> <<"n">>, impure |-> TRUE]>>,
     !.regexes = <<@[2]>>,
     !.outCols = <<Col("a b", I64, FALSE)>>,
     !.blocks = Straight(<<Inst("SloadOpt", "", <<7, 4>>, <<Static(0)>>),
                           Inst("Store", "", <<>>, <<Column("out", 0), Val(4)>>)>>)]

\* A loop over a table's rows: two blocks with parameters, back edges,
\* arguments in another order, a trap.
Looping ==
  [Bare EXCEPT
     !.statics = <<StaticOf("multimap", <<I64>>, <<I64>>)>>,
     !.inCols = <<Col("k", I64, FALSE)>>,
     !.outCols = <<Col("v", I64, FALSE)>>,
     !.blocks =
       << Block(<<>>,
            << Inst("Load", "", <<2>>, <<Column("in", 0)>>),
               Inst("ProbeRange", "", <<3, 5>>, <<Static(0), Val(2)>>),
               Inst("Cmp", "lt", <<4>>, <<I64, Val(3), Val(5)>>) >>,
            Term("Brif", <<Val(4)>>, <<Edge(1, <<Val(3), Val(5)>>), Edge(2, <<>>)>>)),
          Block(<<Param(9, I64), Param(8, I64)>>,
            << Inst("ProbeRead", "", <<7>>, <<Static(0), Val(9)>>),
               Inst("Store", "", <<>>, <<Column("out", 0), Val(7)>>) >>,
            Term("EmitTo", <<>>, <<Edge(3, <<Val(9)>>)>>)),
          Block(<<>>, <<>>, Term("Skip", <<>>, <<>>)),
          Block(<<Param(20, I64)>>, <<>>, Term("Jump", <<>>, <<Edge(4, <<>>)>>)),
          Block(<<>>, <<>>, Term("Trap", <<Text("stop")>>, <<>>)) >>]

EditedPrograms == {Header, Looping}

-----------------------------------------------------------------------------
(* Verified programs with what the text does not carry, and beside them those *)
(* that just stay within what it does. *)

WithOps(insts) == [Bare EXCEPT !.blocks = Straight(Consts \o insts)]
WithStatics(statics, insts) ==
  [Bare EXCEPT !.statics = statics, !.blocks = Straight(Consts \o insts)]

Unspoken ==
  { WithOps(<<Inst("Str1", "srev", <<30>>, <<s>>)>>),
    WithStatics(<<StaticOf("map", <<>>, <<>>)>>, <<Inst("Probe", "", <<1>>, <<Static(0)>>)>>),
    WithStatics(<<StaticOf("multimap", <<I64>>, <<>>)>>,
                << Inst("ProbeRange", "", <<1, 2>>, <<Static(0), i>>),
                   Inst("ProbeRead", "", <<>>, <<Static(0), Val(1)>>) >>),
    [Bare EXCEPT !.inCols = <<Col("a.b", I64, FALSE), Col("a.b", I64, TRUE)>>,
                 !.blocks = Straight(<<Inst("Load", "", <<1>>, <<Column("in", 0)>>)>>)] }

\* Decimals within the parser's bounds and out of them, wherever a type or a
\* scale is written.
Decimals == {Dec(1, 0), Dec(38, 38), Dec(0, 0), Dec(39, 0), Dec(4, 5)}

DecimalOps(dec) ==
  LET scale == Scale(dec.n, dec.m) IN
  { << Inst("Const", "dec", <<30>>, <<scale, Number(0)>>) >>,
    << Inst("Itod", "", <<30>>, <<scale, i>>) >>,
    << Inst("Dop", "add", <<30>>, <<Number(18), dec, d, d>>) >>,
    << Inst("Dunary", "abs", <<30>>, <<Number(0), Number(0), dec, d>>) >>,
    << Inst("Dcast", "", <<30>>, <<I64, dec, i>>) >>,
    << Inst("DcastOk", "", <<30>>, <<F64, dec, f>>) >>,
    << Inst("Itod", "", <<30>>, <<scale, i>>), Inst("Dtos", "", <<31>>, <<scale, Val(30)>>),
       Inst("Dtof", "", <<32>>, <<scale, Val(30)>>),
       Inst("Cmp", "eq", <<33>>, <<dec, Val(30), Val(30)>>) >> }

ExternOf(params, rets, names) ==
  [name |-> "udf", params |-> params, rets |-> rets, retNames |-> names, impure |-> FALSE]

DecimalDeclarations(dec) ==
  { WithStatics(<<st>>, <<>>) :
      st \in {Scalar(dec, FALSE), StaticOf("map", <<dec>>, <<>>), StaticOf("map", <<>>, <<dec>>),
              StaticOf("multimap", <<dec>>, <<I64>>), StaticOf("batchmap", <<>>, <<dec>>)} }
  \union { [WithOps(<<>>) EXCEPT !.externs = <<ex>>] :
             ex \in {ExternOf(<<dec>>, <<I64>>, <<>>), ExternOf(<<>>, <<dec>>, <<>>),
                     ExternOf(<<>>, <<dec>>, <<"n">>)} }
  \union { [WithOps(<<>>) EXCEPT !.inCols = <<Col("x", dec, FALSE)>>],
           [WithOps(<< Inst("Itod", "", <<30>>, <<Scale(dec.n, dec.m), i>>),
                       Inst("Store", "", <<>>, <<Column("out", 0), Val(30)>>) >>)
              EXCEPT !.outCols = <<Col("y", dec, FALSE)>>] }

\* A block's parameter of a type, which a scalar of that type is handed to.
Handed(ty, insts) ==
  [Bare EXCEPT
     !.statics = <<Scalar(ty, FALSE)>>,
     !.blocks = << Block(<<>>, <<Inst("Sload", "", <<1>>, <<Static(0)>>)>>,
                         Term("Jump", <<>>, <<Edge(1, <<Val(1)>>)>>)),
                   Block(<<Param(2, ty)>>, insts, Term("Emit", <<>>, <<>>)) >>]

DecimalPrograms ==
  UNION { { WithOps(insts) : insts \in DecimalOps(dec) }
            \union DecimalDeclarations(dec) \union {Handed(dec, <<>>)} : dec \in Decimals }

\* A comparison of two values of each width but i1.
Compared == { Handed(Ty(w), <<Inst("Cmp", "le", <<3>>, <<Ty(w), Val(2), Val(2)>>)>>) :
                w \in Widths \ {"i1"} }

Checked == { WithOps(<<Inst("Dop", "mul", <<30>>, <<Number(c), Money, d, d>>)>>) :
               c \in {0, 1, 17, 18, 38, 39} }

Shifted == { WithOps(<<Inst("Dunary", "round", <<30>>, <<Number(n), Number(m), Money, d>>)>>) :
               n, m \in {0, 38, 39} }

\* Returns and their names, as many or not; and a rewrite to nothing.
NamedReturns ==
  { [WithOps(<<>>) EXCEPT !.externs = <<ExternOf(<<>>, rets, names)>>] :
      rets \in {<<>>, <<I64>>, <<I64, Str>>}, names \in {<<>>, <<"n">>, <<"n", "m">>} }
  \union { [WithOps(<<Inst("ReReplace", "", <<30>>, <<Regex(0), s>>)>>) EXCEPT
              !.regexes = <<[pattern |-> "x", ci |-> FALSE, dotall |-> TRUE, rewrite |-> <<"">>]>>] }

AtTheEdge ==
  Unspoken \union DecimalPrograms \union Compared \union Checked \union Shifted
    \union NamedReturns

MCNotIdents == {"a b", "s t", "a.b"}

MCSources == OpPrograms \union EditedPrograms \union {Declared} \union AtTheEdge

ASSUME SourcesAreVerified == \A p \in MCSources : Verified(p)

MCEdits == {Val(4), Id("i64"), Id("opt"), Mark(","), Number(2), Number(5),
            Text("n"), Label(1), Mark("{"), Mark("}"), Id("impure")}
NoEdits == {}
=============================================================================
