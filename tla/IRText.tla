------------------------------- MODULE IRText -------------------------------
(***************************************************************************)
(* Programs as their text sees them (packages/confit/src/specializer/ir):  *)
(* the declarations of statics, regexes, externs and columns, and blocks   *)
(* of instructions with all their operands; and the tokens the text is     *)
(* made of. Tokens and operands ("atoms") are records of one shape: a kind *)
(* k, a word s, and numbers n and m.                                       *)
(*                                                                         *)
(* An instruction is [op, dsts, args], op the variant of `Inst' and the    *)
(* field of it that chooses among its spellings; a terminator is           *)
(* [op, args, edges] with edges [to, args].                                *)
(***************************************************************************)
EXTENDS SequencesExt, Integers

CONSTANT NotIdents  \* the names that are not identifiers

Atom(k, s, n, m) == [k |-> k, s |-> s, n |-> n, m |-> m]

Mark(k)  == Atom(k, "", 0, 0)        \* punctuation
Id(s)    == Atom("id", s, 0, 0)
LabelNames == <<"b0", "b1", "b2", "b3", "b4">>
Label(i) == Id(LabelNames[i + 1])
Val(n)   == Atom("val", "v", n, 0)
Number(n) == Atom("num", "int", n, 0)
Text(s)  == Atom("str", s, 0, 0)

Ty(s)         == Atom("ty", s, 0, 0)
Dec(p, s)     == Atom("ty", "dec", p, s)
Scale(p, s)   == Atom("scale", "", p, s)     \* (p,s) of an opcode
Static(i)     == Atom("static", "", i, 0)    \* @i, of each table
Extern(i)     == Atom("extern", "", i, 0)
Regex(i)      == Atom("regex", "", i, 0)
Column(side, i) == Atom("col", side, i, 0)

\* A double: "fin" and its bits, or a special. Of a NaN only the sign counts.
Float(s, n)   == Atom("float", s, n, 0)

Widths == {"i1", "i8", "i16", "i32", "i64", "u8", "u16", "u32", "u64",
           "i128", "f64", "str"}

I1   == Ty("i1")
I64  == Ty("i64")
I128 == Ty("i128")
F64  == Ty("f64")
Str  == Ty("str")

IsIdent(name) == name \notin NotIdents

-----------------------------------------------------------------------------
(***************************************************************************)
(* Canonical numbering of the values.                                      *)
(***************************************************************************)

\* The values of a program in definition order, as the text reads.
Definitions(p) ==
  LET Of(b) == [i \in DOMAIN b.params |-> b.params[i].val]
               \o FlattenSeq([i \in DOMAIN b.insts |-> b.insts[i].dsts])
  IN  FlattenSeq([i \in DOMAIN p.blocks |-> Of(p.blocks[i])])

\* map_values: every operand that is a value, and nothing else.
MapArgs(f, args) ==
  [i \in DOMAIN args |-> IF args[i].k = "val" THEN Val(f[args[i].n]) ELSE args[i]]

MapInst(f, inst) ==
  [inst EXCEPT !.dsts = [i \in DOMAIN @ |-> f[@[i]]], !.args = MapArgs(f, @)]

MapTerm(f, term) ==
  [term EXCEPT !.args = MapArgs(f, @),
               !.edges = [i \in DOMAIN @ |-> [@[i] EXCEPT !.args = MapArgs(f, @)]]]

\* canonicalize: dense, in definition order.
Canonical(p) ==
  LET order == Definitions(p)
      f == [v \in ToSet(order) |-> (CHOOSE i \in DOMAIN order : order[i] = v) - 1]
      Of(b) == [params |-> [i \in DOMAIN b.params |-> [b.params[i] EXCEPT !.val = f[@]]],
                insts  |-> [i \in DOMAIN b.insts |-> MapInst(f, b.insts[i])],
                term   |-> MapTerm(f, b.term)]
  IN  [p EXCEPT !.blocks = [i \in DOMAIN @ |-> Of(@[i])]]

-----------------------------------------------------------------------------
(***************************************************************************)
(* What an instruction asks of its operands and gives its results: types   *)
(* in the order of the operands that are values, and of `dsts'. `env'      *)
(* holds the types of the values in scope.                                 *)
(***************************************************************************)

Lane(ty) ==
  CASE ty.s \in {"i8", "i16", "i32", "u8", "u16", "u32"} -> I64
    [] ty.s = "u64" -> I128
    [] OTHER -> ty

IsDec(ty) == ty.s = "dec"
IsInteger(ty) == Lane(ty) \in {I64, I128}

\* The lane of both operands and the result of a `Bin', of a `Num1', and the
\* result of a `Str2'.
BinSig(op) ==
  CASE op \in {"and", "or", "xor"} -> I1
    [] op \in {"iadd", "isub", "imul", "idiv", "irem", "ishl", "ishr",
               "iand", "ior", "ixor"} -> I64
    [] op \in {"hadd", "hsub", "hmul", "hdiv", "hrem", "hand", "hor", "hxor"} -> I128
    [] OTHER -> F64

NumSig(op) ==
  CASE op = "iabs" -> I64 [] op = "habs" -> I128 [] OTHER -> F64

StrSig(op) ==
  CASE op \in {"sfind", "slevenshtein", "sdamerau", "shamming"} -> I64
    [] op = "sjaccard" -> F64
    [] OTHER -> I1

Named(p, inst) == p.statics[inst.args[1].n + 1]
Called(p, inst) == p.externs[inst.args[1].n + 1]
Operands(inst) == SelectSeq(inst.args, LAMBDA a : a.k = "val")

TyOf(env, a) == IF a.n \in DOMAIN env THEN env[a.n] ELSE I1

\* want_dec: a decimal of any scale, of the operand's own if it is one.
AnyDec(env, a) == IF IsDec(TyOf(env, a)) THEN TyOf(env, a) ELSE Dec(0, 0)

\* A validity and a payload of each type.
Nullable(types) == FlattenSeq([i \in DOMAIN types |-> <<I1, types[i]>>])

\* Strings and regexes; the escape of a `like' and the length of a substring
\* may be missing.
StringWants(inst) ==
  LET v == inst.op[1] IN
  CASE v \in {"Sconcat", "Strim", "Str2"} -> <<Str, Str>>
    [] v = "Str3" -> <<Str, Str, Str>>
    [] v = "Str2i" -> <<Str, I64>>
    [] v = "Spad" -> <<Str, I64, Str>>
    [] v \in {"Sslice", "Ssubstr"} -> SubSeq(<<Str, I64, I64>>, 1, Len(inst.args))
    [] v = "Slike" -> SubSeq(<<Str, Str, Str>>, 1, Len(inst.args))
    [] OTHER -> <<Str>>

\* A stored value has the column's lane, whatever its width.
ColumnWants(p, inst) ==
  LET lane == Lane(p.outCols[inst.args[1].n + 1].ty) IN
  CASE inst.op[1] = "Store" -> <<lane>>
    [] inst.op[1] = "StoreOpt" -> <<I1, lane>>

\* Columns, statics and externs.
NamedWants(p, inst) ==
  LET v == inst.op[1] IN
  CASE v \in {"Store", "StoreOpt"} -> ColumnWants(p, inst)
    [] v \in {"Probe", "ProbeRange"} -> Named(p, inst).keys
    [] v = "ProbeRead" -> <<I64>>
    [] v = "Predict" -> <<I64>> \o [i \in 1 .. Named(p, inst).n |-> F64]
    [] v = "ExternCall" -> Nullable(Called(p, inst).params)
    [] v \in {"Const", "Load", "LoadOpt", "Sload", "SloadOpt"} -> <<>>
    [] OTHER -> StringWants(inst)

Wants(p, env, inst) ==
  LET v == inst.op[1]
      args == inst.args
  IN
  CASE v = "Bin" -> <<BinSig(inst.op[2]), BinSig(inst.op[2])>>
    [] v = "Num1" -> <<NumSig(inst.op[2])>>
    [] v = "Cmp" -> <<args[1], args[1]>>
    [] v = "Not" -> <<I1>>
    [] v = "Select" -> <<I1, TyOf(env, args[2]), TyOf(env, args[2])>>
    [] v \in {"Itof", "Itod", "Itos"} -> <<I64>>
    [] v \in {"Ftoi", "Ftoh", "Ftos"} -> <<F64>>
    [] v \in {"Htof", "Htos"} -> <<I128>>
    [] v \in {"Dtof", "Dtos"} -> <<Dec(args[1].n, args[1].m)>>
    [] v = "Dop" -> <<AnyDec(env, args[3]), AnyDec(env, args[4])>>
    [] v = "Dunary" -> <<AnyDec(env, args[4])>>
    [] v \in {"Dcast", "DcastOk"} -> <<args[1]>>
    [] v = "Round2f" -> <<F64, I64>>
    [] v = "Round2i" -> <<I64, I64>>
    [] OTHER -> NamedWants(p, inst)

\* dst_types: those of columns, statics and externs, and the others.
NamedResults(p, inst) ==
  LET v == inst.op[1]
      loaded == Lane(p.inCols[inst.args[1].n + 1].ty)
  IN
  CASE v = "Load" -> <<loaded>>
    [] v = "LoadOpt" -> <<I1, loaded>>
    [] v \in {"Store", "StoreOpt"} -> <<>>
    [] v = "Sload" -> <<Named(p, inst).ty>>
    [] v = "SloadOpt" -> <<I1, Named(p, inst).ty>>
    [] v = "Probe" -> <<I1>> \o Named(p, inst).values
    [] v = "ProbeRange" -> <<I64, I64>>
    [] v = "ProbeRead" -> Named(p, inst).values
    [] v = "ExternCall" -> <<I1>> \o Nullable(Called(p, inst).rets)
    [] OTHER -> <<Str>>

\* A decimal literal carries its scale.
LitTy(inst) ==
  IF inst.op[2] = "dec" THEN Dec(inst.args[1].n, inst.args[1].m) ELSE Ty(inst.op[2])

Results(p, env, inst) ==
  LET v == inst.op[1]
      args == inst.args
  IN
  CASE v = "Const" -> <<LitTy(inst)>>
    [] v = "Bin" -> <<BinSig(inst.op[2])>>
    [] v = "Num1" -> <<NumSig(inst.op[2])>>
    [] v = "Str2" -> <<StrSig(inst.op[2])>>
    [] v \in {"Cmp", "Not", "DcastOk", "Slike", "ReMatch"} -> <<I1>>
    [] v = "Select" -> <<TyOf(env, args[2])>>
    [] v \in {"Itof", "Dtof", "Htof", "Round2f", "Predict"} -> <<F64>>
    [] v \in {"Ftoi", "SLen", "Sord", "Round2i"} -> <<I64>>
    [] v = "Ftoh" -> <<I128>>
    [] v = "Itod" -> <<Dec(args[1].n, args[1].m)>>
    [] v = "Dop" -> <<args[2]>>
    [] v = "Dunary" -> <<args[3]>>
    [] v = "Dcast" -> <<Lane(args[2])>>
    [] v = "StonOpt" -> <<I1, Lane(args[1])>>
    [] v = "StoiOpt" -> <<I1, I64>>
    [] v = "StofOpt" -> <<I1, F64>>
    [] OTHER -> NamedResults(p, inst)

-----------------------------------------------------------------------------
(***************************************************************************)
(* The verifier's verdict: its rules about declarations and the sites that *)
(* name them (check_structure, check_block), and, for the program as IR    *)
(* sees it, the rules on definitions, scopes, types, control flow and      *)
(* stores, which the module Verifier shows its passes to decide.           *)
(***************************************************************************)

\* What an instruction may be, its operands apart.
KindOK(inst) ==
  LET v == inst.op[1]
      args == inst.args
  IN
  CASE v = "Cmp" -> args[1] # I1
    [] v = "Dop" -> IsDec(args[2])
    [] v = "Dunary" -> IsDec(args[3])
    [] v = "Dcast" -> \/ IsDec(args[1]) \/ IsDec(args[2])
                      \/ IsInteger(args[1]) /\ IsInteger(args[2])
    [] v = "StonOpt" -> args[1].s \in {"u8", "u16", "u32", "u64", "i128"}
    [] OTHER -> TRUE

\* A column is there, and is as nullable as the opcode says.
ColumnOK(cols, inst) ==
  LET here == inst.args[1].n + 1
      opt == inst.op[1] \in {"LoadOpt", "StoreOpt"}
  IN  here \in DOMAIN cols /\ (cols[here].nullable <=> opt)

\* What it names is there, and is what the opcode is for.
NameOK(p, inst) ==
  LET v == inst.op[1]
      here == inst.args[1].n + 1
      Is(kinds) == here \in DOMAIN p.statics /\ Named(p, inst).kind \in kinds
  IN
  CASE v \in {"Load", "LoadOpt"} -> ColumnOK(p.inCols, inst)
    [] v \in {"Store", "StoreOpt"} -> ColumnOK(p.outCols, inst)
    [] v = "Probe" -> Is({"map"})
    [] v \in {"ProbeRange", "ProbeRead"} -> Is({"multimap", "batchmap"})
    [] v = "Predict" -> Is({"model"})
    [] v \in {"Sload", "SloadOpt"} ->
         Is({"scalar"}) /\ (Named(p, inst).nullable <=> v = "SloadOpt")
    [] v = "ExternCall" -> here \in DOMAIN p.externs /\ Called(p, inst).rets # <<>>
    [] v \in {"ReMatch", "ReExtract", "ReReplace"} ->
         here \in DOMAIN p.regexes /\ (v = "ReReplace" => p.regexes[here].rewrite # <<>>)
    [] OTHER -> TRUE

Distinct(cols) == \A i, j \in DOMAIN cols : cols[i].name = cols[j].name => i = j

\* Output names may not repeat; input names may: a struct's leaf shows its
\* dotted path, which a plain column's name may spell.
StructureOK(p) ==
  /\ IsIdent(p.name)
  /\ \A i \in DOMAIN p.statics : p.statics[i].kind = "model" => p.statics[i].n > 0
  /\ Distinct(p.outCols)

\* The types in scope before each instruction of a block, and behind the last.
Scopes(p, b) ==
  LET params == [v \in { b.params[i].val : i \in DOMAIN b.params } |->
                   b.params[CHOOSE i \in DOMAIN b.params : b.params[i].val = v].ty]
      Extend(env, dsts, types) ==
        [v \in DOMAIN env \union ToSet(dsts) |->
           IF v \in DOMAIN env THEN env[v]
           ELSE types[CHOOSE i \in DOMAIN dsts : dsts[i] = v]]
      Behind(envs, inst) ==
        Append(envs, Extend(Last(envs), inst.dsts, Results(p, Last(envs), inst)))
  IN  FoldLeft(Behind, <<params>>, b.insts)

\* As many operands and results as the instruction's kind and name ask for.
CountsOK(p, b) ==
  \A i \in DOMAIN b.insts :
    /\ Len(Operands(b.insts[i])) = Len(Wants(p, <<>>, b.insts[i]))
    /\ Len(b.insts[i].dsts) = Len(Results(p, <<>>, b.insts[i]))

\* The program as IR's rules see it.
TyName(ty) == IF IsDec(ty) THEN ToString(<<ty.n, ty.m>>) ELSE ty.s
Typed(v, ty) == [val |-> v, ty |-> TyName(ty)]

TermOp == [Jump |-> "jump", Brif |-> "brif", EmitTo |-> "emit.to",
           Emit |-> "emit", Skip |-> "skip", Trap |-> "trap"]

PlainInst(p, env, inst) ==
  LET wants == Wants(p, env, inst)
      gives == Results(p, env, inst)
  IN  [uses |-> [i \in DOMAIN wants |-> Typed(Operands(inst)[i].n, wants[i])],
       dsts |-> [i \in DOMAIN gives |-> Typed(inst.dsts[i], gives[i])],
       col  |-> IF inst.op[1] \in {"Store", "StoreOpt"} THEN inst.args[1].n ELSE -1]

PlainBlock(p, b) ==
  LET envs == Scopes(p, b) IN
  [params |-> [i \in DOMAIN b.params |-> Typed(b.params[i].val, b.params[i].ty)],
   insts  |-> [i \in DOMAIN b.insts |-> PlainInst(p, envs[i], b.insts[i])],
   term   |-> [op    |-> TermOp[b.term.op],
               cond  |-> IF b.term.op = "Brif" THEN b.term.args[1].n ELSE -1,
               edges |-> [i \in DOMAIN b.term.edges |->
                            [to |-> b.term.edges[i].to,
                             args |-> [j \in DOMAIN b.term.edges[i].args |->
                                         b.term.edges[i].args[j].n]]]]]

AsIR(p) == [b \in 0 .. Len(p.blocks) - 1 |-> PlainBlock(p, p.blocks[b + 1])]

Rules(cols) == INSTANCE IR WITH Vals <- Int, Cols <- cols, NoCol <- -1, NoVal <- -1

Verified(p) ==
  /\ StructureOK(p)
  /\ \A b \in ToSet(p.blocks) :
       /\ \A i \in DOMAIN b.insts : KindOK(b.insts[i]) /\ NameOK(p, b.insts[i])
       /\ CountsOK(p, b)
  /\ Rules(0 .. Len(p.outCols) - 1)!Verified(AsIR(p))

-----------------------------------------------------------------------------
(***************************************************************************)
(* The canonical text of a program (ir/print.rs, and the names in          *)
(* ir/mod.rs), as the sequence of tokens the lexer makes of it.            *)
(***************************************************************************)

\* Sequences one after the other, with a comma between each two.
Commas(parts) ==
  FlattenSeq([i \in DOMAIN parts |->
                IF i = 1 THEN parts[1] ELSE <<Mark(",")>> \o parts[i]])

In(open, tokens, close) == <<Mark(open)>> \o tokens \o <<Mark(close)>>
Pair(n, m) == In("(", <<Number(n), Mark(","), Number(m)>>, ")")

TyText(ty) ==
  IF ty.s = "dec" THEN <<Id("dec")>> \o Pair(ty.n, ty.m) ELSE <<Id(ty.s)>>
TyList(types) == Commas([i \in DOMAIN types |-> TyText(types[i])])
Tys(types) == In("(", TyList(types), ")")

ColTy(ty, nullable) ==
  TyText(ty) \o (IF nullable THEN <<Mark("?")>> ELSE <<>>)

NameText(name) == IF IsIdent(name) THEN <<Id(name)>> ELSE <<Text(name)>>

Batch(cols) ==
  <<Id("batch")>> \o In("{",
     Commas([i \in DOMAIN cols |-> NameText(cols[i].name)
               \o <<Mark(":")>> \o ColTy(cols[i].ty, cols[i].nullable)]),
     "}")

\* What the lexer makes of a special: an identifier, or, after a `-', a number.
Lexed(word) == IF word \in {"nan", "inf"} THEN Id(word) ELSE Atom("num", word, 0, 0)

UnsignedSpecials(f) == <<Id(IF f.s \in {"nan", "-nan"} THEN "nan" ELSE "inf")>>  \* mutant
Specials(f) == <<Lexed(f.s)>>
FloatText(f) ==
  IF f.s = "fin" THEN <<Atom("num", "float", f.n, 0)>> ELSE Specials(f)

Spell(p, a) ==
  CASE a.k = "ty" -> TyText(a)
    [] a.k = "scale" -> Pair(a.n, a.m)
    [] a.k \in {"static", "extern", "regex"} -> <<Mark("@"), Number(a.n)>>
    [] a.k = "col" -> <<Id(a.s), Mark(".")>>
                      \o NameText((IF a.s = "in" THEN p.inCols ELSE p.outCols)[a.n + 1].name)
    [] a.k = "float" -> FloatText(a)
    [] OTHER -> <<a>>

-----------------------------------------------------------------------------
(***************************************************************************)
(* Opcodes: <<head, suffix>>, no suffix spelled "".                        *)
(***************************************************************************)

CmpPrefix(ty) ==
  CASE ty.s \in {"i8", "i16", "i32", "i64", "u8", "u16", "u32", "i1"} -> "icmp"
    [] ty.s \in {"i128", "u64"} -> "hcmp"
    [] ty.s = "f64" -> "fcmp"
    [] ty.s = "str" -> "scmp"
    [] ty.s = "dec" -> "dcmp"

\* Variants that have one spelling for each value of their field, the
\* operator's own name or a suffix, and variants with one spelling.
NamedByField == {"Bin", "Num1", "Str1", "Str2", "Str3", "Str2i"}

Suffixed == [Dop |-> "dop", Dunary |-> "dunary", Strim |-> "strim",
             Spad |-> "spad", Ftoi |-> "ftoi", Const |-> "const"]

OneSpelling ==
  [Not |-> <<"not", "">>, Select |-> <<"select", "">>, Dtof |-> <<"dtof", "">>,
   Itod |-> <<"itod", "">>, Dtos |-> <<"dtos", "">>, Dcast |-> <<"dcast", "">>,
   DcastOk |-> <<"dcast", "ok">>, Itos |-> <<"itos", "">>, Ftos |-> <<"ftos", "">>,
   Htof |-> <<"htof", "">>, Ftoh |-> <<"ftoh", "">>, Htos |-> <<"htos", "">>,
   StonOpt |-> <<"ston", "opt">>, StoiOpt |-> <<"stoi", "opt">>,
   StofOpt |-> <<"stof", "opt">>, Sconcat |-> <<"sconcat", "">>,
   Sslice |-> <<"sslice", "">>, Load |-> <<"load", "">>,
   LoadOpt |-> <<"load", "opt">>, Store |-> <<"store", "">>,
   StoreOpt |-> <<"store", "opt">>, Probe |-> <<"probe", "">>,
   ProbeRange |-> <<"probe", "range">>, ProbeRead |-> <<"probe", "read">>,
   ExternCall |-> <<"ecall", "">>, Predict |-> <<"predict", "">>,
   Sload |-> <<"sload", "">>, SloadOpt |-> <<"sload", "opt">>,
   ReMatch |-> <<"rematch", "">>, ReExtract |-> <<"reextract", "">>]

\* Variants whose Boolean field shows in the name.
Flagged(op) ==
  CASE op[1] = "Itof" -> <<"itof", IF op[2] = "narrow" THEN "f32" ELSE "">>
    [] op[1] = "Sord" -> <<"sord", IF op[2] = "empty_zero" THEN "ascii" ELSE "">>
    [] op[1] = "Round2f" -> <<IF op[2] = "trunc" THEN "ftrunc2" ELSE "fround2", "">>
    [] op[1] = "Round2i" -> <<IF op[2] = "trunc" THEN "itrunc2" ELSE "iround2", "">>
    [] op[1] = "Slike" -> <<IF op[2] = "ci" THEN "silike" ELSE "slike", "">>
    [] op[1] = "SLen" -> <<IF op[2] = "bytes" THEN "slenb" ELSE "slenc", "">>
    [] op[1] = "Ssubstr" -> <<"ssubstr", IF op[2] = "rest" THEN "rest" ELSE "">>
    [] op[1] = "ReReplace" -> <<"rereplace", IF op[2] = "global" THEN "g" ELSE "">>

Name(op) ==
  CASE op[1] \in NamedByField -> <<op[2], "">>
    [] op[1] \in DOMAIN Suffixed -> <<Suffixed[op[1]], op[2]>>
    [] op[1] \in DOMAIN OneSpelling -> OneSpelling[op[1]]
    [] OTHER -> Flagged(op)

OpText(head, suffix) ==
  <<Id(head)>> \o (IF suffix = "" THEN <<>> ELSE <<Mark("."), Id(suffix)>>)

\* Which operands a comma follows: all, but the types and numbers that these
\* variants write in front of their values.
Spaced == {"Const", "Dop", "Dunary", "Dcast", "DcastOk", "StonOpt",
           "Dtof", "Itod", "Dtos"}

ArgText(p, v, args) ==
  FlattenSeq([i \in DOMAIN args |->
    Spell(p, args[i])
      \o (IF i = Len(args) \/ (v \in Spaced /\ args[i].k # "val") THEN <<>>
          ELSE <<Mark(",")>>)])

\* `probe' and `predict' write a comma before their last list, empty or not.
Listing == [Probe |-> 1, Predict |-> 2]

DanglingComma(inst) ==
  inst.op[1] \in DOMAIN Listing /\ Len(inst.args) = Listing[inst.op[1]]

DstText(dsts) ==
  IF dsts = <<>> THEN <<>>
  ELSE Commas([i \in DOMAIN dsts |-> <<Val(dsts[i])>>]) \o <<Mark("=")>>

PrintInst(p, inst) ==
  DstText(inst.dsts) \o
  IF inst.op[1] = "Cmp"
  THEN LET ty == inst.args[1] IN
       <<Id(CmpPrefix(ty))>>
         \o (IF ty.s = "dec" THEN Pair(ty.n, ty.m) ELSE <<>>)
         \o <<Mark("."), Id(inst.op[2])>> \o ArgText(p, "Cmp", Tail(inst.args))
  ELSE OpText(Name(inst.op)[1], Name(inst.op)[2])
         \o ArgText(p, inst.op[1], inst.args)
         \o (IF DanglingComma(inst) THEN <<Mark(",")>> ELSE <<>>)

Target(e) ==
  <<Label(e.to)>> \o
  (IF e.args = <<>> THEN <<>>
   ELSE In("(", Commas([i \in DOMAIN e.args |-> <<e.args[i]>>]), ")"))

PrintTerm(t) ==
  LET targets == Commas([i \in DOMAIN t.edges |-> Target(t.edges[i])]) IN
  CASE t.op = "Brif" -> <<Id("brif"), t.args[1], Mark(",")>> \o targets
    [] t.op = "Jump" -> <<Id("jump")>> \o targets
    [] t.op = "EmitTo" -> OpText("emit", "to") \o targets
    [] t.op = "Emit" -> <<Id("emit")>>
    [] t.op = "Skip" -> <<Id("skip")>>
    [] t.op = "Trap" -> <<Id("trap"), t.args[1]>>

-----------------------------------------------------------------------------
(***************************************************************************)
(* Declarations and the whole program.                                     *)
(***************************************************************************)

Entry(word, i) == <<Id(word), Mark("@"), Number(i - 1), Mark(":")>>

PrintStatic(st) ==
  CASE st.kind = "scalar" ->
         <<Id("scalar")>> \o In("<", ColTy(st.ty, st.nullable), ">")
    [] st.kind \in {"map", "multimap"} ->
         <<Id(st.kind)>> \o Tys(st.keys) \o <<Mark("->")>> \o Tys(st.values)
    [] st.kind = "batchmap" ->
         <<Id("batchmap")>> \o Tys(<<>>) \o <<Mark("->")>> \o Tys(st.values)
    [] st.kind = "model" ->
         <<Id("model")>> \o In("<", <<Id("tree_ensemble")>>
                                    \o In("(", <<Number(st.n)>>, ")"), ">")

PrintRegex(re) ==
  <<Text(re.pattern)>>
    \o (IF re.ci THEN <<Id("ci")>> ELSE <<>>)
    \o (IF re.dotall THEN <<Id("dotall")>> ELSE <<>>)
    \o (IF re.rewrite # <<>> THEN <<Id("rewrite"), Text(re.rewrite[1])>> ELSE <<>>)

\* Names and types of the returns are zipped: one too many of either is lost.
PrintExtern(ex) ==
  <<Text(ex.name)>> \o Tys(ex.params) \o <<Mark("->")>>
    \o (IF ex.retNames = <<>> THEN Tys(ex.rets)
        ELSE In("(", Commas([i \in DOMAIN ex.rets \cap DOMAIN ex.retNames |->
               <<Text(ex.retNames[i]), Mark(":")>> \o TyText(ex.rets[i])]), ")"))
    \o (IF ex.impure THEN <<Id("impure")>> ELSE <<>>)

Section(word, Show(_), entries) ==
  FlattenSeq([i \in DOMAIN entries |-> Entry(word, i) \o Show(entries[i])])

PrintBlock(p, i) ==
  LET b == p.blocks[i]
      params == Commas([j \in DOMAIN b.params |->
                  <<Val(b.params[j].val), Mark(":")>> \o TyText(b.params[j].ty)])
  IN  <<Label(i - 1)>>
        \o (IF b.params = <<>> THEN <<>> ELSE In("(", params, ")"))
        \o <<Mark(":")>>
        \o FlattenSeq([j \in DOMAIN b.insts |-> PrintInst(p, b.insts[j])])
        \o PrintTerm(b.term)

ProgramText(p) ==
  Section("static", PrintStatic, p.statics)
    \o Section("regex", PrintRegex, p.regexes)
    \o Section("extern", PrintExtern, p.externs)
    \o <<Id("fn"), Id(p.name), Mark("("), Id("in"), Mark(":")>> \o Batch(p.inCols)
    \o <<Mark(","), Id("out"), Mark(":")>> \o Batch(p.outCols)
    \o <<Mark(")"), Mark("{")>>
    \o FlattenSeq([i \in DOMAIN p.blocks |-> PrintBlock(p, i)])
    \o <<Mark("}"), Mark("eof")>>
=============================================================================
