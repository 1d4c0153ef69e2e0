------------------------------- MODULE RowOps -------------------------------
(***************************************************************************)
(* What the instructions of a row program compute, as the interpreter      *)
(* defines it (exec/interp.rs, compile_inst): the reading every other      *)
(* backend has to match.                                                   *)
(*                                                                         *)
(* Values are symbolic. A term K(f, a) is the kernel f applied to the      *)
(* terms a; two values are equal when they are the same kernel on the same *)
(* arguments. What a kernel returns is not interpreted, but two questions  *)
(* about it have answers, the same for whoever asks: whether an i1 is true *)
(* (a branch, a select, a validity flag) and whether the call traps. The   *)
(* answers given so far are `known', a function on terms.                  *)
(*                                                                         *)
(* An instruction of IR carries, besides uses, dsts and col, its opcode    *)
(* `op' and the sequence `imm' of its immediate operands. Types are the    *)
(* five lanes a value travels in: i1, i64 (every narrow integer), f64,     *)
(* str, and dec (every 128-bit value).                                     *)
(***************************************************************************)
EXTENDS IR, SequencesExt

K(f, a) == [f |-> f, a |-> a]
Lit(v)  == K(<<"lit", v>>, <<>>)
Zero    == Lit(0)             \* the default payload of every lane
Traps(t) == K(<<"traps">>, <<t>>)

Lanes == {"i1", "i64", "f64", "str", "dec"}

\* Who is asked, and what is answered.
Settled(known, t) == t \in DOMAIN known \/ t.f[1] = "lit"
Answer(known, t)  == IF t.f[1] = "lit" THEN t # Zero ELSE known[t]

\* Opcodes by what they read and define. An opcode whose variants take
\* different lanes stands here once per variant.
Shape(ops, takes, gives) == [ops |-> ops, takes |-> takes, gives |-> gives]

\* BinOp::sig: both operands and the result have one type.
BinaryShapes ==
  { Shape({"iadd", "isub", "imul", "idiv", "irem", "ishl", "ishr", "iand", "ior",
           "ixor"}, <<"i64", "i64">>, <<"i64">>),
    Shape({"fadd", "fsub", "fmul", "fdiv", "frem", "fpow", "flogb", "ffloordiv",
           "ffloormod", "fnextafter"}, <<"f64", "f64">>, <<"f64">>),
    Shape({"hadd", "hsub", "hmul", "hdiv", "hrem", "hand", "hor", "hxor"},
          <<"dec", "dec">>, <<"dec">>),
    Shape({"and", "or", "xor"}, <<"i1", "i1">>, <<"i1">>) }

\* NumOp1::sig: a result of the operand's type.
UnaryShapes ==
  { Shape({"fabs", "fneg", "ffloor", "fceil", "ftrunc", "fround", "fexp", "fcbrt",
           "ln", "log2", "log10", "fsqrt", "fsin", "fcos", "ftan"}, <<"f64">>, <<"f64">>),
    Shape({"iabs"}, <<"i64">>, <<"i64">>),
    Shape({"habs"}, <<"dec">>, <<"dec">>) }

NumberShapes ==
  { Shape({"icmp"}, <<"i64", "i64">>, <<"i1">>),
    Shape({"fcmp"}, <<"f64", "f64">>, <<"i1">>),
    Shape({"dcmp"}, <<"dec", "dec">>, <<"i1">>),
    Shape({"not"}, <<"i1">>, <<"i1">>),
    Shape({"select.f64"}, <<"i1", "f64", "f64">>, <<"f64">>),
    Shape({"select.str"}, <<"i1", "str", "str">>, <<"str">>),
    Shape({"itof"}, <<"i64">>, <<"f64">>),
    Shape({"round2i"}, <<"i64", "i64">>, <<"i64">>),
    Shape({"round2f"}, <<"f64", "i64">>, <<"f64">>),
    Shape({"ftoi"}, <<"f64">>, <<"i64">>) }

DecimalShapes ==
  { Shape({"dadd", "dsub", "dmul", "drem"}, <<"dec", "dec">>, <<"dec">>),
    Shape({"dabs", "dceil", "dfloor", "dround", "dtrunc", "dcast.dd"}, <<"dec">>, <<"dec">>),
    Shape({"dcast.di"}, <<"dec">>, <<"i64">>),
    Shape({"dcast.id", "itod"}, <<"i64">>, <<"dec">>),
    Shape({"dcast_ok.d"}, <<"dec">>, <<"i1">>),
    Shape({"dcast_ok.i"}, <<"i64">>, <<"i1">>),
    Shape({"dtof", "htof"}, <<"dec">>, <<"f64">>),
    Shape({"ftoh"}, <<"f64">>, <<"dec">>),
    Shape({"dtos", "htos"}, <<"dec">>, <<"str">>) }

\* Two strings: tests, positions, distances.
SearchShapes ==
  { Shape({"scmp", "slike", "contains", "starts", "ends", "glob"}, <<"str", "str">>, <<"i1">>),
    Shape({"slike.esc"}, <<"str", "str", "str">>, <<"i1">>),
    Shape({"find", "levenshtein", "damerau", "hamming"}, <<"str", "str">>, <<"i64">>),
    Shape({"jaccard"}, <<"str", "str">>, <<"f64">>) }

StringShapes ==
  { Shape({"itos"}, <<"i64">>, <<"str">>),
    Shape({"ftos"}, <<"f64">>, <<"str">>),
    Shape({"stoi", "ston.i"}, <<"str">>, <<"i1", "i64">>),
    Shape({"stof"}, <<"str">>, <<"i1", "f64">>),
    Shape({"ston.d"}, <<"str">>, <<"i1", "dec">>),
    Shape({"replace", "translate"}, <<"str", "str", "str">>, <<"str">>),
    Shape({"repeat", "extract", "ssubstr"}, <<"str", "i64">>, <<"str">>),
    Shape({"spad"}, <<"str", "i64", "str">>, <<"str">>),
    Shape({"sslice", "ssubstr.len"}, <<"str", "i64", "i64">>, <<"str">>),
    Shape({"rematch"}, <<"str">>, <<"i1">>),
    Shape({"sord", "slen"}, <<"str">>, <<"i64">>),
    Shape({"reextract", "rereplace", "upper", "lower", "strip_accents", "reverse"},
          <<"str">>, <<"str">>),
    Shape({"sconcat", "strim"}, <<"str", "str">>, <<"str">>) }

ConstShapes == { Shape({"const." \o l}, <<>>, <<l>>) : l \in Lanes }

Shapes  == UNION {BinaryShapes, UnaryShapes, NumberShapes, DecimalShapes, SearchShapes,
                  StringShapes, ConstShapes}
PureOps == UNION { s.ops : s \in Shapes }   \* everything but loads, stores and calls out
ShapeOf(op) == CHOOSE s \in Shapes : op \in s.ops

\* The closures that may return Err: a checked add, sub or mul; a division; a
\* logarithm of a value it is undefined for; a string too long; a substring
\* too far out. A DECIMAL operation checks only where the width is capped.
NumberTraps == {"iadd", "isub", "imul", "idiv", "irem", "ishl", "flogb", "hadd", "hsub",
                "hmul", "hdiv", "hrem", "iabs", "habs", "ln", "log2", "log10", "fsqrt",
                "fsin", "fcos", "ftan", "ftoi"}
StringTraps == {"slike", "slike.esc", "levenshtein", "damerau", "hamming", "jaccard",
                "repeat", "extract", "spad", "ssubstr", "ssubstr.len"}
DecimalTraps(op, imm) ==
  \/ op \in {"dadd", "dsub", "dmul"} /\ imm[1] # 0
  \/ op \in {"drem", "dcast.dd", "dcast.di", "dcast.id"}
MayTrap(op, imm) ==
  \/ op \in NumberTraps \union StringTraps \union {"predict", "ecall"}
  \/ DecimalTraps(op, imm)

-----------------------------------------------------------------------------
(* One row, as the interpreter runs it.                                    *)

\* What an instruction defines, a sequence of terms, from the terms of its
\* operands. The tuple f names the kernel: opcode and immediates.
LoadOf(col, row)  == K(<<"load", col, row>>, <<>>)
ValidOf(col, row) == K(<<"valid", col, row>>, <<>>)

\* A NULL argument of a user function is no value at all.
CallArgs(known, args) ==
  [j \in 1 .. Len(args) \div 2 |->
     IF Answer(known, args[2 * j - 1]) THEN args[2 * j] ELSE K(<<"none">>, <<>>)]

\* The questions an instruction asks before it defines anything.
Asks(inst, args, row) ==
  CASE inst.op \in {"select.f64", "select.str"} -> {args[1]}
    [] inst.op = "load.opt"  -> {ValidOf(inst.imm, row)}
    [] inst.op = "sload.opt" -> {K(<<"svalid", inst.imm>>, <<>>)}
    [] inst.op = "probe"     -> {K(<<"hit", inst.imm>>, args)}
    [] inst.op = "ecall"     -> { args[2 * j - 1] : j \in 1 .. Len(args) \div 2 }
    [] inst.op = "ishr"      -> {K(<<"inrange">>, <<args[2]>>)}
    [] OTHER -> {}

Kernel(known, inst, args) ==
  K(<<inst.op, inst.imm>>, IF inst.op = "ecall" THEN CallArgs(known, args) ELSE args)

Defines(known, inst, args, row) ==
  CASE inst.op \in {"select.f64", "select.str"} ->
         << IF Answer(known, args[1]) THEN args[2] ELSE args[3] >>
    [] inst.op \in {"const." \o l : l \in Lanes} -> << Lit(inst.imm[1]) >>
    [] inst.op = "ishr" -> << IF Answer(known, K(<<"inrange">>, <<args[2]>>))
                              THEN K(<<"sshr">>, args) ELSE Zero >>
    [] inst.op = "load" -> << LoadOf(inst.imm, row) >>
    [] inst.op = "load.opt" ->
         LET f == ValidOf(inst.imm, row)
         IN  << f, IF Answer(known, f) THEN LoadOf(inst.imm, row) ELSE Zero >>
    [] inst.op = "sload" -> << K(<<"static", inst.imm>>, <<>>) >>
    [] inst.op = "sload.opt" ->
         LET f == K(<<"svalid", inst.imm>>, <<>>)
         IN  << f, IF Answer(known, f) THEN K(<<"static", inst.imm>>, <<>>) ELSE Zero >>
    [] inst.op = "probe" ->
         LET f == K(<<"hit", inst.imm>>, args)
         IN  <<f>> \o [i \in 1 .. Len(inst.dsts) - 1 |->
                         IF Answer(known, f) THEN K(<<"entry", inst.imm, i>>, args) ELSE Zero]
    [] Len(inst.dsts) > 1 ->
         [i \in 1 .. Len(inst.dsts) |-> K(<<"part", i>>, <<Kernel(known, inst, args)>>)]
    [] OTHER -> << Kernel(known, inst, args) >>

\* The state of a row: values, what it stored (validity and payload per
\* column), and how it ended, "" while it runs.
Fresh == [env |-> <<>>, cells |-> <<>>, end |-> "", why |-> Zero]

InterpInst(known, row, s, inst) ==
  LET args == [i \in DOMAIN inst.uses |-> s.env[inst.uses[i].val]]
      t    == Kernel(known, inst, args)
  IN  IF s.end # "" THEN s
      ELSE IF inst.op = "store"
      THEN [s EXCEPT !.cells = (inst.col :> <<TRUE, args[1]>>) @@ @]
      ELSE IF inst.op = "store.opt"
      THEN IF ~Settled(known, args[1]) THEN [s EXCEPT !.end = "unasked"]
           ELSE [s EXCEPT !.cells =
                  (inst.col :> IF Answer(known, args[1]) THEN <<TRUE, args[2]>>
                                                         ELSE <<FALSE, Zero>>) @@ @]
      ELSE IF ~ \A q \in Asks(inst, args, row) : Settled(known, q)
      THEN [s EXCEPT !.end = "unasked"]
      ELSE IF MayTrap(inst.op, inst.imm) /\ ~Settled(known, Traps(t))
      THEN [s EXCEPT !.end = "unasked"]
      ELSE IF MayTrap(inst.op, inst.imm) /\ Answer(known, Traps(t))
      THEN [s EXCEPT !.end = "trap", !.why = t]
      ELSE LET d == Defines(known, inst, args, row)
           IN  [s EXCEPT !.env =
                  [v \in {inst.dsts[i].val : i \in DOMAIN d} |->
                     d[CHOOSE i \in DOMAIN d : inst.dsts[i].val = v]] @@ @]

\* One more block: its parameters take the arguments it is entered with, its
\* instructions run, its terminator ends the row or names the next block.
Entered(p, from) ==
  LET params == p[from.b].params IN
  [from.s EXCEPT !.env =
     [v \in {params[i].val : i \in DOMAIN params} |->
        from.args[CHOOSE i \in DOMAIN params : params[i].val = v]]]

Leave(known, from, term, s) ==
  LET stop(e, w) == [from EXCEPT !.s = [s EXCEPT !.end = e, !.why = w]]
      go(edge)   == [s |-> s, b |-> edge.to,
                     args |-> [i \in DOMAIN edge.args |-> s.env[edge.args[i]]]]
  IN  CASE s.end # "" -> [from EXCEPT !.s = s]
        [] term.op \in {"emit", "skip"} -> stop(term.op, Zero)
        [] term.op = "trap" -> stop("trap", K(<<"block", from.b>>, <<>>))
        [] term.op = "jump" -> go(term.edges[1])
        [] term.op = "brif" ->
             IF ~Settled(known, s.env[term.cond]) THEN stop("unasked", Zero)
             ELSE go(term.edges[IF Answer(known, s.env[term.cond]) THEN 1 ELSE 2])

InterpStep(p, known, row, from) ==
  IF from.s.end # "" THEN from
  ELSE Leave(known, from, p[from.b].term,
             FoldLeft(LAMBDA s, inst : InterpInst(known, row, s, inst),
                      Entered(p, from), p[from.b].insts))

\* A whole row; an acyclic program enters no block twice.
InterpRow(p, known, row) ==
  FoldLeft(LAMBDA from, i : InterpStep(p, known, row, from),
           [s |-> Fresh, b |-> Entry, args |-> <<>>],
           [i \in 1 .. Cardinality(Blocks(p)) |-> i]).s
=============================================================================
