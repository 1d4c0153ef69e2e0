------------------------------ MODULE IRParse -------------------------------
(***************************************************************************)
(* The reading half of the parser of the IR's text (ir/parse.rs): tokens   *)
(* to operands, opcodes to the variants of `Inst'. `got' is the program so *)
(* far, its branch targets still labels; `ids' is the parser's table of    *)
(* value names, next_value its size.                                       *)
(***************************************************************************)
EXTENDS IRText

CONSTANTS
  Sources,   \* the programs printed
  Edits,     \* tokens an edit may write in place of another
  IdBound    \* 2^32: where a regex index wraps

ASSUME IRParseAssumption == IdBound \in Nat \ {0} /\ \A a \in Edits : a.k # "eof"

VARIABLES prog, phase, text, pos, ids, got

vars == <<prog, phase, text, pos, ids, got>>

-----------------------------------------------------------------------------
(***************************************************************************)
(* The reader: a position, what has been read from there, and whether that *)
(* was possible. `bump' never leaves the end of the input.                 *)
(***************************************************************************)

At(n) == [pos |-> n, out |-> <<>>, ok |-> TRUE]
Fail(r) == [r EXCEPT !.ok = FALSE]
Peek(r) == text[r.pos]
Bump(r) == [r EXCEPT !.pos = IF @ < Len(text) THEN @ + 1 ELSE @]
Put(r, x) == [Bump(r) EXCEPT !.out = Append(@, x)]

IsWord(a, s) == a.k = "id" /\ a.s = s
IsInt(a) == a.k = "num" /\ a.s = "int"

Eat(r, k) == IF r.ok /\ Peek(r).k = k THEN Bump(r) ELSE Fail(r)
EatWord(r, s) == IF r.ok /\ IsWord(Peek(r), s) THEN Bump(r) ELSE Fail(r)

Keep(r, good, x) == IF r.ok /\ good THEN Put(r, x) ELSE Fail(r)

\* The words for the floats that digits do not spell.
SpecialWords == {"nan", "-nan", "inf", "-inf"}

\* The tokens of a form one after the other: a mark, a word, or one of the
\* classes in angle brackets, whose token is kept.
Marks == {"(", ")", "{", "}", "<", ">", "->", ",", ":", ".", "=", "@", "?", "eof"}

ReadToken(r, piece) ==
  CASE piece \in Marks -> Eat(r, piece)
    [] piece = "<int>" -> Keep(r, IsInt(Peek(r)), Peek(r).n)
    [] piece = "<str>" -> Keep(r, Peek(r).k = "str", Peek(r).s)
    [] piece = "<id>" -> Keep(r, Peek(r).k = "id", Peek(r).s)
    [] piece = "<name>" -> Keep(r, Peek(r).k \in {"id", "str"}, Peek(r).s)
    [] piece = "<new>" -> Keep(r, Peek(r).k = "val", Peek(r).n)
    [] OTHER -> EatWord(r, piece)

Tokens(r, form) == FoldLeft(ReadToken, r, form)

\* dec_params: one scaled type or operand in place of its two numbers.
ReadScale(r, s) ==
  LET Scaled(q) ==
        LET p == q.out[Len(q.out) - 1]
            scale == Last(q.out)
        IN  IF q.ok /\ p \in 1 .. 38 /\ scale \in 0 .. p
            THEN [q EXCEPT !.out = Append(r.out, IF s = "dec" THEN Dec(p, scale)
                                                             ELSE Scale(p, scale))]
            ELSE Fail(r)
  IN  Scaled(Tokens(r, <<"(", "<int>", ",", "<int>", ")">>))

ReadTy(r) ==
  IF ~ r.ok \/ Peek(r).k # "id" THEN Fail(r)
  ELSE IF Peek(r).s = "dec" THEN ReadScale(Bump(r), "dec")
  ELSE Keep(r, Peek(r).s \in Widths, Ty(Peek(r).s))

\* A type and whether a question mark follows it.
ReadColTy(r) ==
  LET Marked(q) == IF q.ok /\ Peek(q).k = "?" THEN Put(q, TRUE)
                   ELSE [q EXCEPT !.out = Append(@, FALSE)]
  IN  Marked(ReadTy(r))

\* One element of a list, and a list of at least one, with commas.
ReadElement(r, what) ==
  CASE what = "dst" -> Tokens(r, <<"<new>">>)
    [] what = "param" -> ReadTy(Tokens(r, <<"<new>", ":">>))
    [] what = "return" -> ReadTy(Tokens(r, <<"<str>", ":">>))
    [] what = "col" -> ReadColTy(Tokens(r, <<"<name>", ":">>))
    [] what = "ty" -> ReadTy(r)

RECURSIVE ReadList(_, _)
ReadList(r, what) ==
  LET More(q) == IF q.ok /\ Peek(q).k = "," THEN ReadList(Bump(q), what) ELSE q
  IN  More(ReadElement(r, what))

\* What stands between two marks, the list perhaps empty, as one item.
ReadBetween(r, open, what, close) ==
  LET Body(q) == IF q.ok /\ Peek(q).k # close THEN ReadList(q, what) ELSE q
      AsOne(q) == [q EXCEPT !.out = Append(r.out, q.out)]
  IN  AsOne(Eat(Body(Eat([r EXCEPT !.out = <<>>], open)), close))

ReadTys(r) == ReadBetween(r, "(", "ty", ")")

\* use_value
ReadVal(r) ==
  Keep(r, Peek(r).k = "val" /\ Peek(r).n \in DOMAIN ids, Val(ids[Peek(r).n]))

\* `, value' again and again.
RECURSIVE MoreVals(_)
MoreVals(r) ==
  IF r.ok /\ Peek(r).k = "," THEN MoreVals(ReadVal(Bump(r))) ELSE r

\* A float: a finite number, however spelled, or one of four special words.
ReadFloat(r) ==
  LET a == Peek(r)
      special == a.k \in {"id", "num"} /\ a.s \in SpecialWords
  IN  Keep(r, special \/ a.k = "num",
           IF special THEN Float(a.s, 0) ELSE Float("fin", a.n))

\* A name, bare or quoted, of a declared column: the first of that name.
ReadColumn(r, side) ==
  LET cols == IF side = "in" THEN got.inCols ELSE got.outCols
      Hits(name) == { i \in DOMAIN cols : cols[i].name = name }
      Found(q) ==
        IF q.ok /\ Hits(Last(q.out)) # {}
        THEN [q EXCEPT !.out = Append(r.out, Column(side, Min(Hits(Last(@))) - 1))]
        ELSE Fail(r)
  IN  Found(Tokens(r, <<side, ".", "<name>">>))

\* static_ref, the extern index, and the regex index, which is cast to u32
\* and left to the verifier.
ReadRef(r, table, entries) ==
  LET Known(q) == IF q.ok /\ (Last(q.out) + 1) \in DOMAIN entries
                  THEN [q EXCEPT !.out = Append(r.out, Atom(table, "", Last(@), 0))]
                  ELSE Fail(r)
  IN  Known(Tokens(r, <<"@", "<int>">>))

ReadRegexRef(r) ==
  LET Cut(q) == IF q.ok THEN [q EXCEPT !.out = Append(r.out, Regex(Last(@) % IdBound))] ELSE q
  IN  Cut(Tokens(r, <<"@", "<int>">>))

Preds == {"eq", "ne", "lt", "le", "gt", "ge"}

\* One operand, or one piece of punctuation, of an instruction's form.
ReadPiece(r, piece) ==
  CASE piece = "val" -> ReadVal(r)
    [] piece = "vals" -> MoreVals(r)
    [] piece = "maybe" -> IF r.ok /\ Peek(r).k = "," THEN ReadVal(Bump(r)) ELSE r
    [] piece = "ty" -> ReadTy(r)
    [] piece = "scale" -> ReadScale(r, "scale")
    [] piece = "dec" -> ReadScale(r, "dec")
    [] piece = "int" -> Keep(r, IsInt(Peek(r)), Peek(r))
    [] piece = "group" -> Keep(r, IsInt(Peek(r)), Number(Peek(r).n % IdBound))
    [] piece = "pred" -> Keep(r, Peek(r).k = "id" /\ Peek(r).s \in Preds, Peek(r))
    [] piece = "check" -> Keep(r, IsInt(Peek(r)) /\ Peek(r).n \in {0, 18, 38}, Peek(r))
    [] piece = "shift" -> Keep(r, IsInt(Peek(r)) /\ Peek(r).n \in 0 .. 38, Peek(r))
    [] piece = "str" -> Keep(r, Peek(r).k = "str", Peek(r))
    [] piece = "truth" -> Keep(r, Peek(r).k = "id" /\ Peek(r).s \in {"true", "false"}, Peek(r))
    [] piece = "float" -> ReadFloat(r)
    [] piece \in {"in", "out"} -> ReadColumn(r, piece)
    [] piece = "static" -> ReadRef(r, "static", got.statics)
    [] piece = "extern" -> ReadRef(r, "extern", got.externs)
    [] piece = "regex" -> ReadRegexRef(r)
    [] OTHER -> Eat(r, piece)

ReadForm(r, form) == FoldLeft(ReadPiece, r, form)

-----------------------------------------------------------------------------
(***************************************************************************)
(* Opcodes: the variant each spelling stands for, how many values it       *)
(* defines, and its operands.                                              *)
(***************************************************************************)

BinOps ==
  {"iadd", "isub", "imul", "idiv", "irem", "fadd", "fsub", "fmul", "fdiv",
   "frem", "fpow", "flogb", "ffloordiv", "ffloormod", "fnextafter", "ishl",
   "ishr", "iand", "ior", "ixor", "and", "or", "xor", "hadd", "hsub", "hmul",
   "hdiv", "hrem", "hand", "hor", "hxor"}

StringOps ==
  {"sfind", "scontains", "sstarts", "sends", "slevenshtein", "sdamerau",
   "sjaccard", "shamming", "sglob"}

NumberOps ==
  {"habs", "iabs", "fabs", "fneg", "fround", "ln", "log2", "log10", "fexp",
   "fsqrt", "fcbrt", "fsin", "fcos", "ftan", "ffloor", "fceil", "ftrunc"}

\* "srev" has an arm of its own inside, which this list keeps it from.
Str1Ops == {"supper", "slower", "sstrip"}

One == <<"val">>
Two == <<"val", ",", "val">>
Three == <<"val", ",", "val", ",", "val">>

Shape(variant, field, dsts, form) ==
  [op |-> <<variant, field>>, dsts |-> dsts, form |-> form]

DecOps == {"add", "sub", "mul", "rem"}
DecUnaries == {"abs", "ceil", "floor", "round", "trunc"}

\* Decimals and constants.
DecimalOp(h, s) ==
  CASE h = "const" /\ s = "dec" -> Shape("Const", s, 1, <<"scale", "int">>)
    [] h = "const" /\ s \in {"i64", "i128"} -> Shape("Const", s, 1, <<"int">>)
    [] h = "const" /\ s = "i1" -> Shape("Const", s, 1, <<"truth">>)
    [] h = "const" /\ s = "f64" -> Shape("Const", s, 1, <<"float">>)
    [] h = "const" /\ s = "str" -> Shape("Const", s, 1, <<"str">>)
    [] h = "dop" /\ s \in DecOps ->
         Shape("Dop", s, 1, <<"check", "ty">> \o Two)
    [] h = "dunary" /\ s \in DecUnaries ->
         Shape("Dunary", s, 1, <<"shift", "shift", "ty", "val">>)
    [] h = "dcast" /\ s = "ok" -> Shape("DcastOk", "", 1, <<"ty", "ty", "val">>)
    [] h = "dcast" /\ s = "" -> Shape("Dcast", "", 1, <<"ty", "ty", "val">>)
    [] h = "dtos" /\ s = "" -> Shape("Dtos", "", 1, <<"scale", "val">>)
    [] h = "dtof" /\ s = "" -> Shape("Dtof", "", 1, <<"scale", "val">>)
    [] h = "itod" /\ s = "" -> Shape("Itod", "", 1, <<"scale", "val">>)
    [] OTHER -> Shape("unknown", "", 0, <<>>)

\* Conversions of numbers and choices.
ConversionOp(h, s) ==
  CASE h = "not" /\ s = "" -> Shape("Not", "", 1, One)
    [] h = "select" /\ s = "" -> Shape("Select", "", 1, Three)
    [] h = "itof" /\ s \in {"", "f32"} ->
         Shape("Itof", IF s = "f32" THEN "narrow" ELSE "", 1, One)
    [] h = "ftoi" /\ s \in {"trunc", "nearest"} -> Shape("Ftoi", s, 1, One)
    [] h = "itos" /\ s = "" -> Shape("Itos", "", 1, One)
    [] h = "ftos" /\ s = "" -> Shape("Ftos", "", 1, One)
    [] h = "stoi" /\ s = "opt" -> Shape("StoiOpt", "", 2, One)
    [] h = "stof" /\ s = "opt" -> Shape("StofOpt", "", 2, One)
    [] OTHER -> DecimalOp(h, s)

\* Arithmetic, comparisons and the conversions of wide numbers.
NumberOp(h, s) ==
  CASE h \in BinOps /\ s = "" -> Shape("Bin", h, 1, Two)
    [] h \in NumberOps /\ s = "" -> Shape("Num1", h, 1, One)
    [] h = "dcmp" -> Shape("Cmp", "", 1, <<"dec", ".", "pred">> \o Two)
    [] h \in {"icmp", "hcmp", "fcmp", "scmp"} /\ s \in Preds -> Shape("Cmp", s, 1, Two)
    [] h \in {"fround2", "ftrunc2"} /\ s = "" ->
         Shape("Round2f", IF h = "ftrunc2" THEN "trunc" ELSE "", 1, Two)
    [] h \in {"iround2", "itrunc2"} /\ s = "" ->
         Shape("Round2i", IF h = "itrunc2" THEN "trunc" ELSE "", 1, Two)
    [] h = "htof" /\ s = "" -> Shape("Htof", "", 1, One)
    [] h = "ftoh" /\ s = "" -> Shape("Ftoh", "", 1, One)
    [] h = "htos" /\ s = "" -> Shape("Htos", "", 1, One)
    [] h = "ston" /\ s = "opt" -> Shape("StonOpt", "", 2, <<"ty", "val">>)
    [] OTHER -> ConversionOp(h, s)

\* Parts of strings.
SubstringOp(h, s) ==
  CASE h = "spad" /\ s \in {"left", "right"} -> Shape("Spad", s, 1, Three)
    [] h = "sslice" /\ s = "" -> Shape("Sslice", "", 1, Three)
    [] h = "sord" /\ s \in {"", "ascii"} ->
         Shape("Sord", IF s = "ascii" THEN "empty_zero" ELSE "", 1, One)
    [] h = "strim" /\ s \in {"both", "lead", "trail"} -> Shape("Strim", s, 1, Two)
    [] h = "ssubstr" /\ s = "" -> Shape("Ssubstr", "", 1, Three)
    [] h = "ssubstr" /\ s = "rest" -> Shape("Ssubstr", "rest", 1, Two)
    [] OTHER -> NumberOp(h, s)

\* Strings.
StringOp(h, s) ==
  CASE h \in StringOps /\ s = "" -> Shape("Str2", h, 1, Two)
    [] h \in Str1Ops /\ s = "" -> Shape("Str1", h, 1, One)
    [] h \in {"sreplace", "stranslate"} /\ s = "" -> Shape("Str3", h, 1, Three)
    [] h \in {"srepeat", "sextract"} /\ s = "" -> Shape("Str2i", h, 1, Two)
    [] h \in {"slike", "silike"} /\ s = "" ->
         Shape("Slike", IF h = "silike" THEN "ci" ELSE "", 1, Two \o <<"maybe">>)
    [] h \in {"slenc", "slenb"} /\ s = "" ->
         Shape("SLen", IF h = "slenb" THEN "bytes" ELSE "", 1, One)
    [] h = "sconcat" /\ s = "" -> Shape("Sconcat", "", 1, Two)
    [] OTHER -> SubstringOp(h, s)

\* A count that depends on the site: at least one, or any.
Some == -1

\* Columns, statics, regexes and externs.
ParseOp(h, s) ==
  CASE h = "load" /\ s = "" -> Shape("Load", "", 1, <<"in">>)
    [] h = "load" /\ s = "opt" -> Shape("LoadOpt", "", 2, <<"in">>)
    [] h = "probe" /\ s = "" -> Shape("Probe", "", Some, <<"static", "vals">>)
    [] h = "probe" /\ s = "range" -> Shape("ProbeRange", "", 2, <<"static", "vals">>)
    [] h = "probe" /\ s = "read" -> Shape("ProbeRead", "", Some, <<"static", ",", "val">>)
    [] h = "predict" /\ s = "" -> Shape("Predict", "", 1, <<"static", ",", "val", "vals">>)
    [] h = "ecall" /\ s = "" -> Shape("ExternCall", "", Some, <<"extern", "vals">>)
    [] h = "sload" /\ s = "" -> Shape("Sload", "", 1, <<"static">>)
    [] h = "sload" /\ s = "opt" -> Shape("SloadOpt", "", 2, <<"static">>)
    [] h = "rematch" /\ s = "" -> Shape("ReMatch", "", 1, <<"regex", ",", "val">>)
    [] h = "reextract" /\ s = "" ->
         Shape("ReExtract", "", 1, <<"regex", ",", "group", ",", "val">>)
    [] h = "rereplace" /\ s \in {"", "g"} ->
         Shape("ReReplace", IF s = "g" THEN "global" ELSE "", 1, <<"regex", ",", "val">>)
    [] OTHER -> StringOp(h, s)

\* The operand type a comparison's head stands for.
CmpTy(h) ==
  CASE h = "icmp" -> Ty("i64")
    [] h = "hcmp" -> Ty("i128")
    [] h = "fcmp" -> Ty("f64")
    [] OTHER -> Ty("str")

\* A comparison keeps the type it compares at, which its head, or the scale
\* after it, spells.
Operation(h, shape, args) ==
  IF shape.op[1] # "Cmp" THEN [op |-> shape.op, args |-> args]
  ELSE IF h = "dcmp"
  THEN [op |-> <<"Cmp", args[2].s>>, args |-> <<args[1]>> \o Tail(Tail(args))]
  ELSE [op |-> shape.op, args |-> <<CmpTy(h)>> \o args]
=============================================================================
