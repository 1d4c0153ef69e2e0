------------------------------ MODULE Codegen ------------------------------
(***************************************************************************)
(* The code the Cranelift backend builds for a row program                 *)
(* (exec/cranelift.rs, compile_ext and translate_inst), before Cranelift   *)
(* optimizes it.                                                           *)
(*                                                                         *)
(* A function of CLIF maps block names to [params, insts]; the last        *)
(* instruction ends the block. Every IR block is the chain of pieces       *)
(* <<b, 0>>, <<b, 1>>, ...: after a call that can fail the flag of the     *)
(* context is read and a new piece begins (trap_check). A value of CLIF is *)
(* named <<b, j, q, r>>: the r-th result of the q-th step of what the j-th *)
(* instruction of block b becomes.                                         *)
(***************************************************************************)
EXTENDS Helpers

Clif(op, imm, args, res) ==
  [op |-> op, imm |-> imm, args |-> args, res |-> res, dests |-> <<>>]
Ender(op, imm, args, dests) ==
  [op |-> op, imm |-> imm, args |-> args, res |-> <<>>, dests |-> dests]
Dest(to, args) == [to |-> to, args |-> args]

CxValue   == <<-1, 0, 0, 0>>     \* the function's parameter
EntryName == <<-1, 0>>
TrapExit  == <<-2, 0>>

\* The program is declined: only the interpreter runs multiplicity.
InterpOnly(p) ==
  \E b \in Blocks(p) :
    \/ p[b].term.op = "emit.to"
    \/ \E i \in DOMAIN p[b].insts : p[b].insts[i].op \in {"probe.range", "probe.read"}

\* The scratch slots, in 8-byte words: one out cell; room for the widest key
\* or argument list; room for the widest answer, or for bare features.
InstsOf(p, op) ==
  UNION { { p[b].insts[i] : i \in { j \in DOMAIN p[b].insts : p[b].insts[j].op = op } }
            : b \in Blocks(p) }
KeyCells(p) == Max({1} \union { Len(n.uses) : n \in InstsOf(p, "probe") }
                       \union { Len(n.uses) : n \in InstsOf(p, "ecall") })
ProbedCells(p) == Max({1} \union { Len(n.dsts) - 1 : n \in InstsOf(p, "probe") })   \* mutant
ValCells(p) == Max({1} \union { Len(n.dsts) - 1 : n \in InstsOf(p, "probe") }
                       \union { Len(n.uses) \div 2 : n \in InstsOf(p, "predict") }
                       \union { Len(n.dsts) : n \in InstsOf(p, "ecall") })
SlotWords(p) == [out |-> 2, keys |-> 2 * KeyCells(p), vals |-> 2 * ValCells(p)]

-----------------------------------------------------------------------------
(* Call sites: which helper an opcode calls, with what, and what becomes   *)
(* of the answer.                                                          *)

\* pass: cx, operand 1, 2 or 3 (w1: operand 1 sign-extended), k for the next
\* number, out for the out cell. res: ret, str (off returned, len loaded),
\* cell and cell64 (loaded), flag8 (flag loaded, value returned), flagcell and
\* flagcell64 (flag returned, value loaded). check: the trap flag is read.
Site(ops, helper, pass, res, check) ==
  [ops |-> ops, helper |-> helper, pass |-> pass, res |-> res, check |-> check]
Own(ops, pass, res, check) ==       \* each opcode calls the helper of its name
  { Site({op}, "h_" \o op, pass, res, check) : op \in ops }

BinarySites ==
  Own({"iadd", "isub", "imul", "idiv", "irem", "ishl", "flogb"}, <<"cx", "1", "2">>, "ret", TRUE)
  \union Own({"frem", "fpow", "ffloordiv", "ffloormod", "fnextafter"}, <<"1", "2">>, "ret", FALSE)
  \union
  { Site({"hadd", "hsub", "hmul", "hdiv", "hrem"}, "h_hugeint_arith",
         <<"cx", "1", "2", "k", "out">>, "cell", TRUE) }

DecimalSites ==
  Own({"ftoh"}, <<"1", "out">>, "cell", FALSE)
  \union
  { Site({"dadd", "dsub", "dmul", "drem"}, "h_dec_arith",
         <<"cx", "1", "2", "k", "out">>, "cell", TRUE),
    Site({"dcast.dd"}, "h_dec_cast", <<"cx", "1", "k", "k", "out">>, "cell", TRUE),
    Site({"dcast.di"}, "h_dec_cast", <<"cx", "1", "k", "k", "out">>, "cell64", TRUE),
    Site({"dcast.id"}, "h_dec_cast", <<"cx", "w1", "k", "k", "out">>, "cell", TRUE),
    Site({"dabs", "dceil", "dfloor", "dround", "dtrunc"}, "h_dec_unary",
         <<"1", "k", "out">>, "cell", FALSE),
    Site({"dcast_ok.d"}, "h_dec_cast_ok", <<"1", "k", "k">>, "ret", FALSE),
    Site({"dcast_ok.i"}, "h_dec_cast_ok", <<"w1", "k", "k">>, "ret", FALSE),
    Site({"dtof"}, "h_dec_to_f64", <<"1", "k">>, "ret", FALSE),
    Site({"itod"}, "h_int_to_dec", <<"1", "k", "out">>, "cell", FALSE) }
  \union Own({"dtos"}, <<"cx", "1", "k", "out">>, "str", FALSE)

CompareSites ==
  Own({"fcmp"}, <<"1", "2", "k">>, "ret", FALSE)
  \union Own({"scmp"}, <<"cx", "1", "2", "k">>, "ret", FALSE)

ConvertSites ==
  Own({"ftoi"}, <<"cx", "1", "k">>, "ret", TRUE)
  \union Own({"itos", "ftos", "htos"}, <<"cx", "1", "out">>, "str", FALSE)
  \union Own({"htof"}, <<"1">>, "ret", FALSE)
  \union Own({"stoi", "stof"}, <<"cx", "1", "out">>, "flag8", FALSE)
  \union Own({"round2f", "round2i"}, <<"1", "2", "k">>, "ret", FALSE)
  \union
  { Site({"ston.d"}, "h_ston", <<"cx", "1", "k", "out">>, "flagcell", FALSE),
    Site({"ston.i"}, "h_ston", <<"cx", "1", "k", "out">>, "flagcell64", FALSE) }

SearchSites ==
  { Site({"slike"}, "h_slike", <<"cx", "k", "1", "2", "k", "k", "k">>, "ret", TRUE),
    Site({"slike.esc"}, "h_slike", <<"cx", "k", "1", "2", "k", "3">>, "ret", TRUE),
    Site({"find"}, "h_sfind", <<"cx", "1", "2">>, "ret", FALSE),
    Site({"levenshtein", "damerau", "hamming"}, "h_ssim", <<"cx", "k", "1", "2">>, "ret", TRUE),
    Site({"jaccard"}, "h_sjaccard", <<"cx", "1", "2">>, "ret", TRUE),
    Site({"contains", "starts", "ends", "glob"}, "h_spred",
         <<"cx", "k", "1", "2">>, "ret", FALSE),
    Site({"replace", "translate"}, "h_str3", <<"cx", "k", "1", "2", "3", "out">>, "str", FALSE),
    Site({"repeat"}, "h_srepeat", <<"cx", "1", "2", "out">>, "str", TRUE),
    Site({"extract"}, "h_sextract", <<"cx", "1", "2", "out">>, "str", TRUE) }

StringSites ==
  Own({"spad"}, <<"cx", "k", "1", "2", "3", "out">>, "str", TRUE)
  \union Own({"sslice"}, <<"cx", "1", "2", "3", "out">>, "str", FALSE)
  \union Own({"rematch", "sord", "slen"}, <<"cx", "k", "1">>, "ret", FALSE)
  \union Own({"reextract", "rereplace"}, <<"cx", "k", "k", "1", "out">>, "str", FALSE)
  \union Own({"sconcat"}, <<"cx", "1", "2", "out">>, "str", FALSE)
  \union Own({"strim"}, <<"cx", "k", "1", "2", "out">>, "str", FALSE)
  \union
  { Site({"strip_accents"}, "h_sstrip", <<"cx", "1", "out">>, "str", FALSE),
    Site({"reverse"}, "h_srev", <<"cx", "1", "out">>, "str", FALSE),
    Site({"upper", "lower"}, "h_scase", <<"cx", "1", "k", "out">>, "str", FALSE),
    Site({"ssubstr"}, "h_ssubstr", <<"cx", "1", "2", "k", "k", "out">>, "str", TRUE),
    Site({"ssubstr.len"}, "h_ssubstr", <<"cx", "1", "2", "3", "k", "out">>, "str", TRUE) }

UnarySites ==
  Own({"fround", "fexp", "fcbrt"}, <<"1">>, "ret", FALSE)
  \union Own({"iabs", "ln", "log2", "log10", "fsqrt", "fsin", "fcos", "ftan"},
             <<"cx", "1">>, "ret", TRUE)
  \union { Site({"habs"}, "h_hugeint_abs", <<"cx", "1", "out">>, "cell", TRUE) }

Sites == BinarySites \union DecimalSites \union CompareSites \union ConvertSites
           \union SearchSites \union StringSites \union UnarySites
SiteOf(op) == CHOOSE s \in Sites : op \in s.ops

\* The numbers a site passes, in order.
EncodePred(p) == [eq |-> 0, ne |-> 1, lt |-> 2, le |-> 3, gt |-> 4, ge |-> 5][p]
Which(names, op) == (CHOOSE i \in DOMAIN names : names[i] = op) - 1

DecimalNumbers(op, imm) ==
  CASE op \in {"dadd", "dsub", "dmul", "drem"} ->
         << Which(<<"dadd", "dsub", "dmul", "drem">>, op) * 100 + imm[1] >>
    [] op \in {"dabs", "dceil", "dfloor", "dround", "dtrunc"} ->
         << Which(<<"dabs", "dceil", "dfloor", "dround", "dtrunc">>, op) * 10000
              + imm[1] * 100 + imm[2] >>
    [] OTHER -> [i \in DOMAIN imm |-> TyCode(imm[i])]

Numbers(op, imm) ==
  CASE op \in {"fcmp", "scmp"} -> << EncodePred(imm[1]) >>
    [] op \in Range(HOps) -> << Which(HOps, op) >>
    [] op \in {"dadd", "dsub", "dmul", "drem", "dabs", "dceil", "dfloor", "dround", "dtrunc",
               "dcast.dd", "dcast.di", "dcast.id", "dcast_ok.d", "dcast_ok.i",
               "ston.d", "ston.i"} -> DecimalNumbers(op, imm)
    [] op = "slike"     -> <<imm[1], 0, 0, 0>>
    [] op = "slike.esc" -> <<imm[1], 1>>
    [] op \in {"levenshtein", "damerau", "hamming"} ->
         << Which(<<"levenshtein", "damerau", "hamming">>, op) >>
    [] op \in {"contains", "starts", "ends", "glob"} ->
         << Which(<<"contains", "starts", "ends", "glob">>, op) >>
    [] op \in {"replace", "translate"} -> << Which(<<"replace", "translate">>, op) >>
    [] op \in {"upper", "lower"} -> << Which(<<"lower", "upper">>, op) >>
    [] op = "strim" -> << Which(<<"both", "lead", "trail">>, imm[1]) >>
    [] op = "ssubstr"     -> <<0, 0>>
    [] op = "ssubstr.len" -> <<1>>
    [] OTHER -> imm

-----------------------------------------------------------------------------
(* One instruction becomes steps of CLIF. `at' is <<b, j>>, ops the names  *)
(* of its operands' CLIF values, one or two per operand.                   *)

Name(at, q, r) == at \o <<q, r>>
Load(slot, off, c, id) == Clif("stack_load", <<slot, off, c>>, <<>>, <<id>>)
Save(slot, off, v)     == Clif("stack_store", <<slot, off>>, <<v>>, <<>>)
Addr(slot, id) == Clif("stack_addr", <<slot>>, <<>>, <<id>>)
Icon(n, id)    == Clif("iconst", <<I64, n>>, <<>>, <<id>>)
CheckFlag      == Clif("check", <<>>, <<>>, <<>>)
CallTo(h, args, res) == Clif("call", <<h>>, args, res)

\* An operand as it crosses a call: a 128-bit value in two halves.
Passed1(at, q, lane, words) ==
  IF lane # "dec" THEN [pre |-> <<>>, use |-> words]
  ELSE [pre |-> << Clif("isplit", <<>>, words, <<Name(at, q, 1), Name(at, q, 2)>>) >>,
        use |-> <<Name(at, q, 1), Name(at, q, 2)>>]

PassItem(at, q, pass, inst, ops) ==
  LET t  == pass[q]
      id == Name(at, q, 1)
      k  == Cardinality({ i \in 1 .. q : pass[i] = "k" })
      n  == CASE t = "2" -> 2 [] t = "3" -> 3 [] OTHER -> 1
  IN  CASE t = "cx"  -> [pre |-> <<>>, use |-> <<CxValue>>]
        [] t = "k"   -> [pre |-> << Icon(Numbers(inst.op, inst.imm)[k], id) >>, use |-> <<id>>]
        [] t = "out" -> [pre |-> << Addr("out", id) >>, use |-> <<id>>]
        [] t = "w1"  -> [pre |-> << Clif("sextend", <<>>, ops[1], <<Name(at, q, 3)>>) >>
                                   \o Passed1(at, q, "dec", <<Name(at, q, 3)>>).pre,
                         use |-> <<id, Name(at, q, 2)>>]
        [] OTHER     -> Passed1(at, q, inst.uses[n].ty, ops[n])

CallSite(at, site, inst, ops) ==
  LET items == [q \in DOMAIN site.pass |-> PassItem(at, q, site.pass, inst, ops)]
      n     == Len(site.pass)
      got   == Name(at, n + 1, 1)
      mem   == Name(at, n + 2, 1)
      loads == CASE site.res = "str" -> << Load("out", 0, I64, mem) >>
                 [] site.res \in {"cell", "flagcell"} -> << Load("out", 0, I128, mem) >>
                 [] site.res \in {"cell64", "flagcell64"} -> << Load("out", 0, I64, mem) >>
                 [] site.res = "flag8" -> << Load("out", 0, I8, mem) >>
                 [] site.res = "ret" -> <<>>
  IN  [ code  |-> FlattenSeq([q \in DOMAIN items |-> items[q].pre])
                    \o << CallTo(site.helper, FlattenSeq([q \in DOMAIN items |-> items[q].use]),
                                 IF site.res \in {"cell", "cell64"} THEN <<>> ELSE <<got>>) >>
                    \o (IF site.check THEN <<CheckFlag>> ELSE <<>>) \o loads,
        gives |-> CASE site.res = "ret" -> << <<got>> >>
                    [] site.res = "str" -> << <<got, mem>> >>
                    [] site.res \in {"cell", "cell64"} -> << <<mem>> >>
                    [] site.res = "flag8" -> << <<mem>>, <<got>> >>
                    [] site.res \in {"flagcell", "flagcell64"} -> << <<got>>, <<mem>> >> ]

\* Opcodes that are CLIF instructions themselves.
PureClif ==
  [fadd |-> "fadd", fsub |-> "fsub", fmul |-> "fmul", fdiv |-> "fdiv",
   iand |-> "band", hand |-> "band", and |-> "band", ior |-> "bor", hor |-> "bor", or |-> "bor",
   ixor |-> "bxor", hxor |-> "bxor", xor |-> "bxor", dadd |-> "iadd", dsub |-> "isub",
   dmul |-> "imul", fabs |-> "fabs", fneg |-> "fneg", ffloor |-> "floor", fceil |-> "ceil",
   ftrunc |-> "trunc", icmp |-> "icmp", dcmp |-> "icmp", not |-> "bxor_imm"]

IsPure(inst) ==
  /\ inst.op \in DOMAIN PureClif
       \union {"ishr", "itof", "select.f64", "select.str", "const.i1", "const.i64",
               "const.f64", "const.dec"}
  /\ inst.op \in {"dadd", "dsub", "dmul"} => inst.imm[1] = 0

PureCode(at, inst, ops) ==
  LET id(q)  == Name(at, q, 1)
      one(c) == [code |-> <<c>>, gives |-> << c.res >>]
      pick(q, i) == Clif("select", <<>>, <<ops[1][1], ops[2][i], ops[3][i]>>, <<id(q)>>)
  IN  CASE inst.op = "ishr" ->
             [code |-> << Clif("icmp_imm", <<"ult", 64>>, ops[2], <<id(1)>>),
                          Clif("sshr", <<>>, ops[1] \o ops[2], <<id(2)>>),
                          Icon(0, id(3)),
                          Clif("select", <<>>, <<id(1), id(2), id(3)>>, <<id(4)>>) >>,
              gives |-> << <<id(4)>> >>]
        [] inst.op = "itof" /\ inst.imm[1] # 0 ->
             [code |-> << Clif("fcvt_to_f32", <<>>, ops[1], <<id(1)>>),
                          Clif("fpromote", <<>>, <<id(1)>>, <<id(2)>>) >>,
              gives |-> << <<id(2)>> >>]
        [] inst.op = "itof" -> one(Clif("fcvt_from_sint", <<>>, ops[1], <<id(1)>>))
        [] inst.op = "select.f64" -> one(pick(1, 1))
        [] inst.op = "select.str" ->
             [code |-> << pick(1, 1), pick(2, 2) >>, gives |-> << <<id(1), id(2)>> >>]
        [] inst.op = "const.i1"  -> one(Clif("iconst", <<I8, inst.imm[1]>>, <<>>, <<id(1)>>))
        [] inst.op = "const.i64" -> one(Icon(inst.imm[1], id(1)))
        [] inst.op = "const.f64" -> one(Clif("f64const", inst.imm, <<>>, <<id(1)>>))
        [] inst.op = "const.dec" ->
             [code |-> << Clif("half", <<"lo", inst.imm[1]>>, <<>>, <<id(1)>>),
                          Clif("half", <<"hi", inst.imm[1]>>, <<>>, <<id(2)>>),
                          Clif("iconcat", <<>>, <<id(1), id(2)>>, <<id(3)>>) >>,
              gives |-> << <<id(3)>> >>]
        [] OTHER -> one(Clif(PureClif[inst.op], inst.imm, FlattenSeq(ops), <<id(1)>>))

ConstStrCode(at, inst) ==
  LET id(q) == Name(at, q, 1) IN
  [ code  |-> << Clif("text", inst.imm, <<>>, <<id(1)>>),
                 Clif("text_len", inst.imm, <<>>, <<id(2)>>),
                 CallTo("h_const_str", <<CxValue, id(1), id(2)>>, <<id(3)>>) >>,
    gives |-> << <<id(3), id(2)>> >> ]

-----------------------------------------------------------------------------
(* Columns, statics and calls out of the program.                          *)

LoadHelper  == [i1 |-> "h_load_i1", i64 |-> "h_load_i64", f64 |-> "h_load_f64",
                str |-> "h_load_str", dec |-> "h_load_dec"]
StoreHelper == [i1 |-> "h_store_i1", i64 |-> "h_store_i64", f64 |-> "h_store_f64",
                str |-> "h_store_str", dec |-> "h_store_dec"]
TypeOf(lane) == CASE lane = "i1" -> I8 [] lane = "f64" -> F64 [] lane = "dec" -> I128
                  [] OTHER -> I64

\* The payload of a column: under opt the helper of a 128-bit lane is told so.
Payload(at, inst, lane, opt) ==
  LET id(q) == Name(at, q, 1)
      col   == Clif("colno", inst.imm, <<>>, <<id(1)>>)
      byte  == Clif("iconst", <<I8, opt>>, <<>>, <<id(2)>>)
  IN  CASE lane = "str" ->
             [code |-> << col, Addr("out", id(3)),
                          CallTo("h_load_str", <<CxValue, id(1), id(3)>>, <<id(4)>>),
                          Load("out", 0, I64, id(5)) >>,
              give |-> <<id(4), id(5)>>]
        [] lane = "dec" ->
             [code |-> << col, byte, Addr("out", id(3)),
                          CallTo("h_load_dec", <<CxValue, id(1), id(2), id(3)>>, <<id(4)>>),
                          Load("out", 0, I64, id(5)),
                          Clif("iconcat", <<>>, <<id(4), id(5)>>, <<id(6)>>) >>,
              give |-> <<id(6)>>]
        [] OTHER ->
             [code |-> << col, CallTo(LoadHelper[lane], <<CxValue, id(1)>>, <<id(4)>>) >>,
              give |-> <<id(4)>>]

LoadCode(at, inst) ==
  LET c == Payload(at, inst, inst.dsts[1].ty, 0)
  IN  [code |-> c.code, gives |-> << c.give >>]

\* A NULL cell may hold anything: where the helper does not, the code replaces
\* it by the default.
LoadOptCode(at, inst) ==
  LET lane == inst.dsts[2].ty
      c    == Payload(at, inst, lane, 1)
      id(q) == Name(at, q, 1)
      valid == << Clif("colno", inst.imm, <<>>, <<id(7)>>),
                  CallTo("h_load_valid", <<CxValue, id(7)>>, <<id(8)>>) >>
      zero  == Clif(IF lane = "f64" THEN "f64const" ELSE "iconst",
                    CASE lane = "f64" -> <<0>> [] lane = "i1" -> <<I8, 0>> [] OTHER -> <<I64, 0>>,
                    <<>>, <<id(9)>>)
      pick(i) == Clif("select", <<>>, <<id(8), c.give[i], id(9)>>, <<id(9 + i)>>)
  IN  IF lane = "dec" THEN [code |-> valid \o c.code, gives |-> << <<id(8)>>, c.give >>]
      ELSE [code  |-> valid \o c.code \o <<zero>> \o [i \in DOMAIN c.give |-> pick(i)],
            gives |-> << <<id(8)>>, [i \in DOMAIN c.give |-> id(9 + i)] >>]

StoreCode(at, inst, ops) ==
  LET opt  == inst.op = "store.opt"
      lane == inst.uses[Len(inst.uses)].ty
      flag == IF opt THEN ops[1][1] ELSE Name(at, 1, 1)
      val  == Passed1(at, 3, lane, ops[Len(ops)])
  IN  [ code  |-> (IF opt THEN <<>> ELSE << Clif("iconst", <<I8, 1>>, <<>>, <<flag>>) >>)
                    \o << Clif("colno", <<inst.col>>, <<>>, <<Name(at, 2, 1)>>) >> \o val.pre
                    \o << CallTo(StoreHelper[lane],
                                 <<CxValue, Name(at, 2, 1), flag>> \o val.use, <<>>) >>,
        gives |-> <<>> ]

\* A value into cell i of the keys: a str fills it, a 128-bit value fills it in
\* one store, the others are widened to its first word.
KeyCell(at, q, i, lane, words) ==
  LET wide == [i1 |-> "uextend", f64 |-> "bitcast"]
      id   == Name(at, q, 1)
  IN  IF lane \in DOMAIN wide
      THEN << Clif(wide[lane], <<I64>>, words, <<id>>), Save("keys", 2 * i, id) >>
      ELSE [k \in DOMAIN words |-> Save("keys", 2 * i + k - 1, words[k])]

\* A value of a lane out of cell i of the answers.
ReadCell(at, q, i, lane) ==
  LET id(r) == Name(at, q, r) IN
  CASE lane \in {"i1", "f64"} ->
         [code |-> << Load("vals", 2 * i, I64, id(1)),
                      Clif(IF lane = "i1" THEN "ireduce" ELSE "bitcast", <<TypeOf(lane)>>,
                           <<id(1)>>, <<id(2)>>) >>, give |-> <<id(2)>>]
    [] lane = "str" ->
         [code |-> << Load("vals", 2 * i, I64, id(1)), Load("vals", 2 * i + 1, I64, id(2)) >>,
          give |-> <<id(1), id(2)>>]
    [] OTHER -> [code |-> << Load("vals", 2 * i, TypeOf(lane), id(1)) >>, give |-> <<id(1)>>]

KeyCells1(at, inst, ops) ==
  FlattenSeq([i \in DOMAIN ops |-> KeyCell(at, i, i - 1, inst.uses[i].ty, ops[i])])

ProbeCode(at, inst, ops) ==
  LET n     == Len(ops)
      id(q) == Name(at, n + q, 1)
      vals  == [i \in 1 .. Len(inst.dsts) - 1 |-> ReadCell(at, n + 4 + i, i - 1, inst.dsts[i + 1].ty)]
  IN  [ code  |-> KeyCells1(at, inst, ops)
                    \o << Clif("desc", <<inst>>, <<>>, <<id(1)>>), Addr("keys", id(2)), Addr("vals", id(3)),
                          CallTo("h_probe", <<CxValue, id(1), id(2), id(3)>>, <<id(4)>>) >>
                    \o FlattenSeq([i \in DOMAIN vals |-> vals[i].code]),
        gives |-> << <<id(4)>> >> \o [i \in DOMAIN vals |-> vals[i].give] ]

ExternCode(at, inst, ops) ==
  LET n     == Len(ops)
      id(q) == Name(at, n + q, 1)
      vals  == [i \in DOMAIN inst.dsts |-> ReadCell(at, n + 4 + i, i - 1, inst.dsts[i].ty)]
  IN  [ code  |-> KeyCells1(at, inst, ops)
                    \o << Clif("desc", <<inst>>, <<>>, <<id(1)>>), Addr("keys", id(2)), Addr("vals", id(3)),
                          CallTo("h_extern", <<CxValue, id(1), id(2), id(3)>>, <<>>), CheckFlag >>
                    \o FlattenSeq([i \in DOMAIN vals |-> vals[i].code]),
        gives |-> [i \in DOMAIN vals |-> vals[i].give] ]

\* Features lie side by side, 8 bytes each, from the second operand on.
PredictCode(at, inst, ops) ==
  LET id(q) == Name(at, q, 1) IN
  [ code  |-> [i \in 1 .. Len(ops) - 1 |-> Save("vals", i - 1, ops[i + 1][1])]
                \o << Icon(inst.imm[1], id(1)), Icon(Len(ops) - 1, id(2)), Addr("vals", id(3)),
                      CallTo("h_predict", <<CxValue, id(1), id(2), ops[1][1], id(3)>>, <<id(4)>>),
                      CheckFlag >>,
    gives |-> << <<id(4)>> >> ]

SloadCode(at, inst) ==
  LET id(q) == Name(at, q, 1)
      opt   == inst.op = "sload.opt"
      c     == ReadCell(at, 6, 0, inst.dsts[Len(inst.dsts)].ty)
  IN  [ code  |-> << Icon(inst.imm[1], id(1)), Addr("out", id(2)), Addr("vals", id(3)),
                     CallTo("h_sload", <<CxValue, id(1), id(2), id(3)>>, <<>>) >>
                    \o (IF opt THEN << Load("out", 0, I8, id(5)) >> ELSE <<>>) \o c.code,
        gives |-> (IF opt THEN << <<id(5)>> >> ELSE <<>>) \o << c.give >> ]

TranslateInst(at, inst, ops) ==
  CASE inst.op \in {"store", "store.opt"} -> StoreCode(at, inst, ops)
    [] inst.op = "load"      -> LoadCode(at, inst)
    [] inst.op = "load.opt"  -> LoadOptCode(at, inst)
    [] inst.op \in {"sload", "sload.opt"} -> SloadCode(at, inst)
    [] inst.op = "probe"     -> ProbeCode(at, inst, ops)
    [] inst.op = "predict"   -> PredictCode(at, inst, ops)
    [] inst.op = "ecall"     -> ExternCode(at, inst, ops)
    [] inst.op = "const.str" -> ConstStrCode(at, inst)
    [] IsPure(inst)          -> PureCode(at, inst, ops)
    [] OTHER                 -> CallSite(at, SiteOf(inst.op), inst, ops)

-----------------------------------------------------------------------------
(* Blocks and the function.                                                *)

\* Per block, the CLIF values of each IR value, one or two each.
ParamWords(b, i, ty) ==
  IF ty = "str" THEN <<Name(<<b, 0>>, i, 1), Name(<<b, 0>>, i, 2)>> ELSE <<Name(<<b, 0>>, i, 1)>>

BlockParams(p, b) ==
  [v \in ParamVals(p, b) |->
     LET i == CHOOSE i \in DOMAIN p[b].params : p[b].params[i].val = v
     IN  ParamWords(b, i, p[b].params[i].ty)]

BlockCode(p, b) ==
  FoldLeft(LAMBDA acc, j :
             LET inst == p[b].insts[j]
                 t    == TranslateInst(<<b, j>>, inst,
                           [i \in DOMAIN inst.uses |-> acc.vals[inst.uses[i].val]])
             IN  [code |-> acc.code \o t.code,
                  vals |-> [v \in { inst.dsts[i].val : i \in DOMAIN inst.dsts } |->
                              t.gives[CHOOSE i \in DOMAIN inst.dsts : inst.dsts[i].val = v]]
                           @@ acc.vals],
           [code |-> <<>>, vals |-> BlockParams(p, b)],
           [j \in DOMAIN p[b].insts |-> j])

\* Traps of the program are numbered from 3 in the order of their blocks.
TrapMsgs(p) == SetToSortSeq({ b \in Blocks(p) : p[b].term.op = "trap" }, LAMBDA x, y : x < y)

Terminate(p, b, vals) ==
  LET term == p[b].term
      way(i) == Dest(<<term.edges[i].to, 0>>,
                     FlattenSeq([k \in DOMAIN term.edges[i].args |-> vals[term.edges[i].args[k]]]))
  IN  CASE term.op = "jump" -> Ender("jump", <<>>, <<>>, << way(1) >>)
        [] term.op = "brif" -> Ender("brif", <<>>, vals[term.cond], << way(1), way(2) >>)
        [] term.op = "emit" -> Ender("return", <<0>>, <<>>, <<>>)
        [] term.op = "skip" -> Ender("return", <<1>>, <<>>, <<>>)
        [] term.op = "trap" ->
             Ender("return", << 2 + CHOOSE i \in DOMAIN TrapMsgs(p) : TrapMsgs(p)[i] = b >>,
                   <<>>, <<>>)

\* trap_check: the flag is read, and the code goes on in a new piece.
Pieces(b, code, end) ==
  LET cut(acc, c) ==
        IF c.op # "check"
        THEN [acc EXCEPT ![Len(acc)] = Append(@, c)]
        ELSE LET k    == Len(acc)
                 flag == Name(<<b, -k>>, 0, 0)
             IN  Append([acc EXCEPT ![k] =
                           @ \o << Clif("flag", <<>>, <<CxValue>>, <<flag>>),
                                   Ender("brif", <<>>, <<flag>>,
                                         << Dest(TrapExit, <<>>), Dest(<<b, k>>, <<>>) >>) >>],
                        <<>>)
      parts == FoldLeft(cut, << <<>> >>, code)
  IN  [parts EXCEPT ![Len(parts)] = Append(@, end)]

BlockPieces(p, b) ==
  LET t      == BlockCode(p, b)
      parts  == Pieces(b, t.code, Terminate(p, b, t.vals))
      params == FlattenSeq([i \in DOMAIN p[b].params |-> ParamWords(b, i, p[b].params[i].ty)])
  IN  [n \in { <<b, k - 1>> : k \in DOMAIN parts } |->
         [params |-> IF n[2] = 0 THEN params ELSE <<>>, insts |-> parts[n[2] + 1]]]

Build(p) ==
  FoldLeft(LAMBDA fn, b : BlockPieces(p, b) @@ fn,
           (EntryName :> [params |-> <<>>,
                          insts |-> << Ender("jump", <<>>, <<>>, << Dest(<<0, 0>>, <<>>) >>) >>])
             @@ (TrapExit :> [params |-> <<>>,
                              insts |-> << Ender("return", <<2>>, <<>>, <<>>) >>]),
           [b \in 1 .. Cardinality(Blocks(p)) |-> b - 1])
=============================================================================
