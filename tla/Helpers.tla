------------------------------ MODULE Helpers ------------------------------
(***************************************************************************)
(* The functions compiled code calls (exec/cranelift.rs, `extern "C" fn    *)
(* h_...'): what their parameters are, what they return and what they      *)
(* write through a pointer; and, apart from that, the signatures under     *)
(* which compiled code calls them (helper_sig). Nothing in the build       *)
(* compares the two.                                                       *)
(*                                                                         *)
(* A machine word is [c, w, t]: its type c, which part w of a value it is, *)
(* and the value t, a term of RowOps. A string travels as two words, off   *)
(* and len; a 128-bit value as lo and hi where it crosses a call.          *)
(***************************************************************************)
EXTENDS RowOps

I64 == "I64"   \* also the type of a pointer
F64 == "F64"
I8  == "I8"
I128 == "I128" \* never crosses a call

Word(c, w, t) == [c |-> c, w |-> w, t |-> t]
Const(n) == Word(I64, "const", Lit(n))
Junk     == K(<<"junk">>, <<>>)
JunkWord == Word("any", "any", Junk)

\* Types that cross a call as a number: an integer width, or a DECIMAL's
\* width and scale.
Ty(n)     == [n |-> n, p |-> 0, s |-> 0]
DecTy(p, s) == [n |-> "dec", p |-> p, s |-> s]
LaneOf(t) == IF t.n \in {"i128", "u64", "dec"} THEN "dec" ELSE "i64"

IntTypes == [i8 |-> 8, i16 |-> 16, i32 |-> 32, u8 |-> 108, u16 |-> 116, u32 |-> 132,
             u64 |-> 164, i128 |-> 128]
TyCode(t) == IF t.n \in DOMAIN IntTypes THEN IntTypes[t.n]
             ELSE IF t.n = "dec" THEN 1000 + 100 * t.p + t.s
             ELSE 64
TyOfCode(c) == IF c = 64 THEN Ty("i64")
               ELSE IF \E n \in DOMAIN IntTypes : IntTypes[n] = c
               THEN Ty(CHOOSE n \in DOMAIN IntTypes : IntTypes[n] = c)
               ELSE DecTy((c - 1000) \div 100, (c - 1000) % 100)

-----------------------------------------------------------------------------
(* The declarations. A parameter is cx (the row's context), k (a number    *)
(* known at compile time; k8 in a byte), a value of a lane (i, f, b, s for *)
(* str, d for dec), or a pointer: out, flag, keys, outs, feats, desc.      *)

Decl(names, params, ret, gives, traps) ==
  [names |-> names, params |-> params, ret |-> ret, gives |-> gives, traps |-> traps]

\* gives: "ret" returns the value; "str" returns off, writes len; "cell" writes
\* the 16 bytes; "flag8" writes the flag, returns the value; "flagcell" returns
\* the flag, writes the 16 bytes. traps: a failing kernel sets the trap.
NumberDecls ==
  { Decl({"h_iadd", "h_isub", "h_imul", "h_idiv", "h_irem", "h_ishl"},
         <<"cx", "i", "i">>, I64, "ret", TRUE),
    Decl({"h_frem", "h_fpow", "h_ffloordiv", "h_ffloormod", "h_fnextafter"},
         <<"f", "f">>, F64, "ret", FALSE),
    Decl({"h_fround", "h_fexp", "h_fcbrt"}, <<"f">>, F64, "ret", FALSE),
    Decl({"h_ln", "h_log2", "h_log10", "h_fsqrt", "h_fsin", "h_fcos", "h_ftan"},
         <<"cx", "f">>, F64, "ret", TRUE),
    Decl({"h_flogb"}, <<"cx", "f", "f">>, F64, "ret", TRUE),
    Decl({"h_iabs"}, <<"cx", "i">>, I64, "ret", TRUE),
    Decl({"h_ftoi"}, <<"cx", "f", "k">>, I64, "ret", TRUE),
    Decl({"h_fcmp"}, <<"f", "f", "k">>, I8, "ret", FALSE),
    Decl({"h_round2f"}, <<"f", "i", "k">>, F64, "ret", FALSE),
    Decl({"h_round2i"}, <<"i", "i", "k">>, I64, "ret", FALSE) }

DecimalDecls ==
  { Decl({"h_dec_to_f64"}, <<"d", "k">>, F64, "ret", FALSE),
    Decl({"h_dec_arith", "h_hugeint_arith"}, <<"cx", "d", "d", "k", "out">>, "", "cell", TRUE),
    Decl({"h_dec_cast"}, <<"cx", "d", "k", "k", "out">>, "", "cell", TRUE),
    Decl({"h_dec_unary"}, <<"d", "k", "out">>, "", "cell", FALSE),
    Decl({"h_dec_cast_ok"}, <<"d", "k", "k">>, I8, "ret", FALSE),
    Decl({"h_dtos"}, <<"cx", "d", "k", "out">>, I64, "str", FALSE),
    Decl({"h_hugeint_abs"}, <<"cx", "d", "out">>, "", "cell", TRUE),
    Decl({"h_htof"}, <<"d">>, F64, "ret", FALSE),
    Decl({"h_ftoh"}, <<"f", "out">>, "", "cell", FALSE),
    Decl({"h_htos"}, <<"cx", "d", "out">>, I64, "str", FALSE),
    Decl({"h_ston"}, <<"cx", "s", "k", "out">>, I8, "flagcell", FALSE),
    Decl({"h_int_to_dec"}, <<"i", "k", "out">>, "", "cell", FALSE) }

\* String functions that answer with a number.
SearchDecls ==
  { Decl({"h_slike"}, <<"cx", "k", "s", "s", "k", "s">>, I8, "ret", TRUE),
    Decl({"h_sfind"}, <<"cx", "s", "s">>, I64, "ret", FALSE),
    Decl({"h_spred"}, <<"cx", "k", "s", "s">>, I8, "ret", FALSE),
    Decl({"h_slen", "h_sord"}, <<"cx", "k", "s">>, I64, "ret", FALSE),
    Decl({"h_scmp"}, <<"cx", "s", "s", "k">>, I8, "ret", FALSE),
    Decl({"h_ssim"}, <<"cx", "k", "s", "s">>, I64, "ret", TRUE),
    Decl({"h_sjaccard"}, <<"cx", "s", "s">>, F64, "ret", TRUE),
    Decl({"h_rematch"}, <<"cx", "k", "s">>, I8, "ret", FALSE),
    Decl({"h_stoi"}, <<"cx", "s", "out">>, I64, "flag8", FALSE),
    Decl({"h_stof"}, <<"cx", "s", "out">>, F64, "flag8", FALSE) }

\* String functions that answer with a string.
StringDecls ==
  { Decl({"h_itos"}, <<"cx", "i", "out">>, I64, "str", FALSE),
    Decl({"h_ftos"}, <<"cx", "f", "out">>, I64, "str", FALSE),
    Decl({"h_sconcat"}, <<"cx", "s", "s", "out">>, I64, "str", FALSE),
    Decl({"h_scase"}, <<"cx", "s", "k", "out">>, I64, "str", FALSE),
    Decl({"h_strim"}, <<"cx", "k", "s", "s", "out">>, I64, "str", FALSE),
    Decl({"h_ssubstr"}, <<"cx", "s", "i", "i", "k", "out">>, I64, "str", TRUE),
    Decl({"h_str3"}, <<"cx", "k", "s", "s", "s", "out">>, I64, "str", FALSE),
    Decl({"h_srepeat", "h_sextract"}, <<"cx", "s", "i", "out">>, I64, "str", TRUE),
    Decl({"h_reextract", "h_rereplace"}, <<"cx", "k", "k", "s", "out">>, I64, "str", FALSE),
    Decl({"h_spad"}, <<"cx", "k", "s", "i", "s", "out">>, I64, "str", TRUE),
    Decl({"h_sslice"}, <<"cx", "s", "i", "i", "out">>, I64, "str", FALSE),
    Decl({"h_sstrip", "h_srev"}, <<"cx", "s", "out">>, I64, "str", FALSE) }

\* Input and output columns, constants, and what lies outside the program.
\* What these do is said where they are called (CompiledRow).
ColumnDecls ==
  { Decl({"h_load_i1", "h_load_valid"}, <<"cx", "k">>, I8, "", FALSE),
    Decl({"h_load_i64"}, <<"cx", "k">>, I64, "", FALSE),
    Decl({"h_load_f64"}, <<"cx", "k">>, F64, "", FALSE),
    Decl({"h_load_dec"}, <<"cx", "k", "k8", "out">>, I64, "", FALSE),
    Decl({"h_load_str"}, <<"cx", "k", "out">>, I64, "", FALSE),
    Decl({"h_const_str"}, <<"cx", "k", "k">>, I64, "", FALSE),
    Decl({"h_store_i1"}, <<"cx", "k", "b", "b">>, "", "", FALSE),
    Decl({"h_store_i64"}, <<"cx", "k", "b", "i">>, "", "", FALSE),
    Decl({"h_store_f64"}, <<"cx", "k", "b", "f">>, "", "", FALSE),
    Decl({"h_store_dec"}, <<"cx", "k", "b", "d">>, "", "", FALSE),
    Decl({"h_store_str"}, <<"cx", "k", "b", "s">>, "", "", FALSE) }

OutsideDecls ==
  { Decl({"h_sload"}, <<"cx", "k", "flag", "outs">>, "", "", FALSE),
    Decl({"h_probe"}, <<"cx", "desc", "keys", "outs">>, I8, "", FALSE),
    Decl({"h_predict"}, <<"cx", "k", "k", "i", "feats">>, F64, "", TRUE),
    Decl({"h_extern"}, <<"cx", "desc", "keys", "outs">>, "", "", TRUE) }

KernelDecls == NumberDecls \union DecimalDecls \union SearchDecls \union StringDecls
Decls       == KernelDecls \union ColumnDecls \union OutsideDecls
DeclOf(h)   == CHOOSE d \in Decls : h \in d.names
IsKernel(h) == \E d \in KernelDecls : h \in d.names

-----------------------------------------------------------------------------
(* Which kernel a helper runs, from the numbers passed to it.              *)

Pred(k) == CASE k = 0 -> "eq" [] k = 1 -> "ne" [] k = 2 -> "lt"
             [] k = 3 -> "le" [] k = 4 -> "gt" [] OTHER -> "ge"
Flag(k) == IF k # 0 THEN 1 ELSE 0
Choice(names, k) == IF k + 1 < Len(names) THEN names[k + 1] ELSE names[Len(names)]

HOps == <<"hadd", "hsub", "hmul", "hdiv", "hrem">>

Suffix(t) == IF LaneOf(t) = "dec" THEN "d" ELSE "i"

DecimalKernel(h, k) ==
  CASE h \in {"h_dec_to_f64", "h_int_to_dec", "h_dtos"} ->
         << [h_dec_to_f64 |-> "dtof", h_int_to_dec |-> "itod", h_dtos |-> "dtos"][h], k >>
    [] h = "h_dec_arith" ->
         << Choice(<<"dadd", "dsub", "dmul", "drem">>, k[1] \div 100), <<k[1] % 100>> >>
    [] h = "h_dec_unary" ->
         << Choice(<<"dabs", "dceil", "dfloor", "dround", "dtrunc">>, k[1] \div 10000),
            << (k[1] \div 100) % 100, k[1] % 100 >> >>
    [] h \in {"h_dec_cast", "h_dec_cast_ok"} ->
         LET from == TyOfCode(k[1])  to == TyOfCode(k[2])
         IN  << IF h = "h_dec_cast" THEN "dcast." \o Suffix(from) \o Suffix(to)
                ELSE "dcast_ok." \o Suffix(from), <<from, to>> >>
    [] h = "h_hugeint_arith" -> << HOps[k[1] + 1], <<>> >>
    [] h = "h_ston" -> << "ston." \o Suffix(TyOfCode(k[1])), << TyOfCode(k[1]) >> >>

StringKernel(h, k) ==
  CASE h = "h_slike" -> << IF k[2] # 0 THEN "slike.esc" ELSE "slike", <<Flag(k[1])>> >>
    [] h = "h_spred" -> << Choice(<<"contains", "starts", "ends", "glob">>, k[1]), <<>> >>
    [] h = "h_ssim"  -> << Choice(<<"levenshtein", "damerau", "hamming">>, k[1]), <<>> >>
    [] h = "h_str3"  -> << Choice(<<"replace", "translate">>, k[1]), <<>> >>
    [] h = "h_scase" -> << IF k[1] # 0 THEN "upper" ELSE "lower", <<>> >>
    [] h = "h_strim" -> << "strim", << Choice(<<"both", "lead", "trail">>, k[1]) >> >>
    [] h = "h_ssubstr" -> << IF k[1] # 0 THEN "ssubstr.len" ELSE "ssubstr", <<>> >>
    [] h \in {"h_slen", "h_sord", "h_spad"} ->
         << [h_slen |-> "slen", h_sord |-> "sord", h_spad |-> "spad"][h], <<Flag(k[1])>> >>
    [] h = "h_rereplace" -> << "rereplace", << k[1], Flag(k[2]) >> >>
    [] h \in {"h_rematch", "h_reextract"} ->
         << [h_rematch |-> "rematch", h_reextract |-> "reextract"][h], k >>

\* Helpers of one kernel, named for it or nearly.
Renamed == [h_sfind |-> "find", h_sjaccard |-> "jaccard", h_srepeat |-> "repeat",
            h_sextract |-> "extract", h_sstrip |-> "strip_accents", h_srev |-> "reverse",
            h_hugeint_abs |-> "habs"]
Named(h) == IF h \in DOMAIN Renamed THEN Renamed[h]
            ELSE CHOOSE op \in PureOps : "h_" \o op = h

KernelOf(h, k) ==
  CASE h \in {"h_fcmp", "h_scmp"} -> << Named(h), << Pred(k[1]) >> >>
    [] h \in {"h_ftoi", "h_round2f", "h_round2i"} -> << Named(h), << Flag(k[1]) >> >>
    [] h \in {"h_dec_to_f64", "h_int_to_dec", "h_dtos", "h_dec_arith", "h_dec_unary",
              "h_dec_cast", "h_dec_cast_ok", "h_hugeint_arith", "h_ston"} -> DecimalKernel(h, k)
    [] h \in {"h_slike", "h_spred", "h_ssim", "h_str3", "h_scase", "h_strim", "h_ssubstr",
              "h_slen", "h_sord", "h_spad", "h_rereplace", "h_rematch", "h_reextract"} ->
         StringKernel(h, k)
    [] OTHER -> << Named(h), <<>> >>

-----------------------------------------------------------------------------
(* The words of a call, read the way the declaration reads them.           *)

Wide(p) == p \in {"s", "d"}
WordTypes(p) == CASE Wide(p) -> <<I64, I64>> [] p = "f" -> <<F64>>
                  [] p \in {"b", "k8"} -> <<I8>> [] OTHER -> <<I64>>
Abi(h) == FlattenSeq([i \in DOMAIN DeclOf(h).params |-> WordTypes(DeclOf(h).params[i])])

\* The value of two words taken for off and len, or for lo and hi.
Pair(x, y, parts) == IF x = Const(0) /\ y = Const(0) THEN Zero
                     ELSE IF <<x.w, y.w>> = parts /\ x.t = y.t THEN x.t ELSE Junk

\* An integer result of a DECIMAL cast is the low half of its 16 bytes.
Single(p, x) == CASE p = "i" -> IF x.w \in {"num", "lo", "const"} THEN x.t ELSE Junk
                  [] p \in {"f", "b"} -> IF x.w \in {"num", "const"} THEN x.t ELSE Junk
                  [] p \in {"k", "k8"} -> IF x.w = "const" THEN x.t ELSE Junk
                  [] OTHER -> x.t

\* The first word of parameter i: the wide ones before it take two each.
WordOf(h, i) == i + Cardinality({ j \in 1 .. i - 1 : Wide(DeclOf(h).params[j]) })

ReadParam(p, i, words) ==
  IF Wide(p) THEN Pair(words[i], words[i + 1], IF p = "s" THEN <<"off", "len">> ELSE <<"lo", "hi">>)
             ELSE Single(p, words[i])

ReadCall(h, words) ==
  [i \in DOMAIN DeclOf(h).params |-> ReadParam(DeclOf(h).params[i], WordOf(h, i), words)]

\* Of what a call reads, the compile-time numbers and the values.
Picked(h, got, kinds) ==
  LET at == SelectSeq([i \in DOMAIN got |-> i], LAMBDA i : DeclOf(h).params[i] \in kinds)
  IN  [k \in DOMAIN at |-> got[at[k]]]
Codes(h, got)  == LET c == Picked(h, got, {"k", "k8"})
                  IN  [i \in DOMAIN c |-> IF c[i].f[1] = "lit" THEN c[i].f[2] ELSE 0]
Values(h, got) == Picked(h, got, {"i", "f", "b", "s", "d"})

\* The kernel term of a call; parameters past the kernel's own are ignored.
CallTerm(h, words) ==
  LET got == ReadCall(h, words)
      f   == KernelOf(h, Codes(h, got))
  IN  K(f, SubSeq(Values(h, got), 1, Len(ShapeOf(f[1]).takes)))

-----------------------------------------------------------------------------
(* helper_sig: the types under which compiled code passes and receives.    *)

Sig(names, params, ret) == [names |-> names, params |-> params, ret |-> ret]
Times(n) == [i \in 1 .. n |-> I64]

Sigs ==
  { Sig({"h_load_i1", "h_load_valid"}, Times(2), I8),
    Sig({"h_load_i64", "h_iabs"}, Times(2), I64),
    Sig({"h_load_f64"}, Times(2), F64),
    Sig({"h_load_dec"}, <<I64, I64, I8, I64>>, I64),
    Sig({"h_load_str", "h_const_str", "h_itos", "h_iadd", "h_isub", "h_imul", "h_idiv",
         "h_irem", "h_ishl", "h_round2i"}, Times(3), I64),
    Sig({"h_frem", "h_fpow", "h_ffloordiv", "h_ffloormod", "h_fnextafter"}, <<F64, F64>>, F64),
    Sig({"h_fround", "h_fexp", "h_fcbrt"}, <<F64>>, F64),
    Sig({"h_ln", "h_log2", "h_log10", "h_fsqrt", "h_fsin", "h_fcos", "h_ftan"},
        <<I64, F64>>, F64),
    Sig({"h_flogb"}, <<I64, F64, F64>>, F64),
    Sig({"h_slen", "h_sord", "h_stoi", "h_sstrip", "h_srev", "h_htos"}, Times(4), I64),
    Sig({"h_rematch", "h_probe"}, Times(4), I8),
    Sig({"h_stof"}, Times(4), F64),
    Sig({"h_sfind", "h_srepeat", "h_sextract", "h_scase", "h_dtos"}, Times(5), I64),
    Sig({"h_sjaccard", "h_predict"}, Times(5), F64),
    Sig({"h_ston"}, Times(5), I8),
    Sig({"h_spred", "h_scmp"}, Times(6), I8),
    Sig({"h_ssim", "h_reextract", "h_rereplace", "h_sslice", "h_sconcat"}, Times(6), I64),
    Sig({"h_strim", "h_ssubstr"}, Times(7), I64),
    Sig({"h_spad"}, Times(8), I64),
    Sig({"h_str3"}, Times(9), I64),
    Sig({"h_slike"}, Times(9), I8),
    Sig({"h_round2f"}, <<F64, I64, I64>>, F64),
    Sig({"h_fcmp"}, <<F64, F64, I64>>, I8),
    Sig({"h_ftoi"}, <<I64, F64, I64>>, I64),
    Sig({"h_ftos"}, <<I64, F64, I64>>, I64),
    Sig({"h_store_i1"}, <<I64, I64, I8, I8>>, ""),
    Sig({"h_store_i64"}, <<I64, I64, I8, I64>>, ""),
    Sig({"h_store_f64"}, <<I64, I64, I8, F64>>, ""),
    Sig({"h_store_str", "h_store_dec"}, <<I64, I64, I8, I64, I64>>, ""),
    Sig({"h_dec_to_f64"}, Times(3), F64),
    Sig({"h_int_to_dec"}, Times(3), ""),
    Sig({"h_dec_unary", "h_hugeint_abs", "h_sload", "h_extern"}, Times(4), ""),
    Sig({"h_dec_arith", "h_hugeint_arith"}, Times(7), ""),
    Sig({"h_dec_cast"}, Times(6), ""),
    Sig({"h_dec_cast_ok"}, Times(4), I8),
    Sig({"h_htof"}, Times(2), F64),
    Sig({"h_ftoh"}, <<F64, I64>>, "") }

SigOf(h) == CHOOSE s \in Sigs : h \in s.names

\* Called under a signature that is not its declaration's, a helper reads and
\* returns whatever the registers hold.
SigFits(h) == SigOf(h).params = Abi(h) /\ SigOf(h).ret = DeclOf(h).ret
=============================================================================
