---------------------------- MODULE CompiledRow ----------------------------
(***************************************************************************)
(* Compiled queries (exec/cranelift.rs; specializer/mod.rs and             *)
(* duckdb/mod.rs where they choose the backend): a lowered program is      *)
(* refused for its size, left to the interpreter, or compiled; then one    *)
(* call runs the code once per input row. The module RowOps says what the  *)
(* interpreter would do with the same row.                                 *)
(*                                                                         *)
(* Values are terms of RowOps in words of Helpers; what a term turns out   *)
(* to be is asked when the code first depends on it (Observe).             *)
(***************************************************************************)
EXTENDS SizeFloor

CONSTANTS
  Queries,     \* [prog, rows, calls]: a lowered program and how it is used
  VregLimit,   \* VREG_LIMIT, on the floor
  IndexLimit   \* CL_INDEX_LIMIT, on the function as built

\* The program as the verifier sees it: no opcodes.
Bare(p) ==
  [b \in Blocks(p) |-> [p[b] EXCEPT !.insts =
     [i \in DOMAIN @ |-> [uses |-> @[i].uses, dsts |-> @[i].dsts, col |-> @[i].col]]]]

ASSUME QueriesAssumption ==
  \A q \in Queries :
    IsProgram(Bare(q.prog)) /\ Acyclic(q.prog) /\ Verified(q.prog)

VARIABLES
  query,      \* the query, of Queries
  state,      \* lowered, interpreter, refused, built, then ready, running, ok, err
  fn,         \* the function
  calls,      \* calls begun
  rows, row,  \* the batch of the call and the row being run
  emitted,    \* output rows of it so far
  published,  \* st.emitted
  out,        \* st.out: per column, [row, valid, val]
  pc,         \* <<block, instruction>>
  env, mem,   \* values, and the words of the scratch slots, of this row
  trap,       \* cx.trap: the call that failed, or nothing
  known       \* answers so far

rowVars  == <<pc, env, mem, trap>>
callVars == <<rows, row, emitted, published, out>>
vars     == <<query, state, fn, calls, callVars, rowVars, known>>

prog == query.prog
NoTrap == K(<<"none">>, <<>>)
StoredCols(p) == { c \in Cols : \E b \in Blocks(p) : StoreCount(p, b, c) > 0 }

-----------------------------------------------------------------------------
(* Choosing a backend and compiling.                                       *)

Init ==
  /\ query \in Queries
  /\ state = "lowered" /\ fn = <<>> /\ calls = 0
  /\ rows = 0 /\ row = 0 /\ emitted = 0 /\ published = 0
  /\ out = [c \in Cols |-> <<>>]
  /\ pc = <<EntryName, 1>> /\ env = <<>> /\ mem = <<>> /\ trap = NoTrap
  /\ known = <<>>

TooMany(p) == ~InterpOnly(p) /\ Total(VregFloor(p)) >= VregLimit

RefuseLarge ==
  /\ state = "lowered" /\ TooMany(prog)
  /\ state' = "refused"
  /\ UNCHANGED <<query, fn, calls, callVars, rowVars, known>>

\* The one fallback: Cranelift declines by name.
Decline ==
  /\ state = "lowered" /\ InterpOnly(prog)
  /\ state' = "interpreter"
  /\ UNCHANGED <<query, fn, calls, callVars, rowVars, known>>

InstCount(f)  == FoldFunction(+, 0, [b \in DOMAIN f |-> Len(f[b].insts)])
ValueCount(f) == FoldFunction(+, 0, [b \in DOMAIN f |->
                   Len(f[b].params) + FoldLeft(LAMBDA n, c : n + Len(c.res), 0, f[b].insts)])
FitsIndex(f)  == /\ InstCount(f) <= IndexLimit
                 /\ Cardinality(DOMAIN f) <= IndexLimit
                 /\ ValueCount(f) <= IndexLimit

Compile ==
  /\ state = "lowered" /\ ~InterpOnly(prog) /\ ~TooMany(prog)
  /\ \E f \in { ComputeOnce(Build(prog)) } :
       /\ fn' = f
       /\ state' = IF FitsIndex(f) THEN "built" ELSE "refused"
  /\ UNCHANGED <<query, calls, callVars, rowVars, known>>

\* Cranelift itself may still find the function too large.
Define ==
  /\ state = "built"
  /\ state' \in {"ready", "refused"}
  /\ UNCHANGED <<query, fn, calls, callVars, rowVars, known>>

-----------------------------------------------------------------------------
(* Words and the scratch slots.                                            *)

Num(c, t)  == Word(c, "num", t)
Part(i, t) == K(<<"part", i>>, <<t>>)

\* The words a value of a lane takes in a cell, and what is read back.
CellWords(lane, t) ==
  CASE lane = "str" -> << Word(I64, "off", t), Word(I64, "len", t) >>
    [] lane = "dec" -> << Word(I64, "lo", t), Word(I64, "hi", t) >>
    [] OTHER -> << Num(I64, t), Const(0) >>

MemAt(slot, i) == IF <<slot, i>> \in DOMAIN mem THEN mem[<<slot, i>>] ELSE JunkWord
InSlot(slot, i, n) == slot = "once" \/ i + n <= SlotWords(prog)[slot]

Written(m, slot, i, words) ==
  [k \in DOMAIN m \union { <<slot, i + j - 1>> : j \in DOMAIN words } |->
     IF k[1] = slot /\ k[2] - i + 1 \in DOMAIN words THEN words[k[2] - i + 1] ELSE m[k]]

ValueAt(slot, i, lane) ==
  CASE lane = "str" -> Pair(MemAt(slot, 2 * i), MemAt(slot, 2 * i + 1), <<"off", "len">>)
    [] lane = "dec" -> Pair(MemAt(slot, 2 * i), MemAt(slot, 2 * i + 1), <<"lo", "hi">>)
    [] OTHER -> MemAt(slot, 2 * i).t

\* The slot a pointer points at.
SlotOf(word) == word.t.f[2]

-----------------------------------------------------------------------------
(* What a call does: the questions it has, and with their answers the      *)
(* words it returns and writes, the cell it stores, the trap it sets.      *)

Outcome(ask, ret, wrote, stored, fails) ==
  [ask |-> ask, ret |-> ret, wrote |-> wrote, stored |-> stored, fails |-> fails,
   broken |-> FALSE]
Asking(qs)      == Outcome(qs, <<>>, <<>>, <<>>, NoTrap)
Returns(ret)    == Outcome({}, ret, <<>>, <<>>, NoTrap)
Leaving(ret, slot, i, words) == Outcome({}, ret, << <<slot, i, words>> >>, <<>>, NoTrap)
Stores(cell)    == Outcome({}, <<>>, <<>>, <<cell>>, NoTrap)
Broken          == [Returns(<< JunkWord >>) EXCEPT !.broken = TRUE]

Open(ts) == { t \in ts : ~Settled(known, t) }

\* A kernel: zeros and the trap where it fails.
KernelGives(d, t, ptr) ==
  CASE d.gives = "ret"  -> Returns(<< Num(d.ret, t) >>)
    [] d.gives = "str"  -> Leaving(<< Word(I64, "off", t) >>, ptr, 0, << Word(I64, "len", t) >>)
    [] d.gives = "cell" -> Leaving(<<>>, ptr, 0, CellWords("dec", t))
    [] d.gives = "flag8" -> Leaving(<< Num(d.ret, Part(2, t)) >>, ptr, 0, << Num(I8, Part(1, t)) >>)
    [] d.gives = "flagcell" -> Leaving(<< Num(I8, Part(1, t)) >>, ptr, 0,
                                       CellWords("dec", Part(2, t)))

KernelDoes(d, t, ptr) ==
  IF ~MayTrap(t.f[1], t.f[2]) THEN KernelGives(d, t, ptr)
  ELSE IF ~d.traps THEN Broken
  ELSE IF Open({Traps(t)}) # {} THEN Asking({Traps(t)})
  ELSE IF Answer(known, Traps(t)) THEN [KernelGives(d, Zero, ptr) EXCEPT !.fails = t]
  ELSE KernelGives(d, t, ptr)

KernelCall(h, words) == KernelDoes(DeclOf(h), CallTerm(h, words), SlotOf(words[Len(words)]))

LoadCall(h, words) ==
  LET imm == words[2].t.f[2]
      t   == LoadOf(imm, row)
      null == words[3].t # Zero /\ ~Answer(known, ValidOf(imm, row))
      d   == IF null THEN Zero ELSE t
  IN  CASE h = "h_load_valid" -> Returns(<< Num(I8, ValidOf(imm, row)) >>)
        [] h # "h_load_valid" /\ LoadHelper[imm[1]] # h -> Broken
        [] h = "h_load_str" -> Leaving(<< Word(I64, "off", t) >>, SlotOf(words[3]), 0,
                                       << Word(I64, "len", t) >>)
        [] h = "h_load_dec" ->
             IF words[3].t # Zero /\ Open({ValidOf(imm, row)}) # {}
             THEN Asking({ValidOf(imm, row)})
             ELSE Leaving(<< Word(I64, "lo", d) >>, SlotOf(words[4]), 0, << Word(I64, "hi", d) >>)
        [] OTHER -> Returns(<< Num(DeclOf(h).ret, t) >>)

ConstStr(words) == Returns(<< Word(I64, "off", IF words[2].t = words[3].t THEN words[2].t
                                               ELSE Junk) >>)

StoreCall(h, words) ==
  LET flag == words[3].t
      val  == CASE h = "h_store_str" -> Pair(words[4], words[5], <<"off", "len">>)
                [] h = "h_store_dec" -> Pair(words[4], words[5], <<"lo", "hi">>)
                [] OTHER -> words[4].t
  IN  IF Open({flag}) # {} THEN Asking({flag})
      ELSE Stores([col |-> words[2].t.f[2][1], row |-> row, valid |-> Answer(known, flag),
                   val |-> val])

\* Scalar statics 1 to 5 may be NULL, 6 to 10 not; one of each lane.
StaticLane(sid)     == <<"i1", "i64", "f64", "str", "dec">>[((sid - 1) % 5) + 1]
StaticNullable(sid) == sid <= 5

SloadCall(words) ==
  LET sid   == words[2].t.f[2]
      valid == IF StaticNullable(sid) THEN K(<<"svalid", <<sid>>>>, <<>>) ELSE Lit(1)
      t     == IF Answer(known, valid) THEN K(<<"static", <<sid>>>>, <<>>) ELSE Zero
  IN  IF Open({valid}) # {} THEN Asking({valid})
      ELSE [Returns(<<>>) EXCEPT !.wrote =
              << <<SlotOf(words[3]), 0, << Num(I8, valid) >> >>,
                 <<SlotOf(words[4]), 0, CellWords(StaticLane(sid), t)>> >>]

Desc(word) == word.t.f[2]   \* the instruction a descriptor was made from

ProbeCall(words) ==
  LET inst == Desc(words[2])
      keys == SlotOf(words[3])
      vals == SlotOf(words[4])
      args == [i \in DOMAIN inst.uses |-> ValueAt(keys, i - 1, inst.uses[i].ty)]
      hit  == K(<<"hit", inst.imm>>, args)
      val(i) == IF Answer(known, hit) THEN K(<<"entry", inst.imm, i>>, args) ELSE Zero
  IN  IF Open({hit}) # {} THEN Asking({hit})
      ELSE [Returns(<< Num(I8, hit) >>) EXCEPT !.wrote =
              [i \in 1 .. Len(inst.dsts) - 1 |->
                 <<vals, 2 * (i - 1), CellWords(inst.dsts[i + 1].ty, val(i))>>]]

PredictCall(words) ==
  LET feats == [i \in 1 .. words[3].t.f[2] |-> MemAt(SlotOf(words[5]), i - 1).t]
      t     == K(<<"predict", << words[2].t.f[2] >>>>, <<words[4].t>> \o feats)
  IN  IF Open({Traps(t)}) # {} THEN Asking({Traps(t)})
      ELSE IF Answer(known, Traps(t)) THEN [Returns(<< Num(F64, Zero) >>) EXCEPT !.fails = t]
      ELSE Returns(<< Num(F64, t) >>)

\* A failing callable leaves the cells as they are.
ExternCall(words) ==
  LET inst  == Desc(words[2])
      keys  == SlotOf(words[3])
      vals  == SlotOf(words[4])
      args  == [i \in DOMAIN inst.uses |-> ValueAt(keys, i - 1, inst.uses[i].ty)]
      flags == { args[2 * j - 1] : j \in 1 .. Len(args) \div 2 }
      t     == K(<<"ecall", inst.imm>>, CallArgs(known, args))
  IN  IF Open(flags) # {} THEN Asking(Open(flags))
      ELSE IF Open({Traps(t)}) # {} THEN Asking({Traps(t)})
      ELSE IF Answer(known, Traps(t)) THEN [Returns(<<>>) EXCEPT !.fails = t]
      ELSE [Returns(<<>>) EXCEPT !.wrote =
              [i \in DOMAIN inst.dsts |->
                 <<vals, 2 * (i - 1), CellWords(inst.dsts[i].ty, Part(i, t))>>]]

\* A call under another signature than the helper's own reads and returns
\* whatever the registers hold; one whose words are not what the signature
\* says is not compiled at all.
Agrees(h, words) ==
  /\ Len(words) = Len(SigOf(h).params)
  /\ \A i \in DOMAIN words : words[i].c = SigOf(h).params[i]

HelperCall(h, words) ==
  CASE ~Agrees(h, words) -> Broken
    [] Agrees(h, words) /\ ~SigFits(h) -> Returns(<< [JunkWord EXCEPT !.c = SigOf(h).ret] >>)
    [] Agrees(h, words) /\ SigFits(h) ->
       (CASE IsKernel(h) -> KernelCall(h, words)
          [] h = "h_const_str" -> ConstStr(words)
          [] h = "h_sload" -> SloadCall(words)
          [] h = "h_probe" -> ProbeCall(words)
          [] h = "h_predict" -> PredictCall(words)
          [] h = "h_extern" -> ExternCall(words)
          [] h \in Range(StoreHelper) -> StoreCall(h, words)
          [] OTHER -> LoadCall(h, words))

-----------------------------------------------------------------------------
(* What the other instructions of CLIF mean.                               *)

ByType(op, c) ==
  CASE op = "band" -> [I64 |-> "iand", I128 |-> "hand", I8 |-> "and"][c]
    [] op = "bor"  -> [I64 |-> "ior", I128 |-> "hor", I8 |-> "or"][c]
    [] op = "bxor" -> [I64 |-> "ixor", I128 |-> "hxor", I8 |-> "xor"][c]
    [] op = "icmp" -> [I64 |-> "icmp", I128 |-> "dcmp"][c]
    [] OTHER -> [iadd |-> "dadd", isub |-> "dsub", imul |-> "dmul", bxor_imm |-> "not",
                 floor |-> "ffloor", ceil |-> "fceil", trunc |-> "ftrunc", fadd |-> "fadd",
                 fsub |-> "fsub", fmul |-> "fmul", fdiv |-> "fdiv", fabs |-> "fabs",
                 fneg |-> "fneg"][op]

Literal(c) ==
  CASE c.op = "iconst" -> Word(c.imm[1], "const", Lit(c.imm[2]))
    [] c.op = "f64const" -> Word(F64, "const", Lit(c.imm[1]))
    [] c.op = "text" -> Word(I64, "ptr", Lit(c.imm[1]))
    [] c.op = "text_len" -> Word(I64, "len", Lit(c.imm[1]))
    [] c.op = "half" -> Word(I64, c.imm[1], Lit(c.imm[2]))
    [] c.op = "colno" -> Word(I64, "const", K(<<"colno", c.imm>>, <<>>))
    [] c.op = "desc" -> Word(I64, "ptr", K(<<"desc", c.imm[1]>>, <<>>))
    [] c.op = "stack_addr" -> Word(I64, "ptr", K(<<"slot", c.imm[1]>>, <<>>))
Literals == {"iconst", "f64const", "text", "text_len", "half", "colno", "desc", "stack_addr"}

Means(c, a) ==
  LET ts == [i \in DOMAIN a |-> a[i].t] IN
  CASE c.op \in Literals -> Literal(c)
    [] c.op = "select" -> a[IF Answer(known, ts[1]) THEN 2 ELSE 3]
    [] c.op = "icmp_imm" -> Num(I8, K(<<"inrange">>, ts))
    [] c.op = "sshr" -> Num(I64, K(<<"sshr">>, ts))
    [] c.op = "icmp" -> Num(I8, K(<<ByType("icmp", a[1].c), c.imm>>, ts))
    [] c.op \in {"uextend", "ireduce", "bitcast"} -> [a[1] EXCEPT !.c = c.imm[1]]
    [] c.op = "sextend" -> Num(I128, ts[1])
    [] c.op = "iconcat" -> Num(I128, Pair(a[1], a[2], <<"lo", "hi">>))
    [] c.op = "fcvt_to_f32" -> Num("F32", K(<<"f32">>, ts))
    [] c.op = "fpromote" -> Num(F64, K(<<"itof", <<1>>>>, ts[1].a))
    [] c.op = "fcvt_from_sint" -> Num(F64, K(<<"itof", <<0>>>>, ts))
    [] OTHER -> Num(a[1].c, K(<<ByType(c.op, a[1].c), c.imm>>, ts))

FromSlot(slot, i, c) ==
  IF c = I128 THEN Num(I128, Pair(MemAt(slot, i), MemAt(slot, i + 1), <<"lo", "hi">>))
  ELSE IF MemAt(slot, i).c = c THEN MemAt(slot, i) ELSE [JunkWord EXCEPT !.c = c]

ToSlot(w) == IF w.c = I128 THEN << Word(I64, "lo", w.t), Word(I64, "hi", w.t) >> ELSE <<w>>

-----------------------------------------------------------------------------
(* Running a row.                                                          *)

Running  == state = "running" /\ row < rows
Code     == fn[pc[1]].insts[pc[2]]
CxWord   == Word(I64, "ptr", K(<<"cx">>, <<>>))
ArgWords == [i \in DOMAIN Code.args |-> IF Code.args[i] = CxValue THEN CxWord
                                        ELSE env[Code.args[i]]]

Bound(params, words) ==
  [v \in Range(params) |-> words[CHOOSE i \in DOMAIN params : params[i] = v]]

\* What is asked before a choice is made.
Questions == IF Code.op \in {"select", "brif"} THEN Open({ArgWords[1].t}) ELSE {}

Learn(t) == \E a \in BOOLEAN : known' = (t :> a) @@ known

Observe ==
  /\ Running
  /\ \E t \in Questions : Learn(t)
  /\ UNCHANGED <<query, state, fn, calls, callVars, rowVars>>

Ready(op) == Running /\ Code.op = op
Advance   == pc' = <<pc[1], pc[2] + 1>>

Compute ==
  /\ Running /\ Questions = {} /\ IsPureClif(Code)
  /\ env' = (Code.res[1] :> Means(Code, ArgWords)) @@ env
  /\ Advance
  /\ UNCHANGED <<query, state, fn, calls, callVars, mem, trap, known>>

Split ==
  /\ Ready("isplit")
  /\ env' = Bound(Code.res, ToSlot(ArgWords[1])) @@ env
  /\ Advance
  /\ UNCHANGED <<query, state, fn, calls, callVars, mem, trap, known>>

StackLoad ==
  /\ Ready("stack_load")
  /\ env' = (Code.res[1] :> FromSlot(Code.imm[1], Code.imm[2], Code.imm[3])) @@ env
  /\ Advance
  /\ UNCHANGED <<query, state, fn, calls, callVars, mem, trap, known>>

StackStore ==
  /\ Ready("stack_store")
  /\ \E words \in { ToSlot(ArgWords[1]) } :
       /\ mem' = Written(mem, Code.imm[1], Code.imm[2], words)
       /\ state' = IF InSlot(Code.imm[1], Code.imm[2], Len(words)) THEN state ELSE "broken"
  /\ Advance
  /\ UNCHANGED <<query, fn, calls, callVars, env, trap, known>>

ReadFlag ==
  /\ Ready("flag")
  /\ env' = (Code.res[1] :> Word(I8, "const", Lit(IF trap = NoTrap THEN 0 ELSE 1))) @@ env
  /\ Advance
  /\ UNCHANGED <<query, state, fn, calls, callVars, mem, trap, known>>

\* A helper writes within its slots, and is called the way it was declared.
Sound(r) ==
  ~r.broken /\ \A i \in DOMAIN r.wrote : InSlot(r.wrote[i][1], r.wrote[i][2], Len(r.wrote[i][3]))

Pushed(o, s) ==
  [o EXCEPT ![s.col] = Append(@, [row |-> s.row, valid |-> s.valid, val |-> s.val])]

Done(r) ==
  /\ state' = IF Sound(r) THEN state ELSE "broken"
  /\ env' = Bound(Code.res, r.ret) @@ env
  /\ mem' = FoldLeft(LAMBDA m, w : Written(m, w[1], w[2], w[3]), mem, r.wrote)
  /\ trap' = IF r.fails = NoTrap THEN trap ELSE r.fails
  /\ out' = FoldLeft(Pushed, out, r.stored)
  /\ Advance
  /\ UNCHANGED known

Asked(r) ==
  /\ \E t \in r.ask : Learn(t)
  /\ UNCHANGED <<state, out, rowVars>>

Call ==
  /\ Ready("call")
  /\ \E r \in { HelperCall(Code.imm[1], ArgWords) } : IF r.ask = {} THEN Done(r) ELSE Asked(r)
  /\ UNCHANGED <<query, fn, calls, rows, row, emitted, published>>

Jump ==
  /\ Running /\ Questions = {} /\ Code.op \in {"jump", "brif"}
  /\ LET way == Code.dests[IF Code.op = "brif" /\ ~Answer(known, ArgWords[1].t) THEN 2 ELSE 1]
     IN  /\ pc' = <<way.to, 1>>
         /\ env' = Bound(fn[way.to].params, [i \in DOMAIN way.args |-> env[way.args[i]]]) @@ env
  /\ UNCHANGED <<query, state, fn, calls, callVars, mem, trap, known>>

\* The row is over. A trap voids the call where it is.
NewRow(r) == row' = r /\ pc' = <<EntryName, 1>> /\ env' = <<>> /\ mem' = <<>> /\ trap' = NoTrap

Return ==
  /\ Ready("return")
  /\ CASE Code.imm[1] = 0 -> emitted' = emitted + 1 /\ NewRow(row + 1) /\ UNCHANGED state
       [] Code.imm[1] = 1 -> NewRow(row + 1) /\ UNCHANGED <<emitted, state>>
       [] OTHER -> state' = "err" /\ UNCHANGED <<row, rowVars, emitted>>
  /\ UNCHANGED <<query, fn, calls, rows, published, out, known>>

-----------------------------------------------------------------------------
(* Calls.                                                                  *)

\* Only what is known of the statics holds for the next batch as well.
OfStatics(k) == [t \in { t \in DOMAIN k : t.f[1] = "svalid" } |-> k[t]]

Refuse ==
  /\ state \in {"ready", "ok"} /\ calls < query.calls
  /\ calls' = calls + 1
  /\ state' = "err"
  /\ UNCHANGED <<query, fn, callVars, rowVars, known>>

CountKept  == emitted' = 0 /\ out' = [c \in Cols |-> <<>>] /\ UNCHANGED published   \* mutant
EmptyBatch == emitted' = 0 /\ published' = 0 /\ out' = [c \in Cols |-> <<>>]

Begin ==
  /\ state \in {"ready", "ok", "err"} /\ calls < query.calls
  /\ calls' = calls + 1
  /\ state' = "running"
  /\ rows' = query.rows
  /\ EmptyBatch
  /\ NewRow(0)
  /\ known' = OfStatics(known)
  /\ UNCHANGED <<query, fn>>

Publish ==
  /\ state = "running" /\ row = rows
  /\ state' = "ok" /\ published' = emitted
  /\ UNCHANGED <<query, fn, calls, rows, row, emitted, out, rowVars, known>>

Next == \/ RefuseLarge \/ Decline \/ Compile \/ Define
        \/ Refuse \/ Begin \/ Observe \/ Compute \/ Split \/ StackLoad \/ StackStore
        \/ ReadFlag \/ Call \/ Jump \/ Return \/ Publish

Spec == Init /\ [][Next]_vars

-----------------------------------------------------------------------------
(* What the compiled code is for.                                          *)

\* Under a false flag the compiled store leaves the live register in the cell,
\* where the interpreter stores the type's default (interp.rs:1597-1604): no
\* reader of the columns looks there.
Masked(cell) == IF cell.valid THEN <<TRUE, cell.val>> ELSE <<FALSE, Zero>>

\* What the return at hand says of the row, as the interpreter would say it.
SaysEnd(r) ==
  CASE Code.imm[1] = 0 -> r.end = "emit"
    [] Code.imm[1] = 1 -> r.end = "skip"
    [] Code.imm[1] = 2 -> r.end = "trap" /\ trap # NoTrap /\ r.why = trap
    [] OTHER -> r.end = "trap" /\ r.why = K(<<"block", TrapMsgs(prog)[Code.imm[1] - 2]>>, <<>>)

\* Every row ends in the compiled code as it does in the interpreter -- with
\* the same call failing, the same trap, or dropped -- and with the same cells:
\* whatever each helper is called with, returns or leaves in a scratch slot.
CompiledRowsAgree ==
  /\ state # "broken"
  /\ Running /\ Code.op = "return" =>
       \E r \in { InterpRow(prog, known, row) } :
         /\ SaysEnd(r)
         /\ r.end = "emit" =>
              \A c \in StoredCols(prog) :
                /\ Len(out[c]) = emitted + 1 /\ out[c][emitted + 1].row = row
                /\ Masked(out[c][emitted + 1]) = r.cells[c]

\* The size a program is refused for never exceeds what Cranelift really
\* numbers: the promise vreg_floor's debug assertion checks on each compile.
FloorHolds == state = "built" => IsFloor(VregFloor(prog), fn)

\* What compute_once stores is computed once, however many branches read it,
\* and nothing else is stored.
ComputedOnce == state = "built" => ComputesOnce(fn)

\* A call of compiled code keeps the promise of any call.
AbstractState == CASE state \in {"running", "ok", "err"} -> state [] OTHER -> "idle"
Answered == [i \in 1 .. emitted |-> [all \in {"every column"} |->
               (out[CHOOSE c \in StoredCols(prog) : TRUE][i]).row]]
Promise == INSTANCE BatchAnswer WITH
  Columns <- {"every column"}, MaxInput <- 2, state <- AbstractState, input <- rows,
  next <- row, answer <- Answered, published <- published
CompiledKeepsPromise == Promise!Spec
=============================================================================
