----------------------------- MODULE SizeFloor -----------------------------
(***************************************************************************)
(* The size a program is refused for before anything compiles it           *)
(* (exec/size.rs, vreg_floor): a floor on the virtual registers Cranelift  *)
(* assigns, read off the IR; and, to compare it with, what is left of the  *)
(* function that is built when Cranelift has optimized it.                 *)
(***************************************************************************)
EXTENDS ComputeOnce

FloatOps == {"fadd", "fsub", "fmul", "fdiv"}
PureKinds ==
  FloatOps \union
  {"ishr", "iand", "ior", "ixor", "hand", "hor", "hxor", "and", "or", "xor",
   "fabs", "fneg", "ffloor", "fceil", "ftrunc", "icmp", "dcmp", "not", "select.f64",
   "select.str", "itof", "const.i1", "const.i64", "const.f64", "const.dec"}

Kind(inst) ==
  CASE inst.op \in {"store", "store.opt"} -> "effect"
    [] inst.op \in PureKinds -> "pure"
    [] inst.op \in {"dadd", "dsub", "dmul"} /\ inst.imm[1] = 0 -> "pure"
    [] OTHER -> "call"

\* Float arithmetic: no rewrite of Cranelift's but constant folding drops it.
Counted(op) == op \in FloatOps \union {"fabs", "ffloor", "fceil", "ftrunc", "itof"}

ChecksTrap(op) ==
  op \in {"iadd", "isub", "imul", "idiv", "irem", "ishl", "flogb", "hadd", "hsub", "hmul",
          "hdiv", "hrem", "iabs", "habs", "ln", "log2", "log10", "fsqrt", "fsin", "fcos",
          "ftan", "dadd", "dsub", "dmul", "drem", "dcast.dd", "dcast.di", "dcast.id", "ecall",
          "ftoi", "slike", "slike.esc", "spad", "ssubstr", "ssubstr.len", "predict"}

Commutes(op) == op \in {"fadd", "fmul", "iand", "ior", "ixor", "hand", "hor", "hxor",
                        "and", "or", "xor"}
Idempotent(op) == op \in {"iand", "ior", "hand", "hor", "and", "or"}

-----------------------------------------------------------------------------
(* The walk. Two values are one when they have one number; the number of a *)
(* value is the first value of its kind, num[v]. key says what a pure      *)
(* value computes, from the numbers of its operands.                       *)

ReachedBlocks(p) ==
  FoldLeft(LAMBDA s, i : s \union UNION { Succs(p, b) : b \in s }, {Entry},
           [i \in 1 .. Cardinality(Blocks(p)) |-> i])
BlockOrder(p, reached) ==
  FoldLeft(LAMBDA done, i :
             LET ready == { b \in reached \ Range(done) :
                              Preds(p, b) \cap reached \subseteq Range(done) }
             IN  IF ready = {} THEN done ELSE Append(done, CHOOSE b \in ready : TRUE),
           <<>>, [i \in 1 .. Cardinality(reached) |-> i])

\* num: value -> number. key: number -> computation. same: removed parameters.
\* params: kept ones. counts, constant, negated: sets of values. pure: value ->
\* operands. count, calls: so far. work: what something kept reads.
NoWalk == [num |-> <<>>, key |-> <<>>, same |-> <<>>, params |-> {}, counts |-> {},
           constant |-> {}, negated |-> {}, pure |-> <<>>, count |-> 0, calls |-> 0,
           work |-> {}]

Incoming(p, reached, b, i) ==
  UNION { { p[a].term.edges[k].args[i] : k \in { k \in DOMAIN p[a].term.edges :
                                                   p[a].term.edges[k].to = b } }
            : a \in Preds(p, b) \cap reached }

\* What flows along an edge: a kept parameter is many values.
Flow(w, v) == IF v \in DOMAIN w.same THEN {w.same[v]}
              ELSE IF v \in w.params THEN {} ELSE {v}

FloorParam(p, reached, b, w, i) ==
  LET v     == p[b].params[i].val
      args  == Incoming(p, reached, b, i)
      flows == { Flow(w, a) : a \in args }
      one   == Cardinality(flows) = 1 /\ {} \notin flows
  IN  IF one
      THEN LET f == CHOOSE f \in UNION flows : TRUE
           IN  [w EXCEPT !.same = (v :> f) @@ @, !.num = (v :> w.num[f]) @@ @]
      ELSE [w EXCEPT !.params = @ \union {v}, !.num = (v :> v) @@ @,
                     !.count = @ + 1, !.work = @ \union args]

CallWithoutFlag(w, inst, uses) ==   \* mutant: every call leaves the flag read
  LET n == IF inst.op = "load.opt" THEN 2 ELSE 1
      dsts == { inst.dsts[i].val : i \in DOMAIN inst.dsts }
  IN  [w EXCEPT !.calls = @ + n,
                !.count = @ + (IF dsts = {} THEN 0 ELSE n) + 1,
                !.work = @ \union uses,
                !.num = [d \in dsts |-> d] @@ @]

FloorCall(w, inst, uses) ==
  LET n == IF inst.op = "load.opt" THEN 2 ELSE 1
      dsts == { inst.dsts[i].val : i \in DOMAIN inst.dsts }
  IN  [w EXCEPT !.calls = @ + n,
                !.count = @ + (IF dsts = {} THEN 0 ELSE n)
                            + (IF ChecksTrap(inst.op) THEN 1 ELSE 0),
                !.work = @ \union uses,
                !.num = [d \in dsts |-> d] @@ @]

FloorPure(w, inst, operands) ==
  LET n     == [i \in DOMAIN operands |-> w.num[operands[i]]]
      d     == inst.dsts[1].val
      uses  == Range(operands)
      alias == IF Idempotent(inst.op) /\ n[1] = n[2] THEN {n[1]}
               ELSE IF inst.op \in {"select.f64", "select.str"} /\ n[2] = n[3] THEN {n[2]}
               ELSE {}
      folds == \/ inst.op \in {"const." \o l : l \in Lanes}
               \/ uses # {} /\ uses \subseteq w.constant
      unnegates == inst.op = "fmul" /\ uses \subseteq w.negated
      key   == <<inst.op, inst.imm,
                 IF Commutes(inst.op) THEN << Range(n) >>
                 ELSE [i \in DOMAIN n |-> {n[i]}]>>
      equal == { m \in DOMAIN w.key : w.key[m] = key }
      num   == IF alias # {} THEN CHOOSE a \in alias : TRUE
               ELSE IF equal # {} THEN CHOOSE m \in equal : TRUE ELSE d
  IN  [w EXCEPT !.num = (d :> num) @@ @,
                !.key = IF num = d THEN (d :> key) @@ @ ELSE @,
                !.pure = (d :> operands) @@ @,
                !.counts = IF alias = {} /\ ~folds /\ ~unnegates /\ Counted(inst.op)
                           THEN @ \union {d} ELSE @,
                !.constant = IF folds THEN @ \union {d} ELSE @,
                !.negated = IF inst.op = "fneg" THEN @ \union {d} ELSE @]

FloorInst(w, inst) ==
  LET operands == [i \in DOMAIN inst.uses |-> inst.uses[i].val] IN
  CASE Kind(inst) = "effect" -> [w EXCEPT !.calls = @ + 1, !.work = @ \union Range(operands)]
    [] Kind(inst) = "call"   -> FloorCall(w, inst, Range(operands))
    [] Kind(inst) = "pure"   -> FloorPure(w, inst, operands)

FloorBlock(p, reached, w, b) ==
  LET entered == FoldLeft(LAMBDA s, i : FloorParam(p, reached, b, s, i), w,
                          [i \in DOMAIN p[b].params |-> i])
      left    == FoldLeft(FloorInst, entered, p[b].insts)
  IN  IF p[b].term.op = "brif" THEN [left EXCEPT !.work = @ \union {p[b].term.cond}] ELSE left

\* The pure values something kept reads: closed under their operands.
LiveAfter(w, live) ==
  live \union { Resolve(w.same, v) : v \in live }
       \union UNION { Range(w.pure[v]) : v \in live \cap DOMAIN w.pure }
LiveValues(w) == FoldLeft(LAMBDA s, i : LiveAfter(w, s), w.work,
                          [i \in 1 .. 2 * Cardinality(DOMAIN w.num) |-> i])

FloorOf(w) ==
  [assigned |-> w.count + Cardinality({ w.num[v] : v \in LiveValues(w) \cap w.counts }),
   calls |-> w.calls]
VregFloor(p) ==
  LET reached == ReachedBlocks(p)
  IN  FloorOf(FoldLeft(LAMBDA w, b : FloorBlock(p, reached, w, b), NoWalk,
                       BlockOrder(p, reached)))
Total(floor) == floor.assigned + floor.calls

-----------------------------------------------------------------------------
(* What is left of a function: Cranelift drops a parameter every edge      *)
(* feeds one value, drops what nothing kept reads, takes two equal pure    *)
(* values for one, and rewrites. `rep' maps a value to the one it is.      *)

Constant0 == <<"constant">>

\* The rewrites size.rs names, on the values an instruction reads.
ClifCommutes(op) == op \in {"fadd", "fmul", "band", "bor", "bxor", "iadd", "imul"}
NegOf(keys, r) == IF r \in DOMAIN keys /\ keys[r][1] = "fneg"
                  THEN CHOOSE x \in keys[r][3][1] : TRUE ELSE r
IsNeg(keys, r) == r \in DOMAIN keys /\ keys[r][1] = "fneg"
Simplified(keys, c, args) ==
  CASE c.op \in Constants -> Constant0
    [] args # <<>> /\ Range(args) = {Constant0} -> Constant0
    [] c.op = "select" /\ args[2] = args[3] -> args[2]
    [] c.op \in {"band", "bor"} /\ args[1] = args[2] -> args[1]
    [] c.op \in {"icmp", "bxor"} /\ args[1] = args[2] -> Constant0
    [] c.op = "fneg" /\ IsNeg(keys, args[1]) -> NegOf(keys, args[1])
    [] OTHER -> <<>>
Operands(keys, c, args) ==
  IF c.op = "fmul" /\ \A i \in DOMAIN args : IsNeg(keys, args[i])
  THEN [i \in DOMAIN args |-> NegOf(keys, args[i])] ELSE args

Represent(same, acc, c) ==
  LET rep(v) == acc.rep[Resolve(same, v)]
      args == [i \in DOMAIN c.args |-> rep(c.args[i])]
  IN  IF ~IsPureClif(c)
      THEN [acc EXCEPT !.rep = [v \in Range(c.res) |-> v] @@ @]
      ELSE LET ops == Operands(acc.keys, c, args)
               key == <<c.op, c.imm, IF ClifCommutes(c.op) THEN <<Range(ops)>>
                                     ELSE [i \in DOMAIN ops |-> {ops[i]}]>>
               simple == Simplified(acc.keys, c, args)
               equal == { m \in DOMAIN acc.keys : acc.keys[m] = key }
               r == IF simple # <<>> THEN simple
                    ELSE IF equal # {} THEN CHOOSE m \in equal : TRUE ELSE c.res[1]
           IN  [acc EXCEPT !.rep = (c.res[1] :> r) @@ @,
                           !.keys = IF r = c.res[1] THEN (r :> key) @@ @ ELSE @]

RepresentBlock(fn, same, acc, b) ==
  FoldLeft(LAMBDA s, c : Represent(same, s, c),
           [acc EXCEPT !.rep = [v \in Range(fn[b].params) |-> v] @@ @], fn[b].insts)
Representatives(fn, order, same) ==
  FoldLeft(LAMBDA acc, b : RepresentBlock(fn, same, acc, b),
           [rep |-> CxValue :> CxValue, keys |-> <<>>], order)

ReadByKept(fn, order, same, r) ==
  { r.rep[Resolve(same, v)] : v \in
      UNION { UNION { Range(PassedBy(fn, same, c) \o c.args) :
                        c \in { c \in Range(fn[b].insts) : ~IsPureClif(c) } }
                : b \in Range(order) } }
Kept(r, read) ==
  FoldLeft(LAMBDA s, i : s \union UNION { UNION Range(r.keys[v][3]) : v \in s \cap DOMAIN r.keys },
           read, [i \in 1 .. Cardinality(DOMAIN r.keys) |-> i])

FloatClif == {"fadd", "fsub", "fmul", "fdiv", "fabs", "floor", "ceil", "trunc",
              "fcvt_from_sint", "fpromote"}
InstsIn(fn, order, ops) ==
  UNION { { <<b, i>> : i \in { j \in DOMAIN fn[b].insts : fn[b].insts[j].op \in ops } }
            : b \in Range(order) }
CallsIn(fn, order) == Cardinality(InstsIn(fn, order, {"call"}))
Answering(fn, sites) == { s \in sites : fn[s[1]].insts[s[2]].res # <<>> }

\* Fewer than Cranelift assigns: its own temporaries and its second copies of a
\* pure value are not among them. A read of a slot or of the flag stays: the
\* call before it may have written what it reads.
AssignedIn(fn, order, same, r) ==
  Cardinality((UNION { Range(fn[b].params) : b \in Range(order) }) \ DOMAIN same)
    + Cardinality(Answering(fn, InstsIn(fn, order, {"call", "flag", "stack_load"})))
    + Cardinality({ v \in Kept(r, ReadByKept(fn, order, same, r)) \cap DOMAIN r.keys :
                      r.keys[v][1] \in FloatClif })

\* The floor is below what the optimized function has.
IsFloor(floor, fn) ==
  \E order \in { Order(fn) } : \E same \in { Same(fn, order) } :
    \E r \in { Representatives(fn, order, same) } :
      /\ floor.assigned <= AssignedIn(fn, order, same, r)
      /\ floor.calls <= CallsIn(fn, order)
=============================================================================
