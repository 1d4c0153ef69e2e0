---------------------------- MODULE ComputeOnce ----------------------------
(***************************************************************************)
(* compute_once (exec/cranelift.rs): which values of the function that was *)
(* built are stored to a slot nobody reads, so that Cranelift's optimizer, *)
(* which computes a value where it is read, computes them once.            *)
(***************************************************************************)
EXTENDS Codegen

Last1(fn, b)  == fn[b].insts[Len(fn[b].insts)]
Dests(fn, b)  == Last1(fn, b).dests
SuccsOf(fn, b) == { Dests(fn, b)[i].to : i \in DOMAIN Dests(fn, b) }

\* The blocks the entry reaches, each after all its predecessors.
Ordered(fn, order, reached) ==
  FoldLeft(LAMBDA done, i :
             LET ready == { b \in reached \ Range(done) :
                              { a \in reached : b \in SuccsOf(fn, a) } \subseteq Range(done) }
             IN  IF ready = {} THEN done ELSE Append(done, CHOOSE b \in ready : TRUE),
           order, [i \in 1 .. Cardinality(reached) |-> i])
Reached(fn) ==
  FoldLeft(LAMBDA s, i : s \union UNION { SuccsOf(fn, b) : b \in s }, {EntryName},
           [i \in 1 .. Cardinality(DOMAIN fn) |-> i])
Order(fn) == Ordered(fn, <<>>, Reached(fn))

\* The blocks that dominate each block, from the order.
Dominators(fn, order) ==
  FoldLeft(LAMBDA dom, b :
             LET preds == { a \in DOMAIN dom : b \in SuccsOf(fn, a) }
             IN  (b :> {b} \union IF preds = {} THEN {}
                                  ELSE { d \in UNION { dom[a] : a \in preds } :
                                           \A a \in preds : d \in dom[a] }) @@ dom,
           <<>>, order)
Dominates(dom, a, b) == a \in dom[b]
\* The nearest: the one all others dominate.
Common(dom, a, b) ==
  CHOOSE c \in dom[a] \cap dom[b] : \A d \in dom[a] \cap dom[b] : d \in dom[c]

-----------------------------------------------------------------------------
(* The value a block parameter stands for once remove_constant_phis drops  *)
(* it: the one value every edge passes, resolved.                          *)

Resolve(same, v) == IF v \in DOMAIN same THEN same[v] ELSE v

EdgesInto(fn, order, b) ==
  UNION { { Dests(fn, a)[i] : i \in { j \in DOMAIN Dests(fn, a) : Dests(fn, a)[j].to = b } }
            : a \in Range(order) }

Same(fn, order) ==
  FoldLeft(LAMBDA same, b :
             LET edges == EdgesInto(fn, order, b)
                 fed(i) == { Resolve(same, e.args[i]) : e \in edges }
                 one    == { i \in DOMAIN fn[b].params : Cardinality(fed(i)) = 1 }
             IN  [v \in { fn[b].params[i] : i \in one } |->
                    CHOOSE r \in fed(CHOOSE i \in one : fn[b].params[i] = v) : TRUE] @@ same,
           <<>>, Tail(order))

-----------------------------------------------------------------------------
(* Where each value is computed: in one block (one), or in several under   *)
(* their nearest common dominator.                                         *)

At(one, b) == [one |-> one, b |-> b]

ReadTwice(dom, at, v, b) ==   \* mutant: a dominated read moves the place down
  IF v \notin DOMAIN at THEN (v :> At(TRUE, b)) @@ at
  ELSE (v :> IF Dominates(dom, b, at[v].b) \/ (at[v].one /\ Dominates(dom, at[v].b, b))
             THEN At(TRUE, b) ELSE At(FALSE, Common(dom, at[v].b, b))) @@ at
Read(dom, at, v, b) ==
  LET now == at[v]
      next == CASE v \notin DOMAIN at -> At(TRUE, b)
                [] now.one /\ Dominates(dom, now.b, b) -> now
                [] Dominates(dom, b, now.b) -> At(TRUE, b)
                [] OTHER -> At(FALSE, Common(dom, now.b, b))
  IN  (v :> next) @@ at

ReadAll(dom, same, at, vals, b) ==
  FoldLeft(LAMBDA s, v : Read(dom, s, Resolve(same, v), b), at, vals)

\* Instructions whose one result may be computed anywhere, and those of them
\* Cranelift rebuilds at each read.
Effects   == {"call", "flag", "stack_load", "stack_store", "jump", "brif", "return"}
IsPureClif(c) == Len(c.res) = 1 /\ c.op \notin Effects
Constants == {"iconst", "f64const", "text", "text_len", "colno", "desc", "half"}

\* What an edge passes to the parameters that stay.
Passes(fn, same, dest) ==
  SelectSeq([i \in DOMAIN dest.args |-> <<dest.args[i], fn[dest.to].params[i]>>],
            LAMBDA x : x[2] \notin DOMAIN same)
PassedBy(fn, same, c) ==
  FlattenSeq([i \in DOMAIN c.dests |->
    LET ps == Passes(fn, same, c.dests[i]) IN [k \in DOMAIN ps |-> ps[k][1]]])

Visit(fn, dom, same, b, acc, c) ==
  LET v == c.res[1]
      anchored(at) == ReadAll(dom, same, at, PassedBy(fn, same, c) \o c.args, b)
  IN  CASE ~IsPureClif(c) -> [acc EXCEPT !.at = anchored(@)]
        [] IsPureClif(c) /\ v \notin DOMAIN acc.at -> acc
        [] IsPureClif(c) /\ v \in DOMAIN acc.at /\ acc.at[v].one ->
             [acc EXCEPT !.at = ReadAll(dom, same, @, c.args, acc.at[v].b)]
        [] IsPureClif(c) /\ v \in DOMAIN acc.at /\ ~acc.at[v].one /\ c.op \in Constants -> acc
        [] OTHER -> [at |-> ReadAll(dom, same, acc.at, c.args, b),
                     stored |-> acc.stored \union {v}]

\* Readers first.
Stored(fn, order, dom, same) ==
  FoldLeft(LAMBDA acc, b :
             FoldLeft(LAMBDA s, c : Visit(fn, dom, same, b, s, c), acc, Reverse(fn[b].insts)),
           [at |-> <<>>, stored |-> {}], Reverse(order)).stored

\* A store right after each of them.
WithStores(fn, stored) ==
  [b \in DOMAIN fn |->
     [fn[b] EXCEPT !.insts =
       FlattenSeq([i \in DOMAIN @ |->
         IF Len(@[i].res) = 1 /\ @[i].res[1] \in stored
         THEN << @[i], Save("once", 0, @[i].res[1]) >> ELSE << @[i] >>])]]

OnceFor(fn, order) == Stored(fn, order, Dominators(fn, order), Same(fn, order))
ComputeOnce(fn) == WithStores(fn, OnceFor(fn, Order(fn)))

-----------------------------------------------------------------------------
(* What Cranelift's optimizer makes of a function: an instruction with an  *)
(* effect stays in its block; a pure value is computed where something     *)
(* that was kept reads it, unless it was already computed in a block that  *)
(* dominates this one.                                                     *)

Copies(dom, places) ==
  { b \in places : ~ \E a \in places \ {b} : Dominates(dom, a, b) }

Demand(places, vals, bs) ==
  [v \in DOMAIN places \union vals |->
     (IF v \in DOMAIN places THEN places[v] ELSE {}) \union (IF v \in vals THEN bs ELSE {})]

DemandedBy(fn, dom, same, b, places, c) ==
  LET resolved(seq) == { Resolve(same, seq[i]) : i \in DOMAIN seq } IN
  IF ~IsPureClif(c)
  THEN Demand(places, resolved(PassedBy(fn, same, c) \o c.args), {b})
  ELSE IF c.res[1] \notin DOMAIN places THEN places
  ELSE Demand(places, resolved(c.args), Copies(dom, places[c.res[1]]))

\* Per value that is read, the blocks that want it.
Places(fn, order, dom, same) ==
  FoldLeft(LAMBDA acc, b :
             FoldLeft(LAMBDA s, c : DemandedBy(fn, dom, same, b, s, c), acc, Reverse(fn[b].insts)),
           <<>>, Reverse(order))

Movable(fn) ==   \* the pure values but constants, which are rebuilt at each read
  UNION { { fn[b].insts[i].res[1] :
              i \in { j \in DOMAIN fn[b].insts : /\ IsPureClif(fn[b].insts[j])
                                                 /\ fn[b].insts[j].op \notin Constants } }
            : b \in DOMAIN fn }
Saved(fn) ==
  UNION { { fn[b].insts[i].args[1] :
              i \in { j \in DOMAIN fn[b].insts : /\ fn[b].insts[j].op = "stack_store"
                                                 /\ fn[b].insts[j].imm[1] = "once" } }
            : b \in DOMAIN fn }
Unsaved(fn, v) ==   \* the function without the store of v
  [b \in DOMAIN fn |->
     [fn[b] EXCEPT !.insts = SelectSeq(@, LAMBDA c :
        ~ (c.op = "stack_store" /\ c.imm[1] = "once" /\ c.args[1] = v))]]

\* No value but a constant is computed twice, and none is stored that would
\* have been computed once anyway.
OnceIn(fn, order, dom, same) ==
  \E places \in { Places(fn, order, dom, same) } :
    \A v \in DOMAIN places \cap Movable(fn) : Cardinality(Copies(dom, places[v])) <= 1
NeedsStore(fn, order, dom, same, v) ==
  Cardinality(Copies(dom, Places(Unsaved(fn, v), order, dom, same)[v])) > 1
ComputesOnce(fn) ==
  \E order \in { Order(fn) } :
    \E dom \in { Dominators(fn, order) } : \E same \in { Same(fn, order) } :
      /\ OnceIn(fn, order, dom, same)
      /\ \A v \in Saved(fn) : NeedsStore(fn, order, dom, same, v)
=============================================================================
