------------------------------ MODULE Sharing -------------------------------
(***************************************************************************)
(* Naming what a stage would compute twice                                 *)
(* (packages/confit/src/specializer/share.rs). Equal trees are one node of *)
(* a DAG. A node that cannot trap, is not small, and is evaluated twice on *)
(* some row becomes a def, computed once before the first item that reads  *)
(* it; and a check that an earlier item certainly ran is not run again.    *)
(*                                                                         *)
(* A node is its tree here: the hash-consing makes two equal trees one     *)
(* node, so a tree names its node.                                         *)
(***************************************************************************)
EXTENDS ConstantFold

\* MIN_SHARED_SIZE, in nodes.
CONSTANT MinSharedSize

RangeOf(s) == { s[i] : i \in DOMAIN s }

\* A let is read where it stands: its node is its expression's.
RECURSIVE ReadLets(_, _)
ReadLets(e, lets) ==
  IF e.op = "let" THEN ReadLets(lets[e.n], lets)
  ELSE [e EXCEPT !.kids = [ i \in DOMAIN e.kids |-> ReadLets(e.kids[i], lets) ]]

RECURSIVE Nodes(_), Size(_), Free(_)
Nodes(e) == {e} \union UNION { Nodes(e.kids[i]) : i \in DOMAIN e.kids }
Size(e) == LET Sum[i \in 0 .. Len(e.kids)] == IF i = 0 THEN 1 ELSE Sum[i - 1] + Size(e.kids[i])
           IN Sum[Len(e.kids)]

\* Dag.intern: a node is free when no node of its tree can trap, each asked
\* with placeholders for its children.
Placeholder(e) == [e EXCEPT !.op = "shared", !.fn = "", !.n = 0, !.kids = <<>>]
Shallow(e) == [e EXCEPT !.kids = [ i \in DOMAIN e.kids |-> Placeholder(e.kids[i]) ]]
Free(e) == ~ CanTrap(Shallow(e)) /\ \A i \in DOMAIN e.kids : Free(e.kids[i])

\* Dag.gate: the step a CASE position adds to the path of what stands there:
\* the conditions decided before it, and which of the three roles it has.
Gate(e, i) ==
  IF e.op # "case" \/ i = 1 THEN <<>>
  ELSE LET upto == IF i > 2 * Arms(e) THEN Arms(e) ELSE i \div 2
           role == IF i > 2 * Arms(e) THEN "default" ELSE IF i % 2 = 0 THEN "result" ELSE "cond"
       IN <<[role |-> role, conds |-> [ j \in 1 .. upto |-> Cond(e, j) ]]>>

WorthSharing(e) ==
  /\ Size(e) >= MinSharedSize
  /\ e.op \notin Leaves
  /\ ~ (e.op = "cmp" /\ e.fn = "eq" /\ \E i \in DOMAIN e.kids : e.kids[i].op = "lit")

RECURSIVE CallsUdf(_)
CallsUdf(e) == e.op = "extern" \/ \E i \in DOMAIN e.kids : CallsUdf(e.kids[i])

---------------------------------------------------------------------------
(* repeated_checks: walk the items in order, as they will be evaluated.     *)

\* In how many places of the items node q stands.
RECURSIVE Places(_, _)
Places(e, q) ==
  LET Sum[i \in 0 .. Len(e.kids)] ==
        IF i = 0 THEN 0 ELSE Sum[i - 1] + Places(e.kids[i], q)
  IN (IF e = q THEN 1 ELSE 0) + Sum[Len(e.kids)]

PlacesInAll(items, q) ==
  LET Sum[i \in 0 .. Len(items)] == IF i = 0 THEN 0 ELSE Sum[i - 1] + Places(items[i], q)
  IN Sum[Len(items)]

Prefix(g, h) == Len(g) <= Len(h) /\ SubSeq(h, 1, Len(g)) = g

\* What the walk has gathered: the certain runs as <<check, gate>>, and the
\* checks dropped as <<Seq node, index>>.
RECURSIVE WalkKids(_, _, _, _, _, _), Walk(_, _, _, _, _)
Walk(e, gate, certain, w, items) ==
  IF Free(e) THEN w ELSE WalkKids(e, 1, gate, certain, w, items)

WalkKids(e, i, gate, certain, w, items) ==
  IF i > Len(e.kids) THEN w
  ELSE LET c == e.kids[i]
           check == e.op = "seq" /\ i # e.n
           dead == /\ check
                   /\ PlacesInAll(items, e) = 1
                   /\ \E r \in w.ran : r[1] = c /\ Prefix(r[2], gate)
                   /\ ~ CallsUdf(c)
           sure == CASE e.op = "seq" -> certain
                     [] e.op = "case" ->
                          certain /\ \A j \in 1 .. Arms(e) : 2 * j - 1 < i => ~ CallsUdf(Cond(e, j))
                     [] OTHER -> FALSE
           Ran(v) == IF check /\ certain THEN [v EXCEPT !.ran = @ \union {<<c, gate>>}] ELSE v
       IN WalkKids(e, i + 1, gate, certain,
                   IF dead THEN [w EXCEPT !.dropped = @ \union {<<e, i>>}]
                   ELSE Ran(Walk(c, gate \o Gate(e, i), sure, w, items)), items)

RepeatedChecks(items) ==
  LET From[k \in 0 .. Len(items)] ==
        IF k = 0 THEN [ran |-> {}, dropped |-> {}]
        ELSE Walk(items[k], <<>>, TRUE, From[k - 1], items)
  IN From[Len(items)].dropped

---------------------------------------------------------------------------
(* Where each node is evaluated, and what is shared.                        *)

\* Every node, with every parent before its children.
AllNodes(items) == UNION { Nodes(items[i]) : i \in DOMAIN items }
RECURSIVE BySize(_)
BySize(ns) == IF ns = {} THEN <<>>
              ELSE LET t == CHOOSE t \in ns : \A u \in ns : Size(u) <= Size(t)
                   IN <<t>> \o BySize(ns \ {t})

\* occ: per node and gate path, how often a row that opens the path evaluates
\* the node. A shared node evaluates its children once, on every row.
CountOf(occ, key) == IF key \in DOMAIN occ THEN occ[key] ELSE 0
AddTo(occ, key, k) == [ x \in DOMAIN occ \union {key} |->
                          CountOf(occ, x) + IF x = key THEN k ELSE 0 ]

GatesOf(occ, t) == { x \in DOMAIN occ : x[1] = t }

IsShared(t, occ) ==
  LET here == GatesOf(occ, t)
      must == CountOf(occ, <<t, <<>>>>)
  IN /\ \/ must >= 1 /\ (must >= 2 \/ Cardinality(here) >= 2)
        \/ \E x \in here : x[2] # <<>> /\ occ[x] >= 2
     /\ Free(t) /\ WorthSharing(t)

\* One step of the descending sweep: t's own counts go down to its children.
RECURSIVE PassDown(_, _, _, _, _)
PassDown(t, i, here, occ, dropped) ==
  IF i > Len(t.kids) THEN occ
  ELSE IF <<t, i>> \in dropped THEN PassDown(t, i + 1, here, occ, dropped)
  ELSE LET Down[k \in 0 .. Len(here)] ==
             IF k = 0 THEN occ
             ELSE AddTo(Down[k - 1], <<t.kids[i], here[k][1] \o Gate(t, i)>>, here[k][2])
       IN PassDown(t, i + 1, here, Down[Len(here)], dropped)

RECURSIVE SeqOf(_)
SeqOf(S) == IF S = {} THEN <<>> ELSE LET x == CHOOSE x \in S : TRUE IN <<x>> \o SeqOf(S \ {x})

SharedNodes(items, dropped) ==
  LET Roots[k \in 0 .. Len(items)] ==
        IF k = 0 THEN << >> ELSE AddTo(Roots[k - 1], <<items[k], <<>>>>, 1)
      Onto(s, t, yes) ==
        [occ |-> PassDown(t, 1, IF yes THEN << <<<<>>, 1>> >>
                                ELSE SeqOf({ <<x[2], s.occ[x]>> : x \in GatesOf(s.occ, t) }),
                          s.occ, dropped),
         shared |-> s.shared \union IF yes THEN {t} ELSE {}]
      Over(order) ==
        LET Sweep[k \in 0 .. Len(order)] ==
              IF k = 0 THEN [occ |-> Roots[Len(items)], shared |-> {}]
              ELSE LET s == Sweep[k - 1] IN Onto(s, order[k], IsShared(order[k], s.occ))
        IN Sweep[Len(order)].shared
  IN Over(BySize(AllNodes(items)))

---------------------------------------------------------------------------
(* Build: the defs in the order of their nodes, children first, and the    *)
(* items over them.                                                         *)

ReadOf(k, e) == [e EXCEPT !.op = "shared", !.fn = "", !.n = k, !.kids = <<>>]

RECURSIVE Rebuild(_, _, _, _)
Rebuild(e, defs, top, dropped) ==
  IF ~ top /\ e \in RangeOf(defs)
  THEN ReadOf(CHOOSE k \in DOMAIN defs : defs[k] = e, e)
  ELSE LET kept == { i \in DOMAIN e.kids : <<e, i>> \notin dropped }
           rank(i) == Cardinality({ j \in kept : j <= i })
           kids == [ k \in 1 .. Cardinality(kept) |->
                       Rebuild(e.kids[CHOOSE i \in kept : rank(i) = k], defs, FALSE, dropped) ]
       IN IF e.op = "seq" /\ kept # DOMAIN e.kids
          THEN IF Len(kids) = 1 THEN kids[1] ELSE [e EXCEPT !.kids = kids, !.n = rank(e.n)]
          ELSE [e EXCEPT !.kids = kids]

Reversed(s) == [ i \in DOMAIN s |-> s[Len(s) + 1 - i] ]

\* share: the projection with its shared subexpressions named.
Share(items) ==
  LET Built(defs, dropped) ==
        [defs |-> [ k \in DOMAIN defs |-> Rebuild(defs[k], defs, TRUE, dropped) ],
         items |-> [ k \in DOMAIN items |-> Rebuild(items[k], defs, FALSE, dropped) ]]
      Without(dropped) == Built(Reversed(BySize(SharedNodes(items, dropped))), dropped)
  IN Without(RepeatedChecks(items))
=============================================================================
