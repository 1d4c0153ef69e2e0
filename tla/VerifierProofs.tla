--------------------------- MODULE VerifierProofs ---------------------------
(***************************************************************************)
(* Proof that the verifier decides exactly the rules of IR, for every      *)
(* program: any number of blocks, loops, columns and values.               *)
(*                                                                         *)
(* The inductive invariant has a part per pass. VerdictSoFar says, pass by *)
(* pass, which rules the absence of errors is equivalent to by now. The    *)
(* rest is what makes that inductive: def_types is right wherever names    *)
(* are defined once (DefsRight); the search's colours, stack and back      *)
(* edges (Searched) leave a forward graph without cycles in which every    *)
(* block found has a forward predecessor; the worklist (Ending) finds what *)
(* reaches an end; Kahn's algorithm (Sorted) removes every block after all *)
(* its forward predecessors; so the dataflow (Flowing) knows a block's     *)
(* state when its turn comes, and never changes it after.                  *)
(*                                                                         *)
(* The last part joins this proof with that of the row loop: whatever      *)
(* program is put to the verifier, a call of one it accepts keeps the four *)
(* guarantees of the row loop and its promise.                             *)
(***************************************************************************)
EXTENDS VerifiedRun, RowLoopProofs, SharedLemmas

-----------------------------------------------------------------------------
(***************************************************************************)
(* The invariant.                                                          *)
(***************************************************************************)

Begun == pass \in {"dfs", "ends", "topo", "flow"}

VerifierTyped ==
  /\ input \in Submitted /\ at \in Nat
  /\ pass \in {"structure", "defs", "uses", "dfs", "ends", "topo", "flow", "done"}
  /\ color \in [Blocks(input) -> 0 .. 2]
  /\ stack \in Seq(Blocks(input) \X Nat)
  /\ back \subseteq Blocks(input) \X Blocks(input)
  /\ ends \subseteq Blocks(input) /\ work \subseteq ends
  /\ ready \in Seq(Blocks(input)) /\ order \in Seq(Blocks(input))
  /\ known \subseteq Blocks(input)
  /\ entry \in [Blocks(input) -> [Cols -> Nat]]
  /\ pass \in {"structure", "defs", "uses"} =>
       color = [b \in Blocks(input) |-> 0] /\ stack = <<>> /\ back = {}
  /\ Begun => Blocks(input) # {}
  /\ pass \in {"ends", "topo", "flow"} => stack = <<>>

\* The blocks whose definitions, and whose uses, have been looked at.
Collected == CASE pass = "structure" -> {}
               [] pass = "defs" -> { b \in Blocks(input) : b < at }
               [] OTHER -> Blocks(input)
Checked   == CASE pass \in {"structure", "defs"} -> {}
               [] pass = "uses" -> { b \in Blocks(input) : b < at }
               [] OTHER -> Blocks(input)

Structured(p) == Blocks(p) # {} /\ p[Entry].params = <<>>

SingleIn(p, B) ==
  \A a, b \in B : \A s \in DefSites(p, a) : \A t \in DefSites(p, b) :
    DefAt(p, a, s).val = DefAt(p, b, t).val => a = b /\ s = t

DefsRight ==
  /\ DOMAIN defs = UNION { DefVals(input, b) : b \in Collected }
  /\ SingleIn(input, Collected) =>
       \A b \in Collected : \A s \in DefSites(input, b) :
         defs[DefAt(input, b, s).val] = DefAt(input, b, s).ty

\* ScopedUses, of one block.
SeenUses(p, b) ==
  LET insts == p[b].insts
      term  == p[b].term
      end   == Len(insts) + 1
  IN  /\ \A k \in DOMAIN insts : \A i \in DOMAIN insts[k].uses :
           Sees(p, b, k, insts[k].uses[i].val, insts[k].uses[i].ty)
      /\ term.cond # NoVal => Sees(p, b, end, term.cond, "i1")
      /\ \A i \in DOMAIN term.edges :
           LET e == term.edges[i] IN
           /\ e.to \in Blocks(p) \ {Entry}
           /\ Len(e.args) = Len(p[e.to].params)
           /\ \A j \in DOMAIN e.args :
                Sees(p, b, end, e.args[j], p[e.to].params[j].ty)

\* The depth-first search.
Finished == { b \in Blocks(input) : color[b] = 2 }
Forward(a, s) == s \in Succs(input, a) /\ <<a, s>> \notin back

\* An edge that has been tried leads back, or to a finished block other than
\* the entry.
Settled(a, s) == <<a, s>> \in back \/ (color[s] = 2 /\ s # Entry)

Stacked ==
  /\ stack # <<>> => stack[1][1] = Entry
  /\ \A i \in DOMAIN stack : /\ color[stack[i][1]] = 1
                             /\ stack[i][2] <= Len(input[stack[i][1]].term.edges)
  /\ \A i, j \in DOMAIN stack : stack[i][1] = stack[j][1] => i = j
  /\ \A b \in Blocks(input) : color[b] = 1 => \E i \in DOMAIN stack : stack[i][1] = b
  /\ \A i \in DOMAIN stack : \A j \in 1 .. stack[i][2] :
       LET s == input[stack[i][1]].term.edges[j].to IN
       s \in Blocks(input) =>
         \/ Settled(stack[i][1], s)
         \/ i + 1 \in DOMAIN stack /\ s = stack[i + 1][1]
  /\ \A i \in DOMAIN stack : i # 1 => Forward(stack[i - 1][1], stack[i][1])

Searched ==
  /\ color[Entry] # 0
  /\ \A a \in Finished : \A s \in Succs(input, a) : Settled(a, s)
  /\ \A R \in SUBSET Finished :
       R # {} => \E s \in R : \A a \in R : ~ Forward(a, s)
  /\ \A s \in Finished \ {Entry} : \E a \in Reachable : Forward(a, s)
  /\ back \subseteq Reachable \X Reachable
  /\ Reachable \subseteq ReachableRef(input)

\* The backward search.
Ending ==
  /\ EndBlocks(input) \subseteq ends /\ ends \subseteq CanEndRef(input)
  /\ \A b \in ends \ work : Preds(input, b) \subseteq ends

\* Kahn's algorithm.
Ordered == { order[i] : i \in DOMAIN order }
Left == Reachable \ Ordered

EdgesInto(s, A) == UNION { { <<a, i>> : i \in FwdEdges(a, s) } : a \in A }

InOrder ==
  \A i \in DOMAIN order :
    /\ order[i] \in Reachable
    /\ \A a \in Reachable : Forward(a, order[i]) => \E j \in 1 .. i - 1 : order[j] = a

EdgesLeft(s) == EdgesInto(s, Left)

Sorted ==
  /\ indeg = [s \in Blocks(input) |-> Cardinality(EdgesLeft(s))]
  /\ \A s \in Left : (\A a \in Left : ~ Forward(a, s)) => \E i \in DOMAIN ready : ready[i] = s
  /\ \A i \in DOMAIN ready : ready[i] \in Left /\ \A a \in Left : ~ Forward(a, ready[i])
  /\ \A i, j \in DOMAIN ready : ready[i] = ready[j] => i = j

\* The dataflow. A block that has had its turn leaves by the rules.
FlowsRight(b) ==
  /\ \A c \in Cols : After(input, entry, b)[c] <= 1
  /\ input[b].term.op \in Emitters => \A c \in Cols : After(input, entry, b)[c] = 1
  /\ input[b].term.op = "skip" => After(input, entry, b) = NoStores
  /\ \A s \in Succs(input, b) : entry[s] = Passed(input, entry, b)

Flowed == { order[i] : i \in 1 .. at - 1 }

Flowing ==
  /\ at \in 1 .. Len(order) + 1 /\ Ordered = Reachable
  /\ Entry \in known /\ entry[Entry] = NoStores
  /\ \A i \in 1 .. at - 1 : order[i] \in known /\ Succs(input, order[i]) \subseteq known
  /\ errs = {} => \A b \in known : \A c \in Cols : entry[b][c] <= 1
  /\ \A E \in [Blocks(input) -> [Cols -> 0 .. 1]] :
       Consistent(input, Blocks(input), E) => \A b \in known : entry[b] = E[b]

AllReach == ReachableRef(input) = Blocks(input)
AllEnd   == CanEndRef(input) = Blocks(input)

VerdictSoFar ==
  /\ pass = "structure" => errs = {}
  /\ pass = "defs" =>
       (errs = {} <=> Structured(input) /\ SingleIn(input, Collected))
  /\ pass = "uses" =>
       (errs = {} <=> /\ Structured(input) /\ SingleDefs(input)
                      /\ \A b \in Checked : SeenUses(input, b))
  /\ pass = "dfs"  => (errs = {} <=> WellFormed(input))
  /\ pass = "ends" => (errs = {} <=> WellFormed(input) /\ AllReach)
  /\ pass = "topo" => (errs = {} <=> WellFormed(input) /\ AllReach /\ AllEnd)
  /\ pass = "flow" =>
       (errs = {} <=> /\ WellFormed(input) /\ AllReach /\ AllEnd
                      /\ \A b \in Flowed : FlowsRight(b))
  /\ pass = "done" =>
       /\ errs = {} <=> Verified(input)
       /\ errs = {} => /\ entry \in [Blocks(input) -> [Cols -> 0 .. 1]]
                       /\ Consistent(input, Blocks(input), entry)

VerifierInv ==
  /\ VerifierTyped /\ DefsRight /\ VerdictSoFar
  /\ Begun => Stacked /\ Searched
  /\ pass = "ends" => Ending
  /\ pass \in {"topo", "flow"} => InOrder
  /\ pass = "topo" => Sorted
  /\ pass = "flow" => Flowing

-----------------------------------------------------------------------------
(***************************************************************************)
(* Programs, whatever their rules: every edge but no target is sound.      *)
(***************************************************************************)

\* The parts of a submitted block.
LEMMA SubmittedShape ==
  ASSUME NEW p \in Submitted, NEW b \in Blocks(p)
  PROVE  /\ p[b].insts \in Seq(Instruction) /\ p[b].params \in Seq(TypedVal)
         /\ Len(p[b].insts) \in Nat /\ DOMAIN p[b].insts = 1 .. Len(p[b].insts)
         /\ p[b].term \in Terminator
         /\ p[b].term.edges \in Seq(BranchEdge)
         /\ Len(p[b].term.edges) \in 0 .. 2
         /\ DOMAIN p[b].term.edges = 1 .. Len(p[b].term.edges)
         /\ p[b].term.op \notin {"jump", "brif", "emit.to"} => p[b].term.edges = <<>>
<1>1. p \in [Blocks(p) -> BasicBlock] /\ Len(p[b].term.edges) = EdgeCount(p[b].term.op)
  BY VerifierAssumption DEF IsProgram
<1>2. p[b] \in BasicBlock
  BY <1>1
<1>3. p[b].term \in Terminator /\ p[b].insts \in Seq(Instruction) /\ p[b].params \in Seq(TypedVal)
  BY <1>2 DEF BasicBlock
<1>4. p[b].term.edges \in Seq(BranchEdge)
  BY <1>3 DEF Terminator
<1>5. EdgeCount(p[b].term.op) \in 0 .. 2
  BY DEF EdgeCount
<1>6. p[b].term.op \notin {"jump", "brif", "emit.to"} => Len(p[b].term.edges) = 0
  BY <1>1 DEF EdgeCount
<1>. QED
  BY <1>1, <1>3, <1>4, <1>5, <1>6, EmptySeq

\* Blocks are numbered from the entry.
LEMMA SubmittedBlocks ==
  ASSUME NEW p \in Submitted
  PROVE  /\ IsFiniteSet(Blocks(p)) /\ Blocks(p) \subseteq Nat
         /\ Blocks(p) # {} => Entry \in Blocks(p)
         /\ \A b \in Nat : b + 1 \in Blocks(p) => b \in Blocks(p)
         /\ \A b \in Blocks(p) : \A n \in Nat : n \notin Blocks(p) => b < n
<1>1. IsFiniteSet(Blocks(p)) /\ Blocks(p) = 0 .. Cardinality(Blocks(p)) - 1
  BY VerifierAssumption DEF IsProgram
<1>2. Cardinality(Blocks(p)) \in Nat
  BY <1>1, FS_CardinalityType
<1>. DEFINE n == Cardinality(Blocks(p))
            B == Blocks(p)
<1>3. B = 0 .. n - 1 /\ n \in Nat /\ IsFiniteSet(B)
  BY <1>1, <1>2
<1>. HIDE DEF n, B
<1>4. IsFiniteSet(B) /\ B \subseteq Nat /\ (B # {} => 0 \in B)
      /\ (\A b \in Nat : b + 1 \in B => b \in B)
      /\ \A b \in B : \A m \in Nat : m \notin B => b < m
  BY <1>3
<1>. QED
  BY <1>4 DEF B, Entry

\* A block's definitions, one by one.
LEMMA SitesOf ==
  ASSUME NEW p \in Submitted, NEW b \in Blocks(p)
  PROVE  /\ \A s : s \in DefSites(p, b) <=>
              \/ \E i \in DOMAIN p[b].params : s = <<0, i>>
              \/ \E k \in DOMAIN p[b].insts : \E i \in DOMAIN p[b].insts[k].dsts : s = <<k, i>>
         /\ \A s \in DefSites(p, b) : s[1] \in Nat /\ DefAt(p, b, s) \in TypedVal
         /\ \A i \in DOMAIN p[b].params : DefAt(p, b, <<0, i>>) = p[b].params[i]
         /\ \A s \in DefSites(p, b) : s[1] = 0 =>
              \E i \in DOMAIN p[b].params : s = <<0, i>>
         /\ IsFiniteSet(DefSites(p, b))
<1>1. /\ p[b].insts \in Seq(Instruction) /\ p[b].params \in Seq(TypedVal)
      /\ Len(p[b].insts) \in Nat /\ DOMAIN p[b].insts = 1 .. Len(p[b].insts)
  BY SubmittedShape
<1>2. \A s : s \in DefSites(p, b) <=>
        \/ \E i \in DOMAIN p[b].params : s = <<0, i>>
        \/ \E k \in DOMAIN p[b].insts : \E i \in DOMAIN p[b].insts[k].dsts : s = <<k, i>>
  BY DEF DefSites
<1>3. \A i : DefAt(p, b, <<0, i>>) = p[b].params[i]
  BY DEF DefAt
<1>4. \A k \in DOMAIN p[b].insts : \A i : DefAt(p, b, <<k, i>>) = p[b].insts[k].dsts[i]
  BY <1>1 DEF DefAt
<1>5. \A k \in DOMAIN p[b].insts :
        /\ p[b].insts[k].dsts \in Seq(TypedVal) /\ k \in Nat /\ k # 0
        /\ DOMAIN p[b].insts[k].dsts = 1 .. Len(p[b].insts[k].dsts)
        /\ Len(p[b].insts[k].dsts) \in Nat
  <2>. TAKE k \in DOMAIN p[b].insts
  <2>1. p[b].insts[k] \in Instruction
    BY <1>1
  <2>2. p[b].insts[k].dsts \in Seq(TypedVal)
    BY <2>1 DEF Instruction
  <2>. QED
    BY <1>1, <2>2
<1>6. ASSUME NEW s \in DefSites(p, b)
      PROVE  /\ s[1] \in Nat /\ DefAt(p, b, s) \in TypedVal
             /\ s[1] = 0 => \E i \in DOMAIN p[b].params : s = <<0, i>>
  <2>1. CASE \E i \in DOMAIN p[b].params : s = <<0, i>>
    BY <1>1, <1>3, <2>1
  <2>2. ASSUME NEW k \in DOMAIN p[b].insts, NEW i \in DOMAIN p[b].insts[k].dsts, s = <<k, i>>
        PROVE  s[1] \in Nat /\ s[1] # 0 /\ DefAt(p, b, s) \in TypedVal
    <3>1. p[b].insts[k].dsts[i] \in TypedVal
      BY <1>5
    <3>. QED
      BY <1>4, <1>5, <2>2, <3>1
  <2>. QED
    BY <1>2, <2>1, <2>2
<1>7. IsFiniteSet(DefSites(p, b))
  <2>. DEFINE Rows(k) == { <<k, i>> : i \in DOMAIN p[b].insts[k].dsts }
              All == { Rows(k) : k \in DOMAIN p[b].insts }
  <2>2. ASSUME NEW S, NEW k, IsFiniteSet(S)
        PROVE  IsFiniteSet({ <<k, i>> : i \in S })
    <3>. DEFINE T == { <<k, i>> : i \in S }
                f == [i \in S |-> <<k, i>>]
    <3>1. f \in Surjection(S, T)
      BY DEF Surjection
    <3>. HIDE DEF f, T
    <3>2. IsFiniteSet(T)
      BY <2>2, <3>1, FS_Surjection
    <3>. QED
      BY <3>2 DEF T
  <2>3. \A k \in DOMAIN p[b].insts : IsFiniteSet(Rows(k))
    <3>. TAKE k \in DOMAIN p[b].insts
    <3>1. IsFiniteSet(DOMAIN p[b].insts[k].dsts)
      BY <1>5, FS_Interval
    <3>. QED
      BY <2>2, <3>1
  <2>4. IsFiniteSet(All)
    <3>1. IsFiniteSet(DOMAIN p[b].insts)
      BY <1>1, FS_Interval
    <3>. DEFINE f == [k \in DOMAIN p[b].insts |-> Rows(k)]
    <3>2. f \in Surjection(DOMAIN p[b].insts, All)
      BY DEF Surjection
    <3>. HIDE DEF f, All
    <3>. QED
      BY <3>1, <3>2, FS_Surjection
  <2>5. IsFiniteSet(UNION All)
    BY <2>3, <2>4, FS_UNION
  <2>6. IsFiniteSet({ <<0, i>> : i \in DOMAIN p[b].params })
    <3>1. DOMAIN p[b].params = 1 .. Len(p[b].params) /\ Len(p[b].params) \in Nat
      BY <1>1
    <3>2. IsFiniteSet(DOMAIN p[b].params)
      BY <3>1, FS_Interval
    <3>. QED
      BY <2>2, <3>2
  <2>7. DefSites(p, b) = { <<0, i>> : i \in DOMAIN p[b].params } \union (UNION All)
    BY DEF DefSites
  <2>. HIDE DEF All
  <2>. QED
    BY <2>5, <2>6, <2>7, FS_Union
<1>. QED
  BY <1>2, <1>3, <1>6, <1>7

-----------------------------------------------------------------------------
(***************************************************************************)
(* Definitions and uses: the two passes before the control flow.           *)
(***************************************************************************)

\* Where names are defined once, a name's type is its one definition's.
LEMMA TypeOfDef ==
  ASSUME NEW p \in Submitted, NEW b \in Blocks(p), SingleIn(p, {b}),
         NEW s \in DefSites(p, b)
  PROVE  DefTy(p, b, DefAt(p, b, s).val) = DefAt(p, b, s).ty
<1>. DEFINE v     == DefAt(p, b, s).val
            sites == { t \in DefSites(p, b) : DefAt(p, b, t).val = v }
<1>1. \A t \in DefSites(p, b) : DefAt(p, b, t).val = v => t = s
  BY DEF SingleIn
<1>2. sites = {s}
  BY <1>1
<1>3. DefTy(p, b, v) = DefAt(p, b, CHOOSE x \in sites : \A t \in sites \ {x} : Later(x, t)).ty
  BY DEF DefTy
<1>. HIDE DEF sites
<1>4. (CHOOSE x \in sites : \A t \in sites \ {x} : Later(x, t)) = s
  BY <1>2
<1>. QED
  BY <1>3, <1>4

\* One use: the verifier has no error exactly when an earlier definition of
\* the block has the wanted type.
LEMMA WantIsExact ==
  ASSUME input \in Submitted, NEW b \in Blocks(input), SingleDefs(input),
         \A s \in DefSites(input, b) :
           defs[DefAt(input, b, s).val] = DefAt(input, b, s).ty,
         NEW k, NEW u
  PROVE  Want(input, b, ScopeAt(input, b, k), u) = {} <=> Sees(input, b, k, u.val, u.ty)
<1>. DEFINE scope == ScopeAt(input, b, k)
<1>1. u.val \in scope <=> \E s \in DefSites(input, b) : s[1] < k /\ DefAt(input, b, s).val = u.val
  BY DEF ScopeAt
<1>2. Sees(input, b, k, u.val, u.ty) =>
        \E s \in DefSites(input, b) : s[1] < k /\ DefAt(input, b, s).val = u.val
  BY DEF Sees
<1>3. CASE u.val \notin scope
  <2>1. Want(input, b, scope, u) # {}
    BY <1>3 DEF Want
  <2>. QED
    BY <1>1, <1>2, <1>3, <2>1
<1>4. CASE u.val \in scope
  <2>1. PICK s \in DefSites(input, b) : s[1] < k /\ DefAt(input, b, s).val = u.val
    BY <1>1, <1>4
  <2>2. \A t \in DefSites(input, b) : DefAt(input, b, t).val = u.val => t = s
    BY <2>1 DEF SingleDefs
  <2>3. DefAt(input, b, s) \in TypedVal
    BY SitesOf
  <2>4. DefAt(input, b, s) = [val |-> u.val, ty |-> u.ty] <=> DefAt(input, b, s).ty = u.ty
    BY <2>1, <2>3 DEF TypedVal
  <2>5. Sees(input, b, k, u.val, u.ty) <=> DefAt(input, b, s).ty = u.ty
    BY <2>1, <2>2, <2>4 DEF Sees
  <2>6. TyInScope(input, b, u.val) = DefAt(input, b, s).ty
    <3>1. CASE u.val \in ParamVals(input, b)
      <4>. DEFINE params == input[b].params
                  IsLast(i) == /\ params[i].val = u.val
                               /\ \A j \in DOMAIN params : params[j].val = u.val => j <= i
      <4>1. PICK i \in DOMAIN params : params[i].val = u.val
        BY <3>1 DEF ParamVals
      <4>2. \A j \in DOMAIN params : params[j].val = u.val => <<0, j>> = s
        <5>1. \A j \in DOMAIN params :
                <<0, j>> \in DefSites(input, b) /\ DefAt(input, b, <<0, j>>) = params[j]
          BY SitesOf
        <5>. QED
          BY <2>2, <5>1
      <4>3. \A j \in DOMAIN params : params[j].val = u.val => j = i
        BY <4>1, <4>2
      <4>4. i \in Nat
        BY SubmittedShape
      <4>5. IsLast(i) /\ \A j \in DOMAIN params : IsLast(j) => j = i
        BY <4>1, <4>3, <4>4
      <4>6. TyInScope(input, b, u.val) = params[CHOOSE j \in DOMAIN params : IsLast(j)].ty
        BY <3>1 DEF TyInScope
      <4>7. (CHOOSE j \in DOMAIN params : IsLast(j)) = i
        <5>. HIDE DEF IsLast
        <5>. QED
          BY <4>5
      <4>8. DefAt(input, b, s) = params[i]
        BY <4>1, <4>2, SitesOf
      <4>. QED
        BY <4>6, <4>7, <4>8
    <3>2. CASE u.val \notin ParamVals(input, b)
      BY <2>1, <3>2 DEF TyInScope
    <3>. QED
      BY <3>1, <3>2
  <2>7. Want(input, b, scope, u) = {} <=> TyInScope(input, b, u.val) = u.ty
    BY <1>4 DEF Want
  <2>. QED
    BY <2>5, <2>6, <2>7
<1>. QED
  BY <1>3, <1>4

\* One block: check_block has no error exactly when the block obeys rule 3.
LEMMA CheckIsExact ==
  ASSUME input \in Submitted, NEW b \in Blocks(input), SingleDefs(input),
         \A s \in DefSites(input, b) :
           defs[DefAt(input, b, s).val] = DefAt(input, b, s).ty
  PROVE  BlockErrs(input, b) = {} <=> SeenUses(input, b)
<1>. DEFINE insts == input[b].insts
            term  == input[b].term
            end   == Len(insts) + 1
            final == ScopeAt(input, b, end)
            UseErrs == UNION { WantAll(input, b, ScopeAt(input, b, k), insts[k].uses)
                                 : k \in DOMAIN insts }
            CondErrs == IF term.cond = NoVal THEN {}
                        ELSE Want(input, b, final, [val |-> term.cond, ty |-> "i1"])
            OutErrs == UNION { EdgeErrs(input, b, final, term.edges[i])
                                 : i \in DOMAIN term.edges }
            EdgeSeen(e) ==
              /\ e.to \in Blocks(input) \ {Entry}
              /\ Len(e.args) = Len(input[e.to].params)
              /\ \A j \in DOMAIN e.args :
                   Sees(input, b, end, e.args[j], input[e.to].params[j].ty)
<1>1. \A k, u : Want(input, b, ScopeAt(input, b, k), u) = {} <=> Sees(input, b, k, u.val, u.ty)
  BY WantIsExact
<1>2. \A k, us : WantAll(input, b, ScopeAt(input, b, k), us) = {} <=>
        \A i \in DOMAIN us : Sees(input, b, k, us[i].val, us[i].ty)
  <2>. TAKE k, us
  <2>1. WantAll(input, b, ScopeAt(input, b, k), us) = {} <=>
          \A i \in DOMAIN us : Want(input, b, ScopeAt(input, b, k), us[i]) = {}
    BY DEF WantAll
  <2>. QED
    BY <1>1, <2>1
<1>3. UseErrs = {} <=>
        \A k \in DOMAIN insts : \A i \in DOMAIN insts[k].uses :
          Sees(input, b, k, insts[k].uses[i].val, insts[k].uses[i].ty)
  <2>1. UseErrs = {} <=>
          \A k \in DOMAIN insts : WantAll(input, b, ScopeAt(input, b, k), insts[k].uses) = {}
    OBVIOUS
  <2>. QED
    BY <1>2, <2>1
<1>4. CondErrs = {} <=> (term.cond # NoVal => Sees(input, b, end, term.cond, "i1"))
  <2>. DEFINE u == [val |-> term.cond, ty |-> "i1"]
  <2>1. Want(input, b, final, u) = {} <=> Sees(input, b, end, u.val, u.ty)
    BY <1>1
  <2>. QED
    BY <2>1
<1>5. ASSUME NEW i \in DOMAIN term.edges
      PROVE  EdgeErrs(input, b, final, term.edges[i]) = {} <=> EdgeSeen(term.edges[i])
  <2>. DEFINE e == term.edges[i]
              us == [j \in DOMAIN e.args |->
                       [val |-> e.args[j], ty |-> input[e.to].params[j].ty]]
  <2>1. CASE e.to \notin Blocks(input)
    BY <2>1 DEF EdgeErrs
  <2>2. CASE e.to \in Blocks(input)
    <3>1. EdgeErrs(input, b, final, e) =
            (IF e.to = Entry THEN {<<"entry target", b>>} ELSE {})
              \union (IF Len(e.args) # Len(input[e.to].params) THEN {<<"arity", b>>}
                      ELSE WantAll(input, b, final, us))
      BY <2>2 DEF EdgeErrs
    <3>2. WantAll(input, b, final, us) = {} <=>
            \A j \in DOMAIN e.args : Sees(input, b, end, e.args[j], input[e.to].params[j].ty)
      <4>1. WantAll(input, b, final, us) = {} <=>
              \A j \in DOMAIN us : Sees(input, b, end, us[j].val, us[j].ty)
        BY <1>2
      <4>. QED
        BY <4>1
    <3>. HIDE DEF us, final, end, e
    <3>3. EdgeErrs(input, b, final, e) = {} <=>
            /\ e.to # Entry /\ Len(e.args) = Len(input[e.to].params)
            /\ WantAll(input, b, final, us) = {}
      BY <3>1
    <3>. QED
      BY <2>2, <3>2, <3>3 DEF e
  <2>. QED
    BY <2>1, <2>2
<1>6. OutErrs = {} <=> \A i \in DOMAIN term.edges : EdgeSeen(term.edges[i])
  <2>1. OutErrs = {} <=>
          \A i \in DOMAIN term.edges : EdgeErrs(input, b, final, term.edges[i]) = {}
    OBVIOUS
  <2>. HIDE DEF OutErrs, EdgeSeen, final
  <2>. QED
    BY <1>5, <2>1
<1>7. BlockErrs(input, b) = (UseErrs \union CondErrs) \union OutErrs
  BY DEF BlockErrs
<1>8. SeenUses(input, b) <=>
        /\ \A k \in DOMAIN insts : \A i \in DOMAIN insts[k].uses :
             Sees(input, b, k, insts[k].uses[i].val, insts[k].uses[i].ty)
        /\ term.cond # NoVal => Sees(input, b, end, term.cond, "i1")
        /\ \A i \in DOMAIN term.edges : EdgeSeen(term.edges[i])
  BY DEF SeenUses
<1>. HIDE DEF UseErrs, CondErrs, OutErrs, EdgeSeen, insts, term, end, final
<1>. QED
  BY <1>3, <1>4, <1>6, <1>7, <1>8

\* Counting a block's names tells whether it defines one twice.
LEMMA CountIsExact ==
  ASSUME NEW p \in Submitted, NEW b \in Blocks(p)
  PROVE  Cardinality(DefVals(p, b)) = Cardinality(DefSites(p, b)) <=> SingleIn(p, {b})
<1>. DEFINE S == DefSites(p, b)
            T == DefVals(p, b)
            f == [s \in S |-> DefAt(p, b, s).val]
<1>1. IsFiniteSet(S)
  BY SitesOf
<1>2. f \in Surjection(S, T)
  BY DEF Surjection, DefVals
<1>3. f \in Injection(S, T) <=> \A s, t \in S : f[s] = f[t] => s = t
  <2>. HIDE DEF f, S, T
  <2>1. f \in [S -> T]
    BY <1>2 DEF Surjection
  <2>. QED
    BY <2>1 DEF Injection, IsInjective
<1>4. SingleIn(p, {b}) <=> \A s, t \in S : f[s] = f[t] => s = t
  BY DEF SingleIn
<1>5. Cardinality(T) = Cardinality(S) <=> f \in Injection(S, T)
  <2>. HIDE DEF f, S, T
  <2>. QED
    BY <1>1, <1>2, FS_Surjection
<1>. QED
  BY <1>3, <1>4, <1>5

\* One more block defines its names once, and the names of others not again.
LEMMA OneMoreBlock ==
  ASSUME NEW p, NEW B, NEW b, b \notin B
  PROVE  SingleIn(p, B \union {b}) <=>
           /\ SingleIn(p, B) /\ SingleIn(p, {b})
           /\ DefVals(p, b) \intersect UNION { DefVals(p, a) : a \in B } = {}
<1>1. \A a, v : v \in DefVals(p, a) <=> \E s \in DefSites(p, a) : v = DefAt(p, a, s).val
  BY DEF DefVals
<1>2. SingleIn(p, B \union {b}) =>
        /\ SingleIn(p, B) /\ SingleIn(p, {b})
        /\ DefVals(p, b) \intersect UNION { DefVals(p, a) : a \in B } = {}
  <2>. SUFFICES ASSUME SingleIn(p, B \union {b})
                PROVE  /\ SingleIn(p, B) /\ SingleIn(p, {b})
                       /\ \A a \in B : \A v \in DefVals(p, b) : v \notin DefVals(p, a)
    OBVIOUS
  <2>1. SingleIn(p, B) /\ SingleIn(p, {b})
    BY DEF SingleIn
  <2>2. \A a \in B : \A s \in DefSites(p, a) : \A t \in DefSites(p, b) :
          DefAt(p, a, s).val # DefAt(p, b, t).val
    BY DEF SingleIn
  <2>. QED
    BY <1>1, <2>1, <2>2
<1>3. ASSUME SingleIn(p, B), SingleIn(p, {b}),
             DefVals(p, b) \intersect UNION { DefVals(p, a) : a \in B } = {}
      PROVE  SingleIn(p, B \union {b})
  <2>0. \A a \in B : \A v \in DefVals(p, b) : v \notin DefVals(p, a)
    BY <1>3
  <2>1. \A a \in B : \A s \in DefSites(p, a) : \A t \in DefSites(p, b) :
          DefAt(p, a, s).val # DefAt(p, b, t).val
    BY <1>1, <2>0
  <2>. QED
    BY <1>3, <2>1 DEF SingleIn
<1>. QED
  BY <1>2, <1>3

(* The rule of single assignment, over all blocks of the program. *)
LEMMA SingleDefsMeans == \A p : SingleDefs(p) <=> SingleIn(p, Blocks(p))
BY DEF SingleDefs, SingleIn

(* The rule of scopes, block by block. *)
LEMMA ScopedUsesMeans == \A p : ScopedUses(p) <=> \A b \in Blocks(p) : SeenUses(p, b)
BY DEF ScopedUses, SeenUses

\* The blocks numbered below n: none below the first, one more with each step,
\* all of them past the last.
LEMMA BlocksBelow ==
  ASSUME NEW p \in Submitted, NEW n \in Nat
  PROVE  /\ n = 0 => { b \in Blocks(p) : b < n } = {}
         /\ n \in Blocks(p) =>
              /\ { b \in Blocks(p) : b < n + 1 } = { b \in Blocks(p) : b < n } \union {n}
              /\ n \notin { b \in Blocks(p) : b < n }
         /\ n \notin Blocks(p) => { b \in Blocks(p) : b < n } = Blocks(p)
<1>. DEFINE B == Blocks(p)
<1>1. B \subseteq Nat /\ \A b \in B : \A m \in Nat : m \notin B => b < m
  BY SubmittedBlocks
<1>. HIDE DEF B
<1>0. \A b \in B : b \in Nat /\ ~ (b < 0) /\ (b < n + 1 <=> b < n \/ b = n) /\ ~ (n < n)
  BY <1>1
<1>2. n = 0 => { b \in B : b < n } = {}
  BY <1>0
<1>3. n \in B => /\ { b \in B : b < n + 1 } = { b \in B : b < n } \union {n}
                 /\ n \notin { b \in B : b < n }
  BY <1>0
<1>4. n \notin B => { b \in B : b < n } = B
  BY <1>1
<1>. QED
  BY <1>2, <1>3, <1>4 DEF B

(* The pass over the shape of the program (check_structure). *)
LEMMA CheckStructureStep == VerifierInv /\ CheckStructure => VerifierInv'
<1>. SUFFICES ASSUME VerifierInv, CheckStructure
              PROVE  VerifierInv'
  OBVIOUS
<1>1. /\ pass = "structure" /\ pass' = "defs" /\ at' = 0
      /\ UNCHANGED <<input, defs, dfsVars, endVars, kahnVars, flowVars>>
      /\ input \in Submitted /\ errs = {}
  BY DEF CheckStructure, VerifierInv, VerifierTyped, VerdictSoFar
<1>2. VerifierTyped'
  BY <1>1 DEF VerifierInv, VerifierTyped, Begun, dfsVars, endVars, kahnVars, flowVars, Blocks
<1>3. Collected = {} /\ Collected' = {}
  <2>1. { b \in Blocks(input) : b < 0 } = {}
    BY <1>1, BlocksBelow
  <2>. QED
    BY <1>1, <2>1 DEF Collected, Blocks
<1>4. DefsRight'
  <2>1. UNION { DefVals(input, b) : b \in {} } = {}
    OBVIOUS
  <2>. QED
    BY <1>1, <1>3, <2>1 DEF VerifierInv, DefsRight
<1>5. errs' = {} <=> Structured(input)
  BY <1>1 DEF CheckStructure, Report, Structured
<1>6. SingleIn(input, {})
  BY DEF SingleIn
<1>7. VerdictSoFar'
  BY <1>1, <1>3, <1>5, <1>6 DEF VerdictSoFar
<1>. QED
  BY <1>1, <1>2, <1>4, <1>7 DEF VerifierInv, Begun

(* Collecting the definitions of one more block (collect_defs). *)
LEMMA CollectDefsStep == VerifierInv /\ CollectDefs => VerifierInv'
<1>. SUFFICES ASSUME VerifierInv, CollectDefs
              PROVE  VerifierInv'
  OBVIOUS
<1>. DEFINE new == DefVals(input, at)
            C   == { b \in Blocks(input) : b < at }
            D   == { b \in Blocks(input) : b < at + 1 }
<1>1. /\ pass = "defs" /\ pass' = "defs" /\ at' = at + 1 /\ at \in Blocks(input) /\ at \in Nat
      /\ UNCHANGED <<input, dfsVars, endVars, kahnVars, flowVars>>
      /\ input \in Submitted
  BY DEF CollectDefs, VerifierInv, VerifierTyped
<1>2. VerifierTyped'
  BY <1>1 DEF VerifierInv, VerifierTyped, Begun, dfsVars, endVars, kahnVars, flowVars, Blocks
<1>3. Collected = C /\ Collected' = D
  BY <1>1 DEF Collected, Blocks
<1>4. D = C \union {at} /\ at \notin C /\ C \subseteq Blocks(input)
  BY <1>1, BlocksBelow
<1>5. DOMAIN defs = UNION { DefVals(input, b) : b \in C }
  BY <1>3 DEF VerifierInv, DefsRight
<1>6. defs' = [v \in DOMAIN defs \union new |->
                 IF v \in new THEN DefTy(input, at, v) ELSE defs[v]]
  BY DEF CollectDefs
<1>7. errs' = {} <=> /\ errs = {} /\ new \intersect DOMAIN defs = {}
                     /\ Cardinality(new) = Cardinality(DefSites(input, at))
  BY DEF CollectDefs, Report
<1>8. errs = {} <=> Structured(input) /\ SingleIn(input, C)
  BY <1>1, <1>3 DEF VerifierInv, VerdictSoFar
<1>. HIDE DEF C, D, new
<1>9. SingleIn(input, D) <=>
        SingleIn(input, C) /\ SingleIn(input, {at}) /\ new \intersect DOMAIN defs = {}
  BY <1>4, <1>5, OneMoreBlock DEF new
<1>10. VerdictSoFar'
  <2>1. Cardinality(new) = Cardinality(DefSites(input, at)) <=> SingleIn(input, {at})
    BY <1>1, CountIsExact DEF new
  <2>2. errs' = {} <=> Structured(input) /\ SingleIn(input, D)
    BY <1>7, <1>8, <1>9, <2>1
  <2>. QED
    BY <1>1, <1>3, <2>2 DEF VerdictSoFar
<1>11. DOMAIN defs' = UNION { DefVals(input, b) : b \in D }
  BY <1>4, <1>5, <1>6 DEF new
<1>12. ASSUME SingleIn(input, D), NEW b \in D, NEW s \in DefSites(input, b)
       PROVE  defs'[DefAt(input, b, s).val] = DefAt(input, b, s).ty
  <2>. DEFINE v == DefAt(input, b, s).val
  <2>1. v \in DefVals(input, b)
    BY DEF DefVals
  <2>2. CASE b = at
    <3>1. DefTy(input, at, v) = DefAt(input, b, s).ty
      BY <1>1, <1>9, <1>12, <2>2, TypeOfDef
    <3>. QED
      BY <1>6, <2>1, <2>2, <3>1 DEF new
  <2>3. CASE b # at
    <3>1. b \in C /\ v \in DOMAIN defs
      BY <1>4, <1>5, <2>1, <2>3
    <3>2. v \notin new
      BY <1>9, <1>12, <3>1
    <3>3. defs[v] = DefAt(input, b, s).ty
      BY <1>3, <1>9, <1>12, <3>1 DEF VerifierInv, DefsRight
    <3>. QED
      BY <1>6, <3>1, <3>2, <3>3
  <2>. QED
    BY <2>2, <2>3
<1>13. DefsRight'
  BY <1>1, <1>3, <1>11, <1>12 DEF DefsRight
<1>. QED
  BY <1>1, <1>2, <1>10, <1>13 DEF VerifierInv, Begun

\* Once collected, definitions are not looked at again.
LEMMA DefsStay ==
  ASSUME DefsRight, pass \notin {"structure", "defs"}, pass' \notin {"structure", "defs"},
         UNCHANGED <<input, defs>>
  PROVE  DefsRight'
<1>1. Collected = Blocks(input) /\ Collected' = Blocks(input)
  BY DEF Collected
<1>. QED
  BY <1>1 DEF DefsRight

\* With every block collected, a definition's type is what def_types says.
LEMMA DefsKnown ==
  ASSUME VerifierInv, pass \notin {"structure", "defs"}, SingleDefs(input), NEW b \in Blocks(input)
  PROVE  \A s \in DefSites(input, b) :
           defs[DefAt(input, b, s).val] = DefAt(input, b, s).ty
<1>1. Collected = Blocks(input)
  BY DEF Collected
<1>. QED
  BY <1>1, SingleDefsMeans DEF VerifierInv, DefsRight

(* All definitions are collected, and the blocks are checked next. *)
LEMMA DefsCollectedStep == VerifierInv /\ DefsCollected => VerifierInv'
<1>. SUFFICES ASSUME VerifierInv, DefsCollected
              PROVE  VerifierInv'
  OBVIOUS
<1>1. /\ pass = "defs" /\ pass' = "uses" /\ at' = 0 /\ at \notin Blocks(input) /\ at \in Nat
      /\ UNCHANGED <<input, defs, errs, dfsVars, endVars, kahnVars, flowVars>>
      /\ input \in Submitted
  BY DEF DefsCollected, VerifierInv, VerifierTyped
<1>2. VerifierTyped'
  BY <1>1 DEF VerifierInv, VerifierTyped, Begun, dfsVars, endVars, kahnVars, flowVars, Blocks
<1>3. Collected = Blocks(input) /\ Collected' = Blocks(input) /\ Checked' = {}
  <2>1. { b \in Blocks(input) : b < at } = Blocks(input) /\ { b \in Blocks(input) : b < 0 } = {}
    BY <1>1, BlocksBelow
  <2>. QED
    BY <1>1, <2>1 DEF Collected, Checked, Blocks
<1>4. DefsRight'
  BY <1>1, <1>3 DEF VerifierInv, DefsRight
<1>5. errs = {} <=> Structured(input) /\ SingleDefs(input)
  BY <1>1, <1>3, SingleDefsMeans DEF VerifierInv, VerdictSoFar
<1>6. VerdictSoFar'
  BY <1>1, <1>3, <1>5 DEF VerdictSoFar
<1>. QED
  BY <1>1, <1>2, <1>4, <1>6 DEF VerifierInv, Begun

(* Checking one more block against the definitions (check_block). *)
LEMMA CheckBlockStep == VerifierInv /\ CheckBlock => VerifierInv'
<1>. SUFFICES ASSUME VerifierInv, CheckBlock
              PROVE  VerifierInv'
  OBVIOUS
<1>1. /\ pass = "uses" /\ pass' = "uses" /\ at' = at + 1 /\ at \in Blocks(input) /\ at \in Nat
      /\ UNCHANGED <<input, defs, dfsVars, endVars, kahnVars, flowVars>>
      /\ input \in Submitted
  BY DEF CheckBlock, VerifierInv, VerifierTyped
<1>2. VerifierTyped'
  BY <1>1 DEF VerifierInv, VerifierTyped, Begun, dfsVars, endVars, kahnVars, flowVars, Blocks
<1>3. DefsRight'
  BY <1>1, DefsStay DEF VerifierInv
<1>4. Checked' = Checked \union {at}
  <2>1. { b \in Blocks(input) : b < at + 1 } = { b \in Blocks(input) : b < at } \union {at}
    BY <1>1, BlocksBelow
  <2>. QED
    BY <1>1, <2>1 DEF Checked, Blocks
<1>5. errs = {} <=> /\ Structured(input) /\ SingleDefs(input)
                    /\ \A b \in Checked : SeenUses(input, b)
  BY <1>1 DEF VerifierInv, VerdictSoFar
<1>6. errs' = {} <=> errs = {} /\ BlockErrs(input, at) = {}
  BY DEF CheckBlock, Report
<1>7. SingleDefs(input) => (BlockErrs(input, at) = {} <=> SeenUses(input, at))
  BY <1>1, DefsKnown, CheckIsExact
<1>8. errs' = {} <=> /\ Structured(input) /\ SingleDefs(input)
                     /\ \A b \in Checked' : SeenUses(input, b)
  BY <1>4, <1>5, <1>6, <1>7
<1>9. VerdictSoFar'
  BY <1>1, <1>8 DEF VerdictSoFar
<1>. QED
  BY <1>1, <1>2, <1>3, <1>9 DEF VerifierInv, Begun

-----------------------------------------------------------------------------
(***************************************************************************)
(* Reachability and back edges.                                            *)
(***************************************************************************)

\* ReachableRef is the least set with the entry and closed under successors,
\* CanEndRef the least one with the row enders and closed under predecessors.
LEMMA ReachableIsLeast ==
  ASSUME NEW p, Entry \in Blocks(p)
  PROVE  /\ Entry \in ReachableRef(p) /\ ReachableRef(p) \subseteq Blocks(p)
         /\ \A a \in ReachableRef(p) : Succs(p, a) \subseteq ReachableRef(p)
         /\ \A S \in SUBSET Blocks(p) :
              Entry \in S /\ (\A a \in S : Succs(p, a) \subseteq S) => ReachableRef(p) \subseteq S
<1>1. \A a : Succs(p, a) \subseteq Blocks(p)
  BY DEF Succs
<1>. QED
  BY <1>1 DEF ReachableRef

(* The blocks from which a row can end are the least set that holds the blocks that end one and
   every predecessor of its own. *)
LEMMA CanEndIsLeast ==
  ASSUME NEW p
  PROVE  /\ EndBlocks(p) \subseteq CanEndRef(p) /\ CanEndRef(p) \subseteq Blocks(p)
         /\ \A a \in CanEndRef(p) : Preds(p, a) \subseteq CanEndRef(p)
         /\ \A S \in SUBSET Blocks(p) :
              EndBlocks(p) \subseteq S /\ (\A a \in S : Preds(p, a) \subseteq S)
                => CanEndRef(p) \subseteq S
<1>1. EndBlocks(p) \subseteq Blocks(p) /\ \A a : Preds(p, a) \subseteq Blocks(p)
  BY DEF EndBlocks, Preds
<1>. QED
  BY <1>1 DEF CanEndRef

(* The blocks are checked, and the search begins at the entry. *)
LEMMA BlocksCheckedStep == VerifierInv /\ BlocksChecked => VerifierInv'
<1>. SUFFICES ASSUME VerifierInv, BlocksChecked
              PROVE  VerifierInv'
  OBVIOUS
<1>1. /\ pass = "uses" /\ at \notin Blocks(input) /\ at \in Nat
      /\ UNCHANGED <<input, at, defs, errs, endVars, kahnVars, flowVars>>
      /\ input \in Submitted
      /\ color = [b \in Blocks(input) |-> 0] /\ stack = <<>> /\ back = {}
  BY DEF BlocksChecked, VerifierInv, VerifierTyped
<1>2. Checked = Blocks(input)
  <2>1. { b \in Blocks(input) : b < at } = Blocks(input)
    BY <1>1, BlocksBelow
  <2>. QED
    BY <1>1, <2>1 DEF Checked
<1>3. errs = {} <=> WellFormed(input)
  BY <1>1, <1>2, ScopedUsesMeans DEF VerifierInv, VerdictSoFar, WellFormed, Structured
<1>4. CASE Blocks(input) = {}
  <2>1. pass' = "done" /\ UNCHANGED dfsVars
    BY <1>4 DEF BlocksChecked
  <2>2. VerifierTyped'
    BY <1>1, <2>1 DEF VerifierInv, VerifierTyped, Begun, dfsVars, endVars, kahnVars, flowVars, Blocks
  <2>3. DefsRight'
    BY <1>1, <2>1, DefsStay DEF VerifierInv
  <2>4. errs # {} /\ ~ Verified(input)
    BY <1>3, <1>4 DEF WellFormed, Verified
  <2>. QED
    BY <1>1, <2>1, <2>2, <2>3, <2>4 DEF VerifierInv, VerdictSoFar, Begun
<1>5. CASE Blocks(input) # {}
  <2>1. /\ pass' = "dfs" /\ color' = [color EXCEPT ![Entry] = 1]
        /\ stack' = <<<<Entry, 0>>>> /\ back' = back
    BY <1>5 DEF BlocksChecked
  <2>2. Entry \in Blocks(input)
    BY <1>1, <1>5, SubmittedBlocks
  <2>3. /\ color' \in [Blocks(input) -> 0 .. 2] /\ color'[Entry] = 1
        /\ \A b \in Blocks(input) \ {Entry} : color'[b] = 0
    BY <1>1, <2>1, <2>2
  <2>4. /\ stack' \in Seq(Blocks(input) \X Nat) /\ DOMAIN stack' = {1}
        /\ stack'[1][1] = Entry /\ stack'[1][2] = 0
    BY <2>1, <2>2
  <2>5. VerifierTyped'
    BY <1>1, <1>5, <2>1, <2>3, <2>4
       DEF VerifierInv, VerifierTyped, Begun, endVars, kahnVars, flowVars, Blocks
  <2>6. DefsRight'
    BY <1>1, <2>1, DefsStay DEF VerifierInv
  <2>7. Stacked'
    <3>1. Len(input[Entry].term.edges) \in Nat
      BY <1>1, <2>2, SubmittedShape
    <3>2. 0 <= Len(input[Entry].term.edges) /\ 1 .. 0 = {}
      BY <3>1
    <3>. QED
      BY <1>1, <2>3, <2>4, <3>2 DEF Stacked, Blocks
  <2>8. Searched'
    <3>1. Finished' = {} /\ Reachable' = {Entry}
      BY <1>1, <2>2, <2>3 DEF Finished, Reachable, Blocks
    <3>2. Entry \in ReachableRef(input)
      BY <2>2, ReachableIsLeast
    <3>. QED
      BY <1>1, <2>1, <2>3, <3>1, <3>2 DEF Searched
  <2>. QED
    BY <1>1, <1>3, <2>1, <2>5, <2>6, <2>7, <2>8 DEF VerifierInv, VerdictSoFar
<1>. QED
  BY <1>4, <1>5

\* What the search's invariant says while it runs.
LEMMA AtTop ==
  ASSUME VerifierInv, pass = "dfs", stack # <<>>
  PROVE  /\ input \in Submitted /\ Entry \in Blocks(input)
         /\ Len(stack) \in Nat \ {0} /\ DOMAIN stack = 1 .. Len(stack)
         /\ \A i \in DOMAIN stack : stack[i][1] \in Blocks(input) /\ stack[i][2] \in Nat
                                    /\ stack[i] = <<stack[i][1], stack[i][2]>>
         /\ Last(stack) = stack[Len(stack)]
         /\ Len(input[stack[Len(stack)][1]].term.edges) \in Nat
         /\ color[Entry] = 1
         /\ Stacked /\ Searched
<1>1. /\ input \in Submitted /\ Entry \in Blocks(input) /\ stack \in Seq(Blocks(input) \X Nat)
      /\ Stacked /\ Searched
  BY SubmittedBlocks DEF VerifierInv, VerifierTyped, Begun
<1>2. Len(stack) \in Nat \ {0} /\ DOMAIN stack = 1 .. Len(stack)
  BY <1>1, TopOfStack
<1>3. \A i \in DOMAIN stack : stack[i] \in Blocks(input) \X Nat
  BY <1>1, ElementOfSeq, <1>2
<1>4. \A i \in DOMAIN stack : stack[i][1] \in Blocks(input) /\ stack[i][2] \in Nat
                              /\ stack[i] = <<stack[i][1], stack[i][2]>>
  BY <1>3
<1>5. Len(input[stack[Len(stack)][1]].term.edges) \in Nat
  BY <1>1, <1>2, <1>4, SubmittedShape
<1>6. color[Entry] = 1
  BY <1>1, <1>2 DEF Stacked
<1>. QED
  BY <1>1, <1>2, <1>4, <1>5, <1>6 DEF Last

\* The stack after the top frame has gone on to its next successor.
LEMMA TriedStack ==
  ASSUME VerifierInv, pass = "dfs", stack # <<>>,
         NEW f \in Blocks(input) \X Nat
  PROVE  /\ Append(Front(stack), f) \in Seq(Blocks(input) \X Nat)
         /\ Len(Append(Front(stack), f)) = Len(stack)
         /\ Append(Front(stack), f)[Len(stack)] = f
         /\ \A i \in 1 .. Len(stack) - 1 : Append(Front(stack), f)[i] = stack[i]
<1>. DEFINE S == Blocks(input) \X Nat
            front == SubSeq(stack, 1, Len(stack) - 1)
<1>1. stack \in Seq(S) /\ Len(stack) \in Nat \ {0}
  BY AtTop DEF VerifierInv, VerifierTyped
<1>. HIDE DEF S
<1>2. /\ front \in Seq(S) /\ Len(front) = Len(stack) - 1
      /\ \A i \in 1 .. Len(stack) - 1 : front[i] = stack[i]
  BY <1>1, PoppedStack
<1>3. f \in S
  BY DEF S
<1>. HIDE DEF front
<1>4. /\ Append(front, f) \in Seq(S) /\ Len(Append(front, f)) = Len(front) + 1
      /\ Append(front, f)[Len(front) + 1] = f
      /\ \A i \in 1 .. Len(front) : Append(front, f)[i] = front[i]
  BY <1>2, <1>3, PushedStack
<1>. QED
  BY <1>1, <1>2, <1>4 DEF front, S, Front

\* The stack, frame by frame.
LEMMA FramesSay ==
  ASSUME VerifierInv, pass = "dfs", stack # <<>>, NEW n, n = Len(stack)
  PROVE  /\ stack[1][1] = Entry
         /\ \A i \in 1 .. n : /\ color[stack[i][1]] = 1
                              /\ stack[i][2] <= Len(input[stack[i][1]].term.edges)
         /\ \A i, j \in 1 .. n : stack[i][1] = stack[j][1] => i = j
         /\ \A x \in Blocks(input) : color[x] = 1 => \E i \in 1 .. n : stack[i][1] = x
         /\ \A i \in 1 .. n : \A j \in 1 .. stack[i][2] :
              input[stack[i][1]].term.edges[j].to \in Blocks(input) =>
                \/ Settled(stack[i][1], input[stack[i][1]].term.edges[j].to)
                \/ i + 1 \in 1 .. n /\ input[stack[i][1]].term.edges[j].to = stack[i + 1][1]
         /\ \A i \in 1 .. n : i # 1 => Forward(stack[i - 1][1], stack[i][1])
<1>1. DOMAIN stack = 1 .. n /\ Stacked
  BY AtTop
<1>2. stack[1][1] = Entry
  BY <1>1 DEF Stacked
<1>3. \A i \in 1 .. n : /\ color[stack[i][1]] = 1
                        /\ stack[i][2] <= Len(input[stack[i][1]].term.edges)
  BY <1>1 DEF Stacked
<1>4. /\ \A i, j \in 1 .. n : stack[i][1] = stack[j][1] => i = j
      /\ \A x \in Blocks(input) : color[x] = 1 => \E i \in 1 .. n : stack[i][1] = x
  BY <1>1 DEF Stacked
<1>5. \A i \in 1 .. n : \A j \in 1 .. stack[i][2] :
        input[stack[i][1]].term.edges[j].to \in Blocks(input) =>
          \/ Settled(stack[i][1], input[stack[i][1]].term.edges[j].to)
          \/ i + 1 \in 1 .. n /\ input[stack[i][1]].term.edges[j].to = stack[i + 1][1]
  BY <1>1 DEF Stacked
<1>6. \A i \in 1 .. n : i # 1 => Forward(stack[i - 1][1], stack[i][1])
  BY <1>1 DEF Stacked
<1>. QED
  BY <1>2, <1>3, <1>4, <1>5, <1>6

\* Block b, on top of a stack of n frames, has `tried' successors behind it and
\* goes on to s.
Tries(n, b, tried, s) ==
  /\ n = Len(stack) /\ b = stack[n][1] /\ tried = stack[n][2]
  /\ tried < Len(input[b].term.edges) /\ s = input[b].term.edges[tried + 1].to

\* A successor that is not pushed is no block, closes a loop, or is finished.
PassesBy(b, tried, s) ==
  /\ UNCHANGED <<input, color>>
  /\ stack' = Append(Front(stack), <<b, tried + 1>>)
  /\ \/ s \notin Blocks(input) /\ back' = back
     \/ s \in Blocks(input) /\ color[s] = 1 /\ back' = back \union {<<b, s>>}
     \/ s \in Blocks(input) /\ color[s] = 2 /\ back' = back

(* The search meets a block it has seen: an edge is a back edge exactly when it leads to a
   block on the stack. *)
LEMMA PassesByStep ==
  ASSUME VerifierInv, pass = "dfs", stack # <<>>,
         NEW n, NEW b, NEW tried, NEW s, Tries(n, b, tried, s), PassesBy(b, tried, s)
  PROVE  /\ Stacked' /\ Searched'
         /\ stack' \in Seq(Blocks(input) \X Nat)
         /\ back' \subseteq Blocks(input) \X Blocks(input)
<1>. DEFINE f == <<b, tried + 1>>
            NowSettled(a, x) == <<a, x>> \in back' \/ (color[x] = 2 /\ x # Entry)
            NowForward(a, x) == x \in Succs(input, a) /\ <<a, x>> \notin back'
<1>1. /\ input \in Submitted /\ Entry \in Blocks(input) /\ n \in Nat \ {0} /\ DOMAIN stack = 1 .. n
      /\ \A i \in 1 .. n : stack[i][1] \in Blocks(input) /\ stack[i][2] \in Nat
      /\ color[Entry] = 1 /\ Len(input[b].term.edges) \in Nat
  BY AtTop DEF Tries
<1>2. Stacked /\ Searched
  BY AtTop
<1>3. /\ b = stack[n][1] /\ tried = stack[n][2] /\ tried < Len(input[b].term.edges)
      /\ s = input[b].term.edges[tried + 1].to
  BY DEF Tries
<1>4. input' = input /\ color' = color
  BY DEF PassesBy
<1>5. n \in 1 .. n
  BY <1>1
<1>6. /\ stack[1][1] = Entry
      /\ \A i \in 1 .. n : /\ color[stack[i][1]] = 1
                           /\ stack[i][2] <= Len(input[stack[i][1]].term.edges)
  BY FramesSay DEF Tries
<1>7. /\ \A i, j \in 1 .. n : stack[i][1] = stack[j][1] => i = j
      /\ \A x \in Blocks(input) : color[x] = 1 => \E i \in 1 .. n : stack[i][1] = x
  BY FramesSay DEF Tries
<1>8. \A i \in 1 .. n : \A j \in 1 .. stack[i][2] :
        input[stack[i][1]].term.edges[j].to \in Blocks(input) =>
          \/ Settled(stack[i][1], input[stack[i][1]].term.edges[j].to)
          \/ i + 1 \in 1 .. n /\ input[stack[i][1]].term.edges[j].to = stack[i + 1][1]
  BY FramesSay DEF Tries
<1>9. \A i \in 1 .. n : i # 1 => Forward(stack[i - 1][1], stack[i][1])
  BY FramesSay DEF Tries
<1>10. b \in Blocks(input) /\ tried \in Nat /\ color[b] = 1
  BY <1>1, <1>3, <1>5, <1>6
<1>11. f \in Blocks(input) \X Nat
  BY <1>10
<1>12. /\ stack' \in Seq(Blocks(input) \X Nat) /\ Len(stack') = n
       /\ stack'[n] = f /\ \A i \in 1 .. n - 1 : stack'[i] = stack[i]
  BY <1>11, TriedStack DEF Tries, PassesBy
<1>13. DOMAIN stack' = 1 .. n
  BY <1>12
<1>14. /\ \A i \in 1 .. n : stack'[i][1] = stack[i][1]
       /\ \A i \in 1 .. n - 1 : stack'[i][2] = stack[i][2]
       /\ stack'[n][2] = tried + 1
  <2>1. \A i \in 1 .. n : i \in 1 .. n - 1 \/ i = n
    BY <1>1
  <2>2. stack'[n][1] = stack[n][1] /\ stack'[n][2] = tried + 1
    <3>1. stack'[n][1] = b /\ stack'[n][2] = tried + 1
      BY <1>12
    <3>. QED
      BY <1>3, <3>1
  <2>3. \A i \in 1 .. n - 1 : stack'[i][1] = stack[i][1] /\ stack'[i][2] = stack[i][2]
    BY <1>12
  <2>. QED
    BY <2>1, <2>2, <2>3
<1>15. /\ back \subseteq back'
       /\ \A e \in back' : e \in back \/ (e = <<b, s>> /\ color[s] = 1 /\ s \in Blocks(input))
       /\ s \in Blocks(input) => <<b, s>> \in back' \/ color[s] = 2
  BY DEF PassesBy
<1>16. Finished' = Finished /\ Reachable' = Reachable
  BY <1>4 DEF Finished, Reachable
<1>17. \A a, x : Settled(a, x) => NowSettled(a, x)
  BY <1>15 DEF Settled
<1>18. \A a, x : NowForward(a, x) => Forward(a, x)
  BY <1>15 DEF Forward
<1>19. \A a, x : Forward(a, x) /\ <<a, x>> # <<b, s>> => NowForward(a, x)
  BY <1>15 DEF Forward
<1>20. s \in Blocks(input) => NowSettled(b, s)
  <2>1. color[s] = 2 => s # Entry
    BY <1>1
  <2>. QED
    BY <1>15, <2>1
<1>21. ASSUME NEW i \in 1 .. n, NEW j \in 1 .. stack'[i][2],
              input[stack'[i][1]].term.edges[j].to \in Blocks(input)
       PROVE  \/ NowSettled(stack'[i][1], input[stack'[i][1]].term.edges[j].to)
              \/ i + 1 \in 1 .. n /\ input[stack'[i][1]].term.edges[j].to = stack'[i + 1][1]
  <2>. DEFINE a == stack[i][1]
              x == input[a].term.edges[j].to
  <2>1. stack'[i][1] = a /\ x \in Blocks(input)
    BY <1>14, <1>21
  <2>2. ASSUME j \in 1 .. stack[i][2]
        PROVE  NowSettled(a, x) \/ (i + 1 \in 1 .. n /\ x = stack[i + 1][1])
    BY <1>8, <1>17, <2>1, <2>2
  <2>. HIDE DEF NowSettled
  <2>3. CASE i = n
    <3>1. j \in 1 .. tried + 1 /\ a = b /\ ~ (i + 1 \in 1 .. n)
      <4>1. stack'[i][2] = tried + 1 /\ a = b
        BY <1>3, <1>14, <2>3
      <4>2. ~ (i + 1 \in 1 .. n)
        BY <1>1, <2>3
      <4>. QED
        BY <4>1, <4>2
    <3>2. CASE j = tried + 1
      BY <1>3, <1>20, <2>1, <3>1, <3>2
    <3>3. CASE j # tried + 1
      <4>1. j \in 1 .. tried
        BY <1>10, <3>1, <3>3
      <4>2. j \in 1 .. stack[i][2]
        BY <1>3, <2>3, <4>1
      <4>. QED
        BY <2>1, <2>2, <3>1, <4>2
    <3>. QED
      BY <3>2, <3>3
  <2>4. CASE i # n
    <3>1. i \in 1 .. n - 1
      BY <1>1, <2>4
    <3>2. j \in 1 .. stack[i][2]
      BY <1>14, <3>1
    <3>3. NowSettled(a, x) \/ (i + 1 \in 1 .. n /\ x = stack[i + 1][1])
      BY <2>2, <3>2
    <3>. QED
      BY <1>14, <2>1, <3>3
  <2>. QED
    BY <2>3, <2>4
<1>22. ASSUME NEW i \in 1 .. n, i # 1
       PROVE  NowForward(stack'[i - 1][1], stack'[i][1])
  <2>1. i - 1 \in 1 .. n /\ i - 1 # n
    BY <1>1, <1>22
  <2>2. Forward(stack[i - 1][1], stack[i][1])
    BY <1>9, <1>22
  <2>3. stack[i - 1][1] # b
    BY <1>3, <1>5, <1>7, <2>1
  <2>4. stack'[i - 1][1] = stack[i - 1][1] /\ stack'[i][1] = stack[i][1]
    BY <1>14, <2>1
  <2>5. <<stack[i - 1][1], stack[i][1]>> # <<b, s>>
    BY <2>3
  <2>. HIDE DEF NowForward
  <2>. QED
    BY <1>19, <2>2, <2>4, <2>5
<1>23. Stacked'
  <2>1. stack'[1][1] = Entry
    BY <1>1, <1>6, <1>14
  <2>2. \A i \in 1 .. n : /\ color[stack'[i][1]] = 1
                          /\ stack'[i][2] <= Len(input[stack'[i][1]].term.edges)
    <3>. TAKE i \in 1 .. n
    <3>1. CASE i = n
      <4>1. tried + 1 <= Len(input[b].term.edges)
        <5>. DEFINE m == Len(input[b].term.edges)
        <5>1. m \in Nat /\ tried < m /\ tried \in Nat
          BY <1>1, <1>3, <1>10
        <5>. HIDE DEF m
        <5>2. tried + 1 <= m
          BY <5>1
        <5>. QED
          BY <5>2 DEF m
      <4>. QED
        BY <1>3, <1>10, <1>14, <3>1, <4>1
    <3>2. CASE i # n
      <4>1. i \in 1 .. n - 1
        BY <1>1, <3>2
      <4>. QED
        BY <1>6, <1>14, <4>1
    <3>. QED
      BY <3>1, <3>2
  <2>3. \A i, j \in 1 .. n : stack'[i][1] = stack'[j][1] => i = j
    BY <1>7, <1>14
  <2>4. \A x \in Blocks(input) : color[x] = 1 => \E i \in 1 .. n : stack'[i][1] = x
    BY <1>7, <1>14
  <2>. QED
    BY <1>4, <1>13, <1>21, <1>22, <2>1, <2>2, <2>3, <2>4 DEF Stacked, Settled, Forward
<1>24. Searched'
  <2>1. \A a \in Finished : \A x \in Succs(input, a) : NowSettled(a, x)
    BY <1>2, <1>17 DEF Searched
  <2>2. \A R \in SUBSET Finished :
          R # {} => \E x \in R : \A a \in R : ~ NowForward(a, x)
    BY <1>2, <1>18 DEF Searched
  <2>3. ASSUME NEW x \in Finished \ {Entry}
        PROVE  \E a \in Reachable : NowForward(a, x)
    <3>1. PICK a \in Reachable : Forward(a, x)
      BY <1>2 DEF Searched
    <3>2. color[x] = 2
      BY DEF Finished
    <3>3. <<a, x>> \notin back'
      <4>1. <<a, x>> = <<b, s>> => color[s] # 1
        BY <3>2
      <4>. QED
        BY <1>15, <3>1, <4>1 DEF Forward
    <3>. QED
      BY <3>1, <3>3 DEF Forward
  <2>4. back' \subseteq Reachable \X Reachable
    <3>1. b \in Reachable /\ (s \in Blocks(input) /\ color[s] = 1 => s \in Reachable)
      BY <1>10 DEF Reachable
    <3>2. back \subseteq Reachable \X Reachable
      BY <1>2 DEF Searched
    <3>. QED
      BY <1>15, <3>1, <3>2
  <2>5. color[Entry] # 0 /\ Reachable \subseteq ReachableRef(input)
    BY <1>2 DEF Searched
  <2>. QED
    BY <1>4, <1>16, <2>1, <2>2, <2>3, <2>4, <2>5 DEF Searched, Settled, Forward
<1>25. back' \subseteq Blocks(input) \X Blocks(input)
  <2>1. back \subseteq Blocks(input) \X Blocks(input)
    BY DEF VerifierInv, VerifierTyped
  <2>. QED
    BY <1>10, <1>15, <2>1
<1>. QED
  BY <1>12, <1>23, <1>24, <1>25

\* A successor not seen before is pushed.
Pushes(b, tried, s) ==
  /\ UNCHANGED <<input, back>>
  /\ s \in Blocks(input) /\ color[s] = 0
  /\ color' = [color EXCEPT ![s] = 1]
  /\ stack' = Append(Append(Front(stack), <<b, tried + 1>>), <<s, 0>>)

(* The search meets a new block and goes into it. *)
LEMMA PushesStep ==
  ASSUME VerifierInv, pass = "dfs", stack # <<>>,
         NEW n, NEW b, NEW tried, NEW s, Tries(n, b, tried, s), Pushes(b, tried, s)
  PROVE  /\ Stacked' /\ Searched'
         /\ stack' \in Seq(Blocks(input) \X Nat)
         /\ color' \in [Blocks(input) -> 0 .. 2]
<1>. DEFINE f == <<b, tried + 1>>
            g == <<s, 0>>
            m == n + 1
            next == Append(Front(stack), f)
            NowSettled(a, x) == <<a, x>> \in back \/ (color'[x] = 2 /\ x # Entry)
<1>1. /\ input \in Submitted /\ Entry \in Blocks(input) /\ n \in Nat \ {0}
      /\ \A i \in 1 .. n : stack[i][1] \in Blocks(input) /\ stack[i][2] \in Nat
      /\ color[Entry] = 1 /\ Len(input[b].term.edges) \in Nat
  BY AtTop DEF Tries
<1>2. Searched /\ color \in [Blocks(input) -> 0 .. 2]
  BY AtTop DEF VerifierInv, VerifierTyped
<1>3. /\ b = stack[n][1] /\ tried = stack[n][2] /\ tried < Len(input[b].term.edges)
      /\ s = input[b].term.edges[tried + 1].to
  BY DEF Tries
<1>4. /\ input' = input /\ back' = back /\ s \in Blocks(input) /\ color[s] = 0
      /\ color' = [color EXCEPT ![s] = 1]
  BY DEF Pushes
<1>5. /\ n \in 1 .. n /\ m \in 1 .. m /\ m # 1 /\ m - 1 = n
      /\ \A i \in 1 .. m : i \in 1 .. n - 1 \/ i = n \/ i = m
      /\ \A i \in 1 .. n : i \in 1 .. m
  BY <1>1
<1>6. /\ stack[1][1] = Entry
      /\ \A i \in 1 .. n : /\ color[stack[i][1]] = 1
                           /\ stack[i][2] <= Len(input[stack[i][1]].term.edges)
  BY FramesSay DEF Tries
<1>7. /\ \A i, j \in 1 .. n : stack[i][1] = stack[j][1] => i = j
      /\ \A x \in Blocks(input) : color[x] = 1 => \E i \in 1 .. n : stack[i][1] = x
  BY FramesSay DEF Tries
<1>8. \A i \in 1 .. n : \A j \in 1 .. stack[i][2] :
        input[stack[i][1]].term.edges[j].to \in Blocks(input) =>
          \/ Settled(stack[i][1], input[stack[i][1]].term.edges[j].to)
          \/ i + 1 \in 1 .. n /\ input[stack[i][1]].term.edges[j].to = stack[i + 1][1]
  BY FramesSay DEF Tries
<1>9. \A i \in 1 .. n : i # 1 => Forward(stack[i - 1][1], stack[i][1])
  BY FramesSay DEF Tries
<1>10. b \in Blocks(input) /\ tried \in Nat /\ color[b] = 1
  BY <1>1, <1>3, <1>5, <1>6
<1>11. f \in Blocks(input) \X Nat /\ g \in Blocks(input) \X Nat
  BY <1>4, <1>10
<1>12. /\ next \in Seq(Blocks(input) \X Nat) /\ Len(next) = n
       /\ next[n] = f /\ \A i \in 1 .. n - 1 : next[i] = stack[i]
  BY <1>11, TriedStack DEF Tries
<1>13. /\ stack' \in Seq(Blocks(input) \X Nat) /\ Len(stack') = m
       /\ stack'[m] = g /\ \A i \in 1 .. n : stack'[i] = next[i]
  <2>1. stack' = Append(next, g)
    BY DEF Pushes
  <2>. HIDE DEF next, g
  <2>. QED
    BY <1>11, <1>12, <2>1, PushedStack
<1>14. DOMAIN stack' = 1 .. m
  BY <1>1, <1>13
<1>15. /\ \A i \in 1 .. n : stack'[i][1] = stack[i][1]
       /\ \A i \in 1 .. n - 1 : stack'[i][2] = stack[i][2]
       /\ stack'[n][2] = tried + 1 /\ stack'[m][1] = s /\ stack'[m][2] = 0
  <2>1. \A i \in 1 .. n : i \in 1 .. n - 1 \/ i = n
    BY <1>1
  <2>2. stack'[n][1] = stack[n][1] /\ stack'[n][2] = tried + 1
    <3>1. stack'[n] = f
      BY <1>5, <1>12, <1>13
    <3>2. stack'[n][1] = b /\ stack'[n][2] = tried + 1
      BY <3>1
    <3>. QED
      BY <1>3, <3>2
  <2>3. \A i \in 1 .. n - 1 : stack'[i] = stack[i]
    <3>1. \A i \in 1 .. n - 1 : i \in 1 .. n
      BY <1>1
    <3>. QED
      BY <1>12, <1>13, <3>1
  <2>4. stack'[m][1] = s /\ stack'[m][2] = 0
    BY <1>13
  <2>. HIDE DEF m
  <2>. QED
    BY <2>1, <2>2, <2>3, <2>4
<1>16. /\ color'[s] = 1 /\ \A x \in Blocks(input) : x # s => color'[x] = color[x]
       /\ color' \in [Blocks(input) -> 0 .. 2]
  BY <1>2, <1>4
<1>17. Finished' = Finished /\ Reachable' = Reachable \union {s}
  BY <1>4, <1>16 DEF Finished, Reachable
<1>18. \A a, x : x \in Blocks(input) /\ Settled(a, x) => NowSettled(a, x)
  BY <1>4, <1>16 DEF Settled
<1>19. \A i \in 1 .. n : stack[i][1] # s
  BY <1>4, <1>6
<1>20. Forward(b, s)
  <2>1. tried + 1 \in DOMAIN input[b].term.edges
    <3>. DEFINE k == Len(input[b].term.edges)
    <3>1. k \in Nat /\ tried < k /\ tried \in Nat /\ DOMAIN input[b].term.edges = 1 .. k
      BY <1>1, <1>3, <1>10, SubmittedShape
    <3>. HIDE DEF k
    <3>. QED
      BY <3>1
  <2>2. s \in Succs(input, b)
    BY <1>3, <1>4, <2>1 DEF Succs, Targets
  <2>3. <<b, s>> \notin back
    <3>1. s \notin Reachable
      BY <1>4 DEF Reachable
    <3>. QED
      BY <1>2, <3>1 DEF Searched
  <2>. QED
    BY <2>2, <2>3 DEF Forward
<1>. HIDE DEF m
<1>21. ASSUME NEW i \in 1 .. m, NEW j \in 1 .. stack'[i][2],
              input[stack'[i][1]].term.edges[j].to \in Blocks(input)
       PROVE  \/ NowSettled(stack'[i][1], input[stack'[i][1]].term.edges[j].to)
              \/ i + 1 \in 1 .. m /\ input[stack'[i][1]].term.edges[j].to = stack'[i + 1][1]
  <2>. DEFINE a == stack'[i][1]
              x == input[a].term.edges[j].to
  <2>1. x \in Blocks(input)
    BY <1>21
  <2>2. ASSUME i \in 1 .. n, j \in 1 .. stack[i][2]
        PROVE  NowSettled(a, x) \/ (i + 1 \in 1 .. n /\ x = stack[i + 1][1])
    <3>1. a = stack[i][1]
      BY <1>15, <2>2
    <3>. QED
      BY <1>8, <1>18, <2>1, <2>2, <3>1
  <2>. HIDE DEF NowSettled
  <2>3. CASE i = m
    <3>1. stack'[i][2] = 0
      BY <1>15, <2>3
    <3>. QED
      BY <3>1
  <2>4. CASE i = n
    <3>1. a = b /\ j \in 1 .. tried + 1
      BY <1>3, <1>5, <1>15, <2>4
    <3>2. CASE j = tried + 1
      <4>1. x = s
        BY <1>3, <3>1, <3>2
      <4>2. i + 1 = m /\ m \in 1 .. m
        BY <1>5, <2>4 DEF m
      <4>. QED
        BY <1>15, <4>1, <4>2
    <3>3. CASE j # tried + 1
      <4>1. j \in 1 .. tried
        BY <1>10, <3>1, <3>3
      <4>2. j \in 1 .. stack[i][2]
        BY <1>3, <2>4, <4>1
      <4>3. ~ (i + 1 \in 1 .. n)
        BY <1>1, <2>4
      <4>. QED
        BY <1>5, <2>2, <2>4, <4>2, <4>3
    <3>. QED
      BY <3>2, <3>3
  <2>5. CASE i \in 1 .. n - 1
    <3>1. i \in 1 .. n /\ i + 1 \in 1 .. n /\ i + 1 \in 1 .. m
      BY <1>1, <1>5, <2>5
    <3>2. j \in 1 .. stack[i][2]
      BY <1>15, <2>5
    <3>3. NowSettled(a, x) \/ x = stack[i + 1][1]
      BY <2>2, <3>1, <3>2
    <3>. QED
      BY <1>15, <3>1, <3>3
  <2>. QED
    BY <1>5, <2>3, <2>4, <2>5
<1>22. ASSUME NEW i \in 1 .. m, i # 1
       PROVE  Forward(stack'[i - 1][1], stack'[i][1])
  <2>1. CASE i = m
    <3>1. stack'[i][1] = s /\ stack'[i - 1][1] = b
      BY <1>3, <1>5, <1>15, <2>1
    <3>. QED
      BY <1>20, <3>1
  <2>2. CASE i \in 1 .. n
    <3>1. i - 1 \in 1 .. n
      BY <1>1, <1>22, <2>2
    <3>2. Forward(stack[i - 1][1], stack[i][1])
      BY <1>9, <1>22, <2>2
    <3>. QED
      BY <1>15, <2>2, <3>1, <3>2
  <2>3. \A k \in 1 .. n - 1 : k \in 1 .. n
    BY <1>1
  <2>. QED
    BY <1>5, <2>1, <2>2, <2>3
<1>23. Stacked'
  <2>1. stack'[1][1] = Entry
    <3>1. 1 \in 1 .. n
      BY <1>1
    <3>. QED
      BY <1>6, <1>15, <3>1
  <2>2. \A i \in 1 .. m : /\ color'[stack'[i][1]] = 1
                          /\ stack'[i][2] <= Len(input[stack'[i][1]].term.edges)
    <3>. TAKE i \in 1 .. m
    <3>1. CASE i = n
      <4>1. tried + 1 <= Len(input[b].term.edges)
        <5>. DEFINE k == Len(input[b].term.edges)
        <5>1. k \in Nat /\ tried < k /\ tried \in Nat
          BY <1>1, <1>3, <1>10
        <5>. HIDE DEF k
        <5>2. tried + 1 <= k
          BY <5>1
        <5>. QED
          BY <5>2 DEF k
      <4>2. stack'[i][1] = b /\ stack'[i][2] = tried + 1
        BY <1>3, <1>5, <1>15, <3>1
      <4>3. color'[b] = 1
        BY <1>10, <1>16
      <4>. QED
        BY <4>1, <4>2, <4>3
    <3>2. CASE i \in 1 .. n - 1
      <4>1. i \in 1 .. n
        BY <1>1, <3>2
      <4>2. stack'[i][1] = stack[i][1] /\ stack'[i][2] = stack[i][2]
        BY <1>15, <3>2, <4>1
      <4>3. color'[stack[i][1]] = 1
        BY <1>1, <1>6, <1>16, <1>19, <4>1
      <4>. QED
        BY <1>6, <4>1, <4>2, <4>3
    <3>3. CASE i = m
      <4>1. Len(input[s].term.edges) \in Nat
        BY <1>1, <1>4, SubmittedShape
      <4>2. 0 <= Len(input[s].term.edges)
        BY <4>1
      <4>. QED
        BY <1>15, <1>16, <3>3, <4>2
    <3>. QED
      BY <1>5, <3>1, <3>2, <3>3
  <2>3. \A i, j \in 1 .. m : stack'[i][1] = stack'[j][1] => i = j
    <3>1. \A i \in 1 .. m : i \in 1 .. n \/ i = m
      BY <1>1 DEF m
    <3>. QED
      BY <1>7, <1>15, <1>19, <3>1
  <2>4. \A x \in Blocks(input) : color'[x] = 1 => \E i \in 1 .. m : stack'[i][1] = x
    <3>. TAKE x \in Blocks(input)
    <3>1. CASE x = s
      BY <1>5, <1>15, <3>1
    <3>2. CASE x # s
      BY <1>5, <1>7, <1>15, <1>16, <3>2
    <3>. QED
      BY <3>1, <3>2
  <2>5. \A i \in DOMAIN stack' : \A j \in 1 .. stack'[i][2] :
          input[stack'[i][1]].term.edges[j].to \in Blocks(input) =>
            \/ NowSettled(stack'[i][1], input[stack'[i][1]].term.edges[j].to)
            \/ i + 1 \in DOMAIN stack'
               /\ input[stack'[i][1]].term.edges[j].to = stack'[i + 1][1]
    <3>. HIDE DEF NowSettled
    <3>. QED
      BY <1>14, <1>21
  <2>6. \A i \in DOMAIN stack' : i # 1 => Forward(stack'[i - 1][1], stack'[i][1])
    BY <1>14, <1>22
  <2>. QED
    BY <1>4, <1>14, <2>1, <2>2, <2>3, <2>4, <2>5, <2>6 DEF Stacked, Settled, Forward
<1>24. Searched'
  <2>1. \A a \in Finished : \A x \in Succs(input, a) : NowSettled(a, x)
    <3>1. \A a : Succs(input, a) \subseteq Blocks(input)
      BY DEF Succs
    <3>. QED
      BY <1>2, <1>18, <3>1 DEF Searched
  <2>2. \A R \in SUBSET Finished :
          R # {} => \E x \in R : \A a \in R : ~ Forward(a, x)
    BY <1>2 DEF Searched
  <2>3. \A x \in Finished \ {Entry} : \E a \in Reachable \union {s} : Forward(a, x)
    BY <1>2 DEF Searched
  <2>4. back \subseteq (Reachable \union {s}) \X (Reachable \union {s})
    BY <1>2 DEF Searched
  <2>5. Reachable \union {s} \subseteq ReachableRef(input)
    <3>1. b \in ReachableRef(input)
      BY <1>2, <1>10 DEF Searched, Reachable
    <3>2. s \in ReachableRef(input)
      BY <1>1, <1>20, <3>1, ReachableIsLeast DEF Forward
    <3>. QED
      BY <1>2, <3>2 DEF Searched
  <2>6. color'[Entry] # 0
    BY <1>1, <1>16
  <2>. QED
    BY <1>4, <1>17, <2>1, <2>2, <2>3, <2>4, <2>5, <2>6 DEF Searched, Settled, Forward
<1>. QED
  BY <1>13, <1>16, <1>23, <1>24

\* A block all of whose successors have been tried leaves the stack, finished.
Pops(n, b) ==
  /\ n = Len(stack) /\ b = stack[n][1]
  /\ stack[n][2] = Len(input[b].term.edges)
  /\ UNCHANGED <<input, back>>
  /\ color' = [color EXCEPT ![b] = 2]
  /\ stack' = Front(stack)

\* What is popped has led back, or to finished blocks: nothing finished before
\* it has a forward edge to it.
LEMMA PopsStep ==
  ASSUME VerifierInv, pass = "dfs", stack # <<>>, NEW n, NEW b, Pops(n, b)
  PROVE  /\ Stacked' /\ Searched'
         /\ stack' \in Seq(Blocks(input) \X Nat)
         /\ color' \in [Blocks(input) -> 0 .. 2]
<1>. DEFINE NowSettled(a, x) == <<a, x>> \in back \/ (color'[x] = 2 /\ x # Entry)
            m == n - 1
<1>1. /\ input \in Submitted /\ Entry \in Blocks(input) /\ n \in Nat \ {0}
      /\ \A i \in 1 .. n : stack[i][1] \in Blocks(input) /\ stack[i][2] \in Nat
      /\ color[Entry] = 1 /\ Len(input[b].term.edges) \in Nat
  BY AtTop DEF Pops
<1>2. Searched /\ color \in [Blocks(input) -> 0 .. 2]
  BY AtTop DEF VerifierInv, VerifierTyped
<1>3. /\ b = stack[n][1] /\ stack[n][2] = Len(input[b].term.edges)
      /\ input' = input /\ back' = back /\ color' = [color EXCEPT ![b] = 2]
  BY DEF Pops
<1>4. /\ n \in 1 .. n /\ m \in Nat /\ \A i \in 1 .. m : i \in 1 .. n /\ i # n
      /\ \A i \in 1 .. n : i \in 1 .. m \/ i = n
      /\ 1 \in 1 .. n /\ (n # 1 => n - 1 \in 1 .. n)
      /\ ~ (n + 1 \in 1 .. n)
  BY <1>1
<1>5. /\ stack[1][1] = Entry
      /\ \A i \in 1 .. n : /\ color[stack[i][1]] = 1
                           /\ stack[i][2] <= Len(input[stack[i][1]].term.edges)
  BY FramesSay DEF Pops
<1>6. /\ \A i, j \in 1 .. n : stack[i][1] = stack[j][1] => i = j
      /\ \A x \in Blocks(input) : color[x] = 1 => \E i \in 1 .. n : stack[i][1] = x
  BY FramesSay DEF Pops
<1>7. \A i \in 1 .. n : \A j \in 1 .. stack[i][2] :
        input[stack[i][1]].term.edges[j].to \in Blocks(input) =>
          \/ Settled(stack[i][1], input[stack[i][1]].term.edges[j].to)
          \/ i + 1 \in 1 .. n /\ input[stack[i][1]].term.edges[j].to = stack[i + 1][1]
  BY FramesSay DEF Pops
<1>8. \A i \in 1 .. n : i # 1 => Forward(stack[i - 1][1], stack[i][1])
  BY FramesSay DEF Pops
<1>9. b \in Blocks(input) /\ color[b] = 1
  BY <1>1, <1>3, <1>4, <1>5
<1>10. /\ stack' \in Seq(Blocks(input) \X Nat) /\ Len(stack') = m
       /\ \A i \in 1 .. m : stack'[i] = stack[i]
  <2>. DEFINE S == Blocks(input) \X Nat
  <2>1. stack \in Seq(S)
    BY DEF VerifierInv, VerifierTyped
  <2>. HIDE DEF S
  <2>. QED
    BY <2>1, PoppedStack DEF Pops, Front, S
<1>11. DOMAIN stack' = 1 .. m
  BY <1>4, <1>10
<1>12. /\ color'[b] = 2 /\ \A x \in Blocks(input) : x # b => color'[x] = color[x]
       /\ color' \in [Blocks(input) -> 0 .. 2]
  BY <1>2, <1>3, <1>9
<1>13. Finished' = Finished \union {b} /\ Reachable' = Reachable
  BY <1>3, <1>9, <1>12 DEF Finished, Reachable
<1>14. \A a, x : x \in Blocks(input) /\ Settled(a, x) => NowSettled(a, x)
  BY <1>9, <1>12 DEF Settled
<1>15. \A i \in 1 .. m : stack[i][1] # b
  BY <1>3, <1>4, <1>6
<1>16. n # 1 => b # Entry
  BY <1>3, <1>4, <1>5, <1>6
<1>17. \A x \in Succs(input, b) : Settled(b, x)
  <2>. TAKE x \in Succs(input, b)
  <2>1. PICK j \in DOMAIN input[b].term.edges : input[b].term.edges[j].to = x
    BY DEF Succs, Targets
  <2>2. j \in 1 .. stack[n][2]
    BY <1>1, <1>3, <1>9, SubmittedShape
  <2>3. x \in Blocks(input)
    BY DEF Succs
  <2>. QED
    BY <1>3, <1>4, <1>7, <2>1, <2>2, <2>3
<1>. HIDE DEF m
<1>18. Stacked'
  <2>1. stack' # <<>> => stack'[1][1] = Entry
    <3>1. stack' # <<>> => 1 \in 1 .. m
      BY <1>4, <1>10, EmptySeq
    <3>. QED
      BY <1>5, <1>10, <3>1
  <2>2. \A i \in 1 .. m : /\ color'[stack'[i][1]] = 1
                          /\ stack'[i][2] <= Len(input[stack'[i][1]].term.edges)
    <3>. TAKE i \in 1 .. m
    <3>1. stack'[i] = stack[i] /\ i \in 1 .. n /\ stack[i][1] # b
      BY <1>4, <1>10, <1>15
    <3>2. color'[stack[i][1]] = 1
      BY <1>1, <1>5, <1>12, <3>1
    <3>. QED
      BY <1>5, <3>1, <3>2
  <2>3. \A i, j \in 1 .. m : stack'[i][1] = stack'[j][1] => i = j
    <3>. TAKE i, j \in 1 .. m
    <3>1. stack'[i] = stack[i] /\ stack'[j] = stack[j]
      BY <1>10
    <3>2. i \in 1 .. n /\ j \in 1 .. n
      BY <1>4
    <3>. QED
      BY <1>6, <3>1, <3>2
  <2>4. \A x \in Blocks(input) : color'[x] = 1 => \E i \in 1 .. m : stack'[i][1] = x
    <3>. TAKE x \in Blocks(input)
    <3>. HAVE color'[x] = 1
    <3>1. x # b /\ color[x] = 1
      BY <1>12
    <3>2. PICK i \in 1 .. n : stack[i][1] = x
      BY <1>6, <3>1
    <3>. QED
      BY <1>3, <1>4, <1>10, <3>1, <3>2
  <2>5. ASSUME NEW i \in 1 .. m, NEW j \in 1 .. stack'[i][2],
               input[stack'[i][1]].term.edges[j].to \in Blocks(input)
        PROVE  \/ NowSettled(stack'[i][1], input[stack'[i][1]].term.edges[j].to)
               \/ i + 1 \in 1 .. m /\ input[stack'[i][1]].term.edges[j].to = stack'[i + 1][1]
    <3>. DEFINE a == stack[i][1]
                x == input[a].term.edges[j].to
    <3>1. stack'[i] = stack[i] /\ i \in 1 .. n /\ j \in 1 .. stack[i][2] /\ x \in Blocks(input)
      BY <1>4, <1>10, <2>5
    <3>2. Settled(a, x) \/ (i + 1 \in 1 .. n /\ x = stack[i + 1][1])
      BY <1>7, <3>1
    <3>3. CASE Settled(a, x)
      BY <1>14, <3>1, <3>3
    <3>4. CASE i + 1 \in 1 .. m /\ x = stack[i + 1][1]
      <4>1. stack'[i + 1] = stack[i + 1]
        BY <1>10, <3>4
      <4>. QED
        BY <3>1, <3>4, <4>1
    <3>5. CASE i + 1 = n /\ x = stack[i + 1][1]
      <4>1. x = b /\ n # 1
        BY <1>3, <1>4, <3>5
      <4>2. NowSettled(a, x)
        BY <1>12, <1>16, <4>1
      <4>. QED
        BY <3>1, <4>2
    <3>. QED
      BY <1>4, <3>2, <3>3, <3>4, <3>5
  <2>6. \A i \in 1 .. m : i # 1 => Forward(stack'[i - 1][1], stack'[i][1])
    <3>1. \A i \in 1 .. m : i # 1 => i - 1 \in 1 .. m
      BY <1>4
    <3>. QED
      BY <1>4, <1>8, <1>10, <3>1
  <2>7. \A i \in DOMAIN stack' : \A j \in 1 .. stack'[i][2] :
          input[stack'[i][1]].term.edges[j].to \in Blocks(input) =>
            \/ NowSettled(stack'[i][1], input[stack'[i][1]].term.edges[j].to)
            \/ i + 1 \in DOMAIN stack'
               /\ input[stack'[i][1]].term.edges[j].to = stack'[i + 1][1]
    <3>. HIDE DEF NowSettled
    <3>. QED
      BY <1>11, <2>5
  <2>. QED
    BY <1>3, <1>11, <2>1, <2>2, <2>3, <2>4, <2>6, <2>7 DEF Stacked, Settled, Forward
<1>19. Searched'
  <2>0. \A a : Succs(input, a) \subseteq Blocks(input)
    BY DEF Succs
  <2>1. \A a \in Finished \union {b} : \A x \in Succs(input, a) : Settled(a, x)
    BY <1>2, <1>17 DEF Searched
  <2>2. \A a \in Finished \union {b} : \A x \in Succs(input, a) : NowSettled(a, x)
    BY <1>14, <2>0, <2>1
  <2>3. ASSUME NEW R \in SUBSET (Finished \union {b}), R # {}
        PROVE  \E x \in R : \A a \in R : ~ Forward(a, x)
    <3>1. CASE b \in R
      <4>1. \A a \in R : b \in Succs(input, a) => <<a, b>> \in back
        BY <1>9, <2>1 DEF Settled
      <4>. QED
        BY <3>1, <4>1 DEF Forward
    <3>2. CASE b \notin R
      BY <1>2, <2>3, <3>2 DEF Searched
    <3>. QED
      BY <3>1, <3>2
  <2>4. ASSUME NEW x \in (Finished \union {b}) \ {Entry}
        PROVE  \E a \in Reachable : Forward(a, x)
    <3>1. CASE x \in Finished
      BY <1>2, <3>1 DEF Searched
    <3>2. CASE x = b
      <4>1. n # 1
        BY <1>3, <1>5, <2>4, <3>2
      <4>2. Forward(stack[n - 1][1], b) /\ stack[n - 1][1] \in Reachable
        BY <1>1, <1>3, <1>4, <1>5, <1>8, <4>1 DEF Reachable
      <4>. QED
        BY <3>2, <4>2
    <3>. QED
      BY <3>1, <3>2
  <2>5. color'[Entry] # 0
    BY <1>1, <1>12
  <2>6. back \subseteq Reachable \X Reachable /\ Reachable \subseteq ReachableRef(input)
    BY <1>2 DEF Searched
  <2>. QED
    BY <1>3, <1>13, <2>2, <2>3, <2>4, <2>5, <2>6 DEF Searched, Settled, Forward
<1>. QED
  BY <1>10, <1>12, <1>18, <1>19

\* The search's steps: nothing else changes, nor does what the verdict means.
LEMMA DfsTryStep == VerifierInv /\ DfsTry => VerifierInv'
<1>. SUFFICES ASSUME VerifierInv, DfsTry
              PROVE  VerifierInv'
  OBVIOUS
<1>. DEFINE n     == Len(stack)
            b     == Last(stack)[1]
            tried == Last(stack)[2]
            s     == input[b].term.edges[tried + 1].to
<1>1. /\ pass = "dfs" /\ pass' = "dfs" /\ stack # <<>>
      /\ UNCHANGED <<input, at, defs, errs, endVars, kahnVars, flowVars>>
  BY DEF DfsTry
<1>2. tried < Len(input[b].term.edges)
  BY DEF DfsTry
<1>3. Tries(n, b, tried, s)
  BY <1>2 DEF Tries, Last
<1>4. PassesBy(b, tried, s) \/ Pushes(b, tried, s)
  <2>1. s \in Blocks(input) => color[s] \in 0 .. 2
    BY DEF VerifierInv, VerifierTyped
  <2>2. \/ s \notin Blocks(input) /\ stack' = Append(Front(stack), <<b, tried + 1>>)
           /\ UNCHANGED <<color, back>>
        \/ s \in Blocks(input) /\ color[s] = 0 /\ color' = [color EXCEPT ![s] = 1]
           /\ stack' = Append(Append(Front(stack), <<b, tried + 1>>), <<s, 0>>)
           /\ UNCHANGED back
        \/ s \in Blocks(input) /\ ClosesLoop(s) /\ back' = back \union {<<b, s>>}
           /\ stack' = Append(Front(stack), <<b, tried + 1>>) /\ UNCHANGED color
        \/ s \in Blocks(input) /\ color[s] # 0 /\ ~ ClosesLoop(s)
           /\ stack' = Append(Front(stack), <<b, tried + 1>>)
           /\ UNCHANGED <<color, back>>
    BY DEF DfsTry
  <2>3. s \in Blocks(input) /\ color[s] # 0 /\ color[s] # 1 => color[s] = 2
    BY <2>1
  <2>. HIDE DEF b, s, tried
  <2>. QED
    BY <1>1, <2>2, <2>3 DEF PassesBy, Pushes, ClosesLoop
<1>. HIDE DEF n, b, s, tried
<1>5. color \in [Blocks(input) -> 0 .. 2] /\ back \subseteq Blocks(input) \X Blocks(input)
  BY DEF VerifierInv, VerifierTyped
<1>6. /\ Stacked' /\ Searched'
      /\ stack' \in Seq(Blocks(input) \X Nat)
      /\ color' \in [Blocks(input) -> 0 .. 2]
      /\ back' \subseteq Blocks(input) \X Blocks(input)
  <2>1. CASE PassesBy(b, tried, s)
    <3>1. color' = color
      BY <2>1 DEF PassesBy
    <3>. QED
      BY <1>1, <1>3, <1>5, <2>1, <3>1, PassesByStep
  <2>2. CASE Pushes(b, tried, s)
    <3>1. back' = back
      BY <2>2 DEF Pushes
    <3>. QED
      BY <1>1, <1>3, <1>5, <2>2, <3>1, PushesStep
  <2>. QED
    BY <1>4, <2>1, <2>2
<1>7. VerifierTyped'
  BY <1>1, <1>6 DEF VerifierInv, VerifierTyped, Begun, endVars, kahnVars, flowVars, Blocks
<1>8. DefsRight'
  BY <1>1, DefsStay DEF VerifierInv
<1>9. VerdictSoFar'
  BY <1>1 DEF VerifierInv, VerdictSoFar
<1>. QED
  BY <1>1, <1>6, <1>7, <1>8, <1>9 DEF VerifierInv

(* The search leaves a block whose edges were all tried. *)
LEMMA DfsPopStep == VerifierInv /\ DfsPop => VerifierInv'
<1>. SUFFICES ASSUME VerifierInv, DfsPop
              PROVE  VerifierInv'
  OBVIOUS
<1>. DEFINE n == Len(stack)
            b == Last(stack)[1]
<1>1. /\ pass = "dfs" /\ pass' = "dfs" /\ stack # <<>>
      /\ UNCHANGED <<input, at, defs, errs, back, endVars, kahnVars, flowVars>>
  BY DEF DfsPop
<1>2. Pops(n, b)
  BY DEF DfsPop, Pops, Last
<1>. HIDE DEF n, b
<1>3. back \subseteq Blocks(input) \X Blocks(input)
  BY DEF VerifierInv, VerifierTyped
<1>4. /\ Stacked' /\ Searched'
      /\ stack' \in Seq(Blocks(input) \X Nat)
      /\ color' \in [Blocks(input) -> 0 .. 2]
  BY <1>1, <1>2, PopsStep
<1>5. VerifierTyped'
  BY <1>1, <1>3, <1>4 DEF VerifierInv, VerifierTyped, Begun, endVars, kahnVars, flowVars, Blocks
<1>6. DefsRight'
  BY <1>1, DefsStay DEF VerifierInv
<1>7. VerdictSoFar'
  BY <1>1 DEF VerifierInv, VerdictSoFar
<1>. QED
  BY <1>1, <1>4, <1>5, <1>6, <1>7 DEF VerifierInv

\* Once the search is over it has finished exactly the blocks some path leads to.
LEMMA SearchIsOver ==
  ASSUME VerifierInv, Begun, stack = <<>>
  PROVE  /\ input \in Submitted /\ Entry \in Reachable /\ Finished = Reachable
         /\ Reachable = ReachableRef(input) /\ Reachable \subseteq Blocks(input)
         /\ IsFiniteSet(Reachable)
         /\ \A a \in Reachable : Succs(input, a) \subseteq Reachable
         /\ \A s \in Reachable \ {Entry} : \E a \in Reachable : Forward(a, s)
         /\ \A a \in Reachable : ~ Forward(a, Entry)
         /\ \A R \in SUBSET Reachable :
              R # {} => \E s \in R : \A a \in R : ~ Forward(a, s)
<1>1. /\ input \in Submitted /\ Entry \in Blocks(input) /\ IsFiniteSet(Blocks(input))
      /\ Stacked /\ Searched
      /\ color \in [Blocks(input) -> 0 .. 2]
  BY SubmittedBlocks DEF VerifierInv, VerifierTyped
<1>2. Finished = Reachable
  <2>1. \A b \in Blocks(input) : color[b] # 1
    BY <1>1 DEF Stacked
  <2>. QED
    BY <1>1, <2>1 DEF Finished, Reachable
<1>3. Entry \in Reachable /\ Reachable \subseteq Blocks(input)
  BY <1>1 DEF Reachable, Searched
<1>4. \A a \in Reachable : Succs(input, a) \subseteq Reachable
  <2>. SUFFICES ASSUME NEW a \in Finished, NEW s \in Succs(input, a)
                PROVE  s \in Reachable
    BY <1>2
  <2>1. Settled(a, s) /\ s \in Blocks(input)
    BY <1>1 DEF Searched, Succs
  <2>. QED
    BY <1>1, <2>1 DEF Settled, Searched, Reachable
<1>5. Reachable = ReachableRef(input)
  <2>1. ReachableRef(input) \subseteq Reachable
    BY <1>1, <1>3, <1>4, ReachableIsLeast
  <2>. QED
    BY <1>1, <2>1 DEF Searched
<1>6. IsFiniteSet(Reachable)
  BY <1>1, <1>3, FS_Subset
<1>7. \A a \in Reachable : ~ Forward(a, Entry)
  BY <1>1, <1>2 DEF Searched, Settled, Forward
<1>8. /\ \A s \in Reachable \ {Entry} : \E a \in Reachable : Forward(a, s)
      /\ \A R \in SUBSET Reachable :
           R # {} => \E s \in R : \A a \in R : ~ Forward(a, s)
  BY <1>1, <1>2 DEF Searched
<1>. QED
  BY <1>1, <1>2, <1>3, <1>4, <1>5, <1>6, <1>7, <1>8

\* Colours, stack and back edges are left as they are by the later passes.
LEMMA SearchStays ==
  ASSUME VerifierInv, Begun, UNCHANGED <<input, dfsVars>>
  PROVE  Stacked' /\ Searched' /\ Reachable' = Reachable
<1>1. Stacked /\ Searched /\ input' = input /\ color' = color /\ stack' = stack /\ back' = back
  BY DEF VerifierInv, dfsVars
<1>2. Reachable' = Reachable /\ Finished' = Finished
  BY <1>1 DEF Reachable, Finished
<1>3. Stacked'
  BY <1>1 DEF Stacked, Settled, Forward
<1>4. Searched'
  BY <1>1, <1>2 DEF Searched, Settled, Forward
<1>. QED
  BY <1>2, <1>3, <1>4

(* The search is over: the live blocks and the back edges are known. *)
LEMMA DfsDoneStep == VerifierInv /\ DfsDone => VerifierInv'
<1>. SUFFICES ASSUME VerifierInv, DfsDone
              PROVE  VerifierInv'
  OBVIOUS
<1>1. /\ pass = "dfs" /\ pass' = "ends" /\ stack = <<>> /\ Begun
      /\ ends' = RowEnding /\ work' = RowEnding
      /\ UNCHANGED <<input, at, defs, dfsVars, kahnVars, flowVars>>
  BY DEF DfsDone, Begun
<1>2. RowEnding = EndBlocks(input) /\ RowEnding \subseteq Blocks(input)
  BY DEF RowEnding, EndBlocks
<1>3. Stacked' /\ Searched'
  BY <1>1, SearchStays
<1>4. VerifierTyped'
  BY <1>1, <1>2 DEF VerifierInv, VerifierTyped, Begun, dfsVars, kahnVars, flowVars, Blocks
<1>5. DefsRight'
  BY <1>1, DefsStay DEF VerifierInv
<1>6. Ending'
  <2>1. EndBlocks(input) \subseteq CanEndRef(input)
    BY CanEndIsLeast
  <2>. QED
    BY <1>1, <1>2, <2>1 DEF Ending
<1>7. errs' = {} <=> errs = {} /\ AllReach
  <2>1. errs' = errs \union { <<"unreachable", b>> : b \in Blocks(input) \ Reachable }
    BY DEF DfsDone, Report
  <2>2. Reachable = ReachableRef(input) /\ Reachable \subseteq Blocks(input)
    BY <1>1, SearchIsOver
  <2>. QED
    BY <2>1, <2>2 DEF AllReach
<1>8. VerdictSoFar'
  BY <1>1, <1>7 DEF VerifierInv, VerdictSoFar, AllReach
<1>. QED
  BY <1>1, <1>3, <1>4, <1>5, <1>6, <1>8 DEF VerifierInv, Begun

-----------------------------------------------------------------------------
(***************************************************************************)
(* The blocks that can end the row.                                        *)
(***************************************************************************)

(* The backward search adds the predecessors of a block that can end. *)
LEMMA EndsStepStep == VerifierInv /\ EndsStep => VerifierInv'
<1>. SUFFICES ASSUME VerifierInv, EndsStep
              PROVE  VerifierInv'
  OBVIOUS
<1>1. /\ pass = "ends" /\ pass' = "ends" /\ Begun
      /\ UNCHANGED <<input, at, defs, errs, dfsVars, kahnVars, flowVars>>
  BY DEF EndsStep, Begun
<1>2. PICK b \in work : /\ ends' = ends \union NewEnds(b)
                        /\ work' = (work \ {b}) \union NewEnds(b)
  BY DEF EndsStep
<1>3. /\ Ending /\ ends \subseteq Blocks(input) /\ work \subseteq ends
  BY <1>1 DEF VerifierInv, VerifierTyped
<1>4. Preds(input, b) \subseteq ends \union NewEnds(b) /\ NewEnds(b) \subseteq Preds(input, b)
  BY DEF NewEnds
<1>5. Preds(input, b) \subseteq CanEndRef(input) /\ CanEndRef(input) \subseteq Blocks(input)
  BY <1>3, CanEndIsLeast DEF Ending
<1>6. Ending'
  <2>1. ends' \ work' \subseteq (ends \ work) \union {b}
    BY <1>2
  <2>2. \A a \in ends' \ work' : Preds(input, a) \subseteq ends'
    BY <1>2, <1>3, <1>4, <2>1 DEF Ending
  <2>. QED
    BY <1>1, <1>2, <1>3, <1>4, <1>5, <2>2 DEF Ending
<1>7. ends' \subseteq Blocks(input) /\ work' \subseteq ends'
  BY <1>2, <1>3, <1>4, <1>5
<1>8. Stacked' /\ Searched'
  BY <1>1, SearchStays
<1>9. VerifierTyped'
  BY <1>1, <1>7 DEF VerifierInv, VerifierTyped, Begun, dfsVars, kahnVars, flowVars, Blocks
<1>10. DefsRight'
  BY <1>1, DefsStay DEF VerifierInv
<1>11. VerdictSoFar'
  BY <1>1 DEF VerifierInv, VerdictSoFar, AllReach
<1>. QED
  BY <1>1, <1>6, <1>8, <1>9, <1>10, <1>11 DEF VerifierInv, Begun

-----------------------------------------------------------------------------
(***************************************************************************)
(* Counting edges, and the topological order.                              *)
(***************************************************************************)

\* Numbering a set's elements after one block counts them.
LEMMA TaggedSet ==
  ASSUME NEW a, NEW S, IsFiniteSet(S)
  PROVE  /\ IsFiniteSet({ <<a, i>> : i \in S })
         /\ Cardinality({ <<a, i>> : i \in S }) = Cardinality(S)
<1>. DEFINE T == { <<a, i>> : i \in S }
            f == [i \in S |-> <<a, i>>]
<1>1. f \in Surjection(S, T)
  BY DEF Surjection
<1>2. f \in Injection(S, T)
  BY DEF Injection, IsInjective
<1>. HIDE DEF f, T
<1>3. IsFiniteSet(T) /\ Cardinality(T) = Cardinality(S)
  BY <1>1, <1>2, FS_Surjection
<1>. QED
  BY <1>3 DEF T

(* A terminator has two arms at most, and they are finitely many. *)
LEMMA FirstTwo == IsFiniteSet(1 .. 2)
<1>1. 1 .. 2 = {1, 2}
  OBVIOUS
<1>2. IsFiniteSet({1})
  BY FS_Singleton
<1>3. {1, 2} = {1} \union {2}
  OBVIOUS
<1>4. IsFiniteSet({1} \union {2})
  BY <1>2, FS_AddElement
<1>. QED
  BY <1>1, <1>3, <1>4

\* The edges of one block into another: two at most, some if it leads forward.
LEMMA EdgesOfBlock ==
  ASSUME input \in Submitted, NEW a \in Blocks(input), NEW s \in Blocks(input)
  PROVE  /\ FwdEdges(a, s) \subseteq 1 .. 2 /\ IsFiniteSet(FwdEdges(a, s))
         /\ Cardinality(FwdEdges(a, s)) \in Nat
         /\ FwdEdges(a, s) # {} <=> Forward(a, s)
<1>. DEFINE edges == input[a].term.edges
            n == Len(edges)
<1>1. n \in 0 .. 2 /\ DOMAIN edges = 1 .. n
  BY SubmittedShape
<1>. HIDE DEF n
<1>2. DOMAIN edges \subseteq 1 .. 2
  BY <1>1
<1>3. FwdEdges(a, s) \subseteq DOMAIN edges
  BY DEF FwdEdges
<1>4. FwdEdges(a, s) \subseteq 1 .. 2
  BY <1>2, <1>3
<1>5. IsFiniteSet(FwdEdges(a, s))
  <2>1. IsFiniteSet(1 .. 2)
    BY FirstTwo
  <2>. QED
    BY <1>4, <2>1, FS_Subset
<1>6. FwdEdges(a, s) # {} <=> Forward(a, s)
  BY DEF FwdEdges, Forward, Succs, Targets
<1>. QED
  BY <1>4, <1>5, <1>6, FS_CardinalityType

\* The edges out of a set of blocks, when one leaves it.
LEMMA EdgesOfSet ==
  ASSUME input \in Submitted, NEW A, A \subseteq Blocks(input), NEW s \in Blocks(input)
  PROVE  /\ Cardinality(EdgesInto(s, A)) \in Nat
         /\ Cardinality(EdgesInto(s, A)) = 0 <=> \A a \in A : ~ Forward(a, s)
         /\ \A b \in A : Cardinality(EdgesInto(s, A \ {b}))
                           = Cardinality(EdgesInto(s, A)) - Cardinality(FwdEdges(b, s))
<1>1. \A a \in A : /\ FwdEdges(a, s) \subseteq 1 .. 2 /\ IsFiniteSet(FwdEdges(a, s))
                   /\ Cardinality(FwdEdges(a, s)) \in Nat
                   /\ FwdEdges(a, s) # {} <=> Forward(a, s)
  BY EdgesOfBlock
<1>2. \A B : \A e : e \in EdgesInto(s, B) <=> \E a \in B : \E i \in FwdEdges(a, s) : e = <<a, i>>
  BY DEF EdgesInto
<1>3. IsFiniteSet(EdgesInto(s, A))
  <2>0. IsFiniteSet(1 .. 2)
    BY FirstTwo
  <2>1. IsFiniteSet(A)
    BY SubmittedBlocks, FS_Subset
  <2>2. IsFiniteSet(A \X (1 .. 2))
    BY <2>0, <2>1, FS_Product
  <2>3. EdgesInto(s, A) \subseteq A \X (1 .. 2)
    BY <1>1, <1>2
  <2>. QED
    BY <2>2, <2>3, FS_Subset
<1>4. Cardinality(EdgesInto(s, A)) = 0 <=> \A a \in A : ~ Forward(a, s)
  <2>1. Cardinality(EdgesInto(s, A)) = 0 <=> EdgesInto(s, A) = {}
    BY <1>3, FS_EmptySet
  <2>2. EdgesInto(s, A) = {} <=> \A a \in A : FwdEdges(a, s) = {}
    <3>1. \A e : e \in EdgesInto(s, A) <=> \E a \in A : \E i \in FwdEdges(a, s) : e = <<a, i>>
      BY <1>2
    <3>2. \A a \in A : \A i \in FwdEdges(a, s) : <<a, i>> \in EdgesInto(s, A)
      BY <3>1
    <3>. QED
      BY <3>1, <3>2
  <2>. QED
    BY <1>1, <2>1, <2>2
<1>5. ASSUME NEW b \in A
      PROVE  Cardinality(EdgesInto(s, A \ {b}))
               = Cardinality(EdgesInto(s, A)) - Cardinality(FwdEdges(b, s))
  <2>. DEFINE E == EdgesInto(s, A)
              F == EdgesInto(s, A \ {b})
              G == { <<b, i>> : i \in FwdEdges(b, s) }
  <2>1. E = F \union G /\ F \intersect G = {} /\ F \subseteq E
    <3>1. \A e : e \in G <=> \E i \in FwdEdges(b, s) : e = <<b, i>>
      OBVIOUS
    <3>2. \A e : e \in E <=> e \in F \/ e \in G
      <4>. HIDE DEF G
      <4>. QED
        BY <1>2, <3>1
    <3>3. \A e : ~ (e \in F /\ e \in G)
      <4>. HIDE DEF G
      <4>. QED
        BY <1>2, <3>1
    <3>. HIDE DEF E, F, G
    <3>. QED
      BY <3>2, <3>3
  <2>2. IsFiniteSet(G) /\ Cardinality(G) = Cardinality(FwdEdges(b, s))
    BY <1>1, TaggedSet
  <2>. HIDE DEF E, F, G
  <2>3. IsFiniteSet(F)
    BY <1>3, <2>1, FS_Subset DEF E
  <2>4. Cardinality(E) = Cardinality(F) + Cardinality(G) - Cardinality(F \intersect G)
    BY <2>1, <2>2, <2>3, FS_Union
  <2>5. Cardinality(F) \in Nat /\ Cardinality(G) \in Nat /\ Cardinality(F \intersect G) = 0
    BY <2>1, <2>2, <2>3, FS_CardinalityType, FS_EmptySet
  <2>6. Cardinality(F) = Cardinality(E) - Cardinality(G)
    BY <2>4, <2>5
  <2>. QED
    BY <2>2, <2>6 DEF E, F
<1>. QED
  BY <1>3, <1>4, <1>5, FS_CardinalityType

\* A single block is listed as one.
LEMMA AscendingOne == \A b : Ascending({b}) = <<b>>
<1>. TAKE b
<1>1. Cardinality({b}) = 1
  BY FS_Singleton
<1>2. [1 .. Cardinality({b}) -> {b}] = {<<b>>}
  <2>1. 1 .. 1 = {1}
    OBVIOUS
  <2>2. \A q \in [{1} -> {b}] : q = [i \in {1} |-> b]
    OBVIOUS
  <2>3. <<b>> = [i \in {1} |-> b]
    BY <2>1
  <2>. QED
    BY <1>1, <2>1, <2>2, <2>3
<1>3. \A i, j \in DOMAIN <<b>> : i < j => <<b>>[i] < <<b>>[j]
  OBVIOUS
<1>. QED
  BY <1>2, <1>3 DEF Ascending

\* The graph does not change while its blocks are removed.
LEMMA EdgesStay ==
  ASSUME UNCHANGED <<input, back>>, NEW A, Left' = A
  PROVE  /\ \A a, s : FwdEdges(a, s)' = FwdEdges(a, s) /\ Forward(a, s)' = Forward(a, s)
         /\ \A s : EdgesLeft(s)' = EdgesInto(s, A)
<1>1. \A a, s : FwdEdges(a, s)' = FwdEdges(a, s) /\ Forward(a, s)' = Forward(a, s)
  BY DEF FwdEdges, Forward, Succs, Blocks
<1>2. ASSUME NEW s
      PROVE  EdgesLeft(s)' = EdgesInto(s, A)
  <2>1. \A e : e \in EdgesInto(s, A) <=> \E a \in A : \E i \in FwdEdges(a, s) : e = <<a, i>>
    BY DEF EdgesInto
  <2>2. \A e : e \in EdgesLeft(s)' <=> \E a \in Left' : \E i \in FwdEdges(a, s)' : e = <<a, i>>
    BY DEF EdgesLeft, EdgesInto
  <2>3. \A e : e \in EdgesLeft(s)' <=> e \in EdgesInto(s, A)
    BY <1>1, <2>1, <2>2
  <2>. QED
    BY <2>3 DEF EdgesLeft, EdgesInto
<1>. QED
  BY <1>1, <1>2

\* With an empty worklist, exactly the blocks that can end the row are marked.
LEMMA EndingIsOver ==
  ASSUME VerifierInv, pass = "ends", work = {}
  PROVE  ends = CanEndRef(input)
<1>1. Ending /\ ends \subseteq Blocks(input)
  BY DEF VerifierInv, VerifierTyped
<1>2. CanEndRef(input) \subseteq ends
  BY <1>1, CanEndIsLeast DEF Ending
<1>. QED
  BY <1>1, <1>2 DEF Ending

\* The blocks no forward edge enters are those topo_order starts from: the
\* entry alone.
LEMMA FreeIsEntry ==
  ASSUME VerifierInv, Begun, stack = <<>>
  PROVE  /\ { s \in Reachable : InDegree(s) = 0 } = {Entry}
         /\ \A s \in Blocks(input) : InDegree(s) = Cardinality(EdgesInto(s, Reachable))
<1>1. /\ input \in Submitted /\ Entry \in Reachable /\ Reachable \subseteq Blocks(input)
      /\ \A s \in Reachable \ {Entry} : \E a \in Reachable : Forward(a, s)
      /\ \A a \in Reachable : ~ Forward(a, Entry)
  BY SearchIsOver
<1>2. \A s : InDegree(s) = Cardinality(EdgesInto(s, Reachable))
  BY DEF InDegree, EdgesInto
<1>3. \A s \in Reachable : InDegree(s) = 0 <=> \A a \in Reachable : ~ Forward(a, s)
  BY <1>1, <1>2, EdgesOfSet
<1>. QED
  BY <1>1, <1>2, <1>3

(* The backward search is over, and the in-degrees are counted. *)
LEMMA EndsDoneStep == VerifierInv /\ EndsDone => VerifierInv'
<1>. SUFFICES ASSUME VerifierInv, EndsDone
              PROVE  VerifierInv'
  OBVIOUS
<1>. DEFINE dead == { b \in Reachable : b \notin ends }
            free == { s \in Reachable : InDegree(s) = 0 }
<1>1. /\ pass = "ends" /\ work = {} /\ Begun /\ stack = <<>>
      /\ UNCHANGED <<input, at, defs, dfsVars, endVars, flowVars>>
      /\ pass' \notin {"structure", "defs"}
  <2>1. pass' \in {"done", "topo"}
    BY DEF EndsDone
  <2>. QED
    BY <2>1 DEF EndsDone, Begun, VerifierInv, VerifierTyped
<1>2. ends = CanEndRef(input)
  BY <1>1, EndingIsOver
<1>3. Reachable = ReachableRef(input) /\ Reachable \subseteq Blocks(input) /\ Entry \in Reachable
  BY <1>1, SearchIsOver
<1>4. errs = {} <=> WellFormed(input) /\ AllReach
  BY <1>1 DEF VerifierInv, VerdictSoFar
<1>5. DefsRight'
  BY <1>1, DefsStay DEF VerifierInv
<1>6. CASE dead # {}
  <2>1. /\ errs' = errs \union { <<"cannot terminate", b>> : b \in dead }
        /\ pass' = "done" /\ UNCHANGED kahnVars
    BY <1>6 DEF EndsDone, Report
  <2>2. errs' # {}
    BY <1>6, <2>1
  <2>3. ~ Verified(input)
    BY <1>2, <1>3, <1>6 DEF Verified
  <2>4. VerifierTyped'
    BY <1>1, <2>1 DEF VerifierInv, VerifierTyped, Begun, dfsVars, endVars, kahnVars, flowVars, Blocks
  <2>5. VerdictSoFar'
    BY <1>1, <2>1, <2>2, <2>3 DEF VerdictSoFar
  <2>. QED
    BY <1>5, <2>1, <2>4, <2>5 DEF VerifierInv, Begun
<1>7. CASE dead = {}
  <2>1. /\ indeg' = [s \in Blocks(input) |-> InDegree(s)]
        /\ ready' = Ascending(free) /\ order' = <<>> /\ pass' = "topo" /\ errs' = errs
    BY <1>7 DEF EndsDone
  <2>2. /\ free = {Entry}
        /\ \A s \in Blocks(input) : InDegree(s) = Cardinality(EdgesInto(s, Reachable))
    BY <1>1, FreeIsEntry
  <2>3. ready' = <<Entry>>
    BY <2>1, <2>2, AscendingOne
  <2>4. Reachable' = Reachable /\ Stacked' /\ Searched'
    BY <1>1, SearchStays
  <2>5. Left' = Reachable
    BY <2>1, <2>4 DEF Left, Ordered
  <2>6. VerifierTyped'
    <3>0. Entry \in Blocks(input) /\ <<>> \in Seq(Blocks(input))
      BY <1>3
    <3>1. <<Entry>> \in Seq(Blocks(input))
      BY <3>0
    <3>2. ready' \in Seq(Blocks(input)) /\ order' \in Seq(Blocks(input))
      BY <2>1, <2>3, <3>0, <3>1
    <3>. QED
      BY <1>1, <2>1, <3>2 DEF VerifierInv, VerifierTyped, Begun, dfsVars, endVars, flowVars, Blocks
  <2>7. VerdictSoFar'
    <3>1. AllReach => AllEnd
      <4>1. AllReach => CanEndRef(input) \subseteq Blocks(input) /\ Blocks(input) \subseteq CanEndRef(input)
        BY <1>2, <1>3, <1>7, CanEndIsLeast DEF AllReach
      <4>. QED
        BY <4>1 DEF AllEnd
    <3>2. errs = {} <=> WellFormed(input) /\ AllReach /\ AllEnd
      BY <1>4, <3>1
    <3>. QED
      BY <1>1, <2>1, <3>2 DEF VerdictSoFar, AllReach, AllEnd
  <2>8. InOrder'
    <3>1. DOMAIN order' = {}
      BY <2>1
    <3>. QED
      BY <3>1 DEF InOrder
  <2>9. Sorted'
    <3>1. /\ \A a, s : Forward(a, s)' = Forward(a, s)
          /\ \A s : EdgesLeft(s)' = EdgesInto(s, Reachable)
      BY <1>1, <2>5, EdgesStay DEF dfsVars
    <3>2. indeg' = [s \in Blocks(input) |-> Cardinality(EdgesLeft(s)')]
      BY <2>1, <2>2, <3>1
    <3>3. /\ \A s \in Reachable \ {Entry} : \E a \in Reachable : Forward(a, s)
          /\ \A a \in Reachable : ~ Forward(a, Entry)
      BY <1>1, SearchIsOver
    <3>4. DOMAIN ready' = {1} /\ ready'[1] = Entry
      BY <2>3
    <3>. QED
      BY <1>1, <1>3, <2>5, <3>1, <3>2, <3>3, <3>4 DEF Sorted, Blocks
  <2>. QED
    BY <1>5, <2>1, <2>4, <2>6, <2>7, <2>8, <2>9 DEF VerifierInv, Begun
<1>. QED
  BY <1>6, <1>7

\* What Freed lists: each drained successor, once.
LEMMA FreedSays ==
  ASSUME input \in Submitted, NEW b \in Blocks(input)
  PROVE  /\ Freed(b) \in Seq(Blocks(input))
         /\ \A s : (\E i \in DOMAIN Freed(b) : Freed(b)[i] = s) <=> Drained(b, s)
         /\ \A i, j \in DOMAIN Freed(b) : Freed(b)[i] = Freed(b)[j] => i = j
<1>. DEFINE edges == input[b].term.edges
            to1 == edges[1].to
            to2 == edges[2].to
            First  == 1 \in DOMAIN edges /\ Drained(b, to1)
            Second == 2 \in DOMAIN edges /\ Drained(b, to2) /\ to1 # to2
            q1 == IF First THEN <<to1>> ELSE <<>>
            q2 == IF Second THEN <<to2>> ELSE <<>>
<1>1. Freed(b) = q1 \o q2
  <2>1. \A i : ~ (i \in 1 .. 0)
    OBVIOUS
  <2>2. \A i : i \in 1 .. 1 <=> i = 1
    OBVIOUS
  <2>3. 1 - 1 = 0 /\ 2 - 1 = 1
    OBVIOUS
  <2>. QED
    BY <2>1, <2>2, <2>3 DEF Freed
<1>2. \A s : Drained(b, s) => s \in Blocks(input)
  BY DEF Drained
<1>3. \A s : Drained(b, s) <=> (First /\ s = to1) \/ (Second /\ s = to2)
  <2>. TAKE s
  <2>1. ASSUME Drained(b, s)
        PROVE  (First /\ s = to1) \/ (Second /\ s = to2)
    <3>1. s \in Blocks(input) /\ FwdEdges(b, s) # {}
      BY <2>1 DEF Drained
    <3>2. PICK i \in FwdEdges(b, s) : i \in 1 .. 2
      BY <3>1, EdgesOfBlock
    <3>3. i \in DOMAIN edges /\ edges[i].to = s
      BY <3>2 DEF FwdEdges
    <3>4. i = 1 \/ i = 2
      BY <3>2
    <3>5. 2 \in DOMAIN edges => 1 \in DOMAIN edges
      BY SubmittedShape
    <3>. QED
      BY <2>1, <3>3, <3>4, <3>5
  <2>. QED
    BY <2>1
<1>4. First => to1 \in Blocks(input)
  BY <1>2
<1>5. Second => to2 \in Blocks(input) /\ to1 # to2
  BY <1>2
<1>. HIDE DEF First, Second, to1, to2
<1>6. /\ q1 \in Seq(Blocks(input)) /\ DOMAIN q1 = (IF First THEN {1} ELSE {})
      /\ (First => q1[1] = to1)
  BY <1>4
<1>7. /\ q2 \in Seq(Blocks(input)) /\ DOMAIN q2 = (IF Second THEN {1} ELSE {})
      /\ (Second => q2[1] = to2)
  BY <1>5
<1>. HIDE DEF q1, q2
<1>8. /\ q1 \o q2 \in Seq(Blocks(input))
      /\ \A i \in DOMAIN (q1 \o q2) :
           \/ i \in DOMAIN q1 /\ (q1 \o q2)[i] = q1[i]
           \/ i - Len(q1) \in DOMAIN q2 /\ (q1 \o q2)[i] = q2[i - Len(q1)]
      /\ \A i \in DOMAIN q1 : i \in DOMAIN (q1 \o q2) /\ (q1 \o q2)[i] = q1[i]
      /\ \A i \in DOMAIN q2 :
           i + Len(q1) \in DOMAIN (q1 \o q2) /\ (q1 \o q2)[i + Len(q1)] = q2[i]
  BY <1>6, <1>7, JoinedStacks
<1>9. \A i, j \in DOMAIN (q1 \o q2) : (q1 \o q2)[i] = (q1 \o q2)[j] => i = j
  <2>1. \A i \in DOMAIN q1 : \A j \in DOMAIN q2 : q1[i] # q2[j]
    BY <1>5, <1>6, <1>7
  <2>. QED
    BY <1>6, <1>7, <2>1, JoinedOnce
<1>10. \A s : (\E i \in DOMAIN (q1 \o q2) : (q1 \o q2)[i] = s) <=> (First /\ s = to1) \/ (Second /\ s = to2)
  BY <1>6, <1>7, <1>8
<1>. QED
  BY <1>1, <1>3, <1>8, <1>9, <1>10

\* Removing a block no forward edge enters: the counts go down by its edges,
\* and what is listed as free is what has just become so.
LEMMA TopoStepStep == VerifierInv /\ TopoStep => VerifierInv'
<1>. SUFFICES ASSUME VerifierInv, TopoStep
              PROVE  VerifierInv'
  OBVIOUS
<1>. DEFINE n == Len(ready)
            b == Last(ready)
            rest == Front(ready)
            freed == Freed(b)
            L == Left \ {b}
<1>1. /\ pass = "topo" /\ pass' = "topo" /\ Begun /\ stack = <<>> /\ ready # <<>>
      /\ UNCHANGED <<input, at, defs, errs, dfsVars, endVars, flowVars>>
      /\ ready \in Seq(Blocks(input)) /\ order \in Seq(Blocks(input))
      /\ Sorted /\ InOrder
  BY DEF TopoStep, Begun, VerifierInv, VerifierTyped
<1>2. /\ order' = Append(order, b) /\ ready' = rest \o freed
      /\ indeg' = [s \in Blocks(input) |-> indeg[s] - Cardinality(FwdEdges(b, s))]
  BY DEF TopoStep
<1>3. /\ n \in Nat \ {0} /\ b \in Blocks(input) /\ b = ready[n] /\ n \in DOMAIN ready
      /\ DOMAIN ready = 1 .. n
  BY <1>1, TopOfStack DEF Last
<1>4. /\ rest \in Seq(Blocks(input)) /\ Len(rest) = n - 1
      /\ \A i \in 1 .. n - 1 : rest[i] = ready[i]
  BY <1>1, PoppedStack DEF Front
<1>5. /\ input \in Submitted /\ Reachable \subseteq Blocks(input)
      /\ \A a \in Reachable : Succs(input, a) \subseteq Reachable
  BY <1>1, SearchIsOver
<1>6. b \in Left /\ \A a \in Left : ~ Forward(a, b)
  BY <1>1, <1>3 DEF Sorted
<1>7. Left \subseteq Reachable /\ L \subseteq Blocks(input)
  BY <1>5 DEF Left
<1>. HIDE DEF n, b, rest, freed
<1>8. /\ order' \in Seq(Blocks(input)) /\ Len(order') = Len(order) + 1
      /\ order'[Len(order) + 1] = b /\ \A i \in 1 .. Len(order) : order'[i] = order[i]
      /\ DOMAIN order = 1 .. Len(order) /\ Len(order) \in Nat
  BY <1>1, <1>2, <1>3, PushedStack
<1>9. DOMAIN order' = 1 .. Len(order) + 1
      /\ \A i \in DOMAIN order' : i \in DOMAIN order \/ i = Len(order) + 1
  BY <1>8
<1>10. Reachable' = Reachable /\ Stacked' /\ Searched'
  BY <1>1, SearchStays
<1>11. Ordered' = Ordered \union {b}
  BY <1>8, <1>9 DEF Ordered
<1>12. Left' = L
  BY <1>10, <1>11 DEF Left
<1>13. /\ \A a, s : Forward(a, s)' = Forward(a, s)
       /\ \A s : EdgesLeft(s)' = EdgesInto(s, L)
  BY <1>1, <1>12, EdgesStay DEF dfsVars
<1>14. \A s \in Blocks(input) :
         /\ indeg[s] = Cardinality(EdgesInto(s, Left))
         /\ indeg[s] - Cardinality(FwdEdges(b, s)) = Cardinality(EdgesInto(s, L))
         /\ Cardinality(EdgesInto(s, L)) = 0 <=> \A a \in L : ~ Forward(a, s)
  <2>. TAKE s \in Blocks(input)
  <2>1. indeg[s] = Cardinality(EdgesInto(s, Left))
    BY <1>1 DEF Sorted, EdgesLeft
  <2>2. Left \subseteq Blocks(input)
    BY <1>5, <1>7
  <2>3. Cardinality(EdgesInto(s, L)) = Cardinality(EdgesInto(s, Left)) - Cardinality(FwdEdges(b, s))
    BY <1>5, <1>6, <2>2, EdgesOfSet
  <2>4. Cardinality(EdgesInto(s, L)) = 0 <=> \A a \in L : ~ Forward(a, s)
    BY <1>5, <1>7, EdgesOfSet
  <2>. QED
    BY <2>1, <2>3, <2>4
<1>15. \A s : Drained(b, s) <=>
         s \in Blocks(input) /\ Forward(b, s) /\ \A a \in L : ~ Forward(a, s)
  <2>. SUFFICES ASSUME NEW s \in Blocks(input)
                PROVE  Drained(b, s) <=> Forward(b, s) /\ \A a \in L : ~ Forward(a, s)
    BY DEF Drained
  <2>1. FwdEdges(b, s) # {} <=> Forward(b, s)
    BY <1>3, <1>5, EdgesOfBlock
  <2>2. /\ Cardinality(FwdEdges(b, s)) \in Nat /\ indeg[s] \in Nat
    BY <1>3, <1>5, <1>7, <1>14, EdgesOfBlock, EdgesOfSet
  <2>3. indeg[s] = Cardinality(FwdEdges(b, s)) <=> Cardinality(EdgesInto(s, L)) = 0
    BY <1>14, <2>2
  <2>. QED
    BY <1>14, <2>1, <2>3 DEF Drained
<1>16. /\ freed \in Seq(Blocks(input))
       /\ \A s : (\E i \in DOMAIN freed : freed[i] = s) <=> Drained(b, s)
       /\ \A i, j \in DOMAIN freed : freed[i] = freed[j] => i = j
  BY <1>3, <1>5, FreedSays DEF freed
<1>17. \A s : Drained(b, s) => s \in L
  <2>. SUFFICES ASSUME NEW s, Drained(b, s)
                PROVE  s \in L
    OBVIOUS
  <2>1. Forward(b, s) /\ b \in Reachable
    BY <1>6, <1>7, <1>15
  <2>2. s \in Reachable
    BY <1>5, <2>1 DEF Forward
  <2>3. s \notin Ordered
    <3>. SUFFICES ASSUME NEW i \in DOMAIN order, s = order[i]
                  PROVE  FALSE
      BY DEF Ordered
    <3>1. PICK j \in 1 .. i - 1 : order[j] = b
      BY <1>1, <2>1 DEF InOrder, Forward
    <3>2. j \in DOMAIN order
      BY <1>8
    <3>. QED
      BY <1>6, <3>1, <3>2 DEF Left, Ordered
  <2>4. s # b
    BY <1>6, <2>1
  <2>. QED
    BY <2>2, <2>3, <2>4 DEF Left
<1>18. DOMAIN rest = 1 .. n - 1 /\ \A i \in DOMAIN rest : i \in DOMAIN ready /\ i # n /\ rest[i] = ready[i]
  BY <1>3, <1>4
<1>19. \A i \in DOMAIN ready : i = n \/ i \in DOMAIN rest
  BY <1>3, <1>18
<1>20. \A i \in DOMAIN rest : rest[i] \in L /\ \A a \in Left : ~ Forward(a, rest[i])
  <2>. TAKE i \in DOMAIN rest
  <2>1. ready[i] \in Left /\ (\A a \in Left : ~ Forward(a, ready[i])) /\ ready[i] # b
    BY <1>1, <1>3, <1>18 DEF Sorted
  <2>. QED
    BY <1>18, <2>1
<1>21. /\ \A i, j \in DOMAIN rest : rest[i] = rest[j] => i = j
       /\ \A i \in DOMAIN rest : \A j \in DOMAIN freed : rest[i] # freed[j]
  <2>1. \A i, j \in DOMAIN rest : rest[i] = rest[j] => i = j
    BY <1>1, <1>18 DEF Sorted
  <2>2. \A j \in DOMAIN freed : Forward(b, freed[j])
    BY <1>15, <1>16
  <2>. QED
    BY <1>6, <1>20, <2>1, <2>2
<1>. HIDE DEF L
<1>22. /\ ready' \in Seq(Blocks(input))
       /\ \A i \in DOMAIN ready' : \/ \E j \in DOMAIN rest : ready'[i] = rest[j]
                                   \/ \E j \in DOMAIN freed : ready'[i] = freed[j]
       /\ \A j \in DOMAIN rest : \E i \in DOMAIN ready' : ready'[i] = rest[j]
       /\ \A j \in DOMAIN freed : \E i \in DOMAIN ready' : ready'[i] = freed[j]
       /\ \A i, j \in DOMAIN ready' : ready'[i] = ready'[j] => i = j
  <2>. DEFINE u == rest \o freed
  <2>1. /\ u \in Seq(Blocks(input))
        /\ \A i \in DOMAIN u : \/ i \in DOMAIN rest /\ u[i] = rest[i]
                               \/ i - Len(rest) \in DOMAIN freed /\ u[i] = freed[i - Len(rest)]
        /\ \A i \in DOMAIN rest : i \in DOMAIN u /\ u[i] = rest[i]
        /\ \A i \in DOMAIN freed :
             i + Len(rest) \in DOMAIN u /\ u[i + Len(rest)] = freed[i]
    BY <1>4, <1>16, JoinedStacks
  <2>2. \A i, j \in DOMAIN u : u[i] = u[j] => i = j
    BY <1>4, <1>16, <1>21, JoinedOnce
  <2>3. ready' = u
    BY <1>2
  <2>. HIDE DEF u
  <2>. QED
    BY <2>1, <2>2, <2>3
<1>23. ASSUME NEW s \in L, \A a \in L : ~ Forward(a, s)
       PROVE  \E i \in DOMAIN ready' : ready'[i] = s
  <2>0. s \in Left /\ s # b /\ s \in Blocks(input)
    BY <1>7 DEF L
  <2>1. CASE Forward(b, s)
    BY <1>15, <1>16, <1>22, <1>23, <2>0, <2>1
  <2>2. CASE ~ Forward(b, s)
    <3>1. \A a \in Left : ~ Forward(a, s)
      BY <1>23, <2>2 DEF L
    <3>2. PICK i \in DOMAIN ready : ready[i] = s
      BY <1>1, <2>0, <3>1 DEF Sorted
    <3>3. i \in DOMAIN rest /\ rest[i] = s
      BY <1>3, <1>18, <1>19, <2>0, <3>2
    <3>. QED
      BY <1>22, <3>3
  <2>. QED
    BY <2>1, <2>2
<1>24. \A i \in DOMAIN ready' : ready'[i] \in L /\ \A a \in L : ~ Forward(a, ready'[i])
  <2>1. \A j \in DOMAIN freed : freed[j] \in L /\ \A a \in L : ~ Forward(a, freed[j])
    BY <1>15, <1>16, <1>17
  <2>2. L \subseteq Left
    BY DEF L
  <2>3. \A j \in DOMAIN rest : rest[j] \in L /\ \A a \in L : ~ Forward(a, rest[j])
    BY <1>20, <2>2
  <2>. QED
    BY <1>22, <2>1, <2>3
<1>25. Sorted'
  <2>1. indeg' = [s \in Blocks(input) |-> Cardinality(EdgesLeft(s)')]
    BY <1>2, <1>13, <1>14
  <2>2. \A i \in DOMAIN ready' : \A a \in L : ~ (ready'[i] \in Succs(input, a) /\ <<a, ready'[i]>> \notin back)
    BY <1>24 DEF Forward
  <2>3. /\ \A s \in L : (\A a \in L : ~ Forward(a, s)) => \E i \in DOMAIN ready' : ready'[i] = s
        /\ \A i \in DOMAIN ready' : ready'[i] \in L
        /\ \A i, j \in DOMAIN ready' : ready'[i] = ready'[j] => i = j
    BY <1>22, <1>23, <1>24
  <2>4. input' = input /\ back' = back
    BY <1>1 DEF dfsVars
  <2>. QED
    BY <1>12, <1>13, <2>1, <2>2, <2>3, <2>4 DEF Sorted, Blocks, Forward
<1>26. InOrder'
  <2>1. ASSUME NEW i \in DOMAIN order'
        PROVE  /\ order'[i] \in Reachable
               /\ \A a \in Reachable : Forward(a, order'[i]) => \E j \in 1 .. i - 1 : order'[j] = a
    <3>1. CASE i \in DOMAIN order
      <4>1. order'[i] = order[i] /\ \A j \in 1 .. i - 1 : order'[j] = order[j]
        BY <1>8, <3>1
      <4>. QED
        BY <1>1, <3>1, <4>1 DEF InOrder
    <3>2. CASE i = Len(order) + 1
      <4>1. order'[i] = b /\ b \in Reachable /\ 1 .. i - 1 = 1 .. Len(order)
        BY <1>6, <1>7, <1>8, <3>2
      <4>2. ASSUME NEW a \in Reachable, Forward(a, b)
            PROVE  \E j \in 1 .. Len(order) : order'[j] = a
        <5>1. a \in Ordered
          BY <1>6, <4>2 DEF Left
        <5>. QED
          BY <1>8, <5>1 DEF Ordered
      <4>. QED
        BY <4>1, <4>2
    <3>. QED
      BY <1>9, <3>1, <3>2
  <2>2. input' = input /\ back' = back
    BY <1>1 DEF dfsVars
  <2>. QED
    BY <1>10, <2>1, <2>2 DEF InOrder, Forward
<1>27. VerifierTyped'
  BY <1>1, <1>8, <1>22 DEF VerifierInv, VerifierTyped, Begun, dfsVars, endVars, flowVars, Blocks
<1>28. DefsRight'
  BY <1>1, DefsStay DEF VerifierInv
<1>29. VerdictSoFar'
  BY <1>1 DEF VerifierInv, VerdictSoFar, AllReach, AllEnd
<1>. QED
  BY <1>1, <1>10, <1>25, <1>26, <1>27, <1>28, <1>29 DEF VerifierInv, Begun

-----------------------------------------------------------------------------
(***************************************************************************)
(* The store dataflow.                                                     *)
(***************************************************************************)

\* Every reachable block gets its turn: with none free, none is left.
LEMMA AllOrdered ==
  ASSUME VerifierInv, pass = "topo", ready = <<>>
  PROVE  Ordered = Reachable
<1>1. Sorted /\ InOrder /\ Begun /\ stack = <<>>
  BY DEF VerifierInv, VerifierTyped, Begun
<1>2. Ordered \subseteq Reachable
  BY <1>1 DEF InOrder, Ordered
<1>3. Left = {}
  <2>. SUFFICES ASSUME Left # {}
                PROVE  FALSE
    OBVIOUS
  <2>1. Left \in SUBSET Reachable
    BY DEF Left
  <2>2. PICK s \in Left : \A a \in Left : ~ Forward(a, s)
    BY <1>1, <2>1, SearchIsOver
  <2>. QED
    BY <1>1, <2>2 DEF Sorted
<1>. QED
  BY <1>2, <1>3 DEF Left

(* The live blocks are in an order that every forward edge keeps. *)
LEMMA TopoDoneStep == VerifierInv /\ TopoDone => VerifierInv'
<1>. SUFFICES ASSUME VerifierInv, TopoDone
              PROVE  VerifierInv'
  OBVIOUS
<1>1. /\ pass = "topo" /\ pass' = "flow" /\ at' = 1 /\ Begun /\ stack = <<>> /\ ready = <<>>
      /\ UNCHANGED <<input, defs, errs, dfsVars, endVars, kahnVars>>
      /\ known' = {Entry} /\ entry' = [entry EXCEPT ![Entry] = NoStores]
      /\ entry \in [Blocks(input) -> [Cols -> Nat]] /\ order \in Seq(Blocks(input))
      /\ InOrder
  BY DEF TopoDone, Begun, VerifierInv, VerifierTyped
<1>2. Entry \in Blocks(input)
  BY <1>1, SearchIsOver
<1>3. NoStores \in [Cols -> Nat] /\ \A c \in Cols : NoStores[c] <= 1
  BY DEF NoStores
<1>4. entry' \in [Blocks(input) -> [Cols -> Nat]] /\ entry'[Entry] = NoStores
  BY <1>1, <1>2, <1>3
<1>5. Reachable' = Reachable /\ Stacked' /\ Searched'
  BY <1>1, SearchStays
<1>6. VerifierTyped'
  BY <1>1, <1>2, <1>4 DEF VerifierInv, VerifierTyped, Begun, dfsVars, endVars, kahnVars, Blocks
<1>7. DefsRight'
  BY <1>1, DefsStay DEF VerifierInv
<1>8. Flowed' = {} /\ 1 .. at' - 1 = {} /\ Len(order) \in Nat /\ at' \in 1 .. Len(order) + 1
  BY <1>1 DEF Flowed
<1>9. VerdictSoFar'
  BY <1>1, <1>8 DEF VerifierInv, VerdictSoFar, AllReach, AllEnd
<1>10. InOrder'
  BY <1>1, <1>5 DEF InOrder, Forward, dfsVars, kahnVars
<1>11. Flowing'
  <2>1. Ordered' = Reachable
    BY <1>1, AllOrdered DEF Ordered, kahnVars
  <2>2. \A b \in known' : \A c \in Cols : entry'[b][c] <= 1
    BY <1>1, <1>3, <1>4
  <2>3. \A E \in [Blocks(input) -> [Cols -> 0 .. 1]] :
          Consistent(input, Blocks(input), E) => \A b \in known' : entry'[b] = E[b]
    BY <1>1, <1>2, <1>4 DEF Consistent
  <2>. QED
    BY <1>1, <1>4, <1>5, <1>8, <2>1, <2>2, <2>3 DEF Flowing, kahnVars, Blocks
<1>. QED
  BY <1>1, <1>5, <1>6, <1>7, <1>9, <1>10, <1>11 DEF VerifierInv

\* How often a block stores a column is a count.
LEMMA CountsStores ==
  ASSUME NEW p \in Submitted, NEW b \in Blocks(p), NEW c
  PROVE  StoreCount(p, b, c) \in Nat
<1>. DEFINE S == { i \in DOMAIN p[b].insts : p[b].insts[i].col = c }
<1>1. DOMAIN p[b].insts = 1 .. Len(p[b].insts) /\ Len(p[b].insts) \in Nat
  BY SubmittedShape
<1>2. IsFiniteSet(DOMAIN p[b].insts)
  BY <1>1, FS_Interval
<1>3. IsFiniteSet(S)
  BY <1>2, FS_Subset
<1>. HIDE DEF S
<1>4. Cardinality(S) \in Nat
  BY <1>3, FS_CardinalityType
<1>. QED
  BY <1>4 DEF S, StoreCount

\* The errors of a block whose turn comes with a state of at most one store a
\* column: none, exactly when it leaves by the rules.
LEMMA FlowIsExact ==
  ASSUME input \in Submitted, NEW b \in Blocks(input),
         entry \in [Blocks(input) -> [Cols -> Nat]], \A c \in Cols : entry[b][c] <= 1
  PROVE  FlowErrs(b) = {} <=>
           /\ \A c \in Cols : StateOut(b)[c] <= 1
           /\ input[b].term.op \in Emitters => \A c \in Cols : StateOut(b)[c] = 1
           /\ input[b].term.op = "skip" => StateOut(b) = NoStores
           /\ \A t \in Succs(input, b) \intersect known : entry[t] = StatePassed(b)
<1>1. \A c \in Cols : /\ StoreCount(input, b, c) \in Nat /\ entry[b][c] \in 0 .. 1
                      /\ StateOut(b)[c] = entry[b][c] + StoreCount(input, b, c)
                      /\ StateOut(b)[c] \in Nat
  BY CountsStores DEF StateOut
<1>2. StoredTwice(b) = {} <=> \A c \in Cols : StateOut(b)[c] <= 1
  <2>1. StoredTwice(b) = {} <=> \A c \in Cols : ~ (StateOut(b)[c] > 1 /\ StoreCount(input, b, c) > 0)
    BY DEF StoredTwice
  <2>2. \A c \in Cols : StateOut(b)[c] > 1 /\ StoreCount(input, b, c) > 0 <=> ~ (StateOut(b)[c] <= 1)
    BY <1>1
  <2>. QED
    BY <2>1, <2>2
<1>3. EmitMissing(b) = {} <=> (input[b].term.op \in Emitters => \A c \in Cols : StateOut(b)[c] # 0)
  BY DEF EmitMissing
<1>4. SkipStored(b) = {} <=> (input[b].term.op = "skip" => StateOut(b) = NoStores)
  <2>1. SkipStored(b) = {} <=> (input[b].term.op = "skip" => \A c \in Cols : ~ (StateOut(b)[c] > 0))
    BY DEF SkipStored
  <2>2. (\A c \in Cols : ~ (StateOut(b)[c] > 0)) <=> StateOut(b) = NoStores
    <3>1. \A c \in Cols : ~ (StateOut(b)[c] > 0) <=> StateOut(b)[c] = 0
      BY <1>1
    <3>. QED
      BY <3>1 DEF StateOut, NoStores
  <2>. QED
    BY <2>1, <2>2
<1>5. JoinDisagrees(b) = {} <=> \A t \in Succs(input, b) \intersect known : entry[t] = StatePassed(b)
  BY DEF JoinDisagrees
<1>6. (\A c \in Cols : StateOut(b)[c] <= 1) =>
        \A c \in Cols : StateOut(b)[c] # 0 <=> StateOut(b)[c] = 1
  BY <1>1
<1>7. FlowErrs(b) = {} <=> /\ StoredTwice(b) = {} /\ EmitMissing(b) = {}
                           /\ SkipStored(b) = {} /\ JoinDisagrees(b) = {}
  BY DEF FlowErrs
<1>. QED
  BY <1>2, <1>3, <1>4, <1>5, <1>6, <1>7

\* A block's turn comes when its state is known: a forward predecessor went
\* before it.
LEMMA TurnIsKnown ==
  ASSUME VerifierInv, pass = "flow", at \in DOMAIN order
  PROVE  order[at] \in known /\ order[at] \in Reachable
<1>1. Flowing /\ InOrder /\ Begun /\ stack = <<>>
  BY DEF VerifierInv, VerifierTyped, Begun
<1>2. order[at] \in Reachable
  BY <1>1 DEF InOrder
<1>3. CASE order[at] = Entry
  BY <1>1, <1>2, <1>3 DEF Flowing
<1>4. CASE order[at] # Entry
  <2>1. PICK a \in Reachable : Forward(a, order[at])
    BY <1>1, <1>2, <1>4, SearchIsOver
  <2>2. PICK j \in 1 .. at - 1 : order[j] = a
    BY <1>1, <2>1 DEF InOrder
  <2>. QED
    BY <1>1, <1>2, <2>1, <2>2 DEF Flowing, Forward
<1>. QED
  BY <1>3, <1>4

(* One more block of that order is given its state on exit, and passes it on
   (check_cfg_and_stores). *)
LEMMA FlowStepStep == VerifierInv /\ FlowStep => VerifierInv'
<1>. SUFFICES ASSUME VerifierInv, FlowStep
              PROVE  VerifierInv'
  OBVIOUS
<1>0. PICK b : b = order[at]
  OBVIOUS
<1>. DEFINE next == Succs(input, b)
<1>1. /\ pass = "flow" /\ pass' = "flow" /\ at \in DOMAIN order /\ at' = at + 1 /\ Begun
      /\ stack = <<>>
      /\ UNCHANGED <<input, defs, dfsVars, endVars, kahnVars>>
      /\ entry \in [Blocks(input) -> [Cols -> Nat]] /\ order \in Seq(Blocks(input))
      /\ known \subseteq Blocks(input)
      /\ InOrder /\ Flowing
  BY DEF FlowStep, Begun, VerifierInv, VerifierTyped
<1>2. /\ input \in Submitted /\ Reachable \subseteq Blocks(input)
      /\ b \in known /\ b \in Reachable /\ b \in Blocks(input)
  BY <1>0, <1>1, TurnIsKnown, SearchIsOver
<1>3. /\ errs' = errs \union FlowErrs(b)
      /\ known' = known \union next
      /\ entry' = [s \in Blocks(input) |->
                     IF s \in next \ known THEN StatePassed(b) ELSE entry[s]]
  BY <1>0, <1>1, <1>2 DEF FlowStep, Report
<1>4. /\ at \in Nat /\ Len(order) \in Nat /\ at \in 1 .. Len(order)
      /\ at + 1 \in 1 .. Len(order) + 1
      /\ \A i \in 1 .. (at + 1) - 1 : i \in 1 .. at - 1 \/ i = at
      /\ \A i \in 1 .. at - 1 : i \in 1 .. (at + 1) - 1
      /\ at \in 1 .. (at + 1) - 1
  BY <1>1 DEF VerifierInv, VerifierTyped
<1>5. next \subseteq Blocks(input)
  BY DEF Succs
<1>6. Flowed' = Flowed \union {b}
  <2>1. order' = order
    BY <1>1 DEF kahnVars
  <2>. QED
    BY <1>0, <1>1, <1>4, <2>1 DEF Flowed
<1>7. \A x \in Flowed : x \in known /\ Succs(input, x) \subseteq known
  BY <1>1 DEF Flowing, Flowed
<1>. HIDE DEF next
<1>8. /\ \A x \in known : entry'[x] = entry[x]
      /\ \A x \in next \ known : entry'[x] = StatePassed(b)
  BY <1>1, <1>3, <1>5
<1>9. StateOut(b) \in [Cols -> Nat] /\ NoStores \in [Cols -> Nat]
  BY <1>1, <1>2, CountsStores DEF StateOut, NoStores
<1>10. StatePassed(b) \in [Cols -> Nat]
  BY <1>9 DEF StatePassed
<1>11. entry' \in [Blocks(input) -> [Cols -> Nat]]
  BY <1>1, <1>3, <1>10
<1>12. input' = input
  BY <1>1
<1>13. \A x : entry'[x] = entry[x] => /\ After(input, entry', x) = After(input, entry, x)
                                     /\ Passed(input, entry', x) = Passed(input, entry, x)
  BY DEF After, Passed
<1>14. \A x \in Flowed : FlowsRight(x)' <=> FlowsRight(x)
  <2>. TAKE x \in Flowed
  <2>1. \A s \in Succs(input, x) : entry'[s] = entry[s]
    BY <1>7, <1>8
  <2>2. entry'[x] = entry[x]
    BY <1>7, <1>8
  <2>. QED
    BY <1>12, <1>13, <2>1, <2>2 DEF FlowsRight
<1>15. After(input, entry', b) = StateOut(b) /\ Passed(input, entry', b) = StatePassed(b)
  <2>1. After(input, entry, b) = StateOut(b) /\ Passed(input, entry, b) = StatePassed(b)
    BY DEF After, Passed, StateOut, StatePassed
  <2>. QED
    BY <1>2, <1>8, <1>13, <2>1
<1>16. ASSUME \A c \in Cols : entry[b][c] <= 1
       PROVE  FlowErrs(b) = {} <=> FlowsRight(b)'
  <2>1. FlowErrs(b) = {} <=>
           /\ \A c \in Cols : StateOut(b)[c] <= 1
           /\ input[b].term.op \in Emitters => \A c \in Cols : StateOut(b)[c] = 1
           /\ input[b].term.op = "skip" => StateOut(b) = NoStores
           /\ \A t \in next \intersect known : entry[t] = StatePassed(b)
    BY <1>1, <1>2, <1>16, FlowIsExact DEF next
  <2>2. (\A t \in next \intersect known : entry[t] = StatePassed(b))
          <=> \A s \in next : entry'[s] = StatePassed(b)
    BY <1>8
  <2>3. FlowsRight(b)' <=>
           /\ \A c \in Cols : StateOut(b)[c] <= 1
           /\ input[b].term.op \in Emitters => \A c \in Cols : StateOut(b)[c] = 1
           /\ input[b].term.op = "skip" => StateOut(b) = NoStores
           /\ \A s \in next : entry'[s] = StatePassed(b)
    BY <1>12, <1>15 DEF FlowsRight, next
  <2>. QED
    BY <2>1, <2>2, <2>3
<1>17. errs = {} <=> /\ WellFormed(input) /\ AllReach /\ AllEnd
                     /\ \A x \in Flowed : FlowsRight(x)
  BY <1>1 DEF VerifierInv, VerdictSoFar
<1>18. errs = {} => \A x \in known : \A c \in Cols : entry[x][c] <= 1
  BY <1>1 DEF Flowing
<1>19. errs' = {} <=> /\ WellFormed(input) /\ AllReach /\ AllEnd
                      /\ \A x \in Flowed' : FlowsRight(x)'
  <2>1. errs' = {} <=> errs = {} /\ FlowErrs(b) = {}
    BY <1>3
  <2>2. (\A x \in Flowed' : FlowsRight(x)') <=> (\A x \in Flowed : FlowsRight(x)) /\ FlowsRight(b)'
    BY <1>6, <1>14
  <2>. QED
    BY <1>2, <1>16, <1>17, <1>18, <2>1, <2>2
<1>20. VerdictSoFar'
  BY <1>1, <1>19 DEF VerdictSoFar, AllReach, AllEnd
<1>21. ASSUME errs' = {}, NEW x \in known', NEW c \in Cols
       PROVE  entry'[x][c] <= 1
  <2>1. errs = {} /\ FlowErrs(b) = {}
    BY <1>3, <1>21
  <2>2. CASE x \in known
    BY <1>8, <1>18, <2>1, <2>2
  <2>3. CASE x \notin known
    <3>1. entry'[x] = StatePassed(b)
      BY <1>3, <1>8, <2>3
    <3>2. StateOut(b)[c] <= 1
      BY <1>1, <1>2, <1>18, <2>1, FlowIsExact
    <3>3. NoStores[c] <= 1
      BY DEF NoStores
    <3>. QED
      BY <3>1, <3>2, <3>3 DEF StatePassed
  <2>. QED
    BY <2>2, <2>3
<1>22. ASSUME NEW E \in [Blocks(input) -> [Cols -> 0 .. 1]], Consistent(input, Blocks(input), E),
              NEW x \in known'
       PROVE  entry'[x] = E[x]
  <2>1. \A a \in known : entry[a] = E[a]
    BY <1>1, <1>22 DEF Flowing
  <2>2. CASE x \in known
    BY <1>8, <2>1, <2>2
  <2>3. CASE x \notin known
    <3>1. entry'[x] = StatePassed(b) /\ x \in Succs(input, b)
      BY <1>3, <1>8, <2>3 DEF next
    <3>2. E[x] = Passed(input, E, b)
      BY <1>2, <1>22, <3>1 DEF Consistent
    <3>3. entry[b] = E[b]
      BY <1>2, <2>1
    <3>4. Passed(input, E, b) = StatePassed(b)
      BY <3>3 DEF Passed, After, StatePassed, StateOut
    <3>. QED
      BY <3>1, <3>2, <3>4
  <2>. QED
    BY <2>2, <2>3
<1>23. Reachable' = Reachable /\ Stacked' /\ Searched'
  BY <1>1, SearchStays
<1>24. Flowing'
  <2>1. order' = order /\ Len(order') = Len(order)
    BY <1>1 DEF kahnVars
  <2>2. Ordered' = Reachable'
    BY <1>1, <1>23, <2>1 DEF Flowing, Ordered
  <2>3. Entry \in known' /\ entry'[Entry] = NoStores
    BY <1>1, <1>3, <1>8 DEF Flowing
  <2>4. \A i \in 1 .. at' - 1 : order'[i] \in known' /\ Succs(input, order'[i]) \subseteq known'
    BY <1>0, <1>1, <1>2, <1>3, <1>4, <2>1 DEF Flowing, next
  <2>. QED
    BY <1>1, <1>4, <1>12, <1>21, <1>22, <2>1, <2>2, <2>3, <2>4 DEF Flowing, Blocks
<1>25. InOrder'
  BY <1>1, <1>23 DEF InOrder, Forward, dfsVars, kahnVars
<1>26. VerifierTyped'
  <2>1. at' \in Nat /\ known' \subseteq Blocks(input)
    BY <1>1, <1>3, <1>4, <1>5
  <2>. QED
    BY <1>1, <1>11, <2>1 DEF VerifierInv, VerifierTyped, Begun, dfsVars, endVars, kahnVars, Blocks
<1>27. DefsRight'
  BY <1>1, DefsStay DEF VerifierInv
<1>. QED
  BY <1>1, <1>20, <1>23, <1>24, <1>25, <1>26, <1>27 DEF VerifierInv

\* When every block has had its turn, the states found are the rules', and only
\* they could be.
LEMMA FlowIsOver ==
  ASSUME VerifierInv, pass = "flow", at \notin DOMAIN order
  PROVE  /\ errs = {} <=> Verified(input)
         /\ errs = {} => /\ entry \in [Blocks(input) -> [Cols -> 0 .. 1]]
                         /\ Consistent(input, Blocks(input), entry)
<1>1. /\ Flowing /\ InOrder /\ Begun /\ stack = <<>> /\ order \in Seq(Blocks(input))
      /\ entry \in [Blocks(input) -> [Cols -> Nat]]
  BY DEF VerifierInv, VerifierTyped, Begun
<1>2. /\ Reachable = ReachableRef(input) /\ Reachable \subseteq Blocks(input)
  BY <1>1, SearchIsOver
<1>3. 1 .. at - 1 = DOMAIN order
  <2>. DEFINE n == Len(order)
  <2>1. n \in Nat /\ DOMAIN order = 1 .. n /\ at \in 1 .. n + 1
    BY <1>1 DEF Flowing
  <2>. HIDE DEF n
  <2>2. at = n + 1
    BY <2>1
  <2>. QED
    BY <2>1, <2>2
<1>4. Flowed = Reachable /\ \A b \in Reachable : b \in known
  BY <1>1, <1>3 DEF Flowed, Flowing, Ordered
<1>5. errs = {} <=> /\ WellFormed(input) /\ AllReach /\ AllEnd
                    /\ \A b \in Flowed : FlowsRight(b)
  BY DEF VerifierInv, VerdictSoFar
<1>6. ASSUME errs = {}
      PROVE  /\ Verified(input)
             /\ entry \in [Blocks(input) -> [Cols -> 0 .. 1]]
             /\ Consistent(input, Blocks(input), entry)
  <2>1. Flowed = Blocks(input) /\ \A b \in Blocks(input) : b \in known /\ FlowsRight(b)
    BY <1>2, <1>4, <1>5, <1>6 DEF AllReach
  <2>2. \A b \in Blocks(input) : \A c \in Cols : entry[b][c] \in Nat /\ entry[b][c] <= 1
    BY <1>1, <1>6, <2>1 DEF Flowing
  <2>3. \A b \in Blocks(input) : entry[b] \in [Cols -> 0 .. 1]
    <3>1. \A b \in Blocks(input) : \A c \in Cols : entry[b][c] \in 0 .. 1
      BY <2>2
    <3>. QED
      BY <1>1, <3>1
  <2>4. entry \in [Blocks(input) -> [Cols -> 0 .. 1]]
    BY <1>1, <2>3
  <2>5. Consistent(input, Blocks(input), entry)
    BY <1>1, <2>1 DEF Consistent, FlowsRight, Flowing
  <2>6. Disciplined(input, Blocks(input))
    BY <2>4, <2>5 DEF Disciplined
  <2>. QED
    BY <1>5, <1>6, <2>4, <2>5, <2>6 DEF Verified, AllReach, AllEnd
<1>7. ASSUME Verified(input)
      PROVE  errs = {}
  <2>1. WellFormed(input) /\ AllReach /\ AllEnd
    BY <1>7 DEF Verified, AllReach, AllEnd
  <2>2. PICK E \in [Blocks(input) -> [Cols -> 0 .. 1]] : Consistent(input, Blocks(input), E)
    BY <1>7 DEF Verified, Disciplined
  <2>3. \A b \in Blocks(input) : entry[b] = E[b]
    BY <1>1, <1>2, <1>4, <2>1, <2>2 DEF Flowing, AllReach
  <2>4. ASSUME NEW b \in Blocks(input)
        PROVE  FlowsRight(b)
    <3>1. After(input, entry, b) = After(input, E, b) /\ Passed(input, entry, b) = Passed(input, E, b)
      BY <2>3 DEF After, Passed
    <3>2. \A s \in Succs(input, b) : entry[s] = E[s]
      BY <2>3 DEF Succs
    <3>3. /\ \A c \in Cols : After(input, E, b)[c] <= 1
          /\ input[b].term.op \in Emitters => \A c \in Cols : After(input, E, b)[c] = 1
          /\ input[b].term.op = "skip" => After(input, E, b) = NoStores
          /\ \A s \in Succs(input, b) : E[s] = Passed(input, E, b)
      BY <2>2 DEF Consistent
    <3>. QED
      BY <3>1, <3>2, <3>3 DEF FlowsRight
  <2>. QED
    BY <1>2, <1>4, <1>5, <2>1, <2>4
<1>. QED
  BY <1>6, <1>7

(* The entry states are complete, and the verdict is given. *)
LEMMA FlowDoneStep == VerifierInv /\ FlowDone => VerifierInv'
<1>. SUFFICES ASSUME VerifierInv, FlowDone
              PROVE  VerifierInv'
  OBVIOUS
<1>1. /\ pass = "flow" /\ pass' = "done" /\ at \notin DOMAIN order
      /\ UNCHANGED <<input, at, defs, errs, dfsVars, endVars, kahnVars, flowVars>>
  BY DEF FlowDone
<1>2. VerifierTyped'
  BY <1>1 DEF VerifierInv, VerifierTyped, Begun, dfsVars, endVars, kahnVars, flowVars, Blocks
<1>3. DefsRight'
  BY <1>1, DefsStay DEF VerifierInv
<1>4. VerdictSoFar'
  BY <1>1, FlowIsOver DEF VerdictSoFar, Consistent, After, Passed, flowVars
<1>. QED
  BY <1>1, <1>2, <1>3, <1>4 DEF VerifierInv, Begun

-----------------------------------------------------------------------------
(***************************************************************************)
(* The whole verification.                                                 *)
(***************************************************************************)

\* Nothing has been looked at when a program is handed in.
LEMMA VerifierStarts == VerifierInit => VerifierInv
<1>. SUFFICES ASSUME VerifierInit
              PROVE  VerifierInv
  OBVIOUS
<1>1. /\ input \in Submitted /\ pass = "structure" /\ at = 0 /\ defs = <<>> /\ errs = {}
      /\ color = [b \in Blocks(input) |-> 0] /\ stack = <<>> /\ back = {}
      /\ ends = {} /\ work = {} /\ ready = <<>> /\ order = <<>> /\ known = {}
      /\ entry = [b \in Blocks(input) |-> NoStores]
  BY DEF VerifierInit
<1>2. NoStores \in [Cols -> Nat]
  BY DEF NoStores
<1>3. VerifierTyped
  BY <1>1, <1>2 DEF VerifierTyped, Begun
<1>4. Collected = {} /\ DOMAIN defs = {}
  BY <1>1 DEF Collected
<1>5. DefsRight
  BY <1>4 DEF DefsRight
<1>6. VerdictSoFar
  BY <1>1 DEF VerdictSoFar
<1>. QED
  BY <1>1, <1>3, <1>5, <1>6 DEF VerifierInv, Begun

\* Every step of every pass keeps the invariant.
LEMMA VerifierSteps == VerifierInv /\ VerifierNext => VerifierInv'
BY CheckStructureStep, CollectDefsStep, DefsCollectedStep, CheckBlockStep, BlocksCheckedStep,
   DfsTryStep, DfsPopStep, DfsDoneStep, EndsStepStep, EndsDoneStep,
   TopoStepStep, TopoDoneStep, FlowStepStep, FlowDoneStep DEF VerifierNext

\* So does a step that leaves the verifier alone.
LEMMA VerifierStays == VerifierInv /\ UNCHANGED verifierVars => VerifierInv'
<1>. SUFFICES ASSUME VerifierInv, UNCHANGED verifierVars
              PROVE  VerifierInv'
  OBVIOUS
<1>1. /\ input' = input /\ pass' = pass /\ at' = at /\ defs' = defs /\ errs' = errs
      /\ color' = color /\ stack' = stack /\ back' = back /\ ends' = ends /\ work' = work
      /\ indeg' = indeg /\ ready' = ready /\ order' = order /\ known' = known
      /\ entry' = entry
  BY DEF verifierVars, dfsVars, endVars, kahnVars, flowVars
<1>2. VerifierTyped'
  BY <1>1 DEF VerifierInv, VerifierTyped, Begun, Blocks
<1>3. DefsRight'
  BY <1>1 DEF VerifierInv, DefsRight, Collected
<1>4. Flowed' = Flowed /\ Checked' = Checked /\ Collected' = Collected
  BY <1>1 DEF Flowed, Checked, Collected
<1>5. \A b : FlowsRight(b)' = FlowsRight(b)
  BY <1>1 DEF FlowsRight, After, Passed
<1>6. VerdictSoFar'
  BY <1>1, <1>4, <1>5
     DEF VerifierInv, VerdictSoFar, AllReach, AllEnd, Consistent, After, Passed
<1>7. Begun => Stacked' /\ Searched' /\ Reachable' = Reachable
  BY <1>1, SearchStays DEF dfsVars
<1>8. pass = "ends" => Ending'
  BY <1>1 DEF VerifierInv, Ending
<1>9. pass \in {"topo", "flow"} => InOrder'
  BY <1>1, <1>7 DEF VerifierInv, InOrder, Forward, Begun
<1>10. ASSUME pass = "topo"
       PROVE  Sorted'
  <2>1. Left' = Left
    BY <1>1, <1>7, <1>10 DEF Left, Ordered, Begun
  <2>2. PICK L : L = Left
    OBVIOUS
  <2>3. /\ \A a, s : Forward(a, s)' = Forward(a, s)
        /\ \A s : EdgesLeft(s)' = EdgesInto(s, L)
    BY <1>1, <2>1, <2>2, EdgesStay
  <2>4. \A s : EdgesLeft(s)' = EdgesLeft(s)
    BY <2>2, <2>3 DEF EdgesLeft
  <2>. QED
    BY <1>1, <1>10, <2>1, <2>3, <2>4 DEF VerifierInv, Sorted, Forward
<1>11. pass = "flow" => Flowing'
  <2>1. Ordered' = Ordered
    BY <1>1 DEF Ordered
  <2>. QED
    BY <1>1, <1>7, <2>1 DEF VerifierInv, Flowing, Begun
<1>. QED
  BY <1>1, <1>2, <1>3, <1>6, <1>7, <1>8, <1>9, <1>10, <1>11 DEF VerifierInv, Begun

\* The verdict the last pass leaves is part of the invariant.
LEMMA VerdictFromInv == VerifierInv => VerdictIsExact
BY DEF VerifierInv, VerdictSoFar, VerdictIsExact

\* Whatever program is handed to `verify', and in whatever order its worklist
\* is emptied: Ok is returned for exactly the programs that obey the rules.
THEOREM VerdictIsAlwaysExact ==
  VerifierInit /\ [][VerifierNext]_verifierVars => []VerdictIsExact
<1>1. VerifierInit => VerifierInv
  BY VerifierStarts
<1>2. VerifierInv /\ [VerifierNext]_verifierVars => VerifierInv'
  BY VerifierSteps, VerifierStays
<1>. QED
  BY <1>1, <1>2, VerdictFromInv, PTL

-----------------------------------------------------------------------------
(***************************************************************************)
(* Verifier and interpreter together: what the verifier's passes accept is *)
(* what the row loop's proofs need, so whatever program is handed in, it   *)
(* is refused or runs within its frame and keeps a call's promise.         *)
(*                                                                         *)
(* The inductive invariant is the verifier's, and Gate: until a program is *)
(* accepted the RunState is fresh; from then on the row loop's invariants  *)
(* hold. The step between the two is the verifier's verdict: an accepted   *)
(* program is a verified one (VerdictIsExact), hence one of Programs.      *)
(***************************************************************************)

RunInv == TypeOK /\ Ledger /\ Cells /\ Counted /\ Scoped /\ Exact

Gate ==
  /\ prog = input
  /\ ~ Accepted => Fresh
  /\ Accepted => RunInv

-----------------------------------------------------------------------------
(***************************************************************************)
(* The invariant.                                                          *)
(***************************************************************************)

\* What the verifier accepts may be compiled.
LEMMA AcceptedMayRun ==
  ASSUME VerifierInv, Accepted
  PROVE  input \in Programs
<1>1. input \in Submitted /\ Verified(input)
  BY DEF VerifierInv, VerifierTyped, VerdictSoFar, Accepted
<1>. QED
  BY <1>1, CompiledAssumption

\* The row loop's invariants, from a fresh RunState on.
LEMMA RunStarts == Init => RunInv
<1>. SUFFICES ASSUME Init
              PROVE  RunInv
  OBVIOUS
<1>1. TypeOK
  BY TypeStarts
<1>2. Ledger /\ Cells /\ Counted
  BY DEF Init, Fresh, Ledger, Cells, Counted
<1>3. Scoped /\ Exact
  BY DEF Init, Fresh, Scoped, Exact
<1>. QED
  BY <1>1, <1>2, <1>3 DEF RunInv

(* Every step of a call keeps what RowLoopProofs knows of it.                   *)
LEMMA RunSteps == RunInv /\ [Next]_vars => RunInv'
BY TypeStep, LedgerStep, CellsStep, CountedStep, ScopedStep, ExactStep DEF RunInv

\* No pass follows the last.
LEMMA DoneIsDone == VerifierNext => pass # "done"
BY DEF VerifierNext, CheckStructure, CollectDefs, DefsCollected, CheckBlock, BlocksChecked,
       DfsTry, DfsPop, DfsDone, EndsStep, EndsDone, TopoStep, TopoDone, FlowStep, FlowDone

\* The program under verification stays the same.
LEMMA InputStays == VerifierNext => input' = input
BY DEF VerifierNext, CheckStructure, CollectDefs, DefsCollected, CheckBlock, BlocksChecked,
       DfsTry, DfsPop, DfsDone, EndsStep, EndsDone, TopoStep, TopoDone, FlowStep, FlowDone

\* So does the program that runs.
LEMMA ProgStays == Next => prog' = prog
BY DEF Next, Step, Refuse, Call, Exec, Abort, Branch, EmitTo, Copy, Enter, Emit, Skip, Return

(* Before the verifier begins nothing runs. *)
LEMMA GateStarts == VerifyAndRunInit => VerifierInv /\ Gate
<1>. SUFFICES ASSUME VerifyAndRunInit
              PROVE  VerifierInv /\ Gate
  OBVIOUS
<1>1. VerifierInv
  BY VerifierStarts DEF VerifyAndRunInit
<1>2. ~ Accepted /\ prog = input /\ Fresh
  BY DEF VerifyAndRunInit, VerifierInit, Accepted
<1>. QED
  BY <1>1, <1>2 DEF Gate

(* A call begins on nothing but a program the verifier accepted, and nothing changes it under
   the call. *)
LEMMA GateSteps ==
  VerifierInv /\ Gate /\ [VerifyAndRunNext]_allVars => VerifierInv' /\ Gate'
<1>. SUFFICES ASSUME VerifierInv, Gate, [VerifyAndRunNext]_allVars
              PROVE  VerifierInv' /\ Gate'
  OBVIOUS
<1>1. CASE Verify
  <2>1. VerifierNext /\ UNCHANGED vars
    BY <1>1 DEF Verify
  <2>2. VerifierInv'
    BY <2>1, VerifierSteps
  <2>3. ~ Accepted /\ Fresh /\ prog = input
    BY <2>1, DoneIsDone DEF Gate, Accepted
  <2>4. Fresh' /\ prog' = input'
    BY <2>1, <2>3, InputStays DEF Fresh, vars, rowVars, edgeVars
  <2>5. Accepted' => RunInv'
    <3>. SUFFICES ASSUME Accepted'
                  PROVE  RunInv'
      OBVIOUS
    <3>1. input' \in Programs
      <4>1. input' \in Submitted /\ Verified(input')
        BY <2>2 DEF VerifierInv, VerifierTyped, VerdictSoFar, Accepted
      <4>. QED
        BY <4>1, CompiledAssumption
    <3>2. prog \in Programs
      BY <2>1, <2>3, <3>1, InputStays
    <3>3. RunInv
      BY <2>3, <3>2, RunStarts DEF Init
    <3>. QED
      BY <2>1, <3>3, RunSteps
  <2>. QED
    BY <2>2, <2>4, <2>5 DEF Gate
<1>2. CASE Run
  <2>1. Accepted /\ Next /\ UNCHANGED verifierVars
    BY <1>2 DEF Run
  <2>2. pass' = pass /\ errs' = errs /\ input' = input
    BY <2>1 DEF verifierVars
  <2>3. VerifierInv'
    BY <2>1, VerifierStays
  <2>4. RunInv'
    BY <2>1, RunSteps DEF Gate
  <2>5. Accepted' /\ prog' = input'
    BY <2>1, <2>2, ProgStays DEF Accepted, Gate
  <2>. QED
    BY <2>3, <2>4, <2>5 DEF Gate
<1>3. CASE UNCHANGED allVars
  <2>1. UNCHANGED verifierVars /\ UNCHANGED vars
    BY <1>3 DEF allVars
  <2>2. pass' = pass /\ errs' = errs /\ input' = input
    BY <2>1 DEF verifierVars
  <2>3. VerifierInv'
    BY <2>1, VerifierStays
  <2>4. RunInv => RunInv'
    BY <2>1, RunSteps
  <2>5. prog' = prog /\ (Fresh => Fresh')
    BY <2>1 DEF vars, rowVars, edgeVars, Fresh
  <2>. QED
    BY <2>2, <2>3, <2>4, <2>5 DEF Gate, Accepted
<1>. QED
  BY <1>1, <1>2, <1>3 DEF VerifyAndRunNext

-----------------------------------------------------------------------------
(***************************************************************************)
(* What it establishes.                                                    *)
(***************************************************************************)

\* A program has one flow: two that obey the rules agree at the entry and
\* along every edge, hence wherever a path leads.
LEMMA FlowIsUnique ==
  ASSUME NEW p, Entry \in Blocks(p), ReachableRef(p) = Blocks(p),
         NEW E, Consistent(p, Blocks(p), E), NEW F, Consistent(p, Blocks(p), F)
  PROVE  \A b \in Blocks(p) : E[b] = F[b]
<1>. DEFINE S == { b \in Blocks(p) : E[b] = F[b] }
<1>1. Entry \in S
  BY DEF Consistent
<1>2. ASSUME NEW a \in S, NEW s \in Succs(p, a)
      PROVE  s \in S
  <2>1. Passed(p, E, a) = Passed(p, F, a)
    BY DEF Passed, After
  <2>2. E[s] = Passed(p, E, a) /\ F[s] = Passed(p, F, a) /\ s \in Blocks(p)
    BY DEF Consistent, Succs
  <2>. QED
    BY <2>1, <2>2
<1>3. S \in SUBSET Blocks(p) /\ \A a \in S : Succs(p, a) \subseteq S
  BY <1>2
<1>. HIDE DEF S
<1>4. ReachableRef(p) \subseteq S
  BY <1>1, <1>3, ReachableIsLeast
<1>. QED
  BY <1>4 DEF S

\* The states the dataflow found are the flow the row loop runs by.
LEMMA EntryIsFlow ==
  ASSUME VerifierInv, Gate, Accepted
  PROVE  \A b \in Blocks(prog) : entry[b] = Flow(prog)[b]
<1>1. /\ input \in Programs /\ prog = input /\ Entry \in Blocks(input)
  BY AcceptedMayRun, EntryIsABlock DEF Gate
<1>2. Consistent(input, Blocks(input), entry) /\ Verified(input)
  BY DEF VerifierInv, VerdictSoFar, Accepted
<1>3. Consistent(input, Blocks(input), Flow(input))
  BY <1>1, FlowIsConsistent
<1>. QED
  BY <1>1, <1>2, <1>3, FlowIsUnique DEF Verified

\* A call is under way, or has ended, only for a program that was accepted.
LEMMA OnlyAcceptedRun == Gate /\ status # "idle" => Accepted /\ RunInv
BY DEF Gate, Fresh

(* The flow a call meets is the entry state the verifier computed: both are consistent, and a
   program has one consistent flow. *)
LEMMA EntryStateFromInv == VerifierInv /\ Gate => EntryStateIsMet
<1>. SUFFICES ASSUME VerifierInv, Gate, status = "running", ip = 0, via = 0, NEW c \in Cols
              PROVE  Len(out[c]) - count = entry[block][c]
  BY DEF EntryStateIsMet
<1>1. Accepted /\ TypeOK /\ Ledger
  BY OnlyAcceptedRun DEF RunInv
<1>2. entry[block] = Flow(prog)[block]
  BY <1>1, AtBlock, EntryIsFlow
<1>3. /\ Len(out[c]) = count + Stored(c)
      /\ Stored(c) = Flow(prog)[block][c] + StoreCountUpTo(prog, block, c, 0)
  BY <1>1 DEF Ledger, Stored
<1>4. StoreCountUpTo(prog, block, c, 0) = 0 /\ Flow(prog)[block][c] \in 0 .. 1
  BY <1>1, AtStores, AtFlow
<1>5. count \in Nat
  BY <1>1 DEF TypeOK
<1>. QED
  BY <1>2, <1>3, <1>4, <1>5

\* Whatever is submitted: what the verifier accepts, and only that, runs, and
\* always within its frame.
THEOREM FrameIsAlwaysOK == VerifyAndRun => [](VerdictIsExact /\ FrameOK)
<1>1. VerifierInv /\ Gate => VerdictIsExact /\ FrameOK
  BY VerdictFromInv DEF Gate, RunInv, FrameOK
<1>. QED
  BY <1>1, GateStarts, GateSteps, PTL DEF VerifyAndRun

\* The states the verifier's one visit of each block found are what every path
\* meets at run time, loops taken any number of times included.
THEOREM EntryStatesAreMet == VerifyAndRun => []EntryStateIsMet
BY EntryStateFromInv, GateStarts, GateSteps, PTL DEF VerifyAndRun

\* The four guarantees of a call, with no assumption on the programs but that
\* they were put to the verifier.
THEOREM AcceptedRunsAreSound ==
  VerifyAndRun => [](ColumnsComplete /\ RowsNotMixed /\ AnswerIsWhole /\ RegistersAreExact)
<1>1. Gate => ColumnsComplete /\ RowsNotMixed /\ AnswerIsWhole /\ RegistersAreExact
  <2>1. CASE status = "idle"
    BY <2>1 DEF ColumnsComplete, AtBoundary, RowsNotMixed, AnswerIsWhole, RegistersAreExact,
                ReadsAreOfThisVisit, CopiesAreExact
  <2>2. ASSUME RunInv
        PROVE  ColumnsComplete /\ RowsNotMixed /\ AnswerIsWhole /\ RegistersAreExact
    <3>1. ColumnsComplete
      BY <2>2, LedgerAtBoundary DEF RunInv
    <3>2. RowsNotMixed
      BY <2>2 DEF RunInv, Cells, RowsNotMixed
    <3>3. AnswerIsWhole
      BY <2>2, <3>1 DEF RunInv, Counted, ColumnsComplete, AtBoundary, AnswerIsWhole
    <3>4. RegistersAreExact
      BY <2>2, RegistersFromInv DEF RunInv
    <3>. QED
      BY <3>1, <3>2, <3>3, <3>4
  <2>. QED
    BY <2>1, <2>2, OnlyAcceptedRun
<1>. QED
  BY <1>1, GateStarts, GateSteps, PTL DEF VerifyAndRun

\* Verifying a program and running what is accepted keeps the promise of a
\* call; verification itself is invisible to the caller.
THEOREM AcceptedRunsKeepPromise == VerifyAndRun => KeepsPromise
<1>1. VerifyAndRunInit => Promise!Init
  BY DEF VerifyAndRunInit, Fresh, Answer, Promise!Init
<1>2. Gate /\ [VerifyAndRunNext]_allVars => [Promise!Next]_(Promise!vars)
  <2>. SUFFICES ASSUME Gate, [VerifyAndRunNext]_allVars
                PROVE  [Promise!Next]_(Promise!vars)
    OBVIOUS
  <2>1. CASE Run
    BY <2>1, PromiseStep DEF Run, Gate, RunInv
  <2>2. CASE UNCHANGED vars
    BY <2>2 DEF vars, rowVars, Answer, Promise!vars
  <2>. QED
    BY <2>1, <2>2 DEF VerifyAndRunNext, Verify, allVars
<1>. QED
  BY <1>1, <1>2, GateStarts, GateSteps, PTL DEF VerifyAndRun, KeepsPromise, Promise!Spec
=============================================================================
