------------------------------ MODULE Verifier ------------------------------
(***************************************************************************)
(* The IR verifier (packages/confit/src/specializer/ir/verify.rs), pass by *)
(* pass: structure, definitions, the use check of each block, then the     *)
(* control-flow check: a depth-first search that finds the back edges, a   *)
(* backward worklist from the row-ending blocks, Kahn's algorithm over the *)
(* graph without its back edges, and the store dataflow in that order.     *)
(*                                                                         *)
(* One action is one turn of the loop it models. `errs' holds the vector   *)
(* of errors as a set of <<rule, block>>; a program is accepted when the   *)
(* last pass ends with errs = {}.                                          *)
(***************************************************************************)
EXTENDS IR

CONSTANT
  Submitted  \* the programs handed to `verify'

ASSUME VerifierAssumption == \A p \in Submitted : IsProgram(p)

VARIABLES
  input,     \* the program under verification
  pass,     \* the pass that runs next, "done" after the last
  at,       \* the block, or position in `order', that pass has reached
  defs,     \* def_types: value -> type of its last definition
  errs,     \* the errors collected so far
  color,    \* DFS colours: 0 unseen, 1 on the stack, 2 finished
  stack,    \* DFS stack of <<block, successors already tried>>
  back,     \* the back edges found
  ends,     \* reaches_end: blocks known to reach emit, skip or trap
  work,     \* the backward search's worklist
  indeg,    \* Kahn's algorithm: forward edges into a block not yet removed
  ready,    \* its stack of blocks with none left
  order,    \* the topological order it builds
  known,    \* blocks whose entry_state is Some
  entry     \* entry_state: stores of each column before the block runs

dfsVars  == <<color, stack, back>>
endVars  == <<ends, work>>
kahnVars == <<indeg, ready, order>>
flowVars == <<known, entry>>
verifierVars     == <<input, pass, at, defs, errs, dfsVars, endVars, kahnVars, flowVars>>

Last(s) == s[Len(s)]
Front(s) == SubSeq(s, 1, Len(s) - 1)

\* Blocks the depth-first search has seen.
Reachable == { b \in Blocks(input) : color[b] # 0 }

Report(new) == errs' = errs \union new

-----------------------------------------------------------------------------
(***************************************************************************)
(* Definitions and scopes.                                                 *)
(***************************************************************************)

Later(s, t) == s[1] > t[1] \/ (s[1] = t[1] /\ s[2] > t[2])

\* The values block b defines, and the type each has at its last definition.
DefVals(p, b) == { DefAt(p, b, s).val : s \in DefSites(p, b) }

DefTy(p, b, v) ==
  LET sites == { s \in DefSites(p, b) : DefAt(p, b, s).val = v }
      last  == CHOOSE s \in sites : \A t \in sites \ {s} : Later(s, t)
  IN  DefAt(p, b, last).ty

\* Mutants: an instruction sees its own results; a block sees every value.
ScopeSelf(p, b, k) ==
  { DefAt(p, b, s).val : s \in { t \in DefSites(p, b) : t[1] <= k } }
ScopeAll(p, b, k) == DOMAIN defs

\* Values visible to instruction k of block b: the block's parameters and what
\* its earlier instructions define.
ScopeAt(p, b, k) ==
  { DefAt(p, b, s).val : s \in { t \in DefSites(p, b) : t[1] < k } }

\* A visible value's type: its own, for a parameter, else def_types's.
TyInScope(p, b, v) ==
  IF v \in ParamVals(p, b)
  THEN LET last == CHOOSE i \in DOMAIN p[b].params :
                     /\ p[b].params[i].val = v
                     /\ \A j \in DOMAIN p[b].params :
                          p[b].params[j].val = v => j <= i
       IN  p[b].params[last].ty
  ELSE defs[v]

\* `want': one use of u.val as a u.ty, in a given scope of block b.
Want(p, b, scope, u) ==
  IF u.val \notin scope THEN {<<"scope", b>>}
  ELSE IF TyInScope(p, b, u.val) # u.ty THEN {<<"type", b>>} ELSE {}

WantAll(p, b, scope, us) == UNION { Want(p, b, scope, us[i]) : i \in DOMAIN us }

\* The errors of one branch edge: its target, its arguments, and their types.
EdgeErrs(p, b, scope, edge) ==
  IF edge.to \notin Blocks(p) THEN {<<"target", b>>}
  ELSE (IF edge.to = Entry THEN {<<"entry target", b>>} ELSE {})
       \union (IF Len(edge.args) # Len(p[edge.to].params)
               THEN {<<"arity", b>>}
               ELSE WantAll(p, b, scope,
                      [i \in DOMAIN edge.args |->
                         [val |-> edge.args[i], ty |-> p[edge.to].params[i].ty]]))

\* check_block: every instruction's operands, then the terminator's.
BlockErrs(p, b) ==
  LET term  == p[b].term
      final == ScopeAt(p, b, Len(p[b].insts) + 1)
  IN  (UNION { WantAll(p, b, ScopeAt(p, b, k), p[b].insts[k].uses)
                 : k \in DOMAIN p[b].insts })
      \union (IF term.cond = NoVal THEN {}
              ELSE Want(p, b, final, [val |-> term.cond, ty |-> "i1"]))
      \union (UNION { EdgeErrs(p, b, final, term.edges[i])
                        : i \in DOMAIN term.edges })

\* check_structure has rules of names too: the function's, output columns that
\* repeat one, models without features. They read no pass's state; with the
\* rules of check_block on what a name stands for, .opt forms and columns'
\* nullability, they are StructureOK, KindOK and NameOK of IRText.
CheckStructure ==
  /\ pass = "structure"
  /\ Report(IF Blocks(input) = {} THEN {<<"no blocks", Entry>>}
            ELSE IF input[Entry].params # <<>> THEN {<<"entry params", Entry>>}
            ELSE {})
  /\ pass' = "defs" /\ at' = 0
  /\ UNCHANGED <<input, defs, dfsVars, endVars, kahnVars, flowVars>>

CollectDefs ==
  /\ pass = "defs" /\ at \in Blocks(input)
  /\ LET new == DefVals(input, at) IN
     /\ defs' = [v \in DOMAIN defs \union new |->
                   IF v \in new THEN DefTy(input, at, v) ELSE defs[v]]
     /\ Report(IF \/ new \intersect DOMAIN defs # {}
                  \/ Cardinality(new) # Cardinality(DefSites(input, at))
               THEN {<<"defined twice", at>>} ELSE {})
  /\ at' = at + 1
  /\ UNCHANGED <<input, pass, dfsVars, endVars, kahnVars, flowVars>>

DefsCollected ==
  /\ pass = "defs" /\ at \notin Blocks(input)
  /\ pass' = "uses" /\ at' = 0
  /\ UNCHANGED <<input, defs, errs, dfsVars, endVars, kahnVars, flowVars>>

CheckBlock ==
  /\ pass = "uses" /\ at \in Blocks(input)
  /\ Report(BlockErrs(input, at))
  /\ at' = at + 1
  /\ UNCHANGED <<input, pass, defs, dfsVars, endVars, kahnVars, flowVars>>

\* check_cfg_and_stores returns at once for a program without blocks.
BlocksChecked ==
  /\ pass = "uses" /\ at \notin Blocks(input)
  /\ IF Blocks(input) = {}
     THEN pass' = "done" /\ UNCHANGED dfsVars
     ELSE /\ pass' = "dfs"
          /\ color' = [color EXCEPT ![Entry] = 1]
          /\ stack' = <<<<Entry, 0>>>>
          /\ UNCHANGED back
  /\ UNCHANGED <<input, at, defs, errs, endVars, kahnVars, flowVars>>

-----------------------------------------------------------------------------
(***************************************************************************)
(* Reachability, back edges, and the blocks that can still end the row.    *)
(***************************************************************************)

\* A successor still on the stack is the head of a loop.
ClosesLoop(s) == color[s] = 1

\* The frame on top of the stack tries its next successor.
DfsTry ==
  /\ pass = "dfs" /\ stack # <<>>
  /\ LET b     == Last(stack)[1]
         tried == Last(stack)[2]
         edges == input[b].term.edges
         next  == Append(Front(stack), <<b, tried + 1>>)
     IN  /\ tried < Len(edges)
         /\ LET s == edges[tried + 1].to IN
            \/ /\ s \notin Blocks(input)
               /\ stack' = next
               /\ UNCHANGED <<color, back>>
            \/ /\ s \in Blocks(input) /\ color[s] = 0
               /\ color' = [color EXCEPT ![s] = 1]
               /\ stack' = Append(next, <<s, 0>>)
               /\ UNCHANGED back
            \/ /\ s \in Blocks(input) /\ ClosesLoop(s)
               /\ back' = back \union {<<b, s>>}
               /\ stack' = next
               /\ UNCHANGED color
            \/ /\ s \in Blocks(input) /\ color[s] # 0 /\ ~ ClosesLoop(s)
               /\ stack' = next
               /\ UNCHANGED <<color, back>>
  /\ UNCHANGED <<input, pass, at, defs, errs, endVars, kahnVars, flowVars>>

DfsPop ==
  /\ pass = "dfs" /\ stack # <<>>
  /\ LET b == Last(stack)[1] IN
     /\ Last(stack)[2] = Len(input[b].term.edges)
     /\ color' = [color EXCEPT ![b] = 2]
  /\ stack' = Front(stack)
  /\ UNCHANGED <<input, pass, at, defs, errs, back, endVars, kahnVars, flowVars>>

\* Where the backward search starts: emit.to goes on, so it ends no row.
RowEnding == { b \in Blocks(input) : input[b].term.op \in RowEnders }

DfsDone ==
  /\ pass = "dfs" /\ stack = <<>>
  /\ Report({ <<"unreachable", b>> : b \in Blocks(input) \ Reachable })
  /\ ends' = RowEnding /\ work' = RowEnding
  /\ pass' = "ends"
  /\ UNCHANGED <<input, at, defs, dfsVars, kahnVars, flowVars>>

\* Predecessors the search has not met yet.
AllEnds(b) == Preds(input, b)   \* mutant: met or not
NewEnds(b) == Preds(input, b) \ ends

\* Mutant: a block is marked when it leaves the worklist, not when it enters.
EndsStepLate ==
  /\ pass = "ends"
  /\ \E b \in work : /\ ends' = ends \union {b}
                      /\ work' = (work \ {b}) \union NewEnds(b)
  /\ UNCHANGED <<input, pass, at, defs, errs, dfsVars, kahnVars, flowVars>>

\* One block leaves the worklist; which one does not matter to `ends'.
EndsStep ==
  /\ pass = "ends"
  /\ \E b \in work : /\ ends' = ends \union NewEnds(b)
                      /\ work' = (work \ {b}) \union NewEnds(b)
  /\ UNCHANGED <<input, pass, at, defs, errs, dfsVars, kahnVars, flowVars>>

\* The forward edges out of reachable blocks into s, arms of a brif counted
\* one by one.
FwdEdges(a, s) == IF <<a, s>> \in back THEN {}
                  ELSE { i \in DOMAIN input[a].term.edges :
                           input[a].term.edges[i].to = s }

InDegree(s) == Cardinality(UNION { { <<a, i>> : i \in FwdEdges(a, s) }
                                     : a \in Reachable })

\* The blocks of S as a filter of 0 .. n-1 lists them.
Ascending(S) == CHOOSE q \in [1 .. Cardinality(S) -> S] :
                  \A i, j \in DOMAIN q : i < j => q[i] < q[j]

\* Dead blocks end the check early; otherwise topo_order counts its edges.
EndsDone ==
  /\ pass = "ends" /\ work = {}
  /\ LET dead == { b \in Reachable : b \notin ends } IN
     IF dead # {}
     THEN /\ Report({ <<"cannot terminate", b>> : b \in dead })
          /\ pass' = "done"
          /\ UNCHANGED kahnVars
     ELSE /\ indeg' = [s \in Blocks(input) |-> InDegree(s)]
          /\ LET free == { s \in Reachable : InDegree(s) = 0 } IN
             ready' = Ascending(free)
          /\ order' = <<>>
          /\ pass' = "topo"
          /\ UNCHANGED errs
  /\ UNCHANGED <<input, at, defs, dfsVars, endVars, flowVars>>

-----------------------------------------------------------------------------
(***************************************************************************)
(* Topological order and the store dataflow.                               *)
(***************************************************************************)

Drained(b, s) ==
  /\ s \in Blocks(input) /\ FwdEdges(b, s) # {}
  /\ indeg[s] = Cardinality(FwdEdges(b, s))

\* The blocks whose last forward edge the removal of b takes away, in edge
\* order; a block both arms of a brif lead to is pushed once.
Freed(b) ==
  LET edges   == input[b].term.edges
      Push(i) == IF /\ i \in DOMAIN edges /\ Drained(b, edges[i].to)
                    /\ \A j \in 1 .. i - 1 : edges[j].to # edges[i].to
                 THEN <<edges[i].to>> ELSE <<>>
  IN  Push(1) \o Push(2)

TopoStep ==
  /\ pass = "topo" /\ ready # <<>>
  /\ LET b == Last(ready) IN
     /\ order' = Append(order, b)
     /\ indeg' = [s \in Blocks(input) |-> indeg[s] - Cardinality(FwdEdges(b, s))]
     /\ ready' = Front(ready) \o Freed(b)
  /\ UNCHANGED <<input, pass, at, defs, errs, dfsVars, endVars, flowVars>>

TopoDone ==
  /\ pass = "topo" /\ ready = <<>>
  /\ known' = {Entry}
  /\ entry' = [entry EXCEPT ![Entry] = NoStores]
  /\ pass' = "flow" /\ at' = 1
  /\ UNCHANGED <<input, defs, errs, dfsVars, endVars, kahnVars>>

\* state_out: the stores made when b's terminator runs. The u8 saturates far
\* above the counts told apart here: 0, 1 and more.
StateOut(b) == [c \in Cols |-> entry[b][c] + StoreCount(input, b, c)]

\* What b's terminator hands to its successors: nothing stored yet after a
\* completed row.
StatePassed(b) == IF input[b].term.op = "emit.to" THEN NoStores ELSE StateOut(b)

StoredTwice(b) ==
  { <<"stored twice", b>> : c \in { d \in Cols :
      StateOut(b)[d] > 1 /\ StoreCount(input, b, d) > 0 } }

EmitMissing(b) ==
  { <<"emit without storing", b>> : c \in { d \in Cols :
      input[b].term.op \in Emitters /\ StateOut(b)[d] = 0 } }

NoSkipCheck(b) == {}   \* mutant
SkipStored(b) ==
  { <<"skip after storing", b>> : c \in { d \in Cols :
      input[b].term.op = "skip" /\ StateOut(b)[d] > 0 } }

NoJoinCheck(b) == {}   \* mutant
JoinDisagrees(b) ==
  { <<"paths disagree", s>> :
      s \in { t \in Succs(input, b) \intersect known :
                entry[t] # StatePassed(b) } }

FlowErrs(b) ==
  StoredTwice(b) \union EmitMissing(b) \union SkipStored(b) \union JoinDisagrees(b)

FlowStep ==
  /\ pass = "flow" /\ at \in DOMAIN order
  /\ LET b == order[at] IN
     IF b \notin known THEN UNCHANGED <<errs, flowVars>>
     ELSE /\ Report(FlowErrs(b))
          /\ known' = known \union Succs(input, b)
          /\ entry' = [s \in Blocks(input) |->
                         IF s \in Succs(input, b) \ known
                         THEN StatePassed(b) ELSE entry[s]]
  /\ at' = at + 1
  /\ UNCHANGED <<input, pass, defs, dfsVars, endVars, kahnVars>>

FlowDone ==
  /\ pass = "flow" /\ at \notin DOMAIN order
  /\ pass' = "done"
  /\ UNCHANGED <<input, at, defs, errs, dfsVars, endVars, kahnVars, flowVars>>

-----------------------------------------------------------------------------
VerifierInit ==
  /\ input \in Submitted
  /\ pass = "structure" /\ at = 0
  /\ defs = <<>> /\ errs = {}
  /\ color = [b \in Blocks(input) |-> 0] /\ stack = <<>> /\ back = {}
  /\ ends = {} /\ work = {}
  /\ indeg = [b \in Blocks(input) |-> 0] /\ ready = <<>> /\ order = <<>>
  /\ known = {} /\ entry = [b \in Blocks(input) |-> NoStores]

VerifierNext ==
  \/ CheckStructure \/ CollectDefs \/ DefsCollected
  \/ CheckBlock \/ BlocksChecked
  \/ DfsTry \/ DfsPop \/ DfsDone
  \/ EndsStep \/ EndsDone
  \/ TopoStep \/ TopoDone
  \/ FlowStep \/ FlowDone

Accepted == pass = "done" /\ errs = {}
-----------------------------------------------------------------------------
(***************************************************************************)
(* Properties. The rules themselves are stated in IR, without passes.      *)
(***************************************************************************)

\* `Ok(()) is the only permission to execute or compile the program': the
\* verdict is exactly the declarative one -- well-formed SSA, every block
\* reachable and able to end the row, and one store state per block that every
\* path agrees on -- although the dataflow visits each block once and takes
\* loops on trust of their header's state (verify.rs:1000-1008).
VerdictIsExact ==
  pass = "done" => (errs = {} <=> Verified(input))

\* Verification ends on every program, cyclic ones included.
Terminates == <>(pass = "done")
=============================================================================
