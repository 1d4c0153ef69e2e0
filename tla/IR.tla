--------------------------------- MODULE IR ---------------------------------
(***************************************************************************)
(* The row program every query is compiled to                              *)
(* (packages/confit/src/specializer/ir/mod.rs): basic blocks with          *)
(* parameters, instructions that define values or store an output column,  *)
(* and a terminator per block.                                             *)
(*                                                                         *)
(* A program is a function from block indices 0 .. n-1 to blocks:          *)
(*                                                                         *)
(*   params : sequence of [val, ty]          the block's parameters        *)
(*   insts  : sequence of instructions                                     *)
(*   term   : [op, cond, edges]              edges = Term::successors      *)
(*                                                                         *)
(* An instruction keeps what control depends on: the typed operands it     *)
(* reads (`uses'), the typed values it defines (`dsts'), and the column it *)
(* stores, if any (`col'). A use or dst is a [val, ty] record. The sixty   *)
(* opcodes differ only in what they compute.                               *)
(***************************************************************************)
EXTENDS Integers, Sequences, FiniteSets

CONSTANTS
  Vals,     \* the names of values
  Cols,     \* the output columns (Program.out_cols)
  NoCol,    \* the `col' of an instruction that stores nothing
  NoVal     \* the `cond' of a terminator that tests nothing

ASSUME NamesAssumption ==
  IsFiniteSet(Cols) /\ NoCol \notin Cols /\ NoVal \notin Vals

Entry == 0

Blocks(p) == DOMAIN p

\* The shape of a program: how many ways on a terminator has, and that only a
\* branch tests a value.
TypedVal    == [val : Vals, ty : STRING]
Instruction == [uses : Seq(TypedVal), dsts : Seq(TypedVal), col : Cols \union {NoCol}]
BranchEdge  == [to : Nat, args : Seq(Vals)]
Terminator  == [op : {"jump", "brif", "emit", "emit.to", "skip", "trap"},
                cond : Vals \union {NoVal}, edges : Seq(BranchEdge)]
BasicBlock  == [params : Seq(TypedVal), insts : Seq(Instruction), term : Terminator]

EdgeCount(op) == CASE op = "brif" -> 2
                   [] op \in {"jump", "emit.to"} -> 1
                   [] OTHER -> 0

IsProgram(p) ==
  /\ p \in [Blocks(p) -> BasicBlock]
  /\ IsFiniteSet(Blocks(p))
  /\ Blocks(p) = 0 .. Cardinality(Blocks(p)) - 1
  /\ \A b \in Blocks(p) :
       /\ Len(p[b].term.edges) = EdgeCount(p[b].term.op)
       /\ p[b].term.cond # NoVal => p[b].term.op = "brif"

\* The blocks a terminator may continue at, unknown targets included.
Targets(p, b) ==
  { p[b].term.edges[i].to : i \in DOMAIN p[b].term.edges }

\* The CFG edges the verifier follows: it skips a target past the last block.
Succs(p, b) == Targets(p, b) \cap Blocks(p)

Preds(p, b) == { a \in Blocks(p) : b \in Succs(p, a) }

\* Terminators after which the input row is over. `emit.to' is not one.
RowEnders == {"emit", "skip", "trap"}

\* Terminators that complete an output row.
Emitters == {"emit", "emit.to"}

EndBlocks(p) == { b \in Blocks(p) : p[b].term.op \in RowEnders }

\* How often block b stores column c, whichever way it leaves.
StoreCount(p, b, c) ==
  Cardinality({ i \in DOMAIN p[b].insts : p[b].insts[i].col = c })

\* The same, over the first k instructions only.
StoreCountUpTo(p, b, c, k) ==
  Cardinality({ i \in DOMAIN p[b].insts : i <= k /\ p[b].insts[i].col = c })

ParamVals(p, b) == { p[b].params[i].val : i \in DOMAIN p[b].params }

\* The definition sites of block b: <<0, i>> is its i-th parameter, <<k, i>>
\* the i-th value its k-th instruction defines.
DefSites(p, b) ==
  { <<0, i>> : i \in DOMAIN p[b].params }
    \union UNION { { <<k, i>> : i \in DOMAIN p[b].insts[k].dsts }
                     : k \in DOMAIN p[b].insts }

DefAt(p, b, site) == IF site[1] = 0
                     THEN p[b].params[site[2]]
                     ELSE p[b].insts[site[1]].dsts[site[2]]

\* No path returns to a block it left: some numbering of the blocks increases
\* along every edge.
Acyclic(p) ==
  \E rank \in [Blocks(p) -> 0 .. Cardinality(Blocks(p)) - 1] :
    \A a \in Blocks(p) : \A b \in Succs(p, a) : rank[a] < rank[b]

-----------------------------------------------------------------------------
(***************************************************************************)
(* The rules a row program obeys, as the header of ir/verify.rs numbers    *)
(* them, said declaratively: what `verified' means to the code that runs   *)
(* the program. The module Verifier is the algorithm that decides them.    *)
(***************************************************************************)

NoStores == [c \in Cols |-> 0]

\* The blocks every set containing the entry and closed under Succs contains.
ReachableRef(p) ==
  { b \in Blocks(p) :
      \A S \in SUBSET Blocks(p) :
        Entry \in S /\ (\A a \in S : Succs(p, a) \subseteq S) => b \in S }

\* The blocks from which some path leads to a row-ending terminator.
CanEndRef(p) ==
  { b \in Blocks(p) :
      \A S \in SUBSET Blocks(p) :
        EndBlocks(p) \subseteq S /\ (\A a \in S : Preds(p, a) \subseteq S)
          => b \in S }

\* E says, for each block of B and each column, whether the column is stored
\* when the block is entered, whatever the path that led there. Store
\* discipline is the existence of such an E.
After(p, E, b) == [c \in Cols |-> E[b][c] + StoreCount(p, b, c)]

Passed(p, E, b) == IF p[b].term.op = "emit.to" THEN NoStores ELSE After(p, E, b)

Consistent(p, B, E) ==
  /\ Entry \in B => E[Entry] = NoStores
  /\ \A b \in B :
       /\ \A c \in Cols : After(p, E, b)[c] <= 1
       /\ p[b].term.op \in Emitters => \A c \in Cols : After(p, E, b)[c] = 1
       /\ p[b].term.op = "skip" => After(p, E, b) = NoStores
       /\ \A s \in Succs(p, b) : E[s] = Passed(p, E, b)

Disciplined(p, B) == \E E \in [B -> [Cols -> 0 .. 1]] : Consistent(p, B, E)

\* Single assignment, and uses that see an earlier definition of their own
\* block with the type they want.
SingleDefs(p) ==
  \A a, b \in Blocks(p) : \A s \in DefSites(p, a) : \A t \in DefSites(p, b) :
    DefAt(p, a, s).val = DefAt(p, b, t).val => a = b /\ s = t

Sees(p, b, k, val, ty) ==
  \E s \in DefSites(p, b) : s[1] < k /\ DefAt(p, b, s) = [val |-> val, ty |-> ty]

ScopedUses(p) ==
  \A b \in Blocks(p) :
    LET insts == p[b].insts
        term  == p[b].term
        end   == Len(insts) + 1
    IN  /\ \A k \in DOMAIN insts : \A i \in DOMAIN insts[k].uses :
             Sees(p, b, k, insts[k].uses[i].val, insts[k].uses[i].ty)
        /\ term.cond # NoVal => Sees(p, b, end, term.cond, "i1")
        /\ \A i \in DOMAIN term.edges :
             LET e == term.edges[i] IN
             /\ e.to \in Blocks(p) \ {Entry}
             /\ Len(e.args) = Len(p[e.to].params)
             /\ \A j \in DOMAIN e.args :
                  Sees(p, b, end, e.args[j], p[e.to].params[j].ty)

WellFormed(p) ==
  /\ Blocks(p) # {} /\ p[Entry].params = <<>>
  /\ SingleDefs(p) /\ ScopedUses(p)

\* A program that may be executed or compiled.
Verified(p) ==
  /\ WellFormed(p)
  /\ ReachableRef(p) = Blocks(p) /\ CanEndRef(p) = Blocks(p)
  /\ Disciplined(p, Blocks(p))
=============================================================================
