--------------------------- MODULE RowLoopProofs ----------------------------
(***************************************************************************)
(* Proofs about the row loop, for every verified program, any number of    *)
(* columns and input rows.                                                 *)
(*                                                                         *)
(* The argument is the verifier's own. A verified program has a flow: for  *)
(* each block, which columns are stored when it is entered. The inductive  *)
(* invariant Ledger says that the run-time columns are always `count'      *)
(* cells long plus what the flow and the instructions already run in this  *)
(* block account for. At a boundary that is nothing.                       *)
(***************************************************************************)
EXTENDS RowLoop, FiniteSetTheorems, SequenceTheorems, TLAPS

Flow(p) == CHOOSE E \in [Blocks(p) -> [Cols -> 0 .. 1]] : Consistent(p, Blocks(p), E)

\* The cells of the output row under construction that column c has by now.
Stored(c) ==
  IF via = 0
  THEN Flow(prog)[block][c] + StoreCountUpTo(prog, block, c, ip)
  ELSE Passed(prog, Flow(prog), block)[c]

Ledger ==
  /\ status = "running" /\ row = rows => block = Entry /\ ip = 0 /\ via = 0
  /\ status = "running" => \A c \in Cols : Len(out[c]) = count + Stored(c)
  /\ status = "ok" => \A c \in Cols : Len(out[c]) = count

-----------------------------------------------------------------------------
(***************************************************************************)
(* Programs.                                                               *)
(***************************************************************************)

\* A verified program's flow is consistent.
LEMMA FlowIsConsistent ==
  ASSUME NEW p \in Programs
  PROVE  /\ Flow(p) \in [Blocks(p) -> [Cols -> 0 .. 1]]
         /\ Consistent(p, Blocks(p), Flow(p))
BY ProgramsAssumption DEF Verified, Disciplined, Flow

\* The parts of a block have the types the model gives them, and a branch
\* leads to a block of the program other than the entry.
LEMMA BlockShape ==
  ASSUME NEW p \in Programs, NEW b \in Blocks(p)
  PROVE  /\ p[b].insts \in Seq(Instruction)
         /\ p[b].params \in Seq(TypedVal)
         /\ p[b].term \in Terminator
         /\ p[b].term.edges \in Seq(BranchEdge)
         /\ \A i \in DOMAIN p[b].term.edges :
              /\ p[b].term.edges[i].to \in Blocks(p) \ {Entry}
              /\ Len(p[b].term.edges[i].args) = Len(p[p[b].term.edges[i].to].params)
<1>1. p \in [Blocks(p) -> BasicBlock]
  BY ProgramsAssumption DEF IsProgram
<1>2. p[b] \in BasicBlock
  BY <1>1
<1>3. ScopedUses(p)
  BY ProgramsAssumption DEF Verified, WellFormed
<1>4. \A i \in DOMAIN p[b].term.edges :
        /\ p[b].term.edges[i].to \in Blocks(p) \ {Entry}
        /\ Len(p[b].term.edges[i].args) = Len(p[p[b].term.edges[i].to].params)
  BY <1>3 DEF ScopedUses
<1>. QED
  BY <1>2, <1>4 DEF BasicBlock, Terminator

\* The entry is a block of every program.
LEMMA EntryIsABlock ==
  ASSUME NEW p \in Programs
  PROVE  Entry \in Blocks(p)
<1>1. IsFiniteSet(Blocks(p)) /\ Blocks(p) # {}
  BY ProgramsAssumption DEF IsProgram, Verified, WellFormed
<1>2. Cardinality(Blocks(p)) \in Nat \ {0}
  BY <1>1, FS_CardinalityType, FS_EmptySet
<1>3. Blocks(p) = 0 .. Cardinality(Blocks(p)) - 1
  BY ProgramsAssumption DEF IsProgram
<1>. QED
  BY <1>2, <1>3 DEF Entry

\* Counting stores instruction by instruction.
LEMMA StoreCountSteps ==
  ASSUME NEW p \in Programs, NEW b \in Blocks(p), NEW c
  PROVE  /\ StoreCountUpTo(p, b, c, 0) = 0
         /\ StoreCountUpTo(p, b, c, Len(p[b].insts)) = StoreCount(p, b, c)
         /\ \A k \in 0 .. Len(p[b].insts) :
              StoreCountUpTo(p, b, c, k) \in Nat
         /\ \A k : StoreCountUpTo(p, b, c, k) <= StoreCount(p, b, c)
         /\ \A k \in 0 .. Len(p[b].insts) - 1 :
              /\ p[b].insts[k + 1].col = c =>
                   StoreCountUpTo(p, b, c, k + 1) = StoreCountUpTo(p, b, c, k) + 1
              /\ p[b].insts[k + 1].col # c =>
                   StoreCountUpTo(p, b, c, k + 1) = StoreCountUpTo(p, b, c, k)
<1>. DEFINE insts == p[b].insts
            S(k) == { i \in DOMAIN insts : i <= k /\ insts[i].col = c }
<1>1. insts \in Seq(Instruction) /\ Len(insts) \in Nat /\ DOMAIN insts = 1 .. Len(insts)
  BY BlockShape
<1>2. IsFiniteSet(DOMAIN insts)
  BY <1>1, FS_Interval
<1>3. \A k : IsFiniteSet(S(k))
  BY <1>2, FS_Subset
<1>4. S(0) = {}
  BY <1>1
<1>5. S(Len(insts)) = { i \in DOMAIN insts : insts[i].col = c }
  BY <1>1
<1>6. ASSUME NEW k \in 0 .. Len(insts) - 1
      PROVE  /\ insts[k + 1].col = c => Cardinality(S(k + 1)) = Cardinality(S(k)) + 1
             /\ insts[k + 1].col # c => Cardinality(S(k + 1)) = Cardinality(S(k))
  <2>1. CASE insts[k + 1].col = c
    <3>1. S(k + 1) = S(k) \union {k + 1} /\ k + 1 \notin S(k)
      BY <1>1, <2>1
    <3>. QED
      BY <1>3, <2>1, <3>1, FS_AddElement
  <2>2. CASE insts[k + 1].col # c
    <3>1. S(k + 1) = S(k)
      BY <1>1, <2>2
    <3>. QED
      BY <2>2, <3>1
  <2>. QED
    BY <2>1, <2>2
<1>7. \A k : Cardinality(S(k)) \in Nat
  BY <1>3, FS_CardinalityType
<1>8. ASSUME NEW k
      PROVE  Cardinality(S(k)) <= Cardinality(S(Len(insts)))
  <2>1. S(k) \subseteq S(Len(insts))
    BY <1>5
  <2>. QED
    BY <1>3, <2>1, FS_Subset
<1>. QED
  BY <1>4, <1>5, <1>6, <1>7, <1>8, FS_EmptySet DEF StoreCountUpTo, StoreCount

-----------------------------------------------------------------------------
(***************************************************************************)
(* Types.                                                                  *)
(***************************************************************************)

\* What the type invariant and the shape of programs say of the current block.
LEMMA AtBlock ==
  ASSUME TypeOK
  PROVE  /\ prog \in Programs /\ block \in Blocks(prog)
         /\ Insts \in Seq(Instruction) /\ Len(Insts) \in Nat
         /\ Term.edges \in Seq(BranchEdge) /\ Len(Term.edges) \in Nat
         /\ DOMAIN Term.edges = 1 .. Len(Term.edges)
         /\ Len(prog[Entry].insts) \in Nat /\ Entry \in Blocks(prog)
         /\ row \in 0 .. MaxRows /\ MaxRows \in Nat /\ rows \in Nat /\ row \in Nat
<1>1. prog \in Programs /\ block \in Blocks(prog) /\ rows \in 0 .. MaxRows /\ row \in 0 .. rows
  BY DEF TypeOK
<1>2. Insts \in Seq(Instruction) /\ Term.edges \in Seq(BranchEdge)
  BY <1>1, BlockShape DEF Insts, Term
<1>3. Entry \in Blocks(prog) /\ prog[Entry].insts \in Seq(Instruction)
  BY <1>1, EntryIsABlock, BlockShape
<1>. QED
  BY <1>1, <1>2, <1>3, RowLoopAssumption

\* The edge being followed, and what it leads to.
LEMMA AtEdge ==
  ASSUME TypeOK, NEW i \in DOMAIN Term.edges
  PROVE  /\ Term.edges[i].to \in Blocks(prog) \ {Entry}
         /\ Len(prog[Term.edges[i].to].insts) \in Nat
         /\ Term.edges[i].args \in Seq(Vals) /\ Len(Term.edges[i].args) \in Nat
         /\ Len(Term.edges[i].args) = Len(prog[Term.edges[i].to].params)
         /\ prog[Term.edges[i].to].params \in Seq(TypedVal)
<1>1. Term.edges[i] \in BranchEdge
  BY AtBlock
<1>2. Term.edges[i].args \in Seq(Vals)
  BY <1>1 DEF BranchEdge
<1>3. /\ Term.edges[i].to \in Blocks(prog) \ {Entry}
      /\ Len(Term.edges[i].args) = Len(prog[Term.edges[i].to].params)
  BY AtBlock, BlockShape DEF Term
<1>4. prog[Term.edges[i].to].insts \in Seq(Instruction)
      /\ prog[Term.edges[i].to].params \in Seq(TypedVal)
  BY AtBlock, BlockShape, <1>3
<1>. QED
  BY <1>2, <1>3, <1>4

\* Every step keeps every variable in its type: the current block, instruction
\* and edge are ones the program has, and every copy and result lands in a
\* register of the frame.
LEMMA TypeStep == TypeOK /\ [Next]_vars => TypeOK'
<1>. SUFFICES ASSUME TypeOK, [Next]_vars
              PROVE  TypeOK'
  OBVIOUS
<1>1. CASE Refuse
  BY <1>1 DEF Refuse, rowVars, edgeVars, TypeOK, Insts, Term, Edge
<1>2. CASE Call
  <2>1. via = 0
    BY <1>2 DEF Call, TypeOK
  <2>2. out' \in [Cols -> Seq((0 .. MaxRows) \X Nat)]
    BY <1>2 DEF Call, Cleared
  <2>3. Entry \in Blocks(prog) /\ Len(prog[Entry].insts) \in Nat
    BY AtBlock
  <2>4. /\ prog' = prog /\ status' = "running" /\ rows' \in 0 .. MaxRows /\ row' = 0
        /\ block' = Entry /\ ip' = 0 /\ regs' = regs /\ via' = 0 /\ moved' = moved
        /\ count' = 0 /\ emitted' = 0
    BY <1>2, <2>1 DEF Call, edgeVars
  <2>. QED
    BY <2>2, <2>3, <2>4, RowLoopAssumption DEF TypeOK, Insts, Term, Edge
<1>3. CASE Return
  <2>1. via = 0
    BY <1>3, AtBlock DEF Return, TypeOK
  <2>2. /\ UNCHANGED <<prog, rows, row, block, ip, regs, via, moved, out, count>>
        /\ status' = "ok" /\ emitted' = count
    BY <1>3 DEF Return, Published, rowVars, edgeVars
  <2>. QED
    BY <2>1, <2>2 DEF TypeOK, Insts, Term, Edge
<1>4. CASE Exec
  <2>1. ip + 1 \in 0 .. Len(Insts) /\ via = 0
    BY <1>4, AtBlock DEF Exec, Running, TypeOK
  <2>2. regs' \in [Vals -> Data]
    BY <1>4 DEF Exec, TypeOK
  <2>3. out' \in [Cols -> Seq((0 .. MaxRows) \X Nat)]
    <3>1. <<row, count>> \in (0 .. MaxRows) \X Nat
      BY AtBlock DEF TypeOK
    <3>2. \A c \in Cols : out[c] \in Seq((0 .. MaxRows) \X Nat)
      BY DEF TypeOK
    <3>3. out' = [c \in Cols |-> IF Inst.col = c THEN Append(out[c], <<row, count>>)
                                 ELSE out[c]]
      BY <1>4 DEF Exec
    <3>. HIDE DEF TypeOK
    <3>. QED
      BY <3>1, <3>2, <3>3
  <2>4. /\ UNCHANGED <<prog, status, rows, row, block, via, moved, count, emitted>>
        /\ ip' = ip + 1
    BY <1>4 DEF Exec, edgeVars
  <2>. QED
    BY <2>1, <2>2, <2>3, <2>4 DEF TypeOK, Insts, Term, Edge
<1>5. CASE Abort
  <2>1. /\ UNCHANGED <<prog, rows, row, block, ip, regs, via, moved, out, count, emitted>>
        /\ status' = "err" /\ via = 0
    BY <1>5 DEF Abort, Running, AtTerm, rowVars, edgeVars
  <2>. QED
    BY <2>1 DEF TypeOK, Insts, Term, Edge
<1>6. CASE Branch \/ EmitTo
  <2>1. /\ via' \in DOMAIN Term.edges /\ moved' = 0
        /\ status = "running" /\ row < rows
    BY <1>6 DEF Branch, EmitTo, Leave, AtTerm, Running
  <2>2. Len(Term.edges[via'].args) \in Nat
    BY <2>1, AtEdge
  <2>3. /\ UNCHANGED <<prog, status, rows, row, block, ip, regs, out, emitted>>
        /\ count' \in Nat
    BY <1>6 DEF Branch, EmitTo, TypeOK
  <2>. QED
    BY <2>1, <2>2, <2>3 DEF TypeOK, Insts, Term, Edge
<1>7. CASE Copy
  <2>1. via \in DOMAIN Term.edges /\ moved \in Nat
    BY <1>7 DEF Copy, TypeOK
  <2>2. Edge.args \in Seq(Vals) /\ Len(Edge.args) \in Nat
    BY <2>1, AtEdge DEF Edge
  <2>3. moved + 1 \in 1 .. Len(Edge.args)
    BY <1>7, <2>1, <2>2 DEF Copy
  <2>4. Edge.args[moved + 1] \in Vals
    BY <2>2, <2>3
  <2>5. regs' = [regs EXCEPT ![prog[Edge.to].params[moved + 1].val]
                   = regs[Edge.args[moved + 1]]]
    BY <1>7 DEF Copy, Pick
  <2>6. regs' \in [Vals -> Data]
    BY <2>4, <2>5 DEF TypeOK
  <2>7. /\ UNCHANGED <<prog, status, rows, row, block, ip, via, out, count, emitted>>
        /\ moved' = moved + 1
    BY <1>7 DEF Copy
  <2>. QED
    BY <2>1, <2>3, <2>6, <2>7 DEF TypeOK, Insts, Term, Edge
<1>8. CASE Enter
  <2>1. via \in DOMAIN Term.edges
    BY <1>8 DEF Enter, TypeOK
  <2>2. Edge.to \in Blocks(prog) /\ Len(prog[Edge.to].insts) \in Nat
    BY <2>1, AtEdge DEF Edge
  <2>3. /\ UNCHANGED <<prog, status, rows, row, regs, out, count, emitted>>
        /\ block' = Edge.to /\ ip' = 0 /\ via' = 0 /\ moved' = 0
    BY <1>8 DEF Enter
  <2>. QED
    BY <2>2, <2>3 DEF TypeOK, Insts, Term
<1>9. CASE Emit \/ Skip
  <2>1. row + 1 \in 0 .. rows /\ via = 0
    BY <1>9, AtBlock DEF Emit, Skip, AtTerm, Running
  <2>2. /\ UNCHANGED <<prog, status, rows, regs, via, moved, out, emitted>>
        /\ row' = row + 1 /\ block' = Entry /\ ip' = 0 /\ count' \in Nat
    BY <1>9 DEF Emit, Skip, NextRow, edgeVars, TypeOK
  <2>. QED
    BY <2>1, <2>2, AtBlock DEF TypeOK, Insts, Term
<1>10. CASE UNCHANGED vars
  BY <1>10 DEF vars, rowVars, edgeVars, TypeOK, Insts, Term, Edge
<1>. QED
  BY <1>1, <1>2, <1>3, <1>4, <1>5, <1>6, <1>7, <1>8, <1>9, <1>10 DEF Next, Step

\* A fresh RunState is well typed.
LEMMA TypeStarts == Init => TypeOK
BY EntryIsABlock, BlockShape, RowLoopAssumption DEF Init, Fresh, TypeOK, Insts, Term

\* The interpreter is well typed for ever.
THEOREM TypeCorrect == Spec => []TypeOK
BY TypeStarts, TypeStep, PTL DEF Spec

-----------------------------------------------------------------------------
(***************************************************************************)
(* Columns and rows.                                                       *)
(***************************************************************************)

\* The flow at the current block, and what the block's stores add to it.
LEMMA AtFlow ==
  ASSUME TypeOK, NEW c \in Cols
  PROVE  /\ Flow(prog)[block][c] \in 0 .. 1
         /\ StoreCount(prog, block, c) \in Nat
         /\ After(prog, Flow(prog), block)[c]
              = Flow(prog)[block][c] + StoreCount(prog, block, c)
         /\ After(prog, Flow(prog), block)[c] \in 0 .. 1
         /\ Flow(prog)[Entry][c] = 0
         /\ Term.op \in Emitters => After(prog, Flow(prog), block)[c] = 1
         /\ Term.op = "skip" => After(prog, Flow(prog), block)[c] = 0
         /\ Term.op = "emit.to" => Passed(prog, Flow(prog), block)[c] = 0
         /\ Term.op # "emit.to" =>
              Passed(prog, Flow(prog), block)[c] = After(prog, Flow(prog), block)[c]
         /\ \A i \in DOMAIN Term.edges :
              Flow(prog)[Term.edges[i].to][c] = Passed(prog, Flow(prog), block)[c]
<1>1. /\ Flow(prog) \in [Blocks(prog) -> [Cols -> 0 .. 1]]
      /\ Consistent(prog, Blocks(prog), Flow(prog))
  BY AtBlock, FlowIsConsistent
<1>2. Flow(prog)[block][c] \in 0 .. 1
  BY <1>1, AtBlock
<1>3. StoreCount(prog, block, c) \in Nat
  <2>1. /\ StoreCountUpTo(prog, block, c, Len(prog[block].insts)) = StoreCount(prog, block, c)
        /\ \A k \in 0 .. Len(prog[block].insts) : StoreCountUpTo(prog, block, c, k) \in Nat
    BY AtBlock, StoreCountSteps
  <2>. QED
    BY <2>1, AtBlock DEF Insts
<1>4. After(prog, Flow(prog), block)[c] = Flow(prog)[block][c] + StoreCount(prog, block, c)
  BY DEF After
<1>5. After(prog, Flow(prog), block)[c] <= 1
  BY <1>1, AtBlock DEF Consistent
<1>6. Flow(prog)[Entry][c] = 0
  BY <1>1, AtBlock DEF Consistent, NoStores
<1>7. Term.op \in Emitters => After(prog, Flow(prog), block)[c] = 1
  BY <1>1, AtBlock DEF Consistent, Term
<1>8. Term.op = "skip" => After(prog, Flow(prog), block)[c] = 0
  BY <1>1, AtBlock DEF Consistent, Term, NoStores
<1>9. /\ Term.op = "emit.to" => Passed(prog, Flow(prog), block)[c] = 0
      /\ Term.op # "emit.to" =>
           Passed(prog, Flow(prog), block)[c] = After(prog, Flow(prog), block)[c]
  BY DEF Passed, NoStores, Term
<1>10. ASSUME NEW i \in DOMAIN Term.edges
       PROVE  Flow(prog)[Term.edges[i].to][c] = Passed(prog, Flow(prog), block)[c]
  <2>1. Term.edges[i].to \in Succs(prog, block)
    BY AtEdge DEF Succs, Targets, Term
  <2>2. Flow(prog)[Term.edges[i].to] = Passed(prog, Flow(prog), block)
    BY <1>1, <2>1, AtBlock DEF Consistent
  <2>. QED
    BY <2>2
<1>. QED
  BY <1>2, <1>3, <1>4, <1>5, <1>6, <1>7, <1>8, <1>9, <1>10

\* Instruction by instruction, in the block control is in.
LEMMA AtStores ==
  ASSUME TypeOK, NEW c \in Cols
  PROVE  /\ StoreCountUpTo(prog, block, c, 0) = 0
         /\ StoreCountUpTo(prog, Entry, c, 0) = 0
         /\ StoreCountUpTo(prog, block, c, ip) \in Nat
         /\ StoreCountUpTo(prog, block, c, ip + 1) <= StoreCount(prog, block, c)
         /\ ip = Len(Insts) =>
              StoreCountUpTo(prog, block, c, ip) = StoreCount(prog, block, c)
         /\ ip < Len(Insts) /\ Inst.col = c =>
              StoreCountUpTo(prog, block, c, ip + 1)
                = StoreCountUpTo(prog, block, c, ip) + 1
         /\ ip < Len(Insts) /\ Inst.col # c =>
              StoreCountUpTo(prog, block, c, ip + 1) = StoreCountUpTo(prog, block, c, ip)
         /\ \A i \in DOMAIN Term.edges :
              StoreCountUpTo(prog, Term.edges[i].to, c, 0) = 0
<1>1. ip \in 0 .. Len(Insts) /\ Len(Insts) \in Nat
  BY AtBlock DEF TypeOK
<1>2. /\ StoreCountUpTo(prog, block, c, 0) = 0
      /\ StoreCountUpTo(prog, block, c, ip) \in Nat
      /\ ip = Len(Insts) =>
           StoreCountUpTo(prog, block, c, ip) = StoreCount(prog, block, c)
      /\ ip < Len(Insts) /\ Inst.col = c =>
           StoreCountUpTo(prog, block, c, ip + 1)
             = StoreCountUpTo(prog, block, c, ip) + 1
      /\ ip < Len(Insts) /\ Inst.col # c =>
           StoreCountUpTo(prog, block, c, ip + 1) = StoreCountUpTo(prog, block, c, ip)
  <2>1. /\ prog \in Programs /\ block \in Blocks(prog)
        /\ ip \in 0 .. Len(prog[block].insts) /\ Len(prog[block].insts) \in Nat
    BY <1>1, AtBlock DEF Insts
  <2>2. ip < Len(prog[block].insts) => ip \in 0 .. Len(prog[block].insts) - 1
    BY <2>1
  <2>3. /\ StoreCountUpTo(prog, block, c, 0) = 0
        /\ StoreCountUpTo(prog, block, c, Len(prog[block].insts))
             = StoreCount(prog, block, c)
        /\ \A k \in 0 .. Len(prog[block].insts) :
             StoreCountUpTo(prog, block, c, k) \in Nat
    BY <2>1, StoreCountSteps
  <2>4. \A k \in 0 .. Len(prog[block].insts) - 1 :
          /\ prog[block].insts[k + 1].col = c =>
               StoreCountUpTo(prog, block, c, k + 1) = StoreCountUpTo(prog, block, c, k) + 1
          /\ prog[block].insts[k + 1].col # c =>
               StoreCountUpTo(prog, block, c, k + 1) = StoreCountUpTo(prog, block, c, k)
    BY <2>1, StoreCountSteps
  <2>. QED
    BY <2>1, <2>2, <2>3, <2>4 DEF Insts, Inst
<1>3. /\ StoreCountUpTo(prog, Entry, c, 0) = 0
      /\ StoreCountUpTo(prog, block, c, ip + 1) <= StoreCount(prog, block, c)
  BY AtBlock, StoreCountSteps
<1>4. \A i \in DOMAIN Term.edges : StoreCountUpTo(prog, Term.edges[i].to, c, 0) = 0
  BY AtBlock, AtEdge, StoreCountSteps
<1>. QED
  BY <1>2, <1>3, <1>4

\* Every step keeps the ledger: a store adds a cell to what the block owes, an
\* emit settles all columns at once, a branch hands its debt to its target.
LEMMA LedgerStep == TypeOK /\ Ledger /\ [Next]_vars => Ledger'
<1>. SUFFICES ASSUME TypeOK, Ledger, [Next]_vars
              PROVE  Ledger'
  OBVIOUS
<1>. DEFINE E == Flow(prog)
<1>t. /\ count \in Nat /\ count' \in Nat
      /\ \A c \in Cols : Len(out[c]) \in Nat
  BY TypeStep DEF TypeOK
<1>1. CASE Refuse
  BY <1>1 DEF Refuse, Ledger
<1>2. CASE Call
  <2>1. via' = 0 /\ block' = Entry /\ ip' = 0 /\ count' = 0 /\ prog' = prog
        /\ status' = "running"
    BY <1>2 DEF Call, TypeOK, edgeVars
  <2>2. ASSUME NEW c \in Cols
        PROVE  Len(out'[c]) = 0 /\ Stored(c)' = 0
    <3>1. Stored(c)' = Flow(prog)[Entry][c] + StoreCountUpTo(prog, Entry, c, 0)
      BY <2>1 DEF Stored
    <3>2. out'[c] = <<>>
      BY <1>2 DEF Call, Cleared
    <3>. QED
      BY <3>1, <3>2, AtFlow, AtStores
  <2>. QED
    BY <2>1, <2>2 DEF Ledger
<1>3. CASE Return
  <2>1. block = Entry /\ ip = 0 /\ via = 0 /\ status = "running"
    BY <1>3, AtBlock DEF Return, TypeOK, Ledger
  <2>2. ASSUME NEW c \in Cols
        PROVE  Len(out[c]) = count
    <3>1. Stored(c) = 0
      BY <2>1, AtFlow, AtStores DEF Stored
    <3>. QED
      BY <2>1, <3>1, <1>t DEF Ledger
  <2>. QED
    BY <1>3, <2>2 DEF Return, Ledger
<1>4. CASE Exec
  <2>1. via = 0 /\ via' = 0 /\ prog' = prog /\ block' = block /\ count' = count
        /\ ip' = ip + 1 /\ ip < Len(Insts) /\ row' = row /\ rows' = rows /\ row < rows
        /\ status = "running" /\ status' = "running"
    BY <1>4 DEF Exec, Running, edgeVars
  <2>2. ASSUME NEW c \in Cols
        PROVE  Len(out'[c]) = count' + Stored(c)'
    <3>t. E[block][c] \in Nat /\ StoreCountUpTo(prog, block, c, ip) \in Nat
      BY AtFlow, AtStores
    <3>1. Stored(c)' = E[block][c] + StoreCountUpTo(prog, block, c, ip + 1)
      BY <2>1 DEF Stored
    <3>2. Len(out[c]) = count + E[block][c] + StoreCountUpTo(prog, block, c, ip)
      BY <2>1, <1>t, <3>t DEF Ledger, Stored
    <3>3. CASE Inst.col = c
      <4>1. out'[c] = Append(out[c], <<row, count>>)
        BY <1>4, <3>3 DEF Exec
      <4>2. out[c] \in Seq((0 .. MaxRows) \X Nat) /\ <<row, count>> \in (0 .. MaxRows) \X Nat
        BY AtBlock, <1>t DEF TypeOK
      <4>3. Len(out'[c]) = Len(out[c]) + 1
        BY <4>1, <4>2
      <4>4. StoreCountUpTo(prog, block, c, ip + 1) = StoreCountUpTo(prog, block, c, ip) + 1
        BY <2>1, <3>3, AtStores
      <4>. QED
        BY <2>1, <3>1, <3>2, <3>t, <4>3, <4>4, <1>t
    <3>4. CASE Inst.col # c
      <4>1. out'[c] = out[c]
        BY <1>4, <3>4 DEF Exec
      <4>2. StoreCountUpTo(prog, block, c, ip + 1) = StoreCountUpTo(prog, block, c, ip)
        BY <2>1, <3>4, AtStores
      <4>. QED
        BY <2>1, <3>1, <3>2, <3>t, <4>1, <4>2, <1>t
    <3>. QED
      BY <3>3, <3>4
  <2>. QED
    BY <2>1, <2>2, AtBlock DEF Ledger
<1>5. CASE Abort
  BY <1>5 DEF Abort, Ledger
<1>6. CASE Branch
  <2>1. /\ via = 0 /\ ip = Len(Insts) /\ status = "running" /\ row < rows
        /\ Term.op # "emit.to" /\ via' # 0
        /\ UNCHANGED <<prog, status, rows, row, block, out, count>>
    <3>1. via' \in DOMAIN Term.edges
      BY <1>6 DEF Branch, Leave
    <3>. QED
      BY <1>6, <3>1, AtBlock DEF Branch, AtTerm, Running
  <2>2. ASSUME NEW c \in Cols
        PROVE  Stored(c)' = Stored(c)
    BY <2>1, AtFlow, AtStores DEF Stored
  <2>. QED
    BY <2>1, <2>2, AtBlock DEF Ledger
<1>7. CASE EmitTo
  <2>1. /\ via = 0 /\ ip = Len(Insts) /\ status = "running" /\ row < rows
        /\ Term.op = "emit.to" /\ via' # 0 /\ count' = count + 1
        /\ UNCHANGED <<prog, status, rows, row, block, out>>
    <3>1. via' \in DOMAIN Term.edges
      BY <1>7 DEF EmitTo, Leave
    <3>. QED
      BY <1>7, <3>1, AtBlock DEF EmitTo, AtTerm, Running
  <2>2. ASSUME NEW c \in Cols
        PROVE  Stored(c) = 1 /\ Stored(c)' = 0
    BY <2>1, AtFlow, AtStores DEF Stored, Emitters
  <2>. QED
    BY <2>1, <2>2, <1>t, AtBlock DEF Ledger
<1>8. CASE Copy
  <2>1. /\ via # 0 /\ via' = via
        /\ UNCHANGED <<prog, status, rows, row, block, ip, out, count>>
    BY <1>8 DEF Copy
  <2>. QED
    BY <2>1 DEF Ledger, Stored
<1>9. CASE Enter
  <2>1. /\ via # 0 /\ via \in DOMAIN Term.edges /\ via' = 0 /\ ip' = 0
        /\ block' = Term.edges[via].to /\ row < rows
        /\ UNCHANGED <<prog, status, rows, row, out, count>>
    BY <1>9 DEF Enter, TypeOK, Edge
  <2>2. ASSUME NEW c \in Cols
        PROVE  Stored(c)' = Stored(c)
    <3>1. Stored(c)' = Flow(prog)[Term.edges[via].to][c]
                         + StoreCountUpTo(prog, Term.edges[via].to, c, 0)
      BY <2>1 DEF Stored
    <3>2. Stored(c) = Passed(prog, Flow(prog), block)[c]
      BY <2>1 DEF Stored
    <3>. QED
      BY <2>1, <3>1, <3>2, AtFlow, AtStores
  <2>. QED
    BY <2>1, <2>2, AtBlock DEF Ledger
<1>10. CASE Emit
  <2>1. /\ via = 0 /\ via' = 0 /\ ip = Len(Insts) /\ ip' = 0 /\ block' = Entry
        /\ Term.op = "emit" /\ count' = count + 1 /\ status = "running"
        /\ UNCHANGED <<prog, status, out>>
    BY <1>10 DEF Emit, AtTerm, Running, NextRow, edgeVars
  <2>2. ASSUME NEW c \in Cols
        PROVE  Stored(c) = 1 /\ Stored(c)' = 0
    <3>1. Stored(c)' = Flow(prog)[Entry][c] + StoreCountUpTo(prog, Entry, c, 0)
      BY <2>1 DEF Stored
    <3>. QED
      BY <2>1, <3>1, AtFlow, AtStores DEF Stored, Emitters
  <2>. QED
    BY <2>1, <2>2, <1>t DEF Ledger
<1>11. CASE Skip
  <2>1. /\ via = 0 /\ via' = 0 /\ ip = Len(Insts) /\ ip' = 0 /\ block' = Entry
        /\ Term.op = "skip" /\ status = "running"
        /\ UNCHANGED <<prog, status, out, count>>
    BY <1>11 DEF Skip, AtTerm, Running, NextRow, edgeVars
  <2>2. ASSUME NEW c \in Cols
        PROVE  Stored(c) = 0 /\ Stored(c)' = 0
    <3>1. Stored(c)' = Flow(prog)[Entry][c] + StoreCountUpTo(prog, Entry, c, 0)
      BY <2>1 DEF Stored
    <3>. QED
      BY <2>1, <3>1, AtFlow, AtStores DEF Stored
  <2>. QED
    BY <2>1, <2>2, <1>t DEF Ledger
<1>12. CASE UNCHANGED vars
  BY <1>12 DEF vars, rowVars, edgeVars, Ledger, Stored
<1>. QED
  BY <1>1, <1>2, <1>3, <1>4, <1>5, <1>6, <1>7, <1>8, <1>9, <1>10, <1>11, <1>12
     DEF Next, Step

\* What the ledger says where it owes nothing.
LEMMA LedgerAtBoundary == TypeOK /\ Ledger => ColumnsComplete
<1>. SUFFICES ASSUME TypeOK, Ledger, AtBoundary, NEW c \in Cols
              PROVE  Len(out[c]) = count
  BY DEF ColumnsComplete
<1>1. CASE status = "running" /\ block = Entry /\ ip = 0 /\ via = 0
  <2>1. Stored(c) = 0
    BY <1>1, AtFlow, AtStores DEF Stored
  <2>2. count \in Nat
    BY DEF TypeOK
  <2>. QED
    BY <1>1, <2>1, <2>2 DEF Ledger
<1>2. CASE status = "ok"
  BY <1>2 DEF Ledger
<1>. QED
  BY <1>1, <1>2 DEF AtBoundary

\* Store discipline at run time: whatever path a row takes, whenever a row
\* begins or a call has ended well every column has one cell per emitted row.
THEOREM ColumnsAreComplete == Spec => []ColumnsComplete
<1>1. Init => Ledger
  BY DEF Init, Fresh, Ledger
<1>2. Spec => []TypeOK
  BY TypeCorrect
<1>. QED
  BY <1>1, <1>2, LedgerStep, LedgerAtBoundary, PTL DEF Spec
-----------------------------------------------------------------------------
(***************************************************************************)
(* Whole answers.                                                          *)
(***************************************************************************)

Counted == /\ status = "ok" => emitted = count
           /\ status = "running" => emitted = 0

\* The published count is the row count, from the end of a call on.
LEMMA CountedStep == Counted /\ [Next]_vars => Counted'
<1>. SUFFICES ASSUME Counted, [Next]_vars
              PROVE  Counted'
  OBVIOUS
<1>. USE DEF Counted
<1>1. CASE Refuse \/ Abort
  BY <1>1 DEF Refuse, Abort
<1>2. CASE Call
  BY <1>2 DEF Call
<1>3. CASE Return
  BY <1>3 DEF Return, Published
<1>4. CASE Exec \/ Branch \/ Copy \/ Enter
  BY <1>4 DEF Exec, Branch, Copy, Enter
<1>5. CASE EmitTo \/ Emit \/ Skip
  BY <1>5 DEF EmitTo, Emit, Skip, AtTerm, Running
<1>6. CASE UNCHANGED vars
  BY <1>6 DEF vars
<1>. QED
  BY <1>1, <1>2, <1>3, <1>4, <1>5, <1>6 DEF Next, Step

\* The published count is the length of every column, and is published by
\* nothing but a call's good end.
THEOREM AnswersAreWhole == Spec => []AnswerIsWhole
<1>1. Init => Counted
  BY DEF Init, Fresh, Counted
<1>2. Counted /\ ColumnsComplete => AnswerIsWhole
  BY DEF Counted, ColumnsComplete, AtBoundary, AnswerIsWhole
<1>. QED
  BY <1>1, <1>2, CountedStep, ColumnsAreComplete, PTL DEF Spec
-----------------------------------------------------------------------------
(***************************************************************************)
(* Whose cells: columns at one height hold cells of one output row, and    *)
(* the cells above the last emit are of the row now being processed.       *)
(***************************************************************************)

Cells ==
  status \in {"running", "ok"} =>
    \A c \in Cols : \A k \in DOMAIN out[c] :
      /\ out[c][k][2] = k - 1
      /\ \A d \in Cols : k \in DOMAIN out[d] => out[d][k] = out[c][k]
      /\ k > count => k = count + 1 /\ out[c][k] = <<row, count>>

\* What Append does, cell by cell.
LEMMA Appended ==
  ASSUME NEW S, NEW t \in Seq(S), NEW x \in S
  PROVE  /\ DOMAIN Append(t, x) = DOMAIN t \union {Len(t) + 1}
         /\ Append(t, x)[Len(t) + 1] = x
         /\ Len(t) + 1 \notin DOMAIN t
         /\ \A k \in DOMAIN t : Append(t, x)[k] = t[k]
OBVIOUS

\* The heights the ledger allows: `count', and one more while a row is stored.
LEMMA Heights ==
  ASSUME TypeOK, Ledger, NEW c \in Cols, status \in {"running", "ok"}
  PROVE  /\ count \in Nat /\ Len(out[c]) \in Nat /\ DOMAIN out[c] = 1 .. Len(out[c])
         /\ count <= Len(out[c])
         /\ AtBoundary => Len(out[c]) = count
         /\ AtTerm /\ Term.op \in Emitters => Len(out[c]) = count + 1
         /\ AtTerm /\ Term.op = "skip" => Len(out[c]) = count
         /\ Running /\ ip < Len(Insts) /\ Inst.col = c => Len(out[c]) = count
<1>1. count \in Nat /\ Len(out[c]) \in Nat /\ DOMAIN out[c] = 1 .. Len(out[c])
  BY DEF TypeOK
<1>2. AtBoundary => Len(out[c]) = count
  BY LedgerAtBoundary DEF ColumnsComplete
<1>3. CASE status = "ok"
  BY <1>1, <1>2, <1>3 DEF Ledger, AtTerm, Running
<1>4. CASE status = "running"
  <2>1. Len(out[c]) = count + Stored(c)
    BY <1>4 DEF Ledger
  <2>2. Stored(c) \in Nat
    <3>1. CASE via = 0
      BY <3>1, AtFlow, AtStores DEF Stored
    <3>2. CASE via # 0
      <4>1. Passed(prog, Flow(prog), block)[c] \in Nat
        BY AtFlow
      <4>. QED
        BY <3>2, <4>1 DEF Stored
    <3>. QED
      BY <3>1, <3>2
  <2>3. AtTerm => Stored(c) = After(prog, Flow(prog), block)[c]
    <3>1. AtTerm => via = 0 /\ ip = Len(Insts)
      BY DEF AtTerm, Running
    <3>. QED
      BY <3>1, AtFlow, AtStores DEF Stored
  <2>4. Running /\ ip < Len(Insts) /\ Inst.col = c => Stored(c) = 0
    <3>. SUFFICES ASSUME Running, ip < Len(Insts), Inst.col = c
                  PROVE  Stored(c) = 0
      OBVIOUS
    <3>1. Stored(c) = Flow(prog)[block][c] + StoreCountUpTo(prog, block, c, ip)
      BY DEF Running, Stored
    <3>2. /\ StoreCountUpTo(prog, block, c, ip) + 1 <= StoreCount(prog, block, c)
          /\ StoreCountUpTo(prog, block, c, ip) \in Nat
      BY AtStores
    <3>3. /\ Flow(prog)[block][c] + StoreCount(prog, block, c) <= 1
          /\ Flow(prog)[block][c] \in Nat /\ StoreCount(prog, block, c) \in Nat
      BY AtFlow
    <3>. QED
      BY <3>1, <3>2, <3>3
  <2>5. /\ Term.op \in Emitters => After(prog, Flow(prog), block)[c] = 1
        /\ Term.op = "skip" => After(prog, Flow(prog), block)[c] = 0
    BY AtFlow
  <2>. QED
    BY <1>1, <1>2, <2>1, <2>2, <2>3, <2>4, <2>5
<1>. QED
  BY <1>3, <1>4

\* A store is always the first of its column above `count', and so takes the
\* row's own cell; an emit leaves no cell above the new count.
LEMMA CellsStep == TypeOK /\ Ledger /\ Cells /\ [Next]_vars => Cells'
<1>. SUFFICES ASSUME TypeOK, Ledger, Cells, [Next]_vars
              PROVE  Cells'
  OBVIOUS
<1>1. CASE Refuse \/ Abort
  BY <1>1 DEF Refuse, Abort, Cells
<1>2. CASE Call
  <2>1. \A c \in Cols : DOMAIN out'[c] = {}
    BY <1>2 DEF Call, Cleared
  <2>. QED
    BY <2>1 DEF Cells
<1>3. CASE Return
  BY <1>3 DEF Return, Cells, rowVars
<1>4. CASE Exec
  <2>1. /\ Running /\ ip < Len(Insts) /\ status = "running" /\ status' = "running"
        /\ row' = row /\ count' = count
    BY <1>4 DEF Exec, Running
  <2>2. ASSUME NEW c \in Cols
        PROVE  /\ Inst.col = c => /\ DOMAIN out'[c] = DOMAIN out[c] \union {count + 1}
                                  /\ out'[c][count + 1] = <<row, count>>
                                  /\ count + 1 \notin DOMAIN out[c]
                                  /\ \A k \in DOMAIN out[c] : out'[c][k] = out[c][k]
               /\ Inst.col # c => out'[c] = out[c]
    <3>1. /\ Inst.col = c => out'[c] = Append(out[c], <<row, count>>)
          /\ Inst.col # c => out'[c] = out[c]
      BY <1>4 DEF Exec
    <3>2. Inst.col = c => Len(out[c]) = count
      BY <2>1, Heights
    <3>3. /\ out[c] \in Seq((0 .. MaxRows) \X Nat)
          /\ <<row, count>> \in (0 .. MaxRows) \X Nat
      BY AtBlock DEF TypeOK
    <3>4. CASE Inst.col = c
      <4>1. out'[c] = Append(out[c], <<row, count>>) /\ Len(out[c]) = count
        BY <3>1, <3>2, <3>4
      <4>. QED
        BY <3>3, <3>4, <4>1, Appended
    <3>. QED
      BY <3>1, <3>4
  <2>3. ASSUME NEW c \in Cols, NEW k \in DOMAIN out'[c]
        PROVE  /\ out'[c][k][2] = k - 1
               /\ k > count => k = count + 1 /\ out'[c][k] = <<row, count>>
    <3>1. count \in Nat
      BY DEF TypeOK
    <3>2. CASE k \in DOMAIN out[c] /\ out'[c][k] = out[c][k]
      BY <2>1, <3>2 DEF Cells
    <3>3. CASE k = count + 1 /\ out'[c][k] = <<row, count>>
      BY <3>1, <3>3
    <3>. QED
      BY <2>2, <3>2, <3>3
  <2>4. ASSUME NEW c \in Cols, NEW k \in DOMAIN out'[c],
               NEW d \in Cols, k \in DOMAIN out'[d]
        PROVE  out'[d][k] = out'[c][k]
    <3>1. count \in Nat
      BY DEF TypeOK
    <3>2. CASE k > count
      BY <2>3, <2>4, <3>2
    <3>3. CASE ~(k > count)
      <4>1. k # count + 1
        BY <3>1, <3>3
      <4>2. /\ k \in DOMAIN out[c] /\ out'[c][k] = out[c][k]
            /\ k \in DOMAIN out[d] /\ out'[d][k] = out[d][k]
        BY <2>2, <2>4, <4>1
      <4>. QED
        BY <2>1, <4>2 DEF Cells
    <3>. QED
      BY <3>2, <3>3
  <2>. QED
    BY <2>1, <2>3, <2>4 DEF Cells
<1>5. CASE Branch \/ Copy \/ Enter
  BY <1>5 DEF Branch, Copy, Enter, Cells
<1>6. CASE EmitTo \/ Emit \/ Skip
  <2>1. /\ AtTerm /\ status = "running" /\ status' = "running" /\ out' = out
        /\ \/ Term.op \in Emitters /\ count' = count + 1
           \/ Term.op = "skip" /\ count' = count
    BY <1>6 DEF EmitTo, Emit, Skip, AtTerm, Running, Emitters
  <2>2. \A c \in Cols : DOMAIN out[c] = 1 .. count' /\ count' \in Nat
    BY <2>1, Heights
  <2>. QED
    BY <2>1, <2>2 DEF Cells
<1>7. CASE UNCHANGED vars
  BY <1>7 DEF vars, rowVars, Cells
<1>. QED
  BY <1>1, <1>2, <1>3, <1>4, <1>5, <1>6, <1>7 DEF Next, Step

\* Output rows are never assembled from cells of different rows, whatever
\* order the blocks store the columns in.
THEOREM RowsAreNotMixed == Spec => []RowsNotMixed
<1>1. Init => Ledger /\ Cells
  BY DEF Init, Fresh, Ledger, Cells
<1>2. Cells => RowsNotMixed
  BY DEF Cells, RowsNotMixed
<1>3. Spec => []TypeOK
  BY TypeCorrect
<1>. QED
  BY <1>1, <1>2, <1>3, LedgerStep, CellsStep, PTL DEF Spec
-----------------------------------------------------------------------------
(***************************************************************************)
(* The row loop implements BatchAnswer.                                    *)
(***************************************************************************)

\* The answer as rows, cell by cell.
LEMMA AnswerCells ==
  ASSUME count \in Nat
  PROVE  /\ Answer \in Seq([Cols -> {-1} \union { out[c][k][1] : c \in Cols, k \in 1 .. count }])
         /\ Len(Answer) = count
<1>1. DOMAIN Answer = 1 .. count
  BY DEF Answer
<1>2. ASSUME NEW k \in 1 .. count
      PROVE  Answer[k] \in [Cols -> {-1} \union { out[c][j][1] : c \in Cols, j \in 1 .. count }]
  BY DEF Answer
<1>. QED
  BY <1>1, <1>2 DEF Answer

\* An emit appends to the answer the row all of whose cells are the current
\* input row's.
LEMMA AnswerGrows ==
  ASSUME TypeOK, Ledger, Cells, AtTerm, Term.op \in Emitters,
         count' = count + 1, out' = out
  PROVE  Answer' = Append(Answer, [c \in Cols |-> row])
<1>1. status = "running" /\ count \in Nat
  BY DEF TypeOK, AtTerm, Running
<1>2. \A c \in Cols : DOMAIN out[c] = 1 .. count + 1 /\ out[c][count + 1] = <<row, count>>
  <2>1. \A c \in Cols : DOMAIN out[c] = 1 .. count + 1
    BY <1>1, Heights
  <2>. QED
    BY <1>1, <2>1 DEF Cells
<1>. DEFINE new == [c \in Cols |-> row]
            both == [k \in 1 .. count + 1 |-> IF k = count + 1 THEN new ELSE Answer[k]]
<1>3. Answer' = both
  <2>1. Answer' = [k \in 1 .. count + 1 |->
                     [c \in Cols |-> IF k \in DOMAIN out[c] THEN out[c][k][1] ELSE -1]]
    BY DEF Answer
  <2>2. ASSUME NEW k \in 1 .. count + 1
        PROVE  both[k] = [c \in Cols |-> IF k \in DOMAIN out[c] THEN out[c][k][1] ELSE -1]
    <3>1. CASE k = count + 1
      <4>1. \A c \in Cols : k \in DOMAIN out[c] /\ out[c][k][1] = row
        BY <1>1, <1>2, <3>1
      <4>. QED
        BY <3>1, <4>1
    <3>2. CASE k # count + 1
      <4>1. k \in 1 .. count
        BY <1>1, <3>2
      <4>. QED
        BY <3>2, <4>1 DEF Answer
    <3>. QED
      BY <3>1, <3>2
  <2>. HIDE DEF new
  <2>. QED
    BY <2>1, <2>2
<1>4. Append(Answer, new) = both
  <2>. DEFINE S == { both[k] : k \in 1 .. count + 1 }
  <2>1. DOMAIN Answer = 1 .. count /\ Len(Answer) = count
    BY <1>1, AnswerCells DEF Answer
  <2>2. Answer = [k \in 1 .. count |-> both[k]]
    BY <1>1 DEF Answer
  <2>3. new \in S /\ both[count + 1] = new
    BY <1>1
  <2>4. \A k \in 1 .. count : both[k] \in S /\ both[k] = Answer[k]
    BY <1>1
  <2>. HIDE DEF new, both, S
  <2>5. Answer \in Seq(S)
    BY <1>1, <2>2, <2>4
  <2>6. Append(Answer, new) \in [1 .. count + 1 -> S]
    <3>1. Append(Answer, new) \in Seq(S) /\ Len(Append(Answer, new)) = count + 1
      BY <2>1, <2>3, <2>5, AppendProperties
    <3>. QED
      BY <3>1, LenProperties
  <2>7. /\ Append(Answer, new)[count + 1] = new
        /\ \A k \in 1 .. count : Append(Answer, new)[k] = Answer[k]
    BY <1>1, <2>1, <2>3, <2>5, Appended
  <2>8. \A k \in 1 .. count + 1 : k \in 1 .. count \/ k = count + 1
    BY <1>1
  <2>9. \A k \in 1 .. count + 1 : Append(Answer, new)[k] = both[k]
    BY <2>3, <2>4, <2>7, <2>8
  <2>10. both = [k \in 1 .. count + 1 |-> both[k]]
    BY DEF both
  <2>. QED
    BY <2>6, <2>9, <2>10
<1>. QED
  BY <1>3, <1>4

\* Stores go above `count', where the answer does not look.
LEMMA AnswerStays ==
  ASSUME TypeOK, Ledger, Exec
  PROVE  Answer' = Answer
<1>1. /\ status = "running" /\ count' = count /\ count \in Nat
      /\ Running /\ ip < Len(Insts)
  BY DEF Exec, Running, TypeOK
<1>2. ASSUME NEW c \in Cols, NEW k \in 1 .. count
      PROVE  k \in DOMAIN out[c] /\ k \in DOMAIN out'[c] /\ out'[c][k] = out[c][k]
  <2>1. k \in DOMAIN out[c]
    BY <1>1, Heights
  <2>2. CASE Inst.col = c
    <3>1. out'[c] = Append(out[c], <<row, count>>)
      BY <2>2 DEF Exec
    <3>2. /\ out[c] \in Seq((0 .. MaxRows) \X Nat)
          /\ <<row, count>> \in (0 .. MaxRows) \X Nat
      BY AtBlock DEF TypeOK
    <3>. QED
      BY <2>1, <3>1, <3>2, Appended
  <2>3. CASE Inst.col # c
    <3>1. out'[c] = out[c]
      BY <2>3 DEF Exec
    <3>. QED
      BY <2>1, <3>1
  <2>. QED
    BY <2>2, <2>3
<1>. QED
  BY <1>1, <1>2 DEF Answer

\* Every step of the row loop is a step of the promise or invisible to it.
LEMMA PromiseStep ==
  TypeOK /\ Ledger /\ Cells /\ [Next]_vars => [Promise!Next]_(Promise!vars)
<1>. SUFFICES ASSUME TypeOK, Ledger, Cells, [Next]_vars
              PROVE  [Promise!Next]_(Promise!vars)
  OBVIOUS
<1>1. CASE Refuse
  BY <1>1 DEF Refuse, rowVars, Answer, Promise!Next, Promise!Fail
<1>2. CASE Call
  <2>1. Answer' = <<>>
    BY <1>2 DEF Call, Answer
  <2>. QED
    BY <1>2, <2>1 DEF Call, Promise!Next, Promise!Begin
<1>3. CASE Return
  <2>1. row = rows /\ Len(Answer) = count
    BY <1>3, AtBlock, AnswerCells DEF Return, TypeOK
  <2>. QED
    BY <1>3, <2>1 DEF Return, Published, rowVars, Answer, Promise!Next, Promise!Publish
<1>4. CASE Exec
  BY <1>4, AnswerStays DEF Exec, Promise!vars
<1>5. CASE Abort
  BY <1>5 DEF Abort, AtTerm, Running, rowVars, Answer, Promise!Next, Promise!Fail
<1>6. CASE Branch \/ Copy \/ Enter
  BY <1>6 DEF Branch, Copy, Enter, Answer, Promise!vars
<1>7. CASE EmitTo
  <2>1. Answer' = Append(Answer, [c \in Cols |-> row])
    BY <1>7, AnswerGrows DEF EmitTo, Emitters
  <2>. QED
    BY <1>7, <2>1 DEF EmitTo, AtTerm, Running, Promise!Next, Promise!Yield
<1>8. CASE Emit
  <2>1. Answer' = Append(Answer, [c \in Cols |-> row])
    BY <1>8, AnswerGrows DEF Emit, Emitters
  <2>. QED
    BY <1>8, <2>1 DEF Emit, NextRow, AtTerm, Running, Promise!Next, Promise!Yield
<1>9. CASE Skip
  BY <1>9 DEF Skip, NextRow, AtTerm, Running, Answer, Promise!Next, Promise!Drop
<1>10. CASE UNCHANGED vars
  BY <1>10 DEF vars, rowVars, Answer, Promise!vars
<1>. QED
  BY <1>1, <1>2, <1>3, <1>4, <1>5, <1>6, <1>7, <1>8, <1>9, <1>10 DEF Next, Step

\* Running a verified program keeps the promise of a call: whole output rows in
\* input order, published when every input row is done or not at all.
THEOREM PromiseKept == Spec => KeepsPromise
<1>1. Init => Ledger /\ Cells
  BY DEF Init, Fresh, Ledger, Cells
<1>2. Init => Promise!Init
  BY DEF Init, Fresh, Answer, Promise!Init
<1>3. Spec => []TypeOK
  BY TypeCorrect
<1>. QED
  BY <1>1, <1>2, <1>3, LedgerStep, CellsStep, PromiseStep, PTL
     DEF Spec, KeepsPromise, Promise!Spec

-----------------------------------------------------------------------------
(***************************************************************************)
(* Proofs about the registers of the row loop: one frame, shared by all    *)
(* blocks, rows and calls and never cleared, holds at every read what the  *)
(* rules of SSA say it holds.                                              *)
(*                                                                         *)
(* The inductive invariant has two parts. Scoped: what block and ip have   *)
(* defined so far is in `env'. Exact: the frame agrees with `env' inside a *)
(* block; along an edge the parameters already copied hold their           *)
(* arguments, and the arguments still to be copied have not been           *)
(* overwritten. The second half of Exact is where ClobberFree is needed.   *)
(***************************************************************************)

\* The values block b has defined once its first k instructions have run.
Defined(p, b, k) == { DefAt(p, b, s).val : s \in { t \in DefSites(p, b) : t[1] <= k } }

Scoped ==
  /\ DOMAIN env \subseteq Vals
  /\ status = "running" => Defined(prog, block, ip) \subseteq DOMAIN env
  /\ via # 0 => ip = Len(Insts)

Exact ==
  status = "running" /\ ClobberFree(prog) =>
    /\ via = 0 => \A v \in DOMAIN env : regs[v] = env[v]
    /\ via # 0 =>
         /\ \A i \in DOMAIN Edge.args :
              i <= moved => regs[prog[Edge.to].params[i].val] = env[Edge.args[i]]
         /\ \A j \in DOMAIN Edge.args :
              j > moved => regs[Edge.args[j]] = env[Edge.args[j]]

-----------------------------------------------------------------------------
(***************************************************************************)
(* Definitions and uses.                                                   *)
(***************************************************************************)

\* Before its first instruction a block has defined its parameters, and each
\* instruction adds its destinations.
LEMMA DefinedSteps ==
  ASSUME NEW p \in Programs, NEW b \in Blocks(p)
  PROVE  /\ Defined(p, b, 0) = ParamVals(p, b)
         /\ \A k \in 0 .. Len(p[b].insts) - 1 :
              Defined(p, b, k + 1)
                = Defined(p, b, k) \union { p[b].insts[k + 1].dsts[i].val :
                                              i \in DOMAIN p[b].insts[k + 1].dsts }
<1>1. /\ p[b].insts \in Seq(Instruction) /\ Len(p[b].insts) \in Nat
      /\ DOMAIN p[b].insts = 1 .. Len(p[b].insts)
  BY BlockShape
<1>2. \A v, k : v \in Defined(p, b, k) <=>
        \E s \in DefSites(p, b) : s[1] <= k /\ v = DefAt(p, b, s).val
  BY DEF Defined
<1>3. \A s : s \in DefSites(p, b) <=>
        \/ \E i \in DOMAIN p[b].params : s = <<0, i>>
        \/ \E k \in DOMAIN p[b].insts : \E i \in DOMAIN p[b].insts[k].dsts : s = <<k, i>>
  BY DEF DefSites
<1>4. \A i : DefAt(p, b, <<0, i>>) = p[b].params[i]
  BY DEF DefAt
<1>5. \A k \in DOMAIN p[b].insts : \A i :
        DefAt(p, b, <<k, i>>) = p[b].insts[k].dsts[i]
  BY <1>1 DEF DefAt
<1>6. \A v, k : v \in Defined(p, b, k) <=>
        \/ \E i \in DOMAIN p[b].params : 0 <= k /\ v = p[b].params[i].val
        \/ \E n \in DOMAIN p[b].insts : \E i \in DOMAIN p[b].insts[n].dsts :
             n <= k /\ v = p[b].insts[n].dsts[i].val
  <2>. TAKE v, k
  <2>1. ASSUME v \in Defined(p, b, k)
        PROVE  \/ \E i \in DOMAIN p[b].params : 0 <= k /\ v = p[b].params[i].val
               \/ \E n \in DOMAIN p[b].insts : \E i \in DOMAIN p[b].insts[n].dsts :
                    n <= k /\ v = p[b].insts[n].dsts[i].val
    <3>1. PICK s \in DefSites(p, b) : s[1] <= k /\ v = DefAt(p, b, s).val
      BY <1>2, <2>1
    <3>2. CASE \E i \in DOMAIN p[b].params : s = <<0, i>>
      BY <1>4, <3>1, <3>2
    <3>3. CASE \E n \in DOMAIN p[b].insts : \E i \in DOMAIN p[b].insts[n].dsts : s = <<n, i>>
      BY <1>5, <3>1, <3>3
    <3>. QED
      BY <1>3, <3>2, <3>3
  <2>2. ASSUME NEW i \in DOMAIN p[b].params, 0 <= k, v = p[b].params[i].val
        PROVE  v \in Defined(p, b, k)
    <3>1. <<0, i>> \in DefSites(p, b)
      BY <1>3
    <3>. QED
      BY <1>2, <1>4, <2>2, <3>1
  <2>3. ASSUME NEW n \in DOMAIN p[b].insts, NEW i \in DOMAIN p[b].insts[n].dsts,
               n <= k, v = p[b].insts[n].dsts[i].val
        PROVE  v \in Defined(p, b, k)
    <3>1. <<n, i>> \in DefSites(p, b)
      BY <1>3
    <3>. QED
      BY <1>2, <1>5, <2>3, <3>1
  <2>. QED
    BY <2>1, <2>2, <2>3
<1>7. Defined(p, b, 0) = ParamVals(p, b)
  <2>1. \A v : v \in Defined(p, b, 0) <=> v \in ParamVals(p, b)
    BY <1>1, <1>6 DEF ParamVals
  <2>. QED
    BY <2>1
<1>8. ASSUME NEW k \in 0 .. Len(p[b].insts) - 1
      PROVE  Defined(p, b, k + 1)
               = Defined(p, b, k) \union { p[b].insts[k + 1].dsts[i].val :
                                             i \in DOMAIN p[b].insts[k + 1].dsts }
  <2>1. /\ k + 1 \in DOMAIN p[b].insts /\ 0 <= k /\ 0 <= k + 1
        /\ \A n \in DOMAIN p[b].insts : n <= k + 1 <=> n <= k \/ n = k + 1
    BY <1>1
  <2>2. \A v : v \in Defined(p, b, k + 1) <=>
          \/ v \in Defined(p, b, k)
          \/ \E i \in DOMAIN p[b].insts[k + 1].dsts : v = p[b].insts[k + 1].dsts[i].val
    BY <1>6, <2>1
  <2>. QED
    BY <2>2
<1>. QED
  BY <1>7, <1>8

\* What instructions, branches and edges read has been defined by then.
LEMMA ReadsAreDefined ==
  ASSUME NEW p \in Programs, NEW b \in Blocks(p)
  PROVE  /\ \A k \in DOMAIN p[b].insts : \A i \in DOMAIN p[b].insts[k].uses :
              p[b].insts[k].uses[i].val \in Defined(p, b, k - 1)
         /\ p[b].term.cond # NoVal =>
              p[b].term.cond \in Defined(p, b, Len(p[b].insts))
         /\ \A n \in DOMAIN p[b].term.edges : \A j \in DOMAIN p[b].term.edges[n].args :
              p[b].term.edges[n].args[j] \in Defined(p, b, Len(p[b].insts))
<1>1. ScopedUses(p)
  BY ProgramsAssumption DEF Verified, WellFormed
<1>2. Len(p[b].insts) \in Nat /\ DOMAIN p[b].insts = 1 .. Len(p[b].insts)
  BY BlockShape
<1>3. \A s \in DefSites(p, b) : s[1] \in Nat
  BY <1>2 DEF DefSites
<1>4. ASSUME NEW k \in Nat, NEW v, NEW ty, Sees(p, b, k, v, ty)
      PROVE  v \in Defined(p, b, k - 1)
  <2>1. PICK s \in DefSites(p, b) : s[1] < k /\ DefAt(p, b, s) = [val |-> v, ty |-> ty]
    BY <1>4 DEF Sees
  <2>2. s[1] <= k - 1 /\ DefAt(p, b, s).val = v
    BY <1>3, <2>1
  <2>. QED
    BY <2>2 DEF Defined
<1>5. \A k \in DOMAIN p[b].insts : k \in Nat
  BY <1>2
<1>6. Len(p[b].insts) + 1 \in Nat /\ Len(p[b].insts) + 1 - 1 = Len(p[b].insts)
  BY <1>2
<1>7. \A k \in DOMAIN p[b].insts : \A i \in DOMAIN p[b].insts[k].uses :
        Sees(p, b, k, p[b].insts[k].uses[i].val, p[b].insts[k].uses[i].ty)
  BY <1>1 DEF ScopedUses
<1>8. p[b].term.cond # NoVal => Sees(p, b, Len(p[b].insts) + 1, p[b].term.cond, "i1")
  BY <1>1 DEF ScopedUses
<1>9. \A n \in DOMAIN p[b].term.edges : \A j \in DOMAIN p[b].term.edges[n].args :
        Sees(p, b, Len(p[b].insts) + 1, p[b].term.edges[n].args[j],
             p[p[b].term.edges[n].to].params[j].ty)
  BY <1>1 DEF ScopedUses
<1>. QED
  BY <1>4, <1>5, <1>6, <1>7, <1>8, <1>9

\* A block's parameters have names of their own.
LEMMA ParametersDiffer ==
  ASSUME NEW p \in Programs, NEW b \in Blocks(p),
         NEW i \in DOMAIN p[b].params, NEW j \in DOMAIN p[b].params, i # j
  PROVE  p[b].params[i].val # p[b].params[j].val
<1>1. SingleDefs(p)
  BY ProgramsAssumption DEF Verified, WellFormed
<1>2. <<0, i>> \in DefSites(p, b) /\ <<0, j>> \in DefSites(p, b)
  BY DEF DefSites
<1>3. DefAt(p, b, <<0, i>>) = p[b].params[i] /\ DefAt(p, b, <<0, j>>) = p[b].params[j]
  BY DEF DefAt
<1>4. <<0, i>> # <<0, j>>
  OBVIOUS
<1>. QED
  BY <1>1, <1>2, <1>3, <1>4 DEF SingleDefs

\* A typed value's name is one of the program's.
LEMMA ValuesAreNamed ==
  ASSUME NEW s \in Seq(TypedVal), NEW i \in DOMAIN s
  PROVE  s[i].val \in Vals
<1>1. s[i] \in TypedVal
  OBVIOUS
<1>. QED
  BY <1>1 DEF TypedVal

\* A row begins with nothing defined.
LEMMA EntryDefinesNothing ==
  ASSUME NEW p \in Programs
  PROVE  Defined(p, Entry, 0) = {}
<1>1. p[Entry].params = <<>>
  BY ProgramsAssumption DEF Verified, WellFormed
<1>2. ParamVals(p, Entry) = {}
  BY <1>1 DEF ParamVals
<1>. QED
  BY <1>2, EntryIsABlock, DefinedSteps

-----------------------------------------------------------------------------
(***************************************************************************)
(* The invariant.                                                          *)
(***************************************************************************)

\* The arguments of the edges at the end of the block are visible there.
LEMMA ArgumentsVisible ==
  ASSUME TypeOK, Scoped, status = "running", ip = Len(Insts),
         NEW n \in DOMAIN Term.edges, NEW j \in DOMAIN Term.edges[n].args
  PROVE  Term.edges[n].args[j] \in DOMAIN env
<1>1. Term.edges[n].args[j] \in Defined(prog, block, Len(Insts))
  BY AtBlock, ReadsAreDefined DEF Term, Insts
<1>. QED
  BY <1>1 DEF Scoped

\* Values become visible when they are defined, and whatever a step makes
\* current has been.
LEMMA ScopedStep == TypeOK /\ Scoped /\ [Next]_vars => Scoped'
<1>. SUFFICES ASSUME TypeOK, Scoped, [Next]_vars
              PROVE  Scoped'
  OBVIOUS
<1>1. CASE Refuse \/ Abort
  <2>1. /\ UNCHANGED <<prog, block, ip, env, via>> /\ status' = "err"
    BY <1>1 DEF Refuse, Abort, rowVars, edgeVars
  <2>. QED
    BY <2>1 DEF Scoped, Insts
<1>2. CASE Call \/ Emit \/ Skip
  <2>1. /\ prog' = prog /\ block' = Entry /\ ip' = 0 /\ env' = <<>> /\ via' = 0
    BY <1>2 DEF Call, Emit, Skip, NextRow, AtTerm, Running, edgeVars, TypeOK
  <2>2. Defined(prog, Entry, 0) = {}
    BY AtBlock, EntryDefinesNothing
  <2>. QED
    BY <2>1, <2>2 DEF Scoped
<1>3. CASE Return
  <2>1. /\ UNCHANGED <<prog, block, ip, env, via>> /\ status' = "ok"
    BY <1>3 DEF Return, rowVars, edgeVars
  <2>. QED
    BY <2>1 DEF Scoped, Insts
<1>4. CASE Exec
  <2>1. /\ UNCHANGED <<prog, status, block, via>> /\ ip' = ip + 1 /\ via = 0
        /\ status = "running" /\ ip < Len(Insts)
        /\ DOMAIN env' = DOMAIN env \union Dsts
    BY <1>4 DEF Exec, Running, edgeVars
  <2>2. ip \in 0 .. Len(Insts) - 1 /\ ip + 1 \in DOMAIN Insts
    BY <2>1, AtBlock DEF TypeOK
  <2>3. Defined(prog, block, ip + 1) = Defined(prog, block, ip) \union Dsts
    BY <2>2, AtBlock, DefinedSteps DEF Insts, Inst, Dsts
  <2>4. Dsts \subseteq Vals
    <3>1. Inst \in Instruction
      BY <2>2, AtBlock DEF Inst
    <3>2. Inst.dsts \in Seq(TypedVal)
      BY <3>1 DEF Instruction
    <3>. QED
      BY <3>2, ValuesAreNamed DEF Dsts
  <2>. QED
    BY <2>1, <2>3, <2>4 DEF Scoped
<1>5. CASE Branch \/ EmitTo
  <2>1. /\ UNCHANGED <<prog, status, block, ip, env>> /\ ip = Len(Insts)
    BY <1>5 DEF Branch, EmitTo, AtTerm
  <2>. QED
    BY <2>1 DEF Scoped, Insts
<1>6. CASE Copy
  BY <1>6 DEF Copy, Scoped, Insts
<1>7. CASE Enter
  <2>1. via \in DOMAIN Term.edges
    BY <1>7 DEF Enter, TypeOK
  <2>2. Edge.to \in Blocks(prog) /\ prog[Edge.to].params \in Seq(TypedVal)
    BY <2>1, AtEdge DEF Edge
  <2>3. /\ prog' = prog /\ block' = Edge.to /\ ip' = 0 /\ via' = 0
        /\ DOMAIN env' = ParamVals(prog, Edge.to)
    BY <1>7 DEF Enter, Bound
  <2>4. Defined(prog, Edge.to, 0) = ParamVals(prog, Edge.to)
    BY <2>2, AtBlock, DefinedSteps
  <2>5. ParamVals(prog, Edge.to) \subseteq Vals
    BY <2>2, ValuesAreNamed DEF ParamVals
  <2>. QED
    BY <2>3, <2>4, <2>5 DEF Scoped
<1>8. CASE UNCHANGED vars
  BY <1>8 DEF vars, rowVars, edgeVars, Scoped, Insts
<1>. QED
  BY <1>1, <1>2, <1>3, <1>4, <1>5, <1>6, <1>7, <1>8 DEF Next, Step

\* The copies of an edge, one by one, come to what binding the parameters all
\* at once would give.
LEMMA ExactStep == TypeOK /\ Scoped /\ Exact /\ [Next]_vars => Exact'
<1>. SUFFICES ASSUME TypeOK, Scoped, Exact, [Next]_vars, (status = "running" /\ ClobberFree(prog))'
              PROVE  /\ via' = 0 => \A v \in DOMAIN env' : regs'[v] = env'[v]
                     /\ via' # 0 =>
                          /\ \A i \in DOMAIN Edge'.args :
                               i <= moved' =>
                                 regs'[prog'[Edge'.to].params[i].val] = env'[Edge'.args[i]]
                          /\ \A j \in DOMAIN Edge'.args :
                               j > moved' => regs'[Edge'.args[j]] = env'[Edge'.args[j]]
  BY DEF Exact
<1>0. prog' = prog /\ ClobberFree(prog)
  BY DEF Next, Step, Refuse, Call, Return, Exec, Abort, Branch, EmitTo, Copy, Enter, Emit,
         Skip, vars
<1>1. CASE Refuse \/ Abort \/ Return
  BY <1>1 DEF Refuse, Abort, Return
<1>2. CASE Call \/ Emit \/ Skip
  <2>1. env' = <<>> /\ via' = 0
    BY <1>2 DEF Call, Emit, Skip, NextRow, AtTerm, Running, edgeVars, TypeOK
  <2>. QED
    BY <2>1
<1>3. CASE Exec
  <2>1. /\ via' = 0 /\ via = 0 /\ status = "running"
    BY <1>3 DEF Exec, Running, edgeVars
  <2>2. PICK res \in [Dsts -> Data] :
          /\ regs' = [v \in Vals |-> IF v \in Dsts THEN res[v] ELSE regs[v]]
          /\ env' = [v \in DOMAIN env \union Dsts |-> IF v \in Dsts THEN res[v] ELSE env[v]]
    BY <1>3 DEF Exec
  <2>3. DOMAIN env' \subseteq Vals
    BY ScopedStep DEF Scoped
  <2>4. \A v \in DOMAIN env : regs[v] = env[v]
    BY <1>0, <2>1 DEF Exact
  <2>5. ASSUME NEW v \in DOMAIN env'
        PROVE  regs'[v] = env'[v]
    <3>1. v \in Vals /\ v \in DOMAIN env \union Dsts
      BY <2>2, <2>3
    <3>. QED
      BY <2>2, <2>4, <3>1
  <2>. QED
    BY <2>1, <2>5
<1>4. CASE Branch \/ EmitTo
  <2>1. /\ UNCHANGED <<prog, block, regs, env>> /\ moved' = 0 /\ via = 0
        /\ status = "running" /\ ip = Len(Insts) /\ via' \in DOMAIN Term.edges
    BY <1>4 DEF Branch, EmitTo, Leave, AtTerm, Running
  <2>2. Edge' = Term.edges[via']
    BY <2>1 DEF Edge, Term
  <2>3. Term.edges[via'].args \in Seq(Vals)
    BY <2>1, AtEdge
  <2>4. \A j \in DOMAIN Term.edges[via'].args :
          regs[Term.edges[via'].args[j]] = env[Term.edges[via'].args[j]]
    BY <1>0, <2>1, ArgumentsVisible DEF Exact
  <2>5. \A i \in DOMAIN Term.edges[via'].args : ~ (i <= 0)
    BY <2>3
  <2>6. via' # 0
    BY <2>1, AtBlock
  <2>. QED
    BY <2>1, <2>2, <2>4, <2>5, <2>6
<1>5. CASE Copy
  <2>. DEFINE params == prog[Edge.to].params
              k      == moved + 1
  <2>1. /\ UNCHANGED <<prog, block, env, via>> /\ moved' = k
        /\ status = "running" /\ via # 0 /\ moved < Len(Edge.args)
        /\ regs' = [regs EXCEPT ![params[k].val] = regs[Edge.args[k]]]
    BY <1>5 DEF Copy, Pick
  <2>2. via \in DOMAIN Term.edges /\ moved \in Nat /\ regs \in [Vals -> Data]
    BY <2>1 DEF TypeOK
  <2>3. /\ Edge.args \in Seq(Vals) /\ Len(Edge.args) \in Nat
        /\ params \in Seq(TypedVal) /\ Len(Edge.args) = Len(params)
        /\ Edge.to \in Blocks(prog)
    BY <2>2, AtEdge DEF Edge
  <2>4. k \in DOMAIN Edge.args /\ DOMAIN params = DOMAIN Edge.args
    BY <2>1, <2>2, <2>3
  <2>5. \A i \in DOMAIN Edge.args : Edge.args[i] \in Vals /\ params[i].val \in Vals
    BY <2>3, <2>4, ValuesAreNamed
  <2>6. Edge' = Edge
    BY <2>1 DEF Edge, Term
  <2>7. regs[Edge.args[k]] = env[Edge.args[k]]
    BY <1>0, <2>1, <2>2, <2>4 DEF Exact
  <2>8. ASSUME NEW i \in DOMAIN Edge.args, i <= k
        PROVE  regs'[params[i].val] = env[Edge.args[i]]
    <3>1. CASE i = k
      BY <2>1, <2>2, <2>4, <2>5, <2>7, <3>1
    <3>2. CASE i # k
      <4>1. i <= moved
        BY <2>2, <2>3, <2>8, <3>2
      <4>2. regs[params[i].val] = env[Edge.args[i]]
        BY <1>0, <2>1, <4>1 DEF Exact
      <4>3. params[i].val # params[k].val
        BY <2>3, <2>4, <3>2, AtBlock, ParametersDiffer
      <4>. QED
        BY <2>1, <2>2, <2>5, <4>2, <4>3
    <3>. QED
      BY <3>1, <3>2
  <2>9. ASSUME NEW j \in DOMAIN Edge.args, j > k
        PROVE  regs'[Edge.args[j]] = env[Edge.args[j]]
    <3>1. j > moved
      BY <2>2, <2>3, <2>9
    <3>2. regs[Edge.args[j]] = env[Edge.args[j]]
      BY <1>0, <2>1, <3>1 DEF Exact
    <3>3. Edge.args[j] # params[k].val
      <4>1. k < j
        BY <2>2, <2>3, <2>9
      <4>. QED
        BY <1>0, <2>2, <2>4, <4>1, AtBlock DEF ClobberFree, Edge, Term
    <3>. QED
      BY <2>1, <2>2, <2>5, <3>2, <3>3
  <2>. HIDE DEF k
  <2>. QED
    BY <2>1, <2>6, <2>8, <2>9
<1>6. CASE Enter
  <2>1. /\ regs' = regs /\ env' = Bound(Edge) /\ via' = 0
        /\ status = "running" /\ via # 0 /\ moved = Len(Edge.args)
    BY <1>6 DEF Enter
  <2>2. via \in DOMAIN Term.edges
    BY <2>1 DEF TypeOK
  <2>3. /\ Edge.args \in Seq(Vals) /\ Len(Edge.args) \in Nat
        /\ prog[Edge.to].params \in Seq(TypedVal)
        /\ Len(Edge.args) = Len(prog[Edge.to].params)
    BY <2>2, AtEdge DEF Edge
  <2>4. ASSUME NEW v \in ParamVals(prog, Edge.to)
        PROVE  regs[v] = Bound(Edge)[v]
    <3>. DEFINE Of(i) == i \in DOMAIN Edge.args /\ prog[Edge.to].params[i].val = v
                c == CHOOSE i \in DOMAIN Edge.args : prog[Edge.to].params[i].val = v
    <3>1. \E i \in DOMAIN Edge.args : prog[Edge.to].params[i].val = v
      BY <2>3, <2>4 DEF ParamVals
    <3>2. c \in DOMAIN Edge.args /\ prog[Edge.to].params[c].val = v
      BY <3>1
    <3>3. Bound(Edge)[v] = env[Edge.args[c]]
      BY <2>4 DEF Bound
    <3>. HIDE DEF c
    <3>4. c <= moved
      BY <2>1, <2>3, <3>2
    <3>. QED
      BY <1>0, <2>1, <3>2, <3>3, <3>4 DEF Exact
  <2>5. DOMAIN Bound(Edge) = ParamVals(prog, Edge.to)
    BY DEF Bound
  <2>. QED
    BY <2>1, <2>4, <2>5
<1>7. CASE UNCHANGED vars
  BY <1>7 DEF vars, rowVars, edgeVars, Exact, Edge, Term
<1>. QED
  BY <1>1, <1>2, <1>3, <1>4, <1>5, <1>6, <1>7 DEF Next, Step

\* What is read is what block and ip have defined.
LEMMA RegistersFromInv == TypeOK /\ Scoped /\ Exact => RegistersAreExact
<1>. SUFFICES ASSUME TypeOK, Scoped, Exact, status = "running"
              PROVE  RegistersAreExact
  BY DEF RegistersAreExact, ReadsAreOfThisVisit, CopiesAreExact
<1>1. /\ ip \in 0 .. Len(Insts) /\ Len(Insts) \in Nat /\ DOMAIN Insts = 1 .. Len(Insts)
      /\ prog \in Programs /\ block \in Blocks(prog)
  BY AtBlock DEF TypeOK
<1>2. ASSUME ip < Len(Insts), NEW i \in DOMAIN Insts[ip + 1].uses
      PROVE  Insts[ip + 1].uses[i].val \in DOMAIN env
  <2>. DEFINE k == ip + 1
  <2>1. k \in DOMAIN Insts /\ k - 1 = ip
    BY <1>1, <1>2
  <2>2. Insts[k].uses[i].val \in Defined(prog, block, k - 1)
    <3>. HIDE DEF k
    <3>1. \A m \in DOMAIN Insts : \A u \in DOMAIN Insts[m].uses :
            Insts[m].uses[u].val \in Defined(prog, block, m - 1)
      BY <1>1, ReadsAreDefined DEF Insts
    <3>2. i \in DOMAIN Insts[k].uses
      BY <1>2 DEF k
    <3>. QED
      BY <2>1, <3>1, <3>2
  <2>. QED
    BY <2>1, <2>2 DEF Scoped
<1>3. ASSUME ip = Len(Insts), Term.cond # NoVal
      PROVE  Term.cond \in DOMAIN env
  <2>1. Term.cond \in Defined(prog, block, ip)
    BY <1>1, <1>3, ReadsAreDefined DEF Insts, Term
  <2>. QED
    BY <2>1 DEF Scoped
<1>4. ReadsAreOfThisVisit
  BY <1>2, <1>3, ArgumentsVisible DEF ReadsAreOfThisVisit
<1>5. CopiesAreExact
  BY DEF Exact, CopiesAreExact
<1>. QED
  BY <1>4, <1>5 DEF RegistersAreExact

\* Registers hold what SSA says they hold, for every verified program: nothing
\* is read that was not written during this visit of its block, and the
\* argument copies of a branch cannot be told from an assignment made at once,
\* unless an edge reads a parameter of its target after overwriting it.
THEOREM RegistersAreAlwaysExact == Spec => []RegistersAreExact
<1>1. Init => Scoped /\ Exact
  <2>. SUFFICES ASSUME Init
                PROVE  Scoped /\ Exact
    OBVIOUS
  <2>. QED
    BY DEF Init, Fresh, Scoped, Exact
<1>2. Spec => []TypeOK
  BY TypeCorrect
<1>. QED
  BY <1>1, <1>2, RegistersFromInv, ScopedStep, ExactStep, PTL DEF Spec
=============================================================================
