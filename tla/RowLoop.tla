------------------------------ MODULE RowLoop -------------------------------
(***************************************************************************)
(* The interpreter's `run' (packages/confit/src/specializer/exec/          *)
(* interp.rs): one call walks the program once per input row, reading      *)
(* registers, pushing cells onto the output columns, and counting a row at *)
(* each emit. The RunState -- registers, output columns, row count --      *)
(* outlives the call and is used again by the next one.                    *)
(*                                                                         *)
(* A cell is <<input row, output row>>: the row being processed and the    *)
(* number of the output row being built when it was stored. A register     *)
(* holds a token of Data. `env' is a history variable: what the values     *)
(* visible in the current block are by the rules of SSA, where all of a    *)
(* branch's arguments are read before any parameter is bound.              *)
(***************************************************************************)
EXTENDS IR

CONSTANTS
  Programs,  \* the programs compiled: compile_ext runs `verify' first
  Data,      \* what a register can hold
  MaxRows,   \* bound: input rows of one call
  MaxEmits   \* bound: output rows of one call (guards `emit.to' only)

ASSUME ProgramsAssumption == \A p \in Programs : IsProgram(p) /\ Verified(p)

ASSUME RowLoopAssumption ==
  MaxRows \in Nat /\ MaxEmits \in Nat /\ {0, 1} \subseteq Data

VARIABLES
  prog,      \* the compiled program
  status,    \* "idle" before any call, "running", then "ok" or "err"
  rows,      \* input.rows
  row,       \* the input row being processed
  block,     \* bi: the current block
  ip,        \* instructions of it already run
  regs,      \* st.regs
  env,       \* history: visible values by the rules of SSA
  via,       \* the edge being followed, 0 inside a block
  moved,     \* the argument copies of that edge already made
  out,       \* st.out: the cells of each column
  count,     \* run's local `emitted'
  emitted    \* st.emitted, the count the caller reads

edgeVars == <<via, moved>>
rowVars  == <<row, block, ip, regs, env, edgeVars>>
vars     == <<prog, status, rows, rowVars, out, count, emitted>>

Insts == prog[block].insts
Term  == prog[block].term

Edge  == Term.edges[via]

\* Mutant: one row too many.
RunningPast == status = "running" /\ row <= rows /\ via = 0

\* Control is inside a block of a row still to be finished, or at its end.
Running == status = "running" /\ row < rows /\ via = 0
AtTerm  == Running /\ ip = Len(Insts)

(***************************************************************************)
(* Calls.                                                                  *)
(***************************************************************************)

\* check_input or check_state refuses the batch: nothing of the RunState has
\* been touched yet.
Refuse ==
  /\ status # "running"
  /\ status' = "err"
  /\ UNCHANGED <<prog, rows, rowVars, out, count, emitted>>

Uncleared == out   \* mutant: the last call's cells stay
Cleared == [c \in Cols |-> <<>>]

\* A call of n rows: the output is cleared, the registers are not.
Call ==
  /\ status # "running"
  /\ rows' \in 0 .. MaxRows
  /\ status' = "running"
  /\ out' = Cleared
  /\ count' = 0 /\ emitted' = 0
  /\ row' = 0 /\ block' = Entry /\ ip' = 0 /\ env' = <<>>
  /\ UNCHANGED <<prog, regs, edgeVars>>

Consumed == row     \* mutant: the input rows
Published == count

\* Only a call that ends well publishes its row count.
Return ==
  /\ status = "running" /\ row >= rows
  /\ status' = "ok"
  /\ emitted' = Published
  /\ UNCHANGED <<prog, rows, rowVars, out, count>>

(***************************************************************************)
(* One instruction, then one terminator.                                   *)
(***************************************************************************)

Inst == Insts[ip + 1]
Dsts == { Inst.dsts[i].val : i \in DOMAIN Inst.dsts }

\* The instruction's results are of no interest here, its effects are: it
\* writes its destinations and pushes the cell it stores.
Exec ==
  /\ Running /\ ip < Len(Insts)
  /\ \E res \in [Dsts -> Data] :
       /\ regs' = [v \in Vals |-> IF v \in Dsts THEN res[v] ELSE regs[v]]
       /\ env' = [v \in DOMAIN env \union Dsts |->
                    IF v \in Dsts THEN res[v] ELSE env[v]]
  /\ out' = [c \in Cols |-> IF Inst.col = c THEN Append(out[c], <<row, count>>)
                            ELSE out[c]]
  /\ ip' = ip + 1
  /\ UNCHANGED <<prog, status, rows, row, block, edgeVars, count, emitted>>

\* A fallible instruction or a `trap' terminator voids the call where it is.
Abort ==
  /\ Running
  /\ \/ ip < Len(Insts)
     \/ AtTerm /\ Term.op = "trap"
  /\ status' = "err"
  /\ UNCHANGED <<prog, rows, rowVars, out, count, emitted>>

(***************************************************************************)
(* Branches. do_moves copies an edge's arguments to its target's           *)
(* parameters one after the other, each copy reading what the ones before  *)
(* it have written.                                                        *)
(***************************************************************************)

\* The arm a branch takes; a branch whose condition is left out of the model
\* may take either.
Taken(i) ==
  Term.op = "brif" /\ Term.cond # NoVal =>
    i = IF regs[Term.cond] = 1 THEN 1 ELSE 2

Leave == via' \in DOMAIN Term.edges /\ Taken(via') /\ moved' = 0

Branch ==
  /\ AtTerm
  /\ Term.op \in {"jump", "brif"}
  /\ Leave
  /\ UNCHANGED <<prog, status, rows, row, block, ip, regs, env, out, count, emitted>>

EmitToUncounted ==   \* mutant
  /\ AtTerm
  /\ Term.op = "emit.to" /\ count < MaxEmits
  /\ Leave
  /\ UNCHANGED <<prog, status, rows, row, block, ip, regs, env, out, count, emitted>>

EmitTo ==
  /\ AtTerm
  /\ Term.op = "emit.to" /\ count < MaxEmits
  /\ count' = count + 1
  /\ Leave
  /\ UNCHANGED <<prog, status, rows, row, block, ip, regs, env, out, emitted>>

LastFirst(k) == Len(Edge.args) - k   \* mutant: the last copy first

\* The copy to make when k are made.
Pick(k) == k + 1

Copy ==
  /\ status = "running" /\ via # 0 /\ moved < Len(Edge.args)
  /\ LET k == Pick(moved) IN
     regs' = [regs EXCEPT ![prog[Edge.to].params[k].val] = regs[Edge.args[k]]]
  /\ moved' = moved + 1
  /\ UNCHANGED <<prog, status, rows, row, block, ip, env, via, out, count, emitted>>

\* What the parameters of e.to are by the rules of SSA.
Bound(e) ==
  [v \in ParamVals(prog, e.to) |->
     env[e.args[CHOOSE i \in DOMAIN e.args : prog[e.to].params[i].val = v]]]

Enter ==
  /\ status = "running" /\ via # 0 /\ moved = Len(Edge.args)
  /\ block' = Edge.to /\ ip' = 0
  /\ env' = Bound(Edge)
  /\ via' = 0 /\ moved' = 0
  /\ UNCHANGED <<prog, status, rows, row, regs, out, count, emitted>>

NextRow == row' = row + 1 /\ block' = Entry /\ ip' = 0 /\ env' = <<>>

Emit ==
  /\ AtTerm
  /\ Term.op = "emit"
  /\ count' = count + 1
  /\ NextRow
  /\ UNCHANGED <<prog, status, rows, regs, edgeVars, out, emitted>>

SkipStays ==   \* mutant: the row is not advanced
  /\ AtTerm
  /\ Term.op = "skip"
  /\ block' = Entry /\ ip' = 0 /\ env' = <<>>
  /\ UNCHANGED <<prog, status, rows, row, regs, edgeVars, out, count, emitted>>

Skip ==
  /\ AtTerm
  /\ Term.op = "skip"
  /\ NextRow
  /\ UNCHANGED <<prog, status, rows, regs, edgeVars, out, count, emitted>>

-----------------------------------------------------------------------------
\* `new_state': every register zero, every column empty.
Fresh ==
  /\ status = "idle" /\ rows = 0 /\ row = 0 /\ block = Entry /\ ip = 0
  /\ regs = [v \in Vals |-> 0] /\ env = <<>> /\ via = 0 /\ moved = 0
  /\ out = [c \in Cols |-> <<>>] /\ count = 0 /\ emitted = 0

Init == prog \in Programs /\ Fresh

Step == \/ Exec \/ Abort \/ Branch \/ EmitTo \/ Copy \/ Enter
        \/ Emit \/ Skip \/ Return

Next == Refuse \/ Call \/ Step

\* A call that has begun runs on until it returns.
Spec == Init /\ [][Next]_vars /\ WF_vars(Step)

-----------------------------------------------------------------------------
(***************************************************************************)
(* Properties.                                                             *)
(***************************************************************************)

TypeOK ==
  /\ prog \in Programs
  /\ status \in {"idle", "running", "ok", "err"}
  /\ rows \in 0 .. MaxRows /\ row \in 0 .. rows
  /\ block \in Blocks(prog) /\ ip \in 0 .. Len(Insts)
  /\ regs \in [Vals -> Data]
  /\ via \in {0} \union DOMAIN Term.edges /\ moved \in Nat
  /\ via # 0 => status = "running" /\ row < rows /\ moved <= Len(Edge.args)
  /\ out \in [Cols -> Seq((0 .. MaxRows) \X Nat)]
  /\ count \in Nat /\ emitted \in Nat

\* Whenever a row begins or a call has returned Ok, every column holds exactly
\* one cell per emitted row: no path stores a column twice, emits a row with a
\* column missing, or skips a row it has begun to store.
AtBoundary == \/ status = "running" /\ block = Entry /\ ip = 0 /\ via = 0
              \/ status = "ok"

ColumnsComplete == AtBoundary => \A c \in Cols : Len(out[c]) = count

\* The k-th cells of all the columns belong to one output row, the k-th: a row
\* is never assembled from cells stored for different rows.
RowsNotMixed ==
  status \in {"running", "ok"} =>
    \A c \in Cols : \A k \in DOMAIN out[c] :
      /\ out[c][k][2] = k - 1
      /\ \A d \in Cols : k \in DOMAIN out[d] => out[d][k] = out[c][k]

\* What the caller reads after Ok is the whole answer; after a trap the count
\* is zero although cells of the void call may be left behind.
AnswerIsWhole ==
  /\ status = "ok" => emitted = count /\ \A c \in Cols : Len(out[c]) = emitted
  /\ status = "running" => emitted = 0

\* Every register an instruction or a branch reads was written during this
\* visit of its block, for this row: the frame is shared by all blocks, rows
\* and calls, and never cleared.
ReadsAreOfThisVisit ==
  status = "running" =>
    /\ ip < Len(Insts) =>
         \A i \in DOMAIN Insts[ip + 1].uses : Insts[ip + 1].uses[i].val \in DOMAIN env
    /\ ip = Len(Insts) =>
         /\ Term.cond # NoVal => Term.cond \in DOMAIN env
         /\ \A i \in DOMAIN Term.edges : \A j \in DOMAIN Term.edges[i].args :
              Term.edges[i].args[j] \in DOMAIN env

\* Every branch leaves its target's parameters as SSA binds them, all at once,
\* although the copies are made one by one -- in programs whose every edge
\* reads a parameter of its target, if it does, before overwriting it. Such
\* reads exist only on an edge from a block to itself.
ClobberFree(p) ==
  \A b \in Blocks(p) : \A n \in DOMAIN p[b].term.edges :
    LET e == p[b].term.edges[n] IN
    \A i, j \in DOMAIN e.args : i < j => e.args[j] # p[e.to].params[i].val

CopiesAreExact ==
  status = "running" /\ via = 0 /\ ClobberFree(prog) =>
    \A v \in DOMAIN env : regs[v] = env[v]

\* Registers hold what SSA says they hold: what is read was written during
\* this visit, and branch arguments arrive as they were passed.
RegistersAreExact == ReadsAreOfThisVisit /\ CopiesAreExact

\* A call of a program without loops ends.
LoopFreeCallsEnd == (status = "running" /\ Acyclic(prog)) ~> (status # "running")

\* The answer under construction, seen as whole rows: the first `count' cells
\* of every column. A column that lacks one shows as -1.
Answer ==
  [k \in 1 .. count |->
     [c \in Cols |-> IF k \in DOMAIN out[c] THEN out[c][k][1] ELSE -1]]

Promise == INSTANCE BatchAnswer WITH
  Columns <- Cols, MaxInput <- MaxRows,
  state <- status, input <- rows, next <- row,
  answer <- Answer, published <- emitted

\* Running a disciplined program keeps the promise of a call: whole rows, in
\* input order, published at the end or not at all.
KeepsPromise == Promise!Spec
=============================================================================
