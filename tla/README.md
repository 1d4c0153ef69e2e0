# Verification of sql-transforms

This directory holds TLA+ models of the program in this repository, the TLC runs
that check them and the TLAPS proofs about them. The repository has two
packages:

* `packages/confit`, a serving engine (Rust, a Python extension module). It
  compiles one SQL query over one row table and some static tables into a
  function `infer_rows` that answers a request in the way DuckDB would.
* `packages/sql-transform` (Python), which fits a pipeline of SQL templates and
  steps to training data with DuckDB and compiles what was fitted into a query
  for the engine.

`packages/confit/fuzz` holds the differential campaign that compares the two
engines on generated queries for days at a time.

## The system

### The compiler and its two executors

`DuckDBInferFn::new` (`src/duckdb/mod.rs`) binds the SQL (`specializer/frontend`),
lowers the plan (`specializer/lower.rs`) to a *row program* (`specializer/ir`),
verifies it (`ir/verify.rs`), and compiles it, with Cranelift
(`exec/cranelift.rs`) or, for queries that may give several rows per request
row, to closures (`exec/interp.rs`). A row program has basic blocks with
parameters. A block's instructions define values, or store a cell of an output
column; its terminator branches, or ends the row (`emit`, `skip`, `trap`), or
completes an output row and goes on (`emit.to`).

| part | state | operations | what makes it correct |
|---|---|---|---|
| IR verifier (`ir/verify.rs`) | error list, definitions, DFS colours, back edges, worklist, in-degrees, entry states | one pass per rule | it accepts a program exactly if the rules at the head of the file hold; it ends on every program, cyclic ones included; a dead block hides no error of a live one |
| Row interpreter (`exec/interp.rs`) | `RunState`: registers, output columns, arena, row count; reused by every call | `run`: clear, then per row execute, branch, emit or skip | after `Ok` all columns have as many cells as rows were emitted and each row's cells are its own; a register is never read before this visit of its block wrote it; a failed call publishes nothing and spoils no later call |
| Cranelift executor (`exec/cranelift.rs`, `exec/size.rs`) | the same `RunState`, a context with scratch slots and a trap flag | `vreg_floor`, code generation, `compute_once`, and the same `run` with a compiled row function that answers 0 (emit), 1 (skip) or a trap code | each row ends and is stored as the interpreter would; what is refused for its size is too large |
| Lowering of joins (`lower.rs`) | the program under construction; at run time, the state of the open match loops, carried in block parameters | one block builder per plan operator | the nested loops emit the rows of the SQL join in FROM order; a join's keys are evaluated for exactly the rows that reach it; every row ends |
| Lowering of expressions (`fold.rs`, `share.rs`, `plan.rs`, `lower.rs`) | the live stack: slots, shared values and joined lanes that are still to be read; caches of calls and probes, one per block | fold, share, emit a lane and a validity flag per expression | a row has SQL's value, SQL's NULL or SQL's trap, although lanes are computed under flags SQL does not have |
| Static tables (`duckdb/mod.rs: materialize_map`, `materialize_aggs`, `materialize_rows`; `interp.rs: prepare_statics`, `cmp_key`) | sorted entries; per-group accumulators | flatten, canonicalise, accumulate and sort; probe, range probe | a probe finds the rows SQL's `=` or IS NOT DISTINCT FROM finds; a table whose answer could depend on the order of its rows is refused |
| Subqueries (`specializer/frontend/subquery.rs`) | hidden LEFT joins, guards and scans of the plan | split of a subquery's WHERE, placing of its join, answer for a miss | values and traps are those of DuckDB, which evaluates a subquery over the distinct correlated values of a batch |
| Rest of the front end (`specializer/frontend`, `rewrite.rs`, ...) | a typed plan | binding, typing, refusals | same meaning as DuckDB, or a refusal |
| IR text (`ir/print.rs`, `ir/parse.rs`) | tokens, table of value names | print, parse | a program comes back from its text as it was; what is accepted is what the text says |
| Kernels (`exec/kernels.rs`, `hugeint.rs`, ...) | none | scalar functions | same value as DuckDB |

### The Python boundary

`DuckDBInferFn` (`src/duckdb/mod.rs`) keeps a `Marshaller`: input columns and a
`RunState`, both reused from call to call, behind a `RefCell`. Marshalling a row
reads Python attributes, and running one may call a Python function: either may
raise, or call `infer_rows` of the same object again. A call that finds the cell
borrowed builds buffers of its own.

What makes it correct: each call answers its own rows, whatever was nested in
it or failed before it.

### Authoring and fitting

`sql_transform` keeps fitted state in DuckDB sessions. `_program.py` hands out
*leases* on the relations that a fitted object serves from, gives them back when
the last user is gone, and settles a pipeline's templates before it runs them.

A query is written over `__FIT__` and `__THIS__`. `_plan.py`, `_analysis.py` and
`_correlate.py` *freeze* it: whatever reads `__FIT__` alone becomes a step that
runs once at fit and is registered under a parameter's name; a subquery over
`__FIT__` that is correlated with a row of `__THIS__` is lifted to a table of its
keys and a LEFT join. The residual query reads those tables and `__THIS__`.

What makes it correct: a relation is alive while a lease on it is, and is
dropped once none is; a failure half-way leaves nothing behind; what is served
from the frozen steps is what the text itself answers over both relations.

### The campaign

`fuzz/runner.py` drives worker processes: each worker takes the next seed from a
shared counter, announces it before running it, and reports when done. A timer
kills a worker that is silent for too long; a dead worker is replaced, and the
seed it had announced is blamed.

What makes it correct: no seed is run twice or lost, a line is taken for the
seed it answers, a crash is blamed on the seed that caused it, a finding once
made is not lost to the readings that follow it, and the campaign ends.

### How the parts interact

`sql_transform` freezes a text, runs its steps and hands `confit` the residual
query and the fitted tables; `DuckDBInferFn::new` calls the front end, which folds
constants and turns subqueries into joins, the materialisation of the static
tables, the lowering, which shares repeated expressions, the verifier and an
executor, and keeps the compiled function. The verifier is the
contract between lowering and executors: both executors assume of a program what
the verifier accepted, and check none of it. Leases belong to `sql_transform`
alone. The campaign reaches both engines through their public interfaces, each
case in a worker process.

## Which module models which part

The compiler's contract:

| module | models |
|---|---|
| `IR` | the shape of programs: blocks, instructions reduced to what they read, define and store, terminators and their edges; and the rules of `verify.rs`, declaratively: reachability, store discipline as the existence of one entry state per block, single assignment, scoped and typed uses |
| `Verifier` | the verifier, pass by pass, one action per turn of a loop |
| `RowLoop` | `InterpFn::run`: one action per instruction, terminator and argument copy |
| `BatchAnswer` | what a call of `run` promises: whole rows, in input order, published at the end or never |
| `VerifiedRun` | `compile_ext`: the verifier, then runs of what it accepted |
| `RowLoopProofs`, `VerifierProofs` | theorems about the row loop; about the verifier, and about the two together |

Compiled code:

| module | models |
|---|---|
| `RowOps` | what each opcode computes, as `interp.rs` defines it: kernels over symbolic terms |
| `Helpers` | the functions compiled code calls, and apart from them the signatures it calls them under |
| `Codegen` | the code `cranelift.rs` builds for a program |
| `ComputeOnce` | `compute_once`: which values are pinned to be computed once |
| `SizeFloor` | `vreg_floor` (`size.rs`), and what is left of the built function after optimisation, to compare it with |
| `CompiledRow` | the three refusals for size, the choice of executor, and `run` over compiled code, beside the interpreter's reading of the same row |

Expressions:

| module | models |
|---|---|
| `SqlExpr` | the bound expressions and plans (`plan.rs`), and what SQL answers for them: the reference |
| `ConstantFold` | `fold.rs`; which expressions can trap, and what of a dropped sibling must still be evaluated (`plan.rs`) |
| `Sharing` | `share.rs`: repeated expressions as definitions, repeated checks dropped |
| `EmitExpr` | the code `FB::emit` of `lower.rs` builds, as operators that run it over one row: lanes, flags, masks, checks, calls, probes |
| `Expressions` | the state machine over them: a plan is folded, each stage shared, its columns emitted on the live stack, to the end of the row |

Tables, joins and subqueries:

| module | models |
|---|---|
| `StaticMaps` | the keys of static tables as they are flattened, canonicalised, sorted and searched |
| `FloatSum` | `ExactSum` and the bound on a DOUBLE sum, over a format small enough to enumerate |
| `StaticTables` | `materialize_map`, `materialize_aggs`, `materialize_rows`: one row of the table per step |
| `JoinLoops` | the row code of a query with joins over those tables: one action per block the lowering emits |
| `JoinLoopsProofs` | theorems about the joins and their tables |
| `Subqueries` | how `subquery.rs` binds subqueries, how the build fills their tables, and what a batch of requests reads through them |
| `SubqueriesProofs` | theorems about them |

The rest:

| module | models |
|---|---|
| `IRText`, `IRParse`, `IRRoundTrip` | programs with all their operands, their text as tokens, the parser action by action, and a text edited on the way |
| `ServeBoundary` | `infer_rows` and `infer_arrow`: marshalling, the borrowed `Marshaller`, nested and failing calls |
| `FitQuery` | queries over `__FIT__` and `__THIS__` as trees (`_nodes.py`), and what DuckDB answers for one |
| `Freezing` | `_plan.py`, `_analysis.py`, `_correlate.py`: text to steps and residual query |
| `FrozenServing` | the fit of the steps and the serving of the residual (`_program.py`) |
| `Leases` | `_program.py`: what an execution registers on a connection its caller lent, and gives back |
| `CampaignRunner` | `runner.py` and `worker.py`: driver threads, workers, timers |
| `ServeBoundaryProofs`, `LeasesProofs`, `CampaignProofs` | theorems about these three |
| `SharedLemmas` | what several proofs need: stacks, least numbers, numbered sets, sums |
| `MC...` | families of programs, plans and texts, and the instances TLC checks |

### Compiler and row loop

A program is a function from block numbers to blocks. In `Verifier` and `RowLoop`
an instruction is its typed operands, its typed results and the column it stores:
the opcodes differ in what they compute and in their signatures, and control
depends on neither. What an instruction computes is any value of `Data`; whether
it traps is a choice. A condition may be left out of a program (`NoVal`), and
then either arm may be taken.

The rules of `verify.rs` on declarations and on what a name stands for (the
function's own name, output columns that repeat one, models without features, the
kind of a static, `.opt` forms and the nullability of their columns) read a
program's operands and no pass's state. They are in `IRText`, where operands are
kept: `StructureOK`, `KindOK`, `NameOK`. `IRText.Verified` joins them to the rules
of `IR`, of which it is an instance (`Rules`, `AsIR`).

`Verifier.errs` holds the errors as a set of rule and block. The DFS stack, the
back edges, the worklist of the backward search, Kahn's in-degrees and stack and
the entry states are variables named as in the code.

`RowLoop.out` holds, for each column, the cells pushed so far; a cell is the
input row and the number of the output row it was stored for. `env` is a history
variable with the values that SSA would bind; the interpreter's registers are
compared with it.

### Compiled code

Values are terms: the kernel that computed them over its arguments. The two
executors agree when they store the same term. Of a term two things are asked,
whether an `i1` is true and whether a call traps; `known` remembers the answers,
so that both executors get the same. `Codegen` gives each IR block a chain of
pieces, split where the context's trap flag is read after a call. A string is two
words and a 128-bit value two halves, written through scratch slots that the next
call overwrites: a slot read too late, or a half swapped, is another term. What
Cranelift does with the code it is handed is external; of its optimiser,
`ComputeOnce` and `SizeFloor` assume only that it drops what is not read and
computes a pure value where it is read.

### Expressions

`SqlExpr.Sql` evaluates as SQL does: a value, NULL, or the first trap. The
emitted code instead computes lanes, a payload and a flag, in an order of its
own, and the payload under a false flag is whatever came out. `EmitExpr` keeps
that payload, so an instruction that traps on it is seen to. Two lanes carry
integers: `i64`, with a narrow width that is checked when the result leaves it,
and `i128`, which also carries UBIGINT. The types are four ranges in one another,
as in the code, only smaller: `i8` is -2..1, `i64` -4..3, `u64` 0..5 and `i128`
-8..7, so that each cast can fail and each checked operation overflow. Doubles
are the integers up to the ends of `i128`, with the infinities and NaN in
DuckDB's order; a string is its length and, when it is parsed, the number it
spells; an opcode is one of its family. The row's columns are enumerated over the
ends of their types.

### Static tables and joins

A table is read one row a step, in any order of its rows: DuckDB's order is not
the build's. `JoinLoops` then runs one input row. A key cell stands for the bits
of a DOUBLE, or NULL: the type for which the bits and the value disagree (`0.0`
and `-0.0`). A map whose value column is declared not to hold NULLs is refused when
a row that has a key holds one (`NullRefused`). `frames` is the part of the
lowering's live stack that belongs to open loops: index, end, hit flag and the lanes
of the row read, the row's number standing for its lanes. ON, WHERE and a fold's predicate are sets of the cells on
which they are TRUE. The reference is in the same modules: `Extensions`,
`Reaching` and `Expected` define the join over the tables themselves, without
entries, ranges or flags, and the aggregate of a group over the set of its rows.

### Subqueries

The reference evaluates every subquery as DuckDB does: once for the distinct
correlated values of the batch that reach it, a term that traps ending the whole
batch if it reaches it. A side of a comparison is what it reads and the values it
traps on. The module then splits the WHERE into keys, filters and guards, places
the hidden join before or after the WHERE, builds the table and answers each
request through it.

### The serving boundary

`calls` is the stack of calls under way; a cell remembers the call, row and lane
it was read for, so that an answer made of another call's cells can be told.
`cols`, `valid` and `out` are the `Marshaller`'s, `borrowed` is its `RefCell`. A
column's payloads and its validity bits are two vectors: a value that is refused
(`ValueRefused`) may leave a bit behind without a payload (`MarkedFirst` are the
lanes where it does), which nothing but the next call's clearing removes; a batch
whose nullable columns have not a bit for every row is refused (`Fits`). Between any
two attribute reads, and in any row of a run, Python may raise or call again.
`infer_arrow` and the generic path have columns of their own in their frame.

### IR text

A text is a sequence of tokens. The parser keeps `ids`, its table of value names,
and reads one declaration, block head, instruction or terminator per action, in
the order of the code, with its refusals. An edit drops, doubles, swaps or
replaces one token of the text before it is read. `Printable` describes the
verified programs whose text is read back as the same program, `RoundTripIsLossless`
says of each source that it is read back exactly if it is one of them.

### Freezing

A query is a tree of records, and `Answer` in `FitQuery` says what DuckDB returns
for it over given relations: rows, and the faults met on the way. `Freezing`
threads a plan through the walks of the Python code: which subtrees read
`__FIT__` alone, which subqueries are lifted and over which keys, what an
aggregate answers for a key it was not fitted on, and why a text is refused.
`FrozenServing` registers each step's table by its folded name, as a connection
does, and gives an intermediate back after its last reader.

### Leases

`stack` holds the executions and the releases under way: user code runs in an
execution's body and may start another, and the collector may run a finalizer at
any point of Python code. `catalog` is the connection's registered names, each
with the execution that registered it. A registration may fail, and so may every
removal (`RemovalMayFail`).

### The campaign

`driver`, `worker`, `timer` and `doomed` are functions of the driver thread: each
owns one worker, and one timer at a time. A read is `readline`, then `cancel`,
then the look at `fired`, as three steps; the timer expires, sets `f` and kills as
three steps of its own, so that each interleaving of the two is there. The pipe
to a driver is `worker[d].out`; a killed worker's lines stay readable, and with
`TornLines` a kill may cut one.

## The runs

| run | instance | shows |
|---|---|---|
| `verified_runs` | 32768 programs of three blocks and two columns, every control-flow graph of four blocks, two-block programs whose definitions, types, scopes, arities and targets vary, and loops that carry values; repeated calls with up to two rows | the verdict is exact and the verifier ends; what it accepts keeps columns complete and rows whole, reads registers in the visit that wrote them, is entered in the states the verifier computed, and implements the promise of a call |
| `compiled` | each opcode alone, each lane of columns and statics, calls through the shared scratch slots, shapes of control flow; one or two rows | each row ends and is stored as by the interpreter; the floor is one; what is pinned is computed once and needed it |
| `expressions` | plans over every kind of expression, over the rows that decide them | each row ends as SQL ends it; what is called trap-free raises nothing; the live stack holds what is still to be read |
| `null_preempts` | string functions of a NULL string | finding: the row traps where SQL answers NULL |
| `join_loops` | two joins over every small table of up to two rows, three over a few, inner, left and fold, nested loops and single-row probes; maps, scans, aggregates and items of groups, over the tables that decide them | a table that is built answers the same in every order of its rows, one that is refused has a cause; the rows of the SQL join, once, in FROM order; every row ends |
| `subqueries` | WHERE, SELECT and placements of subqueries over tables of up to three rows and batches of up to two | values and traps are DuckDB's, and the forms the refusals promise are served |
| `ir_text` | 285 programs over every opcode, declaration and terminator, 77 of them outside `Printable`; two programs with any one token edited | the round trip loses nothing but what `Printable` names; what is accepted is what the text says; the parser always gets on |
| `serve_boundary` | three calls, nested up to three deep, two rows of two lanes | answers of their own rows; an outer call's buffers stand still |
| `freezing` | forty-three texts, four training relations, two batches | the answers served are the text's own; every step finds what it reads; an artifact ships what the residual reads and nothing else |
| `case_twins` | two CTEs of separate scopes, `a` and `A` | finding: one parameter's table replaces the other's |
| `leases` | a table and a function per execution, fit with a parameter registered and dropped, three calls deep | nothing outlives its execution or lease; what an execution registered stays bound; the threads setting comes back |
| `campaign` | two drivers, two seeds, every hang, crash, kill, torn line and failed write | every seed is answered once, lines are of their seed, readings cost no finding, no innocent blame, the campaign ends |

### Bounds

Compiler. Three blocks are the smallest graph with a join, a loop with an exit, a
loop into which two edges lead, and an island next to a path; four give nested
and crossing loops. Two stores of a column in a block are enough to tell one
from more. Two columns suffice for every statement about two columns. Two input
rows show what one row leaves to the next; calls are repeated without bound.
`MaxEmits` caps the output rows of a call where a loop may emit for ever.

Compiled code. `VregLimit` (20) and `IndexLimit` (50) are small enough for
programs on both sides of each. An opcode's code does not depend on its
neighbours but through the scratch slots, the trap flag and sharing: calls that
follow one another and the shapes of control flow are there for these.

Expressions. `MinSharedSize`, `SelectCaseOps`, `DispatchMinArms` and `LinearTests`
are the code's limits, small enough that plans lie on both sides of each. Rows
take the ends of each type, NULL, the infinities, NaN and the empty string, and
casts go from every integer, decimal, double and string type into every other,
both as CAST and as TRY_CAST.

Tables and joins. Two rows per table give a duplicate key, two spellings of one,
and a row before and after a NULL; the second join has up to three, so that a
range can lie in the middle of its table. Three joins have a loop that is neither
outermost nor innermost. `MaxSum`, `MaxAvg`, `MaxLong`, `Precision` and `MaxExp`
make sums of two or three rows overflow, round and cancel. `MaxRows` exceeds what
any of the queries emits; were it reached, `RowEnds` would fail.

Subqueries. A table of three rows has a group of two and a miss, `ScanLimit` (2)
is exceeded by it; two requests of a batch are what tells an evaluation per row
from one per distinct value.

Text. Every field of every declaration and opcode occurs with two values where
the parser tells them apart; `IdBound` (4) stands for 2^32.

Boundary. Three calls are one that fails, one that is running, and one nested in
it; two lanes let a row be half read.

Freezing. The training relations have duplicate and NULL keys, two spellings of
one VARCHAR key beside a NULL value, no rows, and a nested column named like the
outer alias; a batch has keys that were fitted, that were not, and NULL.

Leases. Three calls deep is an execution, another in its callback, and a
finalizer in that. Five tokens are enough for two leases on an artifact beside
them. A lease is released at most `MaxTries` = 2 times.

Campaign. Two drivers share the iterator and nothing else; two seeds are one
whose kill comes late and the next. A worker's lines are at most two per seed.

Deadlock is checked in `expressions`, `ir_text`, `subqueries` and `freezing`, whose
finished states stutter by an action that says so: a step no rule covers shows as
a deadlock. It is not checked in the others: batches and campaigns end, a program
that is refused is never run, and bounded counters run out.

### Fairness

The verifier, the row loop and the row code of a join are sequential code:
nothing but the code itself can delay the next step, so weak fairness of the
next step is what the machine gives. No fairness is assumed of calls. In the
campaign, each driver thread and each timer thread is scheduled by the operating
system (weak fairness of each); nothing is assumed of workers, which may hang for
ever: that is what the timers are for. The other specifications state safety only:
in `ServeBoundary` and `Leases` user code in between may never return, and the
rest walk finite trees once.

## Findings

Shown by a run:

* `null_preempts`: lowering masks each integer operand of `substr` and each
  operand of LIKE under its own flag, and those of `array_extract` and `repeat`
  under none (`lower.rs:1570-1655`, `1801-1819`). A NULL string with a position
  past 2^32, or beside a bad ESCAPE, raises; the pinned behaviour of DuckDB and
  the comments at `interp.rs:1354` and `frontend/expr.rs:897` say NULL.
* `case_twins`: `_plan.py:222` compares names exactly, where DuckDB's catalogue
  folds case. Two frozen CTEs of separate scopes, `a` and `A`, get parameters
  whose tables replace one another, and the answers are wrong without an error.

Met while modelling; the properties of the passing runs except these cases by
name, or the instances leave them out:

* `fold.rs:129-137`: DECIMAL arithmetic with a constant NULL or zero divisor
  folds to NULL beside an operand that can trap, against the file's header
  (8-10).
* `fold.rs:650-663`: the absolute value of the least narrow literal folds to a
  value past its width, where `lower.rs:49` checks it.
* `lower.rs:722-726`: the comment of `emit_truth` says that AND is the only lazy
  operator and OR always evaluates both sides; its arm for OR skips the right side
  of a TRUE left, as its own comment says DuckDB was measured to do.
* `lower.rs:449`, `3138`: a narrow field's range check ends the block, and with it
  the cache of calls, so a user function is called again for the next field;
  `docs/properties.md:189` says once per row on both paths.
* `duckdb/mod.rs:1155-1165`: the comment of `build_keys` says a key that cannot
  be converted is an error on every query, but a row dropped earlier, by a NULL
  key or a filter, never has its later keys converted.
* `ir/parse.rs` truncates a regex index with `as u32`, and takes `dcmp.eq(3,1).lt`.
* Text of some verified programs does not come back, against `verify.rs:83`. The
  parser refuses string reversal, a probe without keys, a probe that reads no
  columns, two input columns of one name (`parse.rs:1491`, `1496`), an overflow
  check other than 0, 18 and 38 (`1106`; `verify.rs:461` takes any), a shift above
  38 (`1127`; `verify.rs:476`), and a decimal out of bounds (`715`). It takes a
  comparison at a narrow or unsigned width for one at its lane's (`print.rs:136`,
  `parse.rs:1321`), and an extern with fewer or more names than returns for
  another. `Printable` names these. `RoundTripIsLossless` compares it with what the
  parser does on the sources of the run, in which each case occurs; of programs
  that no source is like it says nothing.
* `interp.rs:517`: `do_moves` copies branch arguments one after the other, which
  its comment (207-209) calls safe "by SSA single-definition". It is not on an
  edge from a block to itself that permutes the block's parameters, which the
  verifier accepts. The lowering emits no such edge. `RegistersAreExact` is the
  statement for all others.
* Compiled `store.opt` leaves the live register under a false flag, where
  `exec/tests.rs:406` and `ir/mod.rs:38-40` expect a default; no reader looks at
  it. `CompiledRowsAgree` compares NULL cells as NULL.
* A select on a constant, or of a select, may lose an arm to Cranelift's rules
  while `vreg_floor` still counts it. The lowering builds neither.
* `_program.py:986`: `_give_back` promises to release "every lease in the list,
  once" (979, 1095); a release that raises ends the loop, and the leases after it
  are kept. `Leases` has the loop as it is.
* `runner.py:187`: `_read` looks at `fired` after `cancel`, but a timer thread
  that has passed its own check before `cancel` may not have set `fired` yet. Its
  kill then arrives while the next seed runs, which becomes a PANIC (210-212).
  The window is a few instructions wide. `NoInnocentBlame` says that nothing
  else goes wrong: a seed blamed for a PANIC either crashed its worker or was read
  for in that window (`raced`).
* `_correlate.py:434-441`: of a derived table without a name over an inner CTE,
  `_flatten` leaves the CTE's own name to answer in the parent; where an outer
  source has that name too, a reference that bound outside is captured.
* `_correlate.py:308-317`: the comment on `_emit` says NULL for a miss, but with a
  guard and no key the table has one row, in which `approx_count_distinct` is 0.

A torn line is not among them: `json.loads` raises on it in the driver thread,
which ends; the remaining threads finish the campaign, and the one seed that is
left without a verdict is the exception `EverySeedIsAnswered` makes. Nor is a
write that fails again on the worker just spawned (`runner.py:224-227`): nothing
catches it, and the thread and its seed go the same way (`WriteRaises`).

## The proofs

TLAPS checks the theorems of seven modules and the lemmas of an eighth;
`PROJECT.json` lists the thirty-two that a reader should know of. They hold for
every value of the constants: programs of any number of blocks, columns and
values; queries of any number of joins, on keys of any number of components, over
tables of any size; subqueries of any number of WHERE terms, over any static table
and batch; any number of rows, calls, threads and seeds, and any depth
of nesting. The runs above check the same properties on their small instances, so
none of them holds for want of a behaviour.

### The compiler's contract

`VerifierProofs` proves `VerdictIsAlwaysExact`: when the verifier ends, its list
of errors is empty exactly if the program is `Verified`, that is if the rules at
the head of `verify.rs` hold of it. Neither direction is easy to see in the code,
as the passes check consequences: a backward search, Kahn's order and one forward
sweep decide whether a consistent assignment of store states exists. The
inductive invariant `VerifierInv` follows the passes:

* `DefsRight`: the map of definitions is right wherever names are defined once.
* `Stacked`, `Searched`: the colours, the stack and the back edges of the search.
  Without the back edges the blocks found have no cycle, stated without paths:
  every set of them has a member into which no edge of the set leads. Each block
  found has a forward predecessor.
* `Ending`: the worklist finds what reaches an end.
* `InOrder`, `Sorted`: Kahn's order has all forward predecessors of a block
  before it, and in-degrees count what is left; so the order has every block.
* `Flowing`: a block's state is known when its turn comes, is never changed
  after, and is the one any consistent assignment gives it.
* `VerdictSoFar`: for each pass, which rules the absence of errors amounts to.

`RowLoopProofs` is about the interpreter, on verified programs:

* `TypeCorrect`: the type invariant.
* `ColumnsAreComplete`: `ColumnsComplete`, by the invariant `Ledger`. A verified
  program has a consistent flow: for each block, which columns are stored on
  entry. `ColumnsComplete` speaks of boundaries only; `Ledger` says at every
  step that a column's length is the rows emitted plus what the flow and the
  stores already executed in this block account for.
* `AnswersAreWhole`: `AnswerIsWhole`, from the above.
* `RowsAreNotMixed`: `RowsNotMixed`, by the invariant `Cells`: a cell above the
  last emit belongs to the row being processed. It needs `Ledger`, which says
  that a store is always the first of its column above the last emit.
* `PromiseKept`: `RowLoop` implements `BatchAnswer`, step by step.
* `RegistersAreAlwaysExact`: `RegistersAreExact`, by the invariants `Counted`,
  `Scoped` and `Exact`. In the middle of `do_moves` some parameters hold their
  new values and others still the old: `Exact` says which, and that no argument
  yet to be read is a parameter already written. That is where the exception of
  the property, an edge from a block to itself that permutes its parameters, is
  needed, and the only place.

The last part of `VerifierProofs` joins the two halves (`VerifiedRun`), with `Gate` as the invariant between
them: until the verifier accepts, the `RunState` is fresh, and from then on the
row loop's invariants hold. `FrameIsAlwaysOK` (`FrameOK`), `EntryStatesAreMet`
(`EntryStateIsMet`: a block is only entered in the states the verifier computed
for it), `AcceptedRunsAreSound` and `AcceptedRunsKeepPromise` are thus about
whatever program is handed in: it is refused, or it runs as promised.

### The joins

`JoinLoopsProofs` proves `JoinIsAlwaysExact` (`JoinIsExact`): the loops emit the
rows of the SQL join, each once and in FROM order, and evaluate the keys of a
join once for every row that reaches it. On the way it proves
`FlagsAlwaysTellMatches` (`FlagsTellMatches`), which is what makes a LEFT join
right, and beside it `MapsAlwaysRefuseDuplicates`. The argument goes in four
steps:

* What a probe finds. `PartitionPointFinds` is the halving search over any
  predicate that does not turn true again; `EntriesEnumerate` says that the
  sorted entries hold every row of a table once, ties in the table's order;
  `BitsCompare` that two keys have the same slots exactly if SQL's comparisons
  take them for the same, which is where canonical zeros and NaNs and the
  validity slot of IS NOT DISTINCT FROM come in. `ProbeFindsRange` puts them
  together: the two searches enclose the rows SQL's comparison finds and no other.
* What the tables hold. `BuildInv`: however the rows came in, a table built so
  far has the rows of its source that any probe can match, in the source's order.
  `RefusalsAreExact` then has two rows with the same key next to each other in
  the order of slots, so that `has_duplicate`, which looks at neighbours, misses
  none.
* Where the loops stand. `RowInv`: the open frames are a row that reaches the
  next join (`FramesOK`); a loop's index lies in the range of its probe, its flag
  tells whether one of the rows it has read matched, and a fold holds those of
  them that matched, in order.
* What has been done. A row of the join is passed (`Passed`) when it differs from
  the open frames first at a loop whose index is beyond it. `HistInv`: emitted are
  the kept rows that were passed (`Kept`), and each join's keys were evaluated for
  the rows passed and the one it stands at (`Visited`). When no loop is open any
  more, all are passed.

`Reach` says what `Reaching` computes without its recursion, and `ReachingIsReach`
that they agree. Where induction over a number would be used, the proof takes the
least number for which the claim fails (`LeastNatural`), because the library's
induction theorems have an operator for a parameter.

Five more theorems are about the build. `TablesAreAlwaysWhole`: a table holds
every row some request can match, or one row for each group of them, and nothing
twice (`WholeOK`, over all the tables built so far). `ScansAreAlwaysOrderFree`:
what `scan_limit` and `scan_ties` let through has one min and one max for any rows
of a key, in whatever order DuckDB reads them. Values that compare as equal may
be spelled in two ways (-0.0 and 0.0, two NaNs), and DISTINCT keeps the one read
first: `ExtremesAgree` says that without two such rows (`Clash`) every order has
the same extreme, and `ClashesTell` that with them two orders differ.
`TablesOfRowsAreRefusedForCause` (`CauseOK`) is the converse: a map or a scan is
refused only if a key cannot be read, has too many rows, or has rows that clash, or
a value is NULL that is declared not to be.

`BuildsButDoubleSumsAreOrderFree` is `BuildIsOrderFree` for every table but one of
DOUBLE sums: a group answers what DuckDB answers in every order it may read the
group's rows in. The build reads row by row in the table's order, so the invariant
says what a group knows of the rows read so far:

* `SaysOK`. An aggregate's state says its rows' number, its sum, the sum of the
  magnitudes, its leader and whether another spelling ties with it (`AccSays`); a
  group of rows is an order of those rows (`ItemsSay`). With DISTINCT the rows that
  count are the first of each value, in the order read (`ReadOf`).
* What DuckDB reads in another order is the same rows numbered in another way
  (`AggregateReads`, `Arranges`): counts and sums agree (`SumsInAnyOrder`), a running
  sum never leaves the range that the magnitudes' sum keeps (`SumsRise`), and an
  extreme is the leader unless two spellings tie.
* A stable sort puts each row at the place that is the number of rows that go before
  it (`FirstsCount`). Whatever two orders have at one place is tied
  (`PlacesAreTied`), and the build was refused unless tied rows have the kept row's
  item; that the sum of LIMIT and OFFSET may wrap is the same on both sides
  (`KeptNumbers`).
* `FreeOK`: the tables built so far answer so, which no later step disturbs.

`RefusalsButOfDoubleSumsHaveCauses` is `RefusedForCause`, for the same tables: what
the build refuses, it must. A tie that an aggregate's state knows of gives two orders
with two answers, one spelling first in each (`LeadersAreAnswered`); two tied rows of
different items change places in an order and take each other's place in the sorted
one (`TiesSwap`); the sum of the magnitudes that is compared with the range is that of
the rows DuckDB reads (`SizesAreRead`); and where the build would keep several rows of
a group, so does the query (`ManyAreKept`). `CausedOK` is the invariant.

### The subqueries

`SubqueriesProofs` proves `AnswersAreDuckDBsHolds`, `TrapsAreDuckDBsHolds` and
`PromisedFormsServeHolds`: all three properties of `Subqueries`. The reference
evaluates a WHERE in one order over the distinct correlated values of a batch; the
code splits it over the build, the keys, the guards and the scan, and answers each
request alone. Three arguments bring them together:

* What a request reads. `ReadRight` says of a value that a request reads through
  its join: it traps exactly if DuckDB stops on the request's WHERE, on the left
  side, or on the item, and is else what DuckDB answers over the rows that the
  request keeps. For a table (`TableReads`) no term but the first key's outer side
  may trap, and the guard is 0 exactly if no row reaches it (`TableGuard`,
  `TableTrapsAre`); the group found, or the answer for a miss, is that over the
  rows DuckDB keeps (`TableFinds`, `NoRowsRead`). For ANY and ALL the extremes of
  a group decide for all its rows (`ResidualIs`, from `ExtremesAre`). For a scan
  (`ScanReads`) only steps before the first that may trap leave their order, and
  `ScanOrder` has it that the scan's steps trap exactly if DuckDB's do, although
  DuckDB splits every BETWEEN and the scan only those that bind as two
  comparisons.
* One request for another. `Alike` requests, the same but for the sign of zero,
  keep the same rows and trap alike, because no term that is served tells zeros
  apart (`AlikeRequests`); so a request may stand for its kind, and the batch's
  traps are those of its requests (`Shared`, `DistinctAre`, `TrapIsDucks`,
  `QuietIsDucks`).
* What has been bound, built and served: the inductive invariant `Inv`.
  `BindInv`: each value that a subquery reads is still listed, or bound to the
  join that its WHERE calls for, with the guard it needs; any other join is a
  guard. `PrepareInv`: joins run after the WHERE exactly if it reads none of them,
  and each table built is the one that the query determines. `ServeInv`: the
  requests served have the rows DuckDB gives them, none of their probes trapped,
  the current one has met no trap up to its stage and passes the WHERE if it is
  past it, and a batch that trapped is one on which DuckDB stops.

`PromisedFormsServe` follows from `BindInv` and `PrepareInv`: `PromisedBind` has no
refusal in the binder and `PromisedBuild` none in the build. `PartsAreQuiet`,
which that needs, holds for every query: no part of the WHERE that the build
evaluates can trap, the early steps of a scan and what a guard counts included.

### The boundary, the leases and the campaign

`ServeBoundaryProofs` proves `EveryAnswerIsItsOwn` (`AnswersOwnRows`) and
`OuterCallsStandStill` (`OuterStandsStill`). At most one call under way owns the
`Marshaller`, and the borrow says so (`OneOwner`); every call keeps the cells it
has read and the rows it has answered however many calls are nested in it
(`CallsAreSound`), since only the innermost changes anything. A second invariant,
`BitForCell`, has each column of a `Marshaller` that is being filled hold a validity
bit for every payload, so that no bit a failed call left behind has the next batch
refused or read with the NULLs of other rows.

`LeasesProofs` proves `NothingEverOutlives` (`NothingOutlives`),
`BindingsAlwaysHold` (`BindingsHold`) and `ThreadsAreAlwaysObserved`
(`ThreadsAreObserved`). What is under way is a stack: every execution but the
innermost is in its body, and a release has only releases above it (`Nested`).
A name under an execution's token is claimed by that execution alone
(`ExecutionsApart`), a leased name by one lease alone (`LeasesApart`), so no
registration replaces another's name and no removal takes one. `Observed` says
of each execution under way what the threads setting was when it began and will
be when those above it have ended. `ReleasesKept` says how far a release has
come, which `NothingOutlives` needs while removals may fail.

`CampaignProofs` proves `LinesAreAlwaysOfTheirSeed`, `EverySeedIsAlwaysAnswered`,
`ReadingsNeverCostAFinding` and `NoInnocentIsEverBlamed` (the properties
`LinesAreOfTheirSeed`, `EverySeedIsAnswered`, `ReadingsCostNoFinding` and
`NoInnocentBlame`). The invariant that carries them is `DriverKept`: what a
worker has said and nobody has read is always the rest of the answer to the seed
its driver holds (`PipeKept`), and a worker that is gone was killed by a timer
its driver will see to have fired, or crashed on this seed, or met the late kill
of an earlier reading (`BlameKept`). `SeedsKept` has every seed taken recorded
once or held by one driver. A torn line does not break the first, as it is the
last a worker says.

### What the proofs assume

Only what the modules' named assumptions say of the constants, which TLC
evaluates in every run:

* `NamesAssumption`: there are finitely many columns, and the marks for no column
  and no condition are no names.
* `VerifierAssumption`: what is submitted has the shape of a program, which
  Rust's types guarantee.
* `ProgramsAssumption` (of `RowLoop` alone) and `CompiledAssumption`: what runs is
  verified. The theorems about the two together need the second only, where it is the definition
  of `Programs`; that the verifier sees to it is `VerdictIsAlwaysExact`.
* `RowLoopAssumption`, `BoundaryAssumption`, `LeasesAssumption`,
  `CampaignAssumption`, `MaxRowsAssumption`: bounds are numbers, 0 and 1 are data,
  and a step of a fit drops a parameter that was registered before it.
* `RawAssumption`: canonicalising bits twice is canonicalising them once, and
  leaves the bits of a validity slot alone.
* `BuildAssumption`: the marks for a row without a match and for an unreadable
  value are no cells, and a trap is no number.
* `SubqueryAssumption`, `QueriesAssumption`: NULL and a trap are no values, a scan's
  limit is a number, and a query has the shape that the parser gives it
  (`QuerySet`): `IN` compares with `=`, a left side reads no table, an item that is
  a bare aggregate cannot trap, and the WHERE holds one subquery at most.
* `PlansAssumption`: what is joined has the shape the binder gives it, and so has
  the way its table is made (`Builds`); a scan's limit is a number; a table's
  rows have a cell for every comparison of the join, and a value that the key of
  the next join reads is a cell of a table taken row by row. An aggregate has what
  the binder lets through (`FitsAggregate`): DISTINCT not of min, max and the
  Boolean and bitwise folds that it cannot change, sums over integers, folds over
  bits, and no item over an extreme that is only compared. LIMIT and OFFSET are
  BIGINTs that are not negative (`FitsOrder`).

### What is model-checked only

* Liveness (`Terminates`, `LoopFreeCallsEnd`, `RowEnds`, `CampaignEnds`): fairness
  and ENABLED are out of the prover's reach.
* Expressions, freezing, compiled code and the IR's text: their modules are
  recursive operators over trees, or folds over programs and token sequences. What
  these compute for every input is proved by induction over data, which the
  installed provers cannot be led through; the recursions of `JoinLoops` are
  functions over numbers, for which the least counterexample is enough.
* DOUBLE sums and averages in `BuildIsOrderFree` and `RefusedForCause`: that no
  order of the additions rounds further from the exact sum than `FloatBound` says is
  an error analysis of floating point, by induction over the additions. The theorems
  about the joins need none of this: they take a table as it was built.

## Plan

The order is that of what would hurt a user most. Done: the compiler's contract,
the joins and tables, expressions, subqueries, compiled code, the IR's text, the
boundary, freezing, the leases and the campaign.

To model:

1. `Build`: `DuckDBInferFn::new`, from the bound query to the compiled function.
   The static tables are read twice, for the facts of the plan and again for the
   program that is compiled (`duckdb/mod.rs:3280`), and Cranelift's refusal falls
   back to the interpreter. Composed with `ServeBoundary`; property: a built
   function is compiled from the tables and facts its plan was made for.
2. `ForeignRegistry`: `_foreign.py`, DuckDB's worker threads fitting steps under
   one lock while errors are kept (`_foreign.py:62`); property: the error raised
   is the first, and an id names the instance that was stored for it.
3. The names and members of `Freezing`'s texts before it sees them (`_resolve`,
   captures), and the marginalisation of windows (`_marginal.py`, `_leaf.py`).
4. `TransformLife`: the life cycle of `_transform.py` and `_projection.py` over
   `Leases` and `FrozenServing`.
5. Several aggregates of one static table in `StaticTables`.

To prove:

1. `FloatBound` for a given number of additions, as lemmas about `Plus` and
   `TwoSum`.

## Not modelled

* What a kernel computes: arithmetic tables, regular expressions, dates, the
  digits of decimals and the generated table of `strip_accents.rs` are data. The
  models ask of a kernel whether it traps and, in `SqlExpr`, have one function of
  each family.
* The front end's binding and typing, apart from subqueries: `frontend/expr.rs`
  and `frontend/functions.rs` are tables of types, names and refusals, measured
  against DuckDB, without state; their reference is DuckDB itself. `rewrite.rs`,
  `retrans.rs` and `precedence.rs` correct SQL text and patterns, character by
  character.
* DuckDB and Cranelift, which are external: how they are used is modelled.
* Recursive CTEs, beyond their refusal; estimators as steps of a frozen text;
  value conversions between Python, Arrow and lanes; Arrow's memory layout.
* The native catalogue and the dialect printers: templates and formatting. The
  narrow integer lanes of an output, checked as they are handed out
  (`duckdb/mod.rs:469`), are a conversion of this kind.
* The campaign's generators, shrinking and reports: sequential scripts.
* Executions of several threads on one connection, which `_session`'s own comment
  rules out.
