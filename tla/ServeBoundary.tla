--------------------------- MODULE ServeBoundary ----------------------------
(***************************************************************************)
(* The Python boundary of a built function (packages/confit/src/duckdb/    *)
(* mod.rs): infer_rows reads its rows into input columns, runs the program *)
(* over them and hands the output rows back. The columns and the RunState  *)
(* of the Marshaller are used by call after call; a call that finds them   *)
(* borrowed makes buffers of its own.                                      *)
(*                                                                         *)
(* Reading a row runs Python (a property), and so does running one (a      *)
(* UDF): either may raise, or call the same object again. Calls therefore  *)
(* nest; the object is unsendable, so nothing else is concurrent.          *)
(*                                                                         *)
(* A cell is [call, row, lane]: which call read it, from which row. A      *)
(* column holds payloads and, beside them, validity bits: `cols' and       *)
(* `valid'.                                                                *)
(***************************************************************************)
EXTENDS Integers, Sequences

CONSTANTS
  Lanes,      \* number of input lanes
  Nullable,   \* the lanes that may hold NULL
  MarkedFirst, \* the lanes whose bit is pushed before the value is looked at:
              \* all but strings and the presence of a struct
  Boundary,   \* "marshaller", or "generic" when the environment pins it
  MaxRows,    \* bound: rows of one call
  MaxDepth,   \* bound: calls under way at once
  MaxCalls    \* bound: calls made

ASSUME BoundaryAssumption ==
  /\ Lanes \in Nat \ {0} /\ MaxRows \in Nat /\ MaxDepth \in Nat /\ MaxCalls \in Nat
  /\ Boundary \in {"marshaller", "generic"}
  /\ Nullable \subseteq 1 .. Lanes /\ MarkedFirst \subseteq 1 .. Lanes

VARIABLES
  calls,     \* the calls under way, the innermost last
  borrowed,  \* the RefCell around the Marshaller is mutably borrowed
  cols,      \* Marshaller.cols, the payloads
  valid,     \* Marshaller.cols, how many validity bits each column has
  out,       \* Marshaller.state.out: the output rows of its last run
  made,      \* how many calls were made: the next call's name
  answer     \* history: the last answer handed back, [call, n, rows]

vars == <<calls, borrowed, cols, valid, out, made, answer>>

LaneIds == 1 .. Lanes

Cell == [call : 1 .. MaxCalls, row : 1 .. MaxRows, lane : LaneIds]

NoCells == [l \in LaneIds |-> <<>>]
NoBits  == [l \in LaneIds |-> 0]

\* mem::take leaves an empty vector of columns.
Taken == <<>>

Last(s) == s[Len(s)]
Front(s) == SubSeq(s, 1, Len(s) - 1)

Top == Last(calls)
OnTop(f) == Append(Front(calls), f)

\* Python code runs, and may call again, between two attribute reads and in a
\* row's UDF.
PythonRuns == calls # <<>> => Top.phase \in {"marshal", "run"}

Mine(f) == f.path = "marshaller"

-----------------------------------------------------------------------------
ClearedCols == NoCells

KeptBits == valid                     \* mutant
ClearedBits == NoBits

AlwaysFree == Boundary = "marshaller" \* mutant: the borrow is not tried
Free == Boundary = "marshaller" /\ ~ borrowed

Began(path, n) ==
  Append(calls, [call |-> made + 1, n |-> n, path |-> path, phase |-> "marshal",
                 row |-> 1, lane |-> 1, cols |-> NoCells, out |-> <<>>])

CanCall == PythonRuns /\ Len(calls) < MaxDepth /\ made < MaxCalls

\* infer_rows with the Marshaller: its columns are cleared and filled again.
InferRows ==
  /\ CanCall /\ Free
  /\ \E n \in 0 .. MaxRows : calls' = Began("marshaller", n)
  /\ borrowed' = TRUE
  /\ cols' = ClearedCols /\ valid' = ClearedBits
  /\ made' = made + 1
  /\ UNCHANGED <<out, answer>>

\* infer_rows without it, when it is pinned off or in use: rows_batch.
InferGeneric ==
  /\ CanCall /\ ~ Free
  /\ \E n \in 0 .. MaxRows : calls' = Began("generic", n)
  /\ made' = made + 1
  /\ UNCHANGED <<borrowed, cols, valid, out, answer>>

\* infer_arrow: the columns come whole, and the RunState is the call's own.
InferArrow ==
  /\ CanCall
  /\ \E n \in 0 .. MaxRows :
       calls' = Append(calls,
         [call |-> made + 1, n |-> n, path |-> "arrow", phase |-> "marshal",
          row |-> n + 1, lane |-> 1, out |-> <<>>,
          cols |-> [l \in LaneIds |->
                      [r \in 1 .. n |-> [call |-> made + 1, row |-> r, lane |-> l]]]])
  /\ made' = made + 1
  /\ UNCHANGED <<borrowed, cols, valid, out, answer>>

-----------------------------------------------------------------------------
\* The columns a call fills.
Filling(f) == IF Mine(f) THEN cols ELSE f.cols

\* One more bit in the lane that is read.
Marked == [valid EXCEPT ![Top.lane] = @ + 1]

\* One attribute is read and its cell pushed.
ReadCell ==
  /\ calls # <<>> /\ Top.phase = "marshal" /\ Top.row <= Top.n
  /\ LET cell   == [call |-> Top.call, row |-> Top.row, lane |-> Top.lane]
         filled == [Filling(Top) EXCEPT ![Top.lane] = Append(@, cell)]
         next   == IF Top.lane < Lanes
                   THEN [Top EXCEPT !.lane = @ + 1]
                   ELSE [Top EXCEPT !.lane = 1, !.row = @ + 1]
     IN  IF Mine(Top)
         THEN calls' = OnTop(next) /\ cols' = filled /\ valid' = Marked
         ELSE calls' = OnTop([next EXCEPT !.cols = filled]) /\ UNCHANGED <<cols, valid>>
  /\ UNCHANGED <<borrowed, out, made, answer>>

\* The call ends: the guard of a borrowed Marshaller is dropped.
Ended ==
  /\ calls' = Front(calls)
  /\ borrowed' = (borrowed /\ ~ Mine(Top))

\* A missing attribute, a None where none may be or an exception: the columns
\* keep what was pushed so far. A table of the wrong schema is refused whole.
ReadFails ==
  /\ calls # <<>> /\ Top.phase = "marshal"
  /\ Top.row <= Top.n \/ Top.path = "arrow"
  /\ Ended
  /\ UNCHANGED <<cols, valid, out, made, answer>>

\* push_input_cell refuses the value, for its type or its range, and leaves the
\* bit it pushed without a payload. Columns of the call's own are dropped.
ValueRefused ==
  /\ calls # <<>> /\ Top.phase = "marshal" /\ Top.row <= Top.n
  /\ Top.lane \in MarkedFirst
  /\ valid' = IF Mine(Top) THEN Marked ELSE valid
  /\ Ended
  /\ UNCHANGED <<cols, out, made, answer>>

\* check_input: every column has as many cells as the batch has rows, and a
\* nullable one as many bits.
Fits(f) ==
  /\ DOMAIN Filling(f) = LaneIds
  /\ \A l \in LaneIds : Len(Filling(f)[l]) = f.n
  /\ Mine(f) => \A l \in Nullable : valid[l] = f.n

\* The batch takes the columns, and the run clears the output; or check_input
\* refuses the batch, and the columns are put back. Their bits go with them.
Run ==
  /\ calls # <<>> /\ Top.phase = "marshal" /\ Top.row > Top.n
  /\ IF Fits(Top)
     THEN /\ calls' = OnTop([Top EXCEPT !.phase = "run", !.row = 1,
                                        !.cols = Filling(Top), !.out = <<>>])
          /\ IF Mine(Top) THEN cols' = Taken /\ out' = <<>> ELSE UNCHANGED <<cols, out>>
          /\ UNCHANGED borrowed
     ELSE Ended /\ UNCHANGED <<cols, out>>
  /\ UNCHANGED <<valid, made, answer>>

\* The program's answer to the current row: its cells, or nothing.
RowOf(f) == [l \in LaneIds |-> f.cols[l][f.row]]

RunRow ==
  /\ calls # <<>> /\ Top.phase = "run" /\ Top.row <= Top.n
  /\ LET next == [Top EXCEPT !.row = @ + 1] IN
     \/ calls' = OnTop(next) /\ UNCHANGED out
     \/ /\ Mine(Top)
        /\ calls' = OnTop(next) /\ out' = Append(out, RowOf(Top))
     \/ /\ ~ Mine(Top)
        /\ calls' = OnTop([next EXCEPT !.out = Append(@, RowOf(Top))])
        /\ UNCHANGED out
  /\ UNCHANGED <<borrowed, cols, valid, made, answer>>

BackOnTrap == IF Mine(Top) THEN Top.cols ELSE cols

\* A trap, or a UDF's exception, voids the call; the columns are restored
\* before the error is looked at.
RunTraps ==
  /\ calls # <<>> /\ Top.phase = "run" /\ Top.row <= Top.n
  /\ cols' = BackOnTrap
  /\ Ended
  /\ UNCHANGED <<valid, out, made, answer>>

RanWell ==
  /\ calls # <<>> /\ Top.phase = "run" /\ Top.row > Top.n
  /\ cols' = IF Mine(Top) THEN Top.cols ELSE cols
  /\ calls' = OnTop([Top EXCEPT !.phase = "emit"])
  /\ UNCHANGED <<borrowed, valid, out, made, answer>>

\* The output rows are handed back, from the RunState they were built in.
Answer ==
  /\ calls # <<>> /\ Top.phase = "emit"
  /\ answer' = [call |-> Top.call, n |-> Top.n,
                rows |-> IF Mine(Top) THEN out ELSE Top.out]
  /\ Ended
  /\ UNCHANGED <<cols, valid, out, made>>

\* A value outside its column's declared width refuses the whole answer.
AnswerFails ==
  /\ calls # <<>> /\ Top.phase = "emit"
  /\ Ended
  /\ UNCHANGED <<cols, valid, out, made, answer>>

-----------------------------------------------------------------------------
Init ==
  /\ calls = <<>> /\ borrowed = FALSE
  /\ cols = NoCells /\ valid = NoBits /\ out = <<>>
  /\ made = 0 /\ answer = [call |-> 0, n |-> 0, rows |-> <<>>]

Next ==
  \/ InferRows \/ InferGeneric \/ InferArrow
  \/ ReadCell \/ ReadFails \/ ValueRefused \/ Run
  \/ RunRow \/ RunTraps \/ RanWell
  \/ Answer \/ AnswerFails

Spec == Init /\ [][Next]_vars

-----------------------------------------------------------------------------
(***************************************************************************)
(* Properties.                                                             *)
(***************************************************************************)

\* A batch whose rows were all read is run (check_input refuses nothing that
\* the boundary itself marshalled), and its answer is made of its own call's
\* rows, in their order, each row's lanes together -- whatever calls were
\* nested in it, ran before it or failed.
AnswersOwnRows ==
  LET rows == answer.rows IN
  /\ calls # <<>> /\ Top.phase = "marshal" /\ Top.row > Top.n => Fits(Top)
  /\ \A i \in DOMAIN rows : \A l \in LaneIds :
       /\ rows[i][l].call = answer.call /\ rows[i][l].lane = l
       /\ rows[i][l].row = rows[i][1].row
  /\ \A i, j \in DOMAIN rows : i < j => rows[i][1].row < rows[j][1].row

\* While a call is nested in another, the outer one's buffers stand still.
OuterStandsStill ==
  [][ \A i \in DOMAIN calls :
        i < Len(calls) /\ i \in DOMAIN calls' =>
          /\ calls'[i] = calls[i]
          /\ Mine(calls[i]) => UNCHANGED <<cols, valid, out>> ]_vars
=============================================================================
