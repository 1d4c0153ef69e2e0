------------------------ MODULE ServeBoundaryProofs -------------------------
(***************************************************************************)
(* Proofs about the Python boundary, for any number of lanes, rows, calls  *)
(* and any depth of nesting.                                               *)
(*                                                                         *)
(* The argument: of the calls under way at most one owns the Marshaller,   *)
(* and the borrow says so; only the innermost call changes anything. So    *)
(* every call keeps, however many are nested in it, the cells it has read  *)
(* and the rows it has answered.                                           *)
(***************************************************************************)
EXTENDS ServeBoundary, SharedLemmas

Columns  == [LaneIds -> Seq(Cell)]
OutRows  == Seq([LaneIds -> Cell])

Frame == [call : 1 .. MaxCalls, n : 0 .. MaxRows,
          path : {"marshaller", "generic", "arrow"}, phase : {"marshal", "run", "emit"},
          row : 1 .. MaxRows + 1, lane : LaneIds, cols : Columns, out : OutRows]

CellOf(id, r, l) == [call |-> id, row |-> r, lane |-> l]
WholeRow(id, r)  == [l \in LaneIds |-> CellOf(id, r, l)]

\* The columns cs hold the cells call f has read so far.
Marshalled(f, cs) ==
  /\ cs \in Columns
  /\ f.row <= f.n + 1 /\ (f.row = f.n + 1 => f.lane = 1)
  /\ \A l \in LaneIds :
       /\ Len(cs[l]) = IF l < f.lane THEN f.row ELSE f.row - 1
       /\ \A r \in 1 .. Len(cs[l]) : cs[l][r] = CellOf(f.call, r, l)

\* The columns cs hold all the cells of call f.
Full(f, cs) ==
  /\ cs \in Columns
  /\ \A l \in LaneIds :
       /\ Len(cs[l]) = f.n
       /\ \A r \in 1 .. f.n : cs[l][r] = CellOf(f.call, r, l)

\* The output rows are whole rows of call `id' before row `upto', in order.
OwnRows(rows, id, upto) ==
  /\ rows \in OutRows
  /\ \A i \in DOMAIN rows : \E r \in 1 .. upto - 1 : rows[i] = WholeRow(id, r)
  /\ \A i, j \in DOMAIN rows : i < j => rows[i][1].row < rows[j][1].row

\* What a call relies on, c and o being the Marshaller's columns and output.
Sound(f, c, o) ==
  /\ f.phase = "marshal" => Marshalled(f, IF Mine(f) THEN c ELSE f.cols)
  /\ f.phase = "run" => Full(f, f.cols) /\ f.row <= f.n + 1
  /\ f.phase # "marshal" => OwnRows(IF Mine(f) THEN o ELSE f.out, f.call, f.row)

\* The inductive invariant.
Typed == /\ calls \in Seq(Frame) /\ borrowed \in BOOLEAN /\ made \in 0 .. MaxCalls

OneOwner ==
  /\ \A i, j \in DOMAIN calls : Mine(calls[i]) /\ Mine(calls[j]) => i = j
  /\ borrowed <=> \E i \in DOMAIN calls : Mine(calls[i])

CallsAreSound == \A i \in DOMAIN calls : Sound(calls[i], cols, out)

AnswerIsOwn == \E upto \in Nat : OwnRows(answer.rows, answer.call, upto)

Inv == Typed /\ OneOwner /\ CallsAreSound /\ AnswerIsOwn

\* While the Marshaller is filled, each of its columns has a validity bit for
\* every payload.
BitForCell ==
  /\ valid \in [LaneIds -> Nat]
  /\ \A i \in DOMAIN calls : Mine(calls[i]) /\ calls[i].phase = "marshal" =>
       \A l \in LaneIds : valid[l] = Len(cols[l])

-----------------------------------------------------------------------------
(***************************************************************************)
(* The stack of calls.                                                     *)
(***************************************************************************)

\* The innermost call is a frame of the invariant's.
LEMMA TopIsSound ==
  ASSUME Inv, calls # <<>>
  PROVE  /\ Len(calls) \in Nat \ {0} /\ Len(calls) \in DOMAIN calls
         /\ Top = calls[Len(calls)] /\ Top \in Frame /\ Sound(Top, cols, out)
<1>1. Len(calls) \in Nat \ {0} /\ calls[Len(calls)] \in Frame
  BY TopOfStack DEF Inv, Typed
<1>2. Len(calls) \in DOMAIN calls
  BY <1>1, LenProperties DEF Inv, Typed
<1>. QED
  BY <1>1, <1>2 DEF Top, Last, Inv, CallsAreSound

\* Of a call that does not own the Marshaller, its columns and output say
\* nothing.
LEMMA OthersDoNotLook ==
  ASSUME NEW f, ~ Mine(f), NEW c, NEW o, NEW d, NEW q, Sound(f, c, o)
  PROVE  Sound(f, d, q)
BY DEF Sound

\* A step of the innermost call that leaves it sound keeps the invariant, when
\* only the Marshaller's owner touches what the Marshaller holds.
LEMMA StepOfTop ==
  ASSUME Inv, calls # <<>>, NEW f \in Frame, f.path = Top.path,
         calls' = OnTop(f), Mine(Top) \/ UNCHANGED <<cols, out>>,
         Sound(f, cols', out'), UNCHANGED <<borrowed, made, answer>>
  PROVE  Inv'
<1>1. /\ calls' \in Seq(Frame) /\ Len(calls') = Len(calls) /\ calls'[Len(calls)] = f
      /\ \A i \in 1 .. Len(calls) - 1 : calls'[i] = calls[i]
  <2>. DEFINE below == SubSeq(calls, 1, Len(calls) - 1)
  <2>1. /\ below \in Seq(Frame) /\ Len(below) = Len(calls) - 1
        /\ \A i \in 1 .. Len(calls) - 1 : below[i] = calls[i]
    BY PoppedStack DEF Inv, Typed
  <2>2. calls' = Append(below, f)
    BY DEF OnTop, Front
  <2>3. Len(calls) \in Nat
    BY TopIsSound
  <2>. HIDE DEF below
  <2>4. /\ Append(below, f) \in Seq(Frame) /\ Len(Append(below, f)) = Len(below) + 1
        /\ Append(below, f)[Len(below) + 1] = f
        /\ \A i \in 1 .. Len(below) : Append(below, f)[i] = below[i]
    BY <2>1, PushedStack
  <2>. QED
    BY <2>1, <2>2, <2>3, <2>4
<1>2. /\ Len(calls) \in Nat \ {0} /\ Top = calls[Len(calls)]
      /\ DOMAIN calls = 1 .. Len(calls) /\ DOMAIN calls' = 1 .. Len(calls)
  BY <1>1, TopIsSound, LenProperties DEF Inv, Typed
<1>3. \A i \in DOMAIN calls : Mine(calls'[i]) <=> Mine(calls[i])
  BY <1>1, <1>2 DEF Mine
<1>4. OneOwner'
  BY <1>2, <1>3 DEF Inv, OneOwner
<1>5. ASSUME NEW i \in DOMAIN calls'
      PROVE  Sound(calls'[i], cols', out')
  <2>1. CASE i = Len(calls)
    BY <1>1, <2>1
  <2>2. CASE i # Len(calls)
    <3>1. i \in DOMAIN calls /\ calls'[i] = calls[i] /\ Sound(calls[i], cols, out)
      BY <1>1, <1>2, <2>2 DEF Inv, CallsAreSound
    <3>2. CASE UNCHANGED <<cols, out>>
      BY <3>1, <3>2
    <3>3. CASE Mine(Top)
      <4>1. ~ Mine(calls[i])
        BY <1>2, <2>2, <3>1, <3>3 DEF Inv, OneOwner
      <4>. QED
        BY <3>1, <4>1, OthersDoNotLook
    <3>. QED
      BY <3>2, <3>3
  <2>. QED
    BY <2>1, <2>2
<1>. QED
  BY <1>1, <1>4, <1>5 DEF Inv, Typed, CallsAreSound, AnswerIsOwn

\* The innermost call may end at any time.
LEMMA EndOfTop ==
  ASSUME Inv, calls # <<>>, Ended, Mine(Top) \/ UNCHANGED <<cols, out>>,
         UNCHANGED made, AnswerIsOwn'
  PROVE  Inv'
<1>1. /\ calls' \in Seq(Frame) /\ Len(calls') = Len(calls) - 1
      /\ \A i \in 1 .. Len(calls) - 1 : calls'[i] = calls[i]
  BY PoppedStack DEF Inv, Typed, Ended, Front
<1>2. /\ Len(calls) \in Nat \ {0} /\ Top = calls[Len(calls)]
      /\ DOMAIN calls = 1 .. Len(calls) /\ DOMAIN calls' = 1 .. Len(calls) - 1
  BY <1>1, TopIsSound, LenProperties DEF Inv, Typed
<1>3. OneOwner'
  <2>1. \A i, j \in DOMAIN calls' : Mine(calls'[i]) /\ Mine(calls'[j]) => i = j
    BY <1>1, <1>2 DEF Inv, OneOwner
  <2>2. borrowed' <=> borrowed /\ ~ Mine(Top)
    BY DEF Ended, Inv, Typed
  <2>3. CASE Mine(Top)
    <3>1. \A i \in DOMAIN calls' : ~ Mine(calls'[i])
      BY <1>1, <1>2, <2>3 DEF Inv, OneOwner
    <3>. QED
      BY <2>1, <2>2, <2>3, <3>1 DEF OneOwner
  <2>4. CASE ~ Mine(Top)
    <3>1. borrowed <=> \E i \in DOMAIN calls' : Mine(calls'[i])
      BY <1>1, <1>2, <2>4 DEF Inv, OneOwner
    <3>. QED
      BY <2>1, <2>2, <2>4, <3>1 DEF OneOwner
  <2>. QED
    BY <2>3, <2>4
<1>4. ASSUME NEW i \in DOMAIN calls'
      PROVE  Sound(calls'[i], cols', out')
  <2>1. i \in DOMAIN calls /\ i # Len(calls) /\ calls'[i] = calls[i] /\ Sound(calls[i], cols, out)
    BY <1>1, <1>2 DEF Inv, CallsAreSound
  <2>2. CASE UNCHANGED <<cols, out>>
    BY <2>1, <2>2
  <2>3. CASE Mine(Top)
    <3>1. ~ Mine(calls[i])
      BY <1>2, <2>1, <2>3 DEF Inv, OneOwner
    <3>. QED
      BY <2>1, <3>1, OthersDoNotLook
  <2>. QED
    BY <2>2, <2>3
<1>5. borrowed' \in BOOLEAN
  BY DEF Ended
<1>. QED
  BY <1>1, <1>3, <1>4, <1>5 DEF Inv, Typed, CallsAreSound

\* A call that begins is sound, and takes the Marshaller only when no other
\* call has it.
LEMMA StartOfCall ==
  ASSUME Inv, NEW f \in Frame, calls' = Append(calls, f), Sound(f, cols', out'),
         made' \in 0 .. MaxCalls, UNCHANGED answer,
         \/ ~ Mine(f) /\ UNCHANGED <<borrowed, cols, out>>
         \/ Mine(f) /\ ~ borrowed /\ borrowed' = TRUE
  PROVE  Inv'
<1>1. /\ calls' \in Seq(Frame) /\ Len(calls') = Len(calls) + 1
      /\ calls'[Len(calls) + 1] = f
      /\ \A i \in 1 .. Len(calls) : calls'[i] = calls[i]
  BY PushedStack DEF Inv, Typed
<1>2. /\ Len(calls) \in Nat /\ DOMAIN calls = 1 .. Len(calls)
      /\ DOMAIN calls' = 1 .. Len(calls) + 1
  BY <1>1, LenProperties DEF Inv, Typed
<1>3. \A i \in DOMAIN calls : calls'[i] = calls[i] /\ i \in DOMAIN calls' /\ i # Len(calls) + 1
  BY <1>1, <1>2
<1>4. OneOwner'
  <2>1. CASE ~ Mine(f) /\ UNCHANGED <<borrowed, cols, out>>
    <3>1. \A i \in DOMAIN calls' : Mine(calls'[i]) => i \in DOMAIN calls /\ calls'[i] = calls[i]
      BY <1>1, <1>2, <2>1
    <3>. QED
      BY <1>3, <2>1, <3>1 DEF Inv, OneOwner
  <2>2. CASE Mine(f) /\ ~ borrowed /\ borrowed' = TRUE
    <3>1. \A i \in DOMAIN calls' : Mine(calls'[i]) <=> i = Len(calls) + 1
      BY <1>1, <1>2, <2>2 DEF Inv, OneOwner
    <3>2. Len(calls) + 1 \in DOMAIN calls'
      BY <1>2
    <3>. QED
      BY <2>2, <3>1, <3>2 DEF OneOwner
  <2>. QED
    BY <2>1, <2>2
<1>5. ASSUME NEW i \in DOMAIN calls'
      PROVE  Sound(calls'[i], cols', out')
  <2>1. CASE i = Len(calls) + 1
    BY <1>1, <2>1
  <2>2. CASE i # Len(calls) + 1
    <3>1. i \in DOMAIN calls /\ calls'[i] = calls[i] /\ Sound(calls[i], cols, out)
      BY <1>1, <1>2, <2>2 DEF Inv, CallsAreSound
    <3>2. CASE UNCHANGED <<borrowed, cols, out>>
      BY <3>1, <3>2
    <3>3. CASE ~ borrowed
      <4>1. ~ Mine(calls[i])
        BY <3>1, <3>3 DEF Inv, OneOwner
      <4>. QED
        BY <3>1, <4>1, OthersDoNotLook
    <3>. QED
      BY <3>2, <3>3
  <2>. QED
    BY <2>1, <2>2
<1>6. borrowed' \in BOOLEAN
  BY DEF Inv, Typed
<1>. QED
  BY <1>1, <1>4, <1>5, <1>6 DEF Inv, Typed, CallsAreSound, AnswerIsOwn

-----------------------------------------------------------------------------
(***************************************************************************)
(* A call begins.                                                          *)
(***************************************************************************)

(* A row has a first lane, whose column says how many rows were read. *)
LEMMA LanesExist == Lanes \in Nat \ {0} /\ 1 \in LaneIds /\ LaneIds \subseteq Nat \ {0}
<1>1. Lanes \in Nat \ {0}
  BY BoundaryAssumption
<1>. QED
  BY <1>1 DEF LaneIds

(* Columns that were cleared hold no cell, and an answer that was cleared no row. *)
LEMMA NothingRead == NoCells \in Columns /\ <<>> \in OutRows
  /\ \A l \in LaneIds : Len(NoCells[l]) = 0 /\ DOMAIN NoCells[l] = {}
<1>1. \A l \in LaneIds : NoCells[l] = <<>>
  BY DEF NoCells
<1>2. <<>> \in Seq(Cell) /\ <<>> \in OutRows /\ Len(<<>>) = 0 /\ DOMAIN <<>> = {}
  BY DEF OutRows
<1>3. NoCells \in Columns
  BY <1>2 DEF NoCells, Columns
<1>. QED
  BY <1>1, <1>2, <1>3

\* A call that has read nothing yet relies on nothing but empty columns.
LEMMA FreshCall ==
  ASSUME Inv, CanCall, NEW n \in 0 .. MaxRows, NEW path \in {"marshaller", "generic"},
         NEW f,
         f = [call |-> made + 1, n |-> n, path |-> path, phase |-> "marshal",
              row |-> 1, lane |-> 1, cols |-> NoCells, out |-> <<>>]
  PROVE  f \in Frame /\ made + 1 \in 0 .. MaxCalls /\ \A o : Sound(f, NoCells, o)
<1>1. made + 1 \in 1 .. MaxCalls
  BY BoundaryAssumption DEF Inv, Typed, CanCall
<1>2. f \in Frame
  BY <1>1, BoundaryAssumption, LanesExist, NothingRead DEF Frame
<1>3. Marshalled(f, NoCells)
  BY LanesExist, NothingRead DEF Marshalled
<1>. QED
  BY <1>1, <1>2, <1>3 DEF Sound

(* A call of infer_rows that finds the Marshaller free and clears it. *)
LEMMA InferRowsKeeps ==
  ASSUME Inv, InferRows  PROVE  Inv'
<1>1. PICK n \in 0 .. MaxRows : calls' = Began("marshaller", n)
  BY DEF InferRows
<1>. DEFINE f == [call |-> made + 1, n |-> n, path |-> "marshaller", phase |-> "marshal",
                  row |-> 1, lane |-> 1, cols |-> NoCells, out |-> <<>>]
<1>2. f \in Frame /\ made + 1 \in 0 .. MaxCalls /\ \A o : Sound(f, NoCells, o)
  BY FreshCall DEF InferRows
<1>3. calls' = Append(calls, f) /\ Mine(f)
  BY <1>1 DEF Began, Mine
<1>4. ~ borrowed /\ borrowed' = TRUE /\ cols' = NoCells /\ made' = made + 1 /\ UNCHANGED answer
  BY DEF InferRows, Free, ClearedCols
<1>. HIDE DEF f
<1>. QED
  BY <1>2, <1>3, <1>4, StartOfCall

(* A call that finds the Marshaller borrowed, or has none, and builds columns of its own. *)
LEMMA InferGenericKeeps ==
  ASSUME Inv, InferGeneric  PROVE  Inv'
<1>1. PICK n \in 0 .. MaxRows : calls' = Began("generic", n)
  BY DEF InferGeneric
<1>. DEFINE f == [call |-> made + 1, n |-> n, path |-> "generic", phase |-> "marshal",
                  row |-> 1, lane |-> 1, cols |-> NoCells, out |-> <<>>]
<1>2. f \in Frame /\ made + 1 \in 0 .. MaxCalls /\ \A o : Sound(f, NoCells, o)
  BY FreshCall DEF InferGeneric
<1>3. calls' = Append(calls, f) /\ ~ Mine(f)
  BY <1>1 DEF Began, Mine
<1>4. UNCHANGED <<borrowed, cols, out, answer>> /\ made' = made + 1
  BY DEF InferGeneric
<1>. HIDE DEF f
<1>5. Sound(f, cols', out')
  BY <1>2, <1>3, OthersDoNotLook
<1>. QED
  BY <1>2, <1>3, <1>4, <1>5, StartOfCall

(* A call of infer_arrow, whose columns are those of its batch. *)
LEMMA InferArrowKeeps ==
  ASSUME Inv, InferArrow  PROVE  Inv'
<1>. DEFINE whole(n) == [l \in LaneIds |-> [r \in 1 .. n |-> CellOf(made + 1, r, l)]]
            frame(n) == [call |-> made + 1, n |-> n, path |-> "arrow", phase |-> "marshal",
                         row |-> n + 1, lane |-> 1, out |-> <<>>, cols |-> whole(n)]
<1>1. PICK n \in 0 .. MaxRows : calls' = Append(calls, frame(n))
  BY DEF InferArrow, CellOf
<1>. DEFINE f == frame(n)
<1>2. made + 1 \in 1 .. MaxCalls /\ n \in Nat /\ n + 1 \in 1 .. MaxRows + 1 /\ 1 .. n \subseteq 1 .. MaxRows
  BY BoundaryAssumption DEF Inv, Typed, CanCall, InferArrow
<1>3. \A l \in LaneIds : /\ whole(n)[l] \in Seq(Cell) /\ Len(whole(n)[l]) = n
                         /\ \A r \in 1 .. n : whole(n)[l][r] = CellOf(made + 1, r, l)
  <2>. TAKE l \in LaneIds
  <2>1. \A r \in 1 .. n : CellOf(made + 1, r, l) \in Cell
    BY <1>2 DEF CellOf, Cell
  <2>. QED
    BY <1>2, <2>1
<1>4. whole(n) \in Columns
  BY <1>3 DEF Columns
<1>5. f \in Frame
  BY <1>2, <1>4, LanesExist, NothingRead DEF Frame
<1>6. Marshalled(f, f.cols)
  BY <1>2, <1>3, <1>4, LanesExist DEF Marshalled
<1>7. ~ Mine(f) /\ f.phase = "marshal"
  BY DEF Mine
<1>. HIDE DEF f
<1>8. Sound(f, cols', out')
  BY <1>6, <1>7 DEF Sound
<1>9. calls' = Append(calls, f) /\ UNCHANGED <<borrowed, cols, out, answer>>
  BY <1>1 DEF InferArrow, f
<1>10. made' \in 0 .. MaxCalls
  BY <1>2 DEF InferArrow
<1>. QED
  BY <1>5, <1>7, <1>8, <1>9, <1>10, StartOfCall

-----------------------------------------------------------------------------
(***************************************************************************)
(* A call goes on.                                                         *)
(***************************************************************************)

\* The position after the cell at f's.
Moved(f) == IF f.lane < Lanes THEN [f EXCEPT !.lane = @ + 1]
                              ELSE [f EXCEPT !.lane = 1, !.row = @ + 1]

Pushed(f, cs) == [cs EXCEPT ![f.lane] = Append(@, CellOf(f.call, f.row, f.lane))]

\* Reading a cell leaves the columns as the next position expects them.
LEMMA CellPushed ==
  ASSUME NEW f \in Frame, NEW cs, Marshalled(f, cs), f.row <= f.n
  PROVE  Moved(f) \in Frame /\ Marshalled(Moved(f), Pushed(f, cs))
<1>1. /\ f.row \in Nat \ {0} /\ f.n \in 0 .. MaxRows /\ f.row \in 1 .. MaxRows
      /\ f.call \in 1 .. MaxCalls /\ f.lane \in 1 .. Lanes /\ MaxRows \in Nat
      /\ Lanes \in Nat \ {0}
  BY BoundaryAssumption DEF Frame, LaneIds
<1>2. Moved(f) \in Frame
  <2>1. f.lane < Lanes => f.lane + 1 \in LaneIds
    BY <1>1 DEF LaneIds
  <2>2. 1 \in LaneIds /\ f.row + 1 \in 1 .. MaxRows + 1
    BY <1>1, LanesExist
  <2>. QED
    BY <2>1, <2>2 DEF Frame, Moved
<1>. DEFINE cell == CellOf(f.call, f.row, f.lane)
<1>3. cell \in Cell
  BY <1>1 DEF Cell, CellOf, LaneIds
<1>4. \A l \in LaneIds : /\ cs[l] \in Seq(Cell) /\ Len(cs[l]) \in Nat
                         /\ Len(cs[l]) = IF l < f.lane THEN f.row ELSE f.row - 1
                         /\ \A r \in 1 .. Len(cs[l]) : cs[l][r] = CellOf(f.call, r, l)
  BY DEF Marshalled, Columns
<1>. HIDE DEF cell
<1>5. /\ Append(cs[f.lane], cell) \in Seq(Cell)
      /\ Len(Append(cs[f.lane], cell)) = f.row
      /\ Append(cs[f.lane], cell)[f.row] = cell
      /\ \A r \in 1 .. f.row - 1 : Append(cs[f.lane], cell)[r] = cs[f.lane][r]
  <2>1. cs[f.lane] \in Seq(Cell) /\ Len(cs[f.lane]) = f.row - 1
    BY <1>1, <1>4 DEF LaneIds
  <2>. QED
    BY <1>1, <1>3, <2>1, PushedStack
<1>6. Pushed(f, cs) = [l \in LaneIds |-> IF l = f.lane THEN Append(cs[f.lane], cell) ELSE cs[l]]
  BY DEF Pushed, Marshalled, Columns, cell
<1>7. \A r \in 1 .. f.row : Append(cs[f.lane], cell)[r] = CellOf(f.call, r, f.lane)
  BY <1>1, <1>4, <1>5 DEF cell, LaneIds
<1>8. Pushed(f, cs) \in Columns
  BY <1>4, <1>5, <1>6 DEF Columns
<1>9. \A l \in LaneIds :
        /\ Len(Pushed(f, cs)[l]) = IF l <= f.lane THEN f.row ELSE f.row - 1
        /\ \A r \in 1 .. Len(Pushed(f, cs)[l]) : Pushed(f, cs)[l][r] = CellOf(f.call, r, l)
  <2>. TAKE l \in LaneIds
  <2>1. l \in Nat
    BY LanesExist
  <2>2. CASE l = f.lane
    BY <1>1, <1>5, <1>6, <1>7, <2>2
  <2>3. CASE l # f.lane
    BY <1>1, <1>4, <1>6, <2>1, <2>3
  <2>. QED
    BY <2>2, <2>3
<1>10. CASE f.lane < Lanes
  <2>1. Moved(f).row = f.row /\ Moved(f).n = f.n /\ Moved(f).lane = f.lane + 1
        /\ Moved(f).call = f.call
    BY <1>10 DEF Moved, Frame
  <2>2. \A l \in LaneIds : l < f.lane + 1 <=> l <= f.lane
    BY <1>1, LanesExist
  <2>. QED
    BY <1>1, <1>2, <1>8, <1>9, <2>1, <2>2 DEF Marshalled
<1>11. CASE ~ (f.lane < Lanes)
  <2>1. Moved(f).row = f.row + 1 /\ Moved(f).n = f.n /\ Moved(f).lane = 1
        /\ Moved(f).call = f.call
    BY <1>11 DEF Moved, Frame
  <2>2. \A l \in LaneIds : l <= f.lane /\ ~ (l < 1)
    BY <1>1, <1>11 DEF LaneIds
  <2>. QED
    BY <1>1, <1>2, <1>8, <1>9, <2>1, <2>2 DEF Marshalled
<1>. QED
  BY <1>10, <1>11

(* Reading one attribute of one row into its lane. *)
LEMMA ReadCellKeeps ==
  ASSUME Inv, ReadCell  PROVE  Inv'
<1>1. calls # <<>> /\ Top.phase = "marshal" /\ Top.row <= Top.n /\ UNCHANGED <<borrowed, out, made, answer>>
  BY DEF ReadCell
<1>2. Top \in Frame /\ Marshalled(Top, Filling(Top))
  BY <1>1, TopIsSound DEF Sound, Filling
<1>3. Moved(Top) \in Frame /\ Marshalled(Moved(Top), Pushed(Top, Filling(Top)))
  BY <1>1, <1>2, CellPushed
<1>4. Moved(Top).path = Top.path /\ Moved(Top).phase = "marshal"
  BY <1>1, <1>2 DEF Moved, Frame
<1>5. CASE Mine(Top)
  <2>1. calls' = OnTop(Moved(Top)) /\ cols' = Pushed(Top, Filling(Top))
    BY <1>5 DEF ReadCell, Moved, Pushed, CellOf
  <2>2. Mine(Moved(Top))
    BY <1>4, <1>5 DEF Mine
  <2>3. Sound(Moved(Top), cols', out')
    BY <1>3, <1>4, <2>1, <2>2 DEF Sound
  <2>. QED
    BY <1>1, <1>3, <1>4, <1>5, <2>1, <2>3, StepOfTop
<1>6. CASE ~ Mine(Top)
  <2>. DEFINE f == [Moved(Top) EXCEPT !.cols = Pushed(Top, Filling(Top))]
  <2>1. calls' = OnTop(f) /\ UNCHANGED cols
    BY <1>6 DEF ReadCell, Moved, Pushed, CellOf
  <2>2. Pushed(Top, Filling(Top)) \in Columns
    BY <1>3 DEF Marshalled
  <2>3. /\ f \in Frame /\ f.path = Top.path /\ f.phase = "marshal" /\ ~ Mine(f)
        /\ f.cols = Pushed(Top, Filling(Top))
        /\ f.row = Moved(Top).row /\ f.n = Moved(Top).n /\ f.lane = Moved(Top).lane
        /\ f.call = Moved(Top).call
    BY <1>3, <1>4, <1>6, <2>2 DEF Frame, Mine
  <2>. HIDE DEF f
  <2>4. Marshalled(f, f.cols)
    BY <1>3, <2>3 DEF Marshalled
  <2>5. Sound(f, cols', out')
    BY <2>3, <2>4 DEF Sound
  <2>. QED
    BY <1>1, <2>1, <2>3, <2>5, StepOfTop
<1>. QED
  BY <1>5, <1>6

\* A batch whose rows were all read holds its call's cells.
LEMMA ReadBatchIsFull ==
  ASSUME Inv, calls # <<>>, Top.phase = "marshal", Top.row > Top.n
  PROVE  /\ Full(Top, Filling(Top)) /\ Filling(Top) \in Columns
         /\ DOMAIN Filling(Top) = LaneIds
         /\ \A l \in LaneIds : Len(Filling(Top)[l]) = Top.n
<1>1. Top \in Frame /\ Marshalled(Top, Filling(Top))
  BY TopIsSound DEF Sound, Filling
<1>2. Top.row \in Nat /\ Top.n \in Nat /\ Top.row = Top.n + 1 /\ Top.lane = 1
  BY <1>1 DEF Frame, Marshalled
<1>3. \A l \in LaneIds : Len(Filling(Top)[l]) = Top.n
  BY <1>1, <1>2, LanesExist DEF Marshalled
<1>4. Filling(Top) \in Columns /\ DOMAIN Filling(Top) = LaneIds
  BY <1>1 DEF Marshalled, Columns
<1>5. Full(Top, Filling(Top))
  BY <1>1, <1>3, <1>4 DEF Marshalled, Full
<1>. QED
  BY <1>3, <1>4, <1>5

(* The rows are read, and the run begins on cleared output, or check_input refuses the batch. *)
LEMMA RunKeeps ==
  ASSUME Inv, Run  PROVE  Inv'
<1>1. /\ calls # <<>> /\ Top.phase = "marshal" /\ Top.row > Top.n /\ Top \in Frame
      /\ UNCHANGED <<made, answer>>
  BY TopIsSound DEF Run
<1>2. Full(Top, Filling(Top)) /\ Filling(Top) \in Columns
  BY <1>1, ReadBatchIsFull
<1>. DEFINE f == [Top EXCEPT !.phase = "run", !.row = 1, !.cols = Filling(Top), !.out = <<>>]
<1>3. \/ /\ calls' = OnTop(f) /\ UNCHANGED borrowed
         /\ IF Mine(Top) THEN out' = <<>> ELSE UNCHANGED <<cols, out>>
      \/ Ended /\ UNCHANGED <<cols, out>>
  BY DEF Run
<1>4. /\ f \in Frame /\ f.path = Top.path /\ f.phase = "run" /\ f.cols = Filling(Top)
      /\ f.out = <<>> /\ f.row = 1 /\ f.n = Top.n /\ f.call = Top.call
  <2>1. 1 \in 1 .. MaxRows + 1 /\ <<>> \in OutRows
    BY NothingRead, BoundaryAssumption
  <2>2. f.phase = "run" /\ f.row = 1 /\ f.cols = Filling(Top) /\ f.out = <<>>
    BY <1>1 DEF Frame
  <2>3. f.path = Top.path /\ f.n = Top.n /\ f.call = Top.call
    BY <1>1 DEF Frame
  <2>4. f \in Frame
    BY <1>1, <1>2, <2>1 DEF Frame
  <2>. QED
    BY <2>2, <2>3, <2>4
<1>. HIDE DEF f
<1>5. Full(f, f.cols) /\ f.row <= f.n + 1
  BY <1>2, <1>4 DEF Full, Frame
<1>6. OwnRows(<<>>, f.call, f.row)
  BY NothingRead DEF OwnRows
<1>7. CASE /\ calls' = OnTop(f) /\ UNCHANGED borrowed
           /\ IF Mine(Top) THEN out' = <<>> ELSE UNCHANGED <<cols, out>>
  <2>1. Sound(f, cols', out')
    BY <1>4, <1>5, <1>6, <1>7 DEF Sound, Mine
  <2>. QED
    BY <1>1, <1>4, <1>7, <2>1, StepOfTop
<1>8. CASE Ended /\ UNCHANGED <<cols, out>>
  <2>1. AnswerIsOwn'
    BY <1>1 DEF Inv, AnswerIsOwn
  <2>. QED
    BY <1>1, <1>8, <2>1, EndOfTop
<1>. QED
  BY <1>3, <1>7, <1>8

\* A row the program leaves out, and one it answers.
LEMMA RowPassed ==
  ASSUME NEW rows, NEW id, NEW r \in Nat \ {0}, OwnRows(rows, id, r)
  PROVE  OwnRows(rows, id, r + 1)
<1>1. 1 .. r - 1 \subseteq 1 .. (r + 1) - 1
  OBVIOUS
<1>. QED
  BY <1>1 DEF OwnRows

(* Answering one more row with its own cells leaves own rows only. *)
LEMMA RowAnswered ==
  ASSUME NEW rows, NEW id \in 1 .. MaxCalls, NEW r \in 1 .. MaxRows, OwnRows(rows, id, r)
  PROVE  OwnRows(Append(rows, WholeRow(id, r)), id, r + 1)
<1>. DEFINE row == WholeRow(id, r)
            all == Append(rows, row)
<1>1. row \in [LaneIds -> Cell]
  BY DEF WholeRow, CellOf, Cell
<1>2. row[1].row = r
  BY LanesExist DEF WholeRow, CellOf
<1>3. rows \in OutRows /\ Len(rows) \in Nat /\ DOMAIN rows = 1 .. Len(rows)
  BY LenProperties DEF OwnRows, OutRows
<1>. HIDE DEF row
<1>4. /\ all \in OutRows /\ Len(all) = Len(rows) + 1 /\ DOMAIN all = 1 .. Len(rows) + 1
      /\ all[Len(rows) + 1] = row /\ \A i \in 1 .. Len(rows) : all[i] = rows[i]
  BY <1>1, <1>3, PushedStack, LenProperties DEF OutRows
<1>. HIDE DEF all
<1>5. \A i \in DOMAIN rows : \E q \in 1 .. r - 1 : rows[i] = WholeRow(id, q) /\ rows[i][1].row = q
  BY LanesExist DEF OwnRows, WholeRow, CellOf
<1>6. \A i \in DOMAIN all : \E q \in 1 .. (r + 1) - 1 : all[i] = WholeRow(id, q)
  <2>. TAKE i \in DOMAIN all
  <2>1. CASE i = Len(rows) + 1
    <3>1. r \in 1 .. (r + 1) - 1
      OBVIOUS
    <3>. QED
      BY <1>4, <2>1, <3>1 DEF row
  <2>2. CASE i # Len(rows) + 1
    <3>1. i \in DOMAIN rows /\ all[i] = rows[i]
      BY <1>3, <1>4, <2>2
    <3>2. PICK q \in 1 .. r - 1 : rows[i] = WholeRow(id, q)
      BY <1>5, <3>1
    <3>3. q \in 1 .. (r + 1) - 1
      OBVIOUS
    <3>. QED
      BY <3>1, <3>2, <3>3
  <2>. QED
    BY <2>1, <2>2
<1>7. \A i, j \in DOMAIN all : i < j => all[i][1].row < all[j][1].row
  <2>. TAKE i, j \in DOMAIN all
  <2>. HAVE i < j
  <2>1. i \in DOMAIN rows /\ all[i] = rows[i]
    BY <1>3, <1>4
  <2>2. CASE j = Len(rows) + 1
    <3>1. all[j][1].row = r
      BY <1>2, <1>4, <2>2
    <3>2. PICK q \in 1 .. r - 1 : rows[i][1].row = q
      BY <1>5, <2>1
    <3>. QED
      BY <2>1, <3>1, <3>2
  <2>3. CASE j # Len(rows) + 1
    <3>1. j \in DOMAIN rows /\ all[j] = rows[j]
      BY <1>3, <1>4, <2>3
    <3>. QED
      BY <2>1, <3>1 DEF OwnRows
  <2>. QED
    BY <2>2, <2>3
<1>. QED
  BY <1>4, <1>6, <1>7 DEF OwnRows, all, row

\* The row that is run holds the call's own cells.
LEMMA RowIsOwn ==
  ASSUME Inv, calls # <<>>, Top.phase = "run", Top.row <= Top.n
  PROVE  /\ Top.call \in 1 .. MaxCalls /\ Top.row \in 1 .. MaxRows
         /\ RowOf(Top) = WholeRow(Top.call, Top.row)
<1>1. Top \in Frame /\ Full(Top, Top.cols)
  BY TopIsSound DEF Sound
<1>2. Top.row \in 1 .. Top.n /\ Top.row \in 1 .. MaxRows /\ Top.call \in 1 .. MaxCalls
  BY <1>1, BoundaryAssumption DEF Frame
<1>3. \A l \in LaneIds : Top.cols[l][Top.row] = CellOf(Top.call, Top.row, l)
  BY <1>1, <1>2 DEF Full
<1>. QED
  BY <1>2, <1>3 DEF RowOf, WholeRow

(* The compiled function answers a row or drops it. *)
LEMMA RunRowKeeps ==
  ASSUME Inv, RunRow  PROVE  Inv'
<1>1. /\ calls # <<>> /\ Top.phase = "run" /\ Top.row <= Top.n
      /\ UNCHANGED <<borrowed, cols, made, answer>>
  BY DEF RunRow
<1>2. /\ Top \in Frame /\ Full(Top, Top.cols)
      /\ OwnRows(IF Mine(Top) THEN out ELSE Top.out, Top.call, Top.row)
  BY <1>1, TopIsSound DEF Sound
<1>3. /\ Top.call \in 1 .. MaxCalls /\ Top.row \in 1 .. MaxRows
      /\ Top.row \in Nat \ {0} /\ RowOf(Top) = WholeRow(Top.call, Top.row)
  BY <1>1, RowIsOwn
<1>. DEFINE next == [Top EXCEPT !.row = @ + 1]
<1>4. Top.row + 1 \in 1 .. MaxRows + 1 /\ Top.row + 1 <= Top.n + 1
  BY <1>1, <1>2, <1>3, BoundaryAssumption DEF Frame
<1>5. /\ next \in Frame /\ next.row = Top.row + 1 /\ next.n = Top.n /\ next.call = Top.call
      /\ next.path = Top.path /\ next.phase = "run" /\ next.cols = Top.cols /\ next.out = Top.out
  BY <1>1, <1>2, <1>4 DEF Frame
<1>6. Full(next, next.cols) /\ next.row <= next.n + 1 /\ (Mine(next) <=> Mine(Top))
  BY <1>2, <1>4, <1>5 DEF Full, Mine
<1>7. CASE calls' = OnTop(next) /\ UNCHANGED out
  <2>1. OwnRows(IF Mine(next) THEN out' ELSE next.out, next.call, next.row)
    BY <1>2, <1>3, <1>5, <1>6, <1>7, RowPassed
  <2>2. Sound(next, cols', out')
    BY <1>5, <1>6, <2>1 DEF Sound
  <2>. HIDE DEF next
  <2>. QED
    BY <1>1, <1>5, <1>7, <2>2, StepOfTop
<1>8. CASE Mine(Top) /\ calls' = OnTop(next) /\ out' = Append(out, RowOf(Top))
  <2>1. OwnRows(out', next.call, next.row)
    BY <1>2, <1>3, <1>5, <1>8, RowAnswered
  <2>2. Sound(next, cols', out')
    BY <1>5, <1>6, <1>8, <2>1 DEF Sound
  <2>. HIDE DEF next
  <2>. QED
    BY <1>1, <1>5, <1>8, <2>2, StepOfTop
<1>9. CASE /\ ~ Mine(Top) /\ UNCHANGED out
           /\ calls' = OnTop([next EXCEPT !.out = Append(@, RowOf(Top))])
  <2>. DEFINE f == [next EXCEPT !.out = Append(@, RowOf(Top))]
  <2>. HIDE DEF next
  <2>1. OwnRows(Append(next.out, RowOf(Top)), next.call, next.row)
    BY <1>2, <1>3, <1>5, <1>9, RowAnswered
  <2>2. Append(next.out, RowOf(Top)) \in OutRows
    BY <2>1 DEF OwnRows
  <2>3. /\ f \in Frame /\ f.row = next.row /\ f.n = next.n /\ f.call = next.call
        /\ f.path = next.path /\ f.phase = "run" /\ f.cols = next.cols
        /\ f.out = Append(next.out, RowOf(Top))
    BY <1>5, <2>2 DEF Frame
  <2>. HIDE DEF f
  <2>4. Full(f, f.cols) /\ f.row <= f.n + 1 /\ ~ Mine(f)
    BY <1>6, <1>9, <2>3 DEF Full, Mine
  <2>5. Sound(f, cols', out')
    BY <2>1, <2>3, <2>4 DEF Sound
  <2>6. calls' = OnTop(f)
    BY <1>9 DEF f
  <2>. QED
    BY <1>1, <1>5, <1>9, <2>3, <2>5, <2>6, StepOfTop
<1>. QED
  BY <1>7, <1>8, <1>9 DEF RunRow

(* Every row was run, and the columns of the Marshaller are put back. *)
LEMMA RanWellKeeps ==
  ASSUME Inv, RanWell  PROVE  Inv'
<1>1. /\ calls # <<>> /\ Top.phase = "run" /\ calls' = OnTop([Top EXCEPT !.phase = "emit"])
      /\ Mine(Top) \/ UNCHANGED <<cols, out>>
      /\ UNCHANGED <<borrowed, out, made, answer>>
  BY DEF RanWell
<1>2. Top \in Frame /\ OwnRows(IF Mine(Top) THEN out ELSE Top.out, Top.call, Top.row)
  BY <1>1, TopIsSound DEF Sound
<1>. DEFINE f == [Top EXCEPT !.phase = "emit"]
<1>3. /\ f \in Frame /\ f.path = Top.path /\ f.phase = "emit" /\ f.out = Top.out
      /\ f.call = Top.call /\ f.row = Top.row
  BY <1>2 DEF Frame
<1>4. calls' = OnTop(f)
  BY <1>1
<1>. HIDE DEF f
<1>5. Sound(f, cols', out')
  BY <1>1, <1>2, <1>3 DEF Sound, Mine
<1>. QED
  BY <1>1, <1>3, <1>4, <1>5, StepOfTop

-----------------------------------------------------------------------------
(***************************************************************************)
(* A call ends.                                                            *)
(***************************************************************************)

(* An attribute raises, a row traps, or an output cannot be converted: the call ends and the
   borrow with it. *)
LEMMA FailureKeeps ==
  ASSUME Inv, ReadFails \/ ValueRefused \/ RunTraps \/ AnswerFails  PROVE  Inv'
<1>1. calls # <<>> /\ Ended /\ UNCHANGED <<made, answer>>
  BY DEF ReadFails, ValueRefused, RunTraps, AnswerFails
<1>2. Mine(Top) \/ UNCHANGED <<cols, out>>
  BY DEF ReadFails, ValueRefused, RunTraps, AnswerFails, BackOnTrap
<1>3. AnswerIsOwn'
  BY <1>1 DEF Inv, AnswerIsOwn
<1>. QED
  BY <1>1, <1>2, <1>3, EndOfTop

(* A call returns its answer and gives the Marshaller back. *)
LEMMA AnswerKeeps ==
  ASSUME Inv, Answer  PROVE  Inv'
<1>1. calls # <<>> /\ Ended /\ UNCHANGED <<cols, out, made>>
  BY DEF Answer
<1>2. Top \in Frame /\ OwnRows(answer'.rows, answer'.call, Top.row)
  BY <1>1, TopIsSound DEF Answer, Sound
<1>3. Top.row \in Nat
  BY <1>2, BoundaryAssumption DEF Frame
<1>4. AnswerIsOwn'
  BY <1>2, <1>3 DEF AnswerIsOwn
<1>. QED
  BY <1>1, <1>4, EndOfTop

-----------------------------------------------------------------------------
(***************************************************************************)
(* The theorems.                                                           *)
(***************************************************************************)

(* The inductive invariant: the Marshaller belongs to the one call that borrowed it, and
   whatever a call has read so far are cells of its own rows in order. *)
THEOREM InvHolds == Spec => []Inv
<1>1. Init => Inv
  <2>. SUFFICES ASSUME Init PROVE Inv
    OBVIOUS
  <2>1. /\ calls = <<>> /\ DOMAIN calls = {} /\ calls \in Seq(Frame)
        /\ borrowed = FALSE /\ made = 0
    BY DEF Init
  <2>2. Typed /\ OneOwner /\ CallsAreSound
    <3>1. 0 \in 0 .. MaxCalls
      BY BoundaryAssumption
    <3>. QED
      BY <2>1, <3>1 DEF Typed, OneOwner, CallsAreSound
  <2>3. OwnRows(answer.rows, answer.call, 0)
    BY NothingRead DEF Init, OwnRows
  <2>. QED
    BY <2>2, <2>3 DEF Inv, AnswerIsOwn
<1>2. Inv /\ [Next]_vars => Inv'
  <2>. SUFFICES ASSUME Inv, [Next]_vars PROVE Inv'
    OBVIOUS
  <2>1. CASE UNCHANGED vars
    BY <2>1 DEF vars, Inv, Typed, OneOwner, CallsAreSound, AnswerIsOwn
  <2>2. CASE InferRows \/ InferGeneric \/ InferArrow
    BY <2>2, InferRowsKeeps, InferGenericKeeps, InferArrowKeeps
  <2>3. CASE ReadCell \/ Run \/ RunRow \/ RanWell
    BY <2>3, ReadCellKeeps, RunKeeps, RunRowKeeps, RanWellKeeps
  <2>4. CASE ReadFails \/ ValueRefused \/ RunTraps \/ AnswerFails
    BY <2>4, FailureKeeps
  <2>5. CASE Answer
    BY <2>5, AnswerKeeps
  <2>. QED
    BY <2>1, <2>2, <2>3, <2>4, <2>5 DEF Next
<1>. QED
  BY <1>1, <1>2, PTL DEF Spec

-----------------------------------------------------------------------------
(***************************************************************************)
(* Validity bits and payloads.                                             *)
(***************************************************************************)

\* A step of the innermost call adds as many bits as payloads, or leaves the
\* reading.
LEMMA BitsOfTop ==
  ASSUME Inv, BitForCell, calls # <<>>, valid' \in [LaneIds -> Nat],
         NEW f, calls' = OnTop(f), f.path = Top.path,
         Mine(Top) \/ UNCHANGED <<cols, valid>>,
         Mine(f) /\ f.phase = "marshal" =>
           \A l \in LaneIds : valid'[l] = Len(cols'[l])
  PROVE  BitForCell'
<1>1. Top = calls[Len(calls)] /\ Len(calls) \in Nat \ {0} /\ DOMAIN calls = 1 .. Len(calls)
  BY TopIsSound, LenProperties DEF Inv, Typed
<1>. DEFINE below == SubSeq(calls, 1, Len(calls) - 1)
<1>2. /\ below \in Seq(Frame) /\ Len(below) = Len(calls) - 1
      /\ \A i \in 1 .. Len(calls) - 1 : below[i] = calls[i]
  BY PoppedStack DEF Inv, Typed
<1>3. calls' = Append(below, f)
  BY DEF OnTop, Front
<1>. HIDE DEF below
<1>4. /\ DOMAIN calls' = 1 .. Len(calls) /\ calls'[Len(calls)] = f
      /\ \A i \in 1 .. Len(calls) - 1 : calls'[i] = calls[i]
  <2>. DEFINE S == Frame \union {f}
  <2>1. below \in Seq(S) /\ f \in S
    BY <1>2
  <2>. HIDE DEF S
  <2>2. /\ Append(below, f) \in Seq(S) /\ Len(Append(below, f)) = Len(below) + 1
        /\ Append(below, f)[Len(below) + 1] = f
        /\ \A i \in 1 .. Len(below) : Append(below, f)[i] = below[i]
    BY <2>1, PushedStack
  <2>3. DOMAIN Append(below, f) = 1 .. Len(below) + 1
    BY <2>2, LenProperties
  <2>4. Len(below) + 1 = Len(calls)
    BY <1>1, <1>2
  <2>5. DOMAIN calls' = 1 .. Len(calls) /\ calls'[Len(calls)] = f
    BY <1>3, <2>2, <2>3, <2>4, Zenon
  <2>6. \A i \in 1 .. Len(calls) - 1 : calls'[i] = calls[i]
    BY <1>2, <1>3, <2>2, Zenon
  <2>. QED
    BY <2>5, <2>6
<1>5. ASSUME NEW i \in DOMAIN calls', Mine(calls'[i]), calls'[i].phase = "marshal",
             NEW l \in LaneIds
      PROVE  valid'[l] = Len(cols'[l])
  <2>1. CASE i = Len(calls)
    BY <1>4, <1>5, <2>1
  <2>2. CASE i # Len(calls)
    <3>1. i \in DOMAIN calls /\ calls'[i] = calls[i]
      BY <1>1, <1>4, <2>2
    <3>2. ~ Mine(Top)
      BY <1>1, <1>5, <2>2, <3>1 DEF Inv, OneOwner
    <3>. QED
      BY <1>5, <3>1, <3>2 DEF BitForCell
  <2>. QED
    BY <2>1, <2>2
<1>. QED
  BY <1>5 DEF BitForCell

\* The calls that are left when the innermost ends do not own what it owned.
LEMMA BitsBelow ==
  ASSUME Inv, BitForCell, calls # <<>>, valid' \in [LaneIds -> Nat], Ended,
         Mine(Top) \/ UNCHANGED <<cols, valid>>
  PROVE  BitForCell'
<1>1. Top = calls[Len(calls)] /\ Len(calls) \in Nat \ {0} /\ DOMAIN calls = 1 .. Len(calls)
  BY TopIsSound, LenProperties DEF Inv, Typed
<1>2. /\ calls' \in Seq(Frame) /\ Len(calls') = Len(calls) - 1
      /\ \A i \in 1 .. Len(calls) - 1 : calls'[i] = calls[i]
  BY PoppedStack DEF Inv, Typed, Ended, Front
<1>3. DOMAIN calls' = 1 .. Len(calls) - 1
  BY <1>1, <1>2, LenProperties
<1>4. \A i \in DOMAIN calls' : i \in DOMAIN calls /\ i # Len(calls) /\ calls'[i] = calls[i]
  BY <1>1, <1>2, <1>3
<1>5. CASE Mine(Top)
  <2>1. \A i \in DOMAIN calls' : ~ Mine(calls'[i])
    BY <1>1, <1>4, <1>5 DEF Inv, OneOwner
  <2>. QED
    BY <2>1 DEF BitForCell
<1>6. CASE UNCHANGED <<cols, valid>>
  BY <1>4, <1>6 DEF BitForCell
<1>. QED
  BY <1>5, <1>6

\* A call that begins clears bits and payloads, or owns neither.
LEMMA BitsOfStart ==
  ASSUME Inv, BitForCell, InferRows \/ InferGeneric \/ InferArrow
  PROVE  BitForCell'
<1>1. ASSUME NEW f, calls' = Append(calls, f)
      PROVE  /\ DOMAIN calls' = DOMAIN calls \union {Len(calls) + 1}
             /\ \A i \in DOMAIN calls : calls'[i] = calls[i] /\ i # Len(calls) + 1
             /\ calls'[Len(calls) + 1] = f
  BY <1>1, LenProperties DEF Inv, Typed
<1>2. CASE InferRows
  <2>1. PICK n \in 0 .. MaxRows : calls' = Began("marshaller", n)
    BY <1>2 DEF InferRows
  <2>2. \A i \in DOMAIN calls : ~ Mine(calls[i])
    BY <1>2 DEF InferRows, Free, Inv, OneOwner
  <2>3. valid' = NoBits /\ cols' = NoCells
    BY <1>2 DEF InferRows, ClearedCols, ClearedBits
  <2>4. ASSUME NEW l \in LaneIds
        PROVE  valid'[l] = Len(cols'[l])
    <3>1. NoBits[l] = 0 /\ Len(NoCells[l]) = 0
      BY NothingRead DEF NoBits
    <3>. QED
      BY <2>3, <3>1
  <2>. QED
    BY <2>3, <2>4 DEF BitForCell, NoBits
<1>3. CASE InferGeneric \/ InferArrow
  <2>1. PICK f : calls' = Append(calls, f) /\ ~ Mine(f)
    <3>1. CASE InferGeneric
      BY <3>1 DEF InferGeneric, Began, Mine
    <3>2. CASE InferArrow
      <4>1. PICK n \in 0 .. MaxRows : calls' = Append(calls,
              [call |-> made + 1, n |-> n, path |-> "arrow", phase |-> "marshal",
               row |-> n + 1, lane |-> 1, out |-> <<>>,
               cols |-> [l \in LaneIds |-> [r \in 1 .. n |-> CellOf(made + 1, r, l)]]])
        BY <3>2 DEF InferArrow, CellOf
      <4>. QED
        BY <4>1 DEF Mine
    <3>. QED
      BY <1>3, <3>1, <3>2
  <2>2. UNCHANGED <<cols, valid>>
    BY <1>3 DEF InferGeneric, InferArrow
  <2>. QED
    BY <1>1, <2>1, <2>2 DEF BitForCell
<1>. QED
  BY <1>2, <1>3

\* One bit more.
LEMMA MarkedIsTyped ==
  ASSUME Inv, BitForCell, calls # <<>>
  PROVE  /\ Marked \in [LaneIds -> Nat]
         /\ \A l \in LaneIds : Marked[l] = IF l = Top.lane THEN valid[l] + 1 ELSE valid[l]
BY TopIsSound DEF Marked, BitForCell, Frame

\* A cell is a payload and a bit.
LEMMA BitsOfCell ==
  ASSUME Inv, BitForCell, ReadCell
  PROVE  BitForCell'
<1>1. calls # <<>> /\ Top.phase = "marshal" /\ Top.row <= Top.n
  BY DEF ReadCell
<1>2. /\ Top \in Frame /\ Marshalled(Top, Filling(Top)) /\ Len(calls) \in DOMAIN calls
      /\ Top = calls[Len(calls)]
  BY <1>1, TopIsSound DEF Sound, Filling
<1>3. Moved(Top) \in Frame /\ Marshalled(Moved(Top), Pushed(Top, Filling(Top)))
  BY <1>1, <1>2, CellPushed
<1>4. Moved(Top).path = Top.path /\ Moved(Top).phase = "marshal"
  BY <1>1, <1>2 DEF Moved, Frame
<1>5. CASE Mine(Top)
  <2>1. calls' = OnTop(Moved(Top)) /\ cols' = Pushed(Top, cols) /\ valid' = Marked
    BY <1>5 DEF ReadCell, Moved, Pushed, CellOf, Filling
  <2>2. cols \in Columns /\ \A l \in LaneIds : valid[l] = Len(cols[l])
    BY <1>1, <1>2, <1>5 DEF BitForCell, Marshalled, Filling
  <2>3. \A l \in LaneIds : Len(cols'[l]) = IF l = Top.lane THEN Len(cols[l]) + 1 ELSE Len(cols[l])
    <3>1. cols' = [cols EXCEPT ![Top.lane] = Append(@, CellOf(Top.call, Top.row, Top.lane))]
      BY <2>1 DEF Pushed
    <3>. DEFINE cell == CellOf(Top.call, Top.row, Top.lane)
    <3>2. \A l \in LaneIds : cols'[l] = IF l = Top.lane THEN Append(cols[l], cell) ELSE cols[l]
      BY <2>2, <3>1 DEF Columns
    <3>3. \A l \in LaneIds : Len(Append(cols[l], cell)) = Len(cols[l]) + 1
      BY <2>2 DEF Columns
    <3>. HIDE DEF cell
    <3>. QED
      BY <3>2, <3>3
  <2>4. \A l \in LaneIds : valid'[l] = Len(cols'[l])
    BY <1>1, <2>1, <2>2, <2>3, MarkedIsTyped
  <2>. QED
    BY <1>1, <1>4, <1>5, <2>1, <2>4, MarkedIsTyped, BitsOfTop
<1>6. CASE ~ Mine(Top)
  <2>. DEFINE f == [Moved(Top) EXCEPT !.cols = Pushed(Top, Filling(Top))]
  <2>1. calls' = OnTop(f) /\ UNCHANGED <<cols, valid>>
    BY <1>6 DEF ReadCell, Moved, Pushed, CellOf
  <2>2. f.path = Top.path /\ ~ Mine(f)
    BY <1>3, <1>4, <1>6 DEF Frame, Mine
  <2>. HIDE DEF f
  <2>3. valid' \in [LaneIds -> Nat]
    BY <2>1 DEF BitForCell
  <2>. QED
    BY <1>1, <2>1, <2>2, <2>3, BitsOfTop
<1>. QED
  BY <1>5, <1>6

\* Bits keep pace with payloads in every call that fills the Marshaller,
\* whatever the calls before it left behind.
LEMMA BitsKeepPace == Spec => []BitForCell
<1>1. Init => BitForCell
  BY DEF Init, BitForCell, NoBits
<1>2. Inv /\ BitForCell /\ [Next]_vars => BitForCell'
  <2>. SUFFICES ASSUME Inv, BitForCell, [Next]_vars PROVE BitForCell'
    OBVIOUS
  <2>1. CASE UNCHANGED vars
    BY <2>1 DEF vars, BitForCell
  <2>2. CASE InferRows \/ InferGeneric \/ InferArrow
    BY <2>2, BitsOfStart
  <2>3. CASE ReadCell
    BY <2>3, BitsOfCell
  <2>4. CASE ReadFails \/ RunTraps \/ Answer \/ AnswerFails
    <3>1. calls # <<>> /\ Ended /\ UNCHANGED valid /\ (Mine(Top) \/ UNCHANGED <<cols, valid>>)
      BY <2>4 DEF ReadFails, RunTraps, Answer, AnswerFails, BackOnTrap
    <3>2. valid' \in [LaneIds -> Nat]
      BY <3>1 DEF BitForCell
    <3>. QED
      BY <3>1, <3>2, BitsBelow
  <2>5. CASE ValueRefused
    <3>1. calls # <<>> /\ Ended /\ UNCHANGED cols /\ valid' = IF Mine(Top) THEN Marked ELSE valid
      BY <2>5 DEF ValueRefused
    <3>2. valid' \in [LaneIds -> Nat]
      BY <3>1, MarkedIsTyped DEF BitForCell
    <3>. QED
      BY <3>1, <3>2, BitsBelow
  <2>6. CASE Run
    <3>1. calls # <<>> /\ UNCHANGED valid /\ valid' \in [LaneIds -> Nat] /\ Top \in Frame
      BY <2>6, TopIsSound DEF Run, BitForCell
    <3>. DEFINE f == [Top EXCEPT !.phase = "run", !.row = 1, !.cols = Filling(Top), !.out = <<>>]
    <3>2. \/ calls' = OnTop(f) /\ (Mine(Top) \/ UNCHANGED <<cols, valid>>)
          \/ Ended /\ UNCHANGED <<cols, valid>>
      BY <2>6, <3>1 DEF Run
    <3>3. f.path = Top.path /\ f.phase = "run"
      BY <3>1 DEF Frame
    <3>. HIDE DEF f
    <3>. QED
      BY <3>1, <3>2, <3>3, BitsOfTop, BitsBelow
  <2>7. CASE RanWell
    <3>1. /\ calls # <<>> /\ UNCHANGED valid /\ valid' \in [LaneIds -> Nat] /\ Top \in Frame
          /\ (Mine(Top) \/ UNCHANGED <<cols, valid>>)
      BY <2>7, TopIsSound DEF RanWell, BitForCell
    <3>. DEFINE f == [Top EXCEPT !.phase = "emit"]
    <3>2. calls' = OnTop(f) /\ f.path = Top.path /\ f.phase = "emit"
      BY <2>7, <3>1 DEF RanWell, Frame
    <3>. HIDE DEF f
    <3>. QED
      BY <3>1, <3>2, BitsOfTop
  <2>8. CASE RunRow
    <3>1. /\ calls # <<>> /\ UNCHANGED <<cols, valid>> /\ valid' \in [LaneIds -> Nat]
          /\ Top \in Frame /\ Top.phase = "run"
      BY <2>8, TopIsSound DEF RunRow, BitForCell
    <3>. DEFINE next == [Top EXCEPT !.row = @ + 1]
                more == [next EXCEPT !.out = Append(@, RowOf(Top))]
    <3>2. calls' = OnTop(next) \/ calls' = OnTop(more)
      BY <2>8 DEF RunRow
    <3>3. /\ next.path = Top.path /\ next.phase = "run"
          /\ more.path = Top.path /\ more.phase = "run"
      BY <3>1 DEF Frame
    <3>. HIDE DEF next, more
    <3>. QED
      BY <3>1, <3>2, <3>3, BitsOfTop
  <2>. QED
    BY <2>1, <2>2, <2>3, <2>4, <2>5, <2>6, <2>7, <2>8 DEF Next
<1>. QED
  BY <1>1, <1>2, InvHolds, PTL DEF Spec

-----------------------------------------------------------------------------
\* AnswersOwnRows of ServeBoundary, for any lanes, rows, calls and depth: a
\* batch whose rows were all read is run, and every answer is made of its own
\* call's rows, each whole and in order.
THEOREM EveryAnswerIsItsOwn == Spec => []AnswersOwnRows
<1>1. Inv /\ BitForCell => AnswersOwnRows
  <2>. SUFFICES ASSUME Inv, BitForCell PROVE AnswersOwnRows
    OBVIOUS
  <2>1. ASSUME calls # <<>>, Top.phase = "marshal", Top.row > Top.n
        PROVE  Fits(Top)
    <3>1. /\ DOMAIN Filling(Top) = LaneIds
          /\ \A l \in LaneIds : Len(Filling(Top)[l]) = Top.n
      BY <2>1, ReadBatchIsFull
    <3>2. Mine(Top) => \A l \in LaneIds : valid[l] = Len(cols[l])
      BY <2>1, TopIsSound DEF BitForCell
    <3>3. Nullable \subseteq LaneIds
      BY BoundaryAssumption DEF LaneIds
    <3>. QED
      BY <3>1, <3>2, <3>3 DEF Fits, Filling
  <2>2. PICK upto \in Nat : OwnRows(answer.rows, answer.call, upto)
    BY DEF Inv, AnswerIsOwn
  <2>3. \A i \in DOMAIN answer.rows : \A l \in LaneIds :
          /\ answer.rows[i][l].call = answer.call /\ answer.rows[i][l].lane = l
          /\ answer.rows[i][l].row = answer.rows[i][1].row
    <3>. TAKE i \in DOMAIN answer.rows
    <3>. TAKE l \in LaneIds
    <3>1. PICK r \in 1 .. upto - 1 : answer.rows[i] = WholeRow(answer.call, r)
      BY <2>2 DEF OwnRows
    <3>2. \A k \in LaneIds : answer.rows[i][k] = CellOf(answer.call, r, k)
      BY <3>1 DEF WholeRow
    <3>3. answer.rows[i][1].row = r
      <4>1. WholeRow(answer.call, r)[1].row = r
        BY LanesExist DEF WholeRow, CellOf
      <4>. QED
        BY <3>1, <4>1
    <3>4. answer.rows[i][l] = CellOf(answer.call, r, l)
      BY <3>2
    <3>5. answer.rows[i][l].call = answer.call
      BY <3>4 DEF CellOf
    <3>6. answer.rows[i][l].lane = l
      BY <3>4 DEF CellOf
    <3>7. answer.rows[i][l].row = r
      BY <3>4 DEF CellOf
    <3>. QED
      BY <3>3, <3>5, <3>6, <3>7
  <2>. QED
    BY <2>1, <2>2, <2>3 DEF AnswersOwnRows, OwnRows
<1>. QED
  BY <1>1, InvHolds, BitsKeepPace, PTL

\* OuterStandsStill of ServeBoundary, for any lanes, rows, calls and depth: no
\* step of a call touches the frame or the buffers of one it is nested in.
THEOREM OuterCallsStandStill == Spec => OuterStandsStill
<1>. DEFINE Still == \A i \in DOMAIN calls :
                       i < Len(calls) /\ i \in DOMAIN calls' =>
                         /\ calls'[i] = calls[i]
                         /\ Mine(calls[i]) => UNCHANGED <<cols, valid, out>>
<1>1. Inv /\ [Next]_vars => [Still]_vars
  <2>. SUFFICES ASSUME Inv, Next PROVE Still
    OBVIOUS
  <2>1. Len(calls) \in Nat /\ DOMAIN calls = 1 .. Len(calls) /\ calls \in Seq(Frame)
    BY LenProperties DEF Inv, Typed
  <2>2. ASSUME NEW f, calls' = Append(calls, f), ~ borrowed \/ UNCHANGED <<cols, valid, out>>
        PROVE  Still
    <3>1. \A i \in DOMAIN calls : calls'[i] = calls[i]
      BY <2>1, <2>2
    <3>2. ~ borrowed => \A i \in DOMAIN calls : ~ Mine(calls[i])
      BY DEF Inv, OneOwner
    <3>. QED
      BY <2>2, <3>1, <3>2
  <2>3. ASSUME calls # <<>>, Mine(Top) \/ UNCHANGED <<cols, valid, out>>,
               \A i \in 1 .. Len(calls) - 1 : calls'[i] = calls[i]
        PROVE  Still
    <3>1. Top = calls[Len(calls)] /\ Len(calls) \in DOMAIN calls
      BY <2>3, TopIsSound
    <3>2. \A i \in DOMAIN calls : i < Len(calls) => i \in 1 .. Len(calls) - 1
      BY <2>1
    <3>3. Mine(Top) => \A i \in DOMAIN calls : i < Len(calls) => ~ Mine(calls[i])
      BY <2>1, <3>1 DEF Inv, OneOwner
    <3>. QED
      BY <2>3, <3>2, <3>3
  <2>4. CASE InferRows \/ InferGeneric \/ InferArrow
    BY <2>2, <2>4 DEF InferRows, InferGeneric, InferArrow, Began, Free
  <2>5. ASSUME NEW f, calls # <<>>, calls' = OnTop(f), Mine(Top) \/ UNCHANGED <<cols, valid, out>>
        PROVE  Still
    <3>. DEFINE below == SubSeq(calls, 1, Len(calls) - 1)
    <3>1. /\ below \in Seq(Frame) /\ Len(below) = Len(calls) - 1
          /\ \A i \in 1 .. Len(calls) - 1 : below[i] = calls[i]
      BY <2>1, <2>5, PoppedStack
    <3>2. calls' = Append(below, f)
      BY <2>5 DEF OnTop, Front
    <3>. HIDE DEF below
    <3>3. \A i \in 1 .. Len(below) : Append(below, f)[i] = below[i]
      BY <3>1
    <3>. QED
      BY <2>3, <2>5, <3>1, <3>2, <3>3
  <2>6. ASSUME calls # <<>>, Ended, Mine(Top) \/ UNCHANGED <<cols, valid, out>>
        PROVE  Still
    <3>1. \A i \in 1 .. Len(calls) - 1 : calls'[i] = calls[i]
      BY <2>1, <2>6, PoppedStack DEF Ended, Front
    <3>. QED
      BY <2>3, <2>6, <3>1
  <2>7. CASE ReadCell \/ RanWell \/ RunRow
    BY <2>5, <2>7 DEF ReadCell, RanWell, RunRow
  <2>8. CASE Run
    BY <2>5, <2>6, <2>8 DEF Run
  <2>9. CASE ReadFails \/ ValueRefused \/ RunTraps \/ Answer \/ AnswerFails
    BY <2>6, <2>9 DEF ReadFails, ValueRefused, RunTraps, Answer, AnswerFails, BackOnTrap
  <2>. QED
    BY <2>4, <2>7, <2>8, <2>9 DEF Next
<1>. QED
  BY <1>1, InvHolds, PTL DEF Spec, OuterStandsStill
=============================================================================
