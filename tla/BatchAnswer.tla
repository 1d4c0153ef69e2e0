---------------------------- MODULE BatchAnswer -----------------------------
(***************************************************************************)
(* What a call promises its caller, whichever backend runs it (the         *)
(* contract of `run' in exec/interp.rs and exec/cranelift.rs): the answer  *)
(* is built from whole output rows, each from one input row, in the order  *)
(* of the input rows; it is published only when every input row is done,   *)
(* and a failed call is void.                                              *)
(***************************************************************************)
EXTENDS Integers, Sequences

CONSTANTS
  Columns,   \* the output columns
  MaxInput   \* bound: input rows of one call

VARIABLES
  state,     \* "idle", "running", "ok" or "err"
  input,     \* how many input rows the call has
  next,      \* the input row whose turn it is
  answer,    \* the output rows: per column, the input row of its cell
  published  \* how many rows the caller is told of

vars == <<state, input, next, answer, published>>

Init ==
  /\ state = "idle" /\ input = 0 /\ next = 0
  /\ answer = <<>> /\ published = 0

Begin ==
  /\ state # "running"
  /\ state' = "running"
  /\ input' \in 0 .. MaxInput /\ next' = 0
  /\ answer' = <<>> /\ published' = 0

\* The current input row yields one more output row, and may be done with it.
Yield ==
  /\ state = "running" /\ next < input
  /\ answer' = Append(answer, [c \in Columns |-> next])
  /\ next' \in {next, next + 1}
  /\ UNCHANGED <<state, input, published>>

\* The current input row yields nothing more.
Drop ==
  /\ state = "running" /\ next < input
  /\ next' = next + 1
  /\ UNCHANGED <<state, input, answer, published>>

Publish ==
  /\ state = "running" /\ next = input
  /\ state' = "ok" /\ published' = Len(answer)
  /\ UNCHANGED <<input, next, answer>>

\* A trap in a row, or a batch refused at the door: the call is void.
Fail ==
  /\ \/ state = "running" /\ next < input
     \/ state # "running"
  /\ state' = "err"
  /\ UNCHANGED <<input, next, answer, published>>

Next == Begin \/ Yield \/ Drop \/ Publish \/ Fail

Spec == Init /\ [][Next]_vars
=============================================================================
