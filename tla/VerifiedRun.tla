---------------------------- MODULE VerifiedRun -----------------------------
(***************************************************************************)
(* Verifier and interpreter together: compile_ext refuses a program the    *)
(* verifier has an error for, and what it accepts is run again and again   *)
(* on one RunState.                                                        *)
(***************************************************************************)
EXTENDS Verifier, RowLoop

\* compile_ext makes an InterpFn of a program the verifier accepts, and of no
\* other.
ASSUME CompiledAssumption == Programs = { p \in Submitted : Verified(p) }

allVars == <<verifierVars, vars>>

\* A program that is still being verified, or was refused, has no frame yet.
VerifyAndRunInit == VerifierInit /\ prog = input /\ Fresh

Verify == VerifierNext /\ UNCHANGED vars

Run == Accepted /\ Next /\ UNCHANGED verifierVars

VerifyAndRunNext == Verify \/ Run

\* `verify' is a loop-bound computation: nothing but itself can hold it up, and
\* a call that has begun runs on until it returns.
VerifyAndRun ==
  /\ VerifyAndRunInit /\ [][VerifyAndRunNext]_allVars
  /\ WF_allVars(Verify) /\ WF_allVars(Accepted /\ Step /\ UNCHANGED verifierVars)

\* What is accepted runs within its frame: block, instruction, edge, argument
\* and register always exist. A refused program has no frame to speak of.
FrameOK == Accepted => TypeOK

\* The verifier's flow state is what the interpreter meets: whenever control
\* enters a block, on every path, row and call, each column has as many cells
\* beyond the emitted rows as entry_state says.
EntryStateIsMet ==
  status = "running" /\ ip = 0 /\ via = 0 =>
    \A c \in Cols : Len(out[c]) - count = entry[block][c]
=============================================================================
