------------------------------- MODULE Leases -------------------------------
(***************************************************************************)
(* What an execution registers on a connection its caller lent             *)
(* (sql_transform/_program.py): _lease, _session, _settle, Program.fit and *)
(* .run, Fitted.transform, .relation and .release, _give_back.             *)
(*                                                                         *)
(* Everything runs in one Python thread, so what is under way is a stack:  *)
(* the body of an execution calls Python functions that may start another, *)
(* and the collector may run an artifact's finalizer anywhere.             *)
(*                                                                         *)
(* A name is <<base, token>>. The catalog maps each registered name to the *)
(* execution that registered it; 0 is the caller. A connection the         *)
(* execution owns dies with it and has nothing to give back: it is left    *)
(* out.                                                                    *)
(***************************************************************************)
EXTENDS Integers, SequencesExt, Functions

CONSTANTS
  Bases,          \* the readable names: tables, functions and parameters
  Needs,          \* the bases one execution registers, in order
  Functions,      \* those of them that are functions, not tables
  FitOps,         \* fit's steps after the lease: [op, param]
  CallerThreads,  \* the caller's own threads setting
  RemovalMayFail, \* whether unregister and remove_function may raise
  MaxTokens,      \* bound: names drawn from _EXECUTIONS
  MaxDepth,       \* bound: calls under way at once
  MaxTries        \* bound: how often one lease is released

\* The parameters registered and not dropped before step k of a fit.
Landed(k) ==
  { FitOps[j].param : j \in { j \in 1 .. k - 1 :
      /\ FitOps[j].op = "register"
      /\ \A m \in j + 1 .. k - 1 : FitOps[m] # [op |-> "drop", param |-> FitOps[j].param] } }

\* A fit drops what an earlier step registered, after its last use.
ASSUME LeasesAssumption ==
  /\ Needs \in Seq(Bases) /\ Functions \subseteq Bases
  /\ FitOps \in Seq([op : {"register", "drop"}, param : Bases])
  /\ \A k \in DOMAIN FitOps : FitOps[k].op = "drop" => FitOps[k].param \in Landed(k)
  /\ CallerThreads \in Nat \ {0} /\ RemovalMayFail \in BOOLEAN
  /\ MaxTokens \in Nat /\ MaxDepth \in Nat /\ MaxTries \in Nat

VARIABLES
  stack,    \* the calls under way, the innermost last
  catalog,  \* registered name -> the execution that registered it
  threads,  \* the database's threads setting
  alive,    \* the fitted artifacts somebody holds: [id, row], row for _row_udfs
  leases,   \* artifact -> Fitted._leases, each lease [id, held]
  drawn,    \* how many tokens _EXECUTIONS has handed out
  failed,   \* history: names whose removal raised
  tried     \* history: how often a lease of relation() was released

vars == <<stack, catalog, threads, alive, leases, drawn, failed, tried>>

Tokens == 1 .. MaxTokens

Top == Last(stack)
OnTop(f) == Append(Front(stack), f)

\* User code runs: outside, and in the callbacks of an execution's body.
UserRuns == stack # <<>> => Top.phase = "body"

CallerNames == { <<b, 0>> : b \in ToSet(Needs) }

-----------------------------------------------------------------------------
Readable(base, token) == <<base, 0>>    \* mutant: no rename
Under(base, token) == <<base, token>>

Began(kind, art, row) ==
  [kind |-> kind, id |-> drawn + 1, art |-> art, row |-> row, phase |-> "lease",
   next |-> 1, held |-> {}, todo |-> {}, error |-> FALSE, observed |-> threads]

CanCall == Len(stack) < MaxDepth

-----------------------------------------------------------------------------
\* _session and the start of _lease. A projection's execution sets threads
\* to 1 and remembers what it found.
Open(kind, art, row) ==
  /\ UserRuns /\ CanCall /\ drawn < MaxTokens
  /\ stack' = Append(stack, Began(kind, art, row))
  /\ drawn' = drawn + 1
  /\ threads' = IF row THEN 1 ELSE threads
  /\ UNCHANGED <<catalog, alive, leases, failed, tried>>

Fit == \E row \in BOOLEAN : Open("fit", 0, row)

\* Program.run, and transform of an artifact: _leased.
Run == \E row \in BOOLEAN : Open("eager", 0, row)
Transform == \E a \in alive : Open("eager", a.id, a.row)

Relation == \E a \in alive : Open("relation", a.id, FALSE)

-----------------------------------------------------------------------------
Leasing == stack # <<>> /\ Top.phase = "lease"

\* create_function refuses a name that is taken; register replaces a table.
Taken(name) == name[1] \in Functions /\ name \in DOMAIN catalog

Land(name) ==
  catalog' = [n \in DOMAIN catalog \union {name} |-> IF n = name THEN Top.id ELSE catalog[n]]

Register ==
  /\ Leasing /\ Top.next <= Len(Needs)
  /\ LET name == Under(Needs[Top.next], Top.id) IN
       /\ ~ Taken(name) /\ Land(name)
       /\ stack' = OnTop([Top EXCEPT !.next = @ + 1, !.held = @ \union {name}])
  /\ UNCHANGED <<threads, alive, leases, drawn, failed, tried>>

HeldOnly(f) == f.held

\* A registration raises: what landed is given back, then the error goes on.
RegisterFails ==
  /\ Leasing /\ Top.next <= Len(Needs)
  /\ stack' = OnTop([Top EXCEPT !.phase = "undo", !.error = TRUE,
                                !.todo = HeldOnly(Top)])
  /\ UNCHANGED <<catalog, threads, alive, leases, drawn, failed, tried>>

\* The lease of an eager execution is its session's to undo.
LeaseHeld ==
  /\ Leasing /\ Top.next > Len(Needs) /\ Top.kind # "relation"
  /\ stack' = OnTop([Top EXCEPT !.phase = "body", !.next = 1])
  /\ UNCHANGED <<catalog, threads, alive, leases, drawn, failed, tried>>

\* The lease of a lazy one is the artifact's, whether con.sql then binds the
\* relation or raises.
LeaseHandedOver ==
  /\ Leasing /\ Top.next > Len(Needs) /\ Top.kind = "relation"
  /\ leases' = [leases EXCEPT ![Top.art] =
                  Append(@, [id |-> Top.id, held |-> Top.held])]
  /\ stack' = Front(stack)
  /\ UNCHANGED <<catalog, threads, alive, drawn, failed, tried>>

-----------------------------------------------------------------------------
InBody == stack # <<>> /\ Top.phase = "body"
FitOp(op) == InBody /\ Top.kind = "fit" /\ Top.next <= Len(FitOps) /\ FitOps[Top.next].op = op

\* A fit step's table lands under a token of its own.
RegisterParam ==
  /\ FitOp("register") /\ drawn < MaxTokens
  /\ LET name == Under(FitOps[Top.next].param, drawn + 1) IN
       /\ Land(name)
       /\ stack' = OnTop([Top EXCEPT !.next = @ + 1, !.held = @ \union {name}])
  /\ drawn' = drawn + 1
  /\ UNCHANGED <<threads, alive, leases, failed, tried>>

\* unregister and remove_function. Removing a function that is not there
\* raises; unregistering a table that is not there does nothing.
Unregister(name, raises) ==
  /\ IF name[1] \in Functions /\ name \notin DOMAIN catalog
     THEN raises
     ELSE raises => RemovalMayFail
  /\ catalog' = IF raises THEN catalog ELSE Restrict(catalog, DOMAIN catalog \ {name})
  /\ failed' = IF raises THEN failed \union ({name} \intersect DOMAIN catalog)
                         ELSE failed \ {name}

\* An intermediate nothing later reads leaves names, then the connection.
DropParam ==
  /\ FitOp("drop")
  /\ LET name == CHOOSE n \in Top.held : n[1] = FitOps[Top.next].param
         rest == Top.held \ {name}
     IN  \/ /\ Unregister(name, FALSE)
            /\ stack' = OnTop([Top EXCEPT !.next = @ + 1, !.held = rest])
         \/ /\ Unregister(name, TRUE)
            /\ stack' = OnTop([Top EXCEPT !.phase = "undo", !.error = TRUE, !.held = rest,
                                          !.todo = rest])
  /\ UNCHANGED <<threads, alive, leases, drawn, tried>>

\* The body is over, with an answer or an exception.
BodyEnds ==
  /\ InBody
  /\ \E error \in BOOLEAN :
       /\ Top.kind = "fit" /\ ~ error => Top.next > Len(FitOps)
       /\ stack' = OnTop([Top EXCEPT !.phase = "undo", !.error = error,
                                     !.todo = Top.held])
  /\ UNCHANGED <<catalog, threads, alive, leases, drawn, failed, tried>>

-----------------------------------------------------------------------------
Undoing == stack # <<>> /\ Top.phase = "undo"

\* release: the tables, then the functions that were really made.
Cleanups(todo) ==
  LET tables == { n \in todo : n[1] \notin Functions } IN IF tables = {} THEN todo ELSE tables

RestUnless(todo, name, raises) == IF raises THEN {} ELSE todo \ {name}   \* mutant
Rest(todo, name, raises) == todo \ {name}

\* _settle: one cleanup; a failure does not stop the others.
Settle ==
  /\ Undoing
  /\ \E raises \in BOOLEAN : \E name \in Cleanups(Top.todo) :
       /\ Unregister(name, raises)
       /\ stack' = OnTop([Top EXCEPT !.todo = Rest(@, name, raises), !.error = @ \/ raises,
                                     !.held = @ \ {name}])
  /\ UNCHANGED <<threads, alive, leases, drawn, tried>>

ResetThreads(f) == CallerThreads   \* mutant: RESET
PutBack(f) == f.observed

\* The cleanups are done, and only then the threads go back. A fit that went
\* well has made an artifact.
Close ==
  /\ Undoing /\ Top.todo = {} /\ Top.kind # "release"
  /\ stack' = Front(stack)
  /\ threads' = IF Top.row THEN PutBack(Top) ELSE threads
  /\ alive' = IF Top.kind = "fit" /\ ~ Top.error THEN alive \union {[id |-> Top.id, row |-> Top.row]} ELSE alive
  /\ UNCHANGED <<catalog, leases, drawn, failed, tried>>

-----------------------------------------------------------------------------
\* _give_back on an artifact's list, called by release() or by its finalizer.
GiveBack(a) ==
  /\ CanCall
  /\ stack' = Append(stack, [Began("release", a, FALSE) EXCEPT
                               !.phase = "undo", !.id = 0, !.next = 0])
  /\ UNCHANGED <<catalog, threads, leases, drawn, failed, tried>>

Release ==
  /\ UserRuns
  /\ \E a \in alive :
       /\ \A i \in DOMAIN leases[a.id] : tried[leases[a.id][i].id] < MaxTries
       /\ GiveBack(a.id)
  /\ UNCHANGED alive

\* Nobody holds the artifact any more.
Collect ==
  \E a \in alive :
    /\ \A i \in DOMAIN stack : stack[i].art # a.id
    /\ alive' = alive \ {a} /\ GiveBack(a.id)

\* The next lease of the list, when the last one was released cleanly.
NextLease ==
  /\ Undoing /\ Top.kind = "release" /\ Top.todo = {} /\ ~ Top.error
  /\ Top.next < Len(leases[Top.art])
  /\ LET lease == leases[Top.art][Top.next + 1] IN
       /\ stack' = OnTop([Top EXCEPT !.next = @ + 1, !.todo = lease.held])
       /\ tried' = [tried EXCEPT ![lease.id] = @ + 1]
  /\ UNCHANGED <<catalog, threads, alive, leases, drawn, failed>>

GaveBack ==
  /\ Undoing /\ Top.kind = "release" /\ Top.todo = {} /\ ~ Top.error
  /\ Top.next = Len(leases[Top.art])
  /\ leases' = [leases EXCEPT ![Top.art] = <<>>]
  /\ stack' = Front(stack)
  /\ UNCHANGED <<catalog, threads, alive, drawn, failed, tried>>

\* A lease whose release raised ends the loop: the list is not cleared.
GiveBackFails ==
  /\ Undoing /\ Top.kind = "release" /\ Top.todo = {} /\ Top.error
  /\ stack' = Front(stack)
  /\ UNCHANGED <<catalog, threads, alive, leases, drawn, failed, tried>>

-----------------------------------------------------------------------------
Init ==
  /\ stack = <<>> /\ catalog = [n \in CallerNames |-> 0]
  /\ threads = CallerThreads /\ alive = {} /\ drawn = 0 /\ failed = {}
  /\ leases = [a \in Tokens |-> <<>>] /\ tried = [a \in Tokens |-> 0]

Next ==
  \/ Fit \/ Run \/ Transform \/ Relation
  \/ Register \/ RegisterFails \/ LeaseHeld \/ LeaseHandedOver
  \/ RegisterParam \/ DropParam \/ BodyEnds
  \/ Settle \/ Close
  \/ Release \/ Collect \/ NextLease \/ GaveBack \/ GiveBackFails

Spec == Init /\ [][Next]_vars

-----------------------------------------------------------------------------
(***************************************************************************)
(* Properties.                                                             *)
(***************************************************************************)

Executions == { i \in DOMAIN stack : stack[i].kind # "release" }

Leased == UNION { ToSet(leases[a]) : a \in Tokens }

\* Whatever the connection holds beyond its caller's own objects is held by an
\* execution under way or by a lease of relation() -- or its removal raised.
\* Nothing of fit, run or transform outlives the call, however it ends.
NothingOutlives ==
  DOMAIN catalog \subseteq
    CallerNames \union failed
      \union (UNION { stack[i].held : i \in Executions })
      \union (UNION { lease.held : lease \in Leased })

\* Every execution reads what it registered itself: an eager one until it has
\* given it back, a lazy relation until its artifact is released or collected.
\* The caller's own objects stay what they are.
BindingsHold ==
  LET Bound(names, id) == \A n \in names : n \in DOMAIN catalog /\ catalog[n] = id IN
  /\ Bound(CallerNames, 0)
  /\ \A i \in Executions : Bound(stack[i].held, stack[i].id)
  /\ \A lease \in Leased : tried[lease.id] = 0 => Bound(lease.held, lease.id)

\* A projection's execution, and whatever it calls, runs at threads = 1; when
\* none is under way the database has its caller's setting again.
ThreadsAreObserved ==
  threads = IF \E i \in DOMAIN stack : stack[i].row THEN 1 ELSE CallerThreads
=============================================================================
