---------------------------- MODULE FrozenServing ----------------------------
(***************************************************************************)
(* A program's life (_program.py): it is built from a query, its steps are *)
(* run over one __FIT__ on a connection of its own, and what the residual  *)
(* reads is shipped and serves any __THIS__. The answers are to be those   *)
(* of the query itself, over both (Program.run, "freezing is faithful").   *)
(***************************************************************************)
EXTENDS Freezing

CONSTANTS Queries,      \* the authored texts, parsed
          FitTables, ThisTables

VARIABLES phase, query, data, program,
          at,           \* the step to run next
          con,          \* what the connection has registered, by folded name
          params,       \* the tables kept, by parameter
          served        \* the last batch and its answer
vars == <<phase, query, data, program, at, con, params, served>>

NoTables == <<>>
Nought   == Result(<<>>, <<>>, 0)
NoBatch  == [this |-> Nought, answer |-> Nought]
Without(f, names) == [n \in DOMAIN f \ names |-> f[n]]

Init ==
  /\ phase = "written" /\ query \in Queries /\ data \in FitTables
  /\ program = [steps |-> <<>>, residual |-> query, shadow |-> {}, refused |-> ""]
  /\ at = 1 /\ con = NoTables /\ params = NoTables /\ served = NoBatch

Construct ==
  /\ phase = "written"
  /\ program' = Plan(query)
  /\ phase' = IF program'.refused = "" THEN "built" ELSE "refused"
  /\ UNCHANGED <<query, data, at, con, params, served>>

\* DuckDB prefers a field of a nested column of __FIT__ to an outer relation.
Shadowed == \E i \in DOMAIN data.cols : data.cols[i].field # "" /\ Fold(data.cols[i].s) \in program.shadow

Begin ==
  /\ phase = "built"
  /\ IF Shadowed THEN phase' = "failed" /\ con' = NoTables
                 ELSE phase' = "fitting" /\ con' = (Fold(FIT) :> data)
  /\ UNCHANGED <<query, data, program, at, params, served>>

Order == ParamsOf(program.steps)
Shipped == Referenced(program.residual, Order)
ReadBy(i) == Referenced(program.steps[i].node, Order)   \* mutant: the first use releases
NeverGiven(i) == {}                                     \* mutant: none does

\* The parameters no step after this one reads.
LastReadBy(i) == { p \in Referenced(program.steps[i].node, Order) :
                     \A j \in i + 1 .. Len(program.steps) : p \notin Referenced(program.steps[j].node, Order) }

FitStep ==
  /\ phase = "fitting" /\ at <= Len(program.steps)
  /\ LET step  == program.steps[at]
         table == Answer(step.node, con, <<>>)
         done  == LastReadBy(at) \ Shipped
     IN  IF table.bad # 0
         THEN phase' = "failed" /\ con' = NoTables /\ params' = NoTables /\ UNCHANGED at
         ELSE /\ params' = Without((step.param :> table) @@ params, done)
              /\ con' = Without((Fold(step.param) :> table) @@ con, { Fold(p) : p \in done })
              /\ at' = at + 1 /\ UNCHANGED phase
  /\ UNCHANGED <<query, data, program, served>>

\* Everything is released; what is left is the artifact.
FitDone ==
  /\ phase = "fitting" /\ at > Len(program.steps)
  /\ phase' = "fitted" /\ con' = NoTables
  /\ UNCHANGED <<query, data, program, at, params, served>>

\* The parameters are registered in the order the steps were run.
Leased(this) ==
  FoldLeft(LAMBDA acc, s : IF s.param \in DOMAIN params
                           THEN (Fold(s.param) :> params[s.param]) @@ acc ELSE acc,
           Fold(THIS) :> this, program.steps)

Serve ==
  /\ phase \in {"fitted", "served"}
  /\ \E this \in ThisTables :
       served' = [this |-> this, answer |-> Answer(program.residual, Leased(this), <<>>)]
  /\ phase' = "served"
  /\ UNCHANGED <<query, data, program, at, con, params>>

Done == phase \in {"refused", "failed"} /\ UNCHANGED vars

Next == Construct \/ Begin \/ FitStep \/ FitDone \/ Serve \/ Done
Spec == Init /\ [][Next]_vars

-----------------------------------------------------------------------------

\* The names a query needs registered: those no WITH around them defines.
RECURSIVE FreeNames(_, _)
FreeNames(v, bound) ==
  LET ctes == CteEntries(v)
      upto(n) == bound \union { Fold(ctes[i].key) : i \in 1 .. n }
  IN  IF v.is = "table" THEN {Fold(v.name)} \ bound
      ELSE UNION { FreeNames(ctes[i].query, upto(i - 1)) : i \in DOMAIN ctes }
             \union UNION { FreeNames(c, upto(Len(ctes))) : c \in Range(Children(v)) }

\* Every batch an artifact serves is answered, header and all, as the authored
\* query answers it over the training relation and the batch: freezing,
\* lifting and pruning change nothing (Program.run's "freezing is faithful").
\* The exception is the named error of a key fitted in several spellings.
Authored == Answer(query, (Fold(FIT) :> data) @@ (Fold(THIS) :> served.this), <<>>)
ServedAsAuthored ==
  phase = "served" =>
    \/ served.answer.bad # 0 /\ Authored.bad # 0
    \/ served.answer = Authored
    \/ /\ served.answer.bad = FanOut
       /\ \E r, s \in Range(data.rows) :
            r[1] # s[1] /\ r[1] >= 100 /\ s[1] >= 100 /\ r[1] % 100 = s[1] % 100

\* A step is run only over what is registered by then: the training relation
\* and parameters of earlier steps not yet given back, never __THIS__, which
\* does not exist at fit (_analysis._reads: a CTE may hide a __THIS__).
StepsStandAlone ==
  phase = "fitting" /\ at <= Len(program.steps) => FreeNames(program.steps[at].node, {}) \subseteq DOMAIN con

\* The artifact holds exactly the tables its residual reads: none is missing,
\* no intermediate is shipped with the training rows it carries, and none of
\* the residual still reads __FIT__ (Program.fit: "only the parameters the
\* residual reads are shipped"; _plan._refuse_whole_fit).
ArtifactIsClosed ==
  phase \in {"fitted", "served"} =>
    FreeNames(program.residual, {}) \ {Fold(THIS)} = { Fold(p) : p \in DOMAIN params }
=============================================================================
