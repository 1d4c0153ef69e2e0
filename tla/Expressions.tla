----------------------------- MODULE Expressions ----------------------------
(***************************************************************************)
(* From a bound plan to the answer of a row                                *)
(* (packages/confit/src/specializer: fold.rs, share.rs, lower.rs): the     *)
(* plan is folded, each stage's projection is shared, and what lowering    *)
(* emits for it is run over one row. A stage's columns become the next     *)
(* one's slots, at the bottom of the live stack; a shared value is put     *)
(* above them just before the first column that reads it, and taken out    *)
(* after the last.                                                         *)
(***************************************************************************)
EXTENDS EmitExpr

CONSTANTS Plans, RowsOfPlan(_)

VARIABLES
  source,  \* the plan as it was bound
  plan,    \* the plan being lowered
  row,     \* the input row
  phase,   \* "bound", "head", "share", "columns", or how the row ended
  si,      \* the stage
  shared,  \* its projection once shared: [defs, items, first, until]
  ci,      \* the next of its columns
  st,      \* the run (EmitExpr)
  out      \* the columns stored

vars == <<source, plan, row, phase, si, shared, ci, st, out>>

Ends == {"answered", "skipped", "trapped"}

NoShared == [defs |-> <<>>, items |-> <<>>, first |-> <<>>, until |-> <<>>]

Init ==
  /\ source \in Plans
  /\ row \in RowsOfPlan(source)
  /\ plan = source /\ phase = "bound" /\ si = 1 /\ shared = NoShared /\ ci = 1
  /\ st = [cols |-> row, live |-> <<>>, at |-> <<>>, joins |-> source.joins,
           sites |-> << >>, probes |-> << >>, seeds |-> << >>, trap |-> 0]
  /\ out = <<>>

---------------------------------------------------------------------------
FoldAll(es) == [ i \in DOMAIN es |-> Fold(es[i]) ]
FoldStage(s) == [s EXCEPT !.pred = FoldAll(@), !.items = FoldAll(@), !.lets = FoldAll(@)]
FoldJoin(j) ==
  [j EXCEPT !.keys = FoldAll(@), !.residual = FoldAll(@),
            !.fold = [ i \in DOMAIN @ |-> [@[i] EXCEPT !.pred = FoldAll(@),
                                                     !.post = FoldAll(@)] ]]

FoldPlan ==
  /\ phase = "bound"
  /\ plan' = [joins |-> [ j \in DOMAIN plan.joins |-> FoldJoin(plan.joins[j]) ],
              stages |-> [ k \in DOMAIN plan.stages |-> FoldStage(plan.stages[k]) ]]
  /\ st' = [st EXCEPT !.joins = plan'.joins]
  /\ phase' = "head"
  /\ UNCHANGED <<source, row, si, shared, ci, out>>

---------------------------------------------------------------------------
(* lower_stage_head: the joins, the WHERE, the joins after it.              *)

\* A fold that cannot trap is left to the columns that read it.
Traps(fold, joins) ==
  \E e \in RangeOf(fold.pred) \union RangeOf(fold.post) \union RangeOf(joins[fold.rows].keys) :
    CanTrap(e)
Unforced(j, joins) ==
  joins[j].scan \/ (joins[j].fold # <<>> /\ ~ Traps(joins[j].fold[1], joins))

\* The joins js from i on, in order: an inner one that misses drops the row.
RunJoins(js, after, s0) ==
  LET Inner(p) == IF p.hit = 0 THEN [skip |-> TRUE, st |-> p.st]
                  ELSE [skip |-> FALSE, st |-> Switch(p.st)]
      Landed(j, p) == IF p.st.trap = 0 /\ plan.joins[j].kind = "inner" /\ ~after THEN Inner(p)
                      ELSE [skip |-> FALSE, st |-> p.st]
      From[i \in 0 .. Len(js)] ==
        IF i = 0 THEN [skip |-> FALSE, st |-> s0]
        ELSE LET r == From[i - 1] IN
             IF \/ r.skip \/ r.st.trap # 0
                \/ plan.joins[js[i]].after # after \/ Unforced(js[i], plan.joins)
             THEN r ELSE Landed(js[i], RunProbe(js[i], r.st))
  IN From[Len(js)]

\* The rows that pass the WHERE go on, to the joins after it.
RunWhere(stage, s) ==
  LET Through(r) == [skip |-> FALSE, st |-> r.st]
      Passed(t) == IF t.st.trap # 0 \/ t.lane.v = 1
                   THEN [skip |-> FALSE, st |-> IF t.st.trap # 0 THEN t.st ELSE Switch(t.st)]
                   ELSE [skip |-> TRUE, st |-> t.st]
      Of(w) == IF w.skip \/ w.st.trap # 0 THEN w ELSE Through(RunJoins(stage.joins, TRUE, w.st))
  IN Of(IF stage.pred = <<>> THEN [skip |-> FALSE, st |-> s]
        ELSE Passed(RunTruth(stage.pred[1], s)))

StageHead ==
  LET stage == plan.stages[si]
      Filtered(r) == IF r.skip \/ r.st.trap # 0 THEN r ELSE RunWhere(stage, r.st)
  IN /\ phase = "head"
     /\ \E r \in {Filtered(RunJoins(stage.joins, FALSE, st))} :
          /\ st' = r.st
          /\ phase' = IF r.st.trap # 0 THEN "trapped" ELSE IF r.skip THEN "skipped" ELSE "share"
     /\ UNCHANGED <<source, plan, row, si, shared, ci, out>>

---------------------------------------------------------------------------
(* The projection.                                                          *)

Reads(e) == { x.n : x \in { y \in Nodes(e) : y.op = "shared" } }
Least(S) == CHOOSE x \in S : \A y \in S : x <= y
Most(S)  == CHOOSE x \in S : \A y \in S : x >= y

\* first_item: where each shared value is first read, by an item or by a later
\* shared value that is computed there.
FirstItem(defs, items) ==
  LET First[k \in 1 .. Len(defs)] ==
        Least({ i \in DOMAIN items : k \in Reads(items[i]) }
              \union { First[j] : j \in { j \in k + 1 .. Len(defs) : k \in Reads(defs[j]) } })
  IN First

\* until_item: where it is last read.
UntilItem(defs, items, first) ==
  [ k \in DOMAIN defs |->
      Most({ i \in DOMAIN items : k \in Reads(items[i]) }
           \union { first[j] : j \in { j \in DOMAIN defs : k \in Reads(defs[j]) } }) ]

ShareStage ==
  LET Placed(sh, first) == [defs |-> sh.defs, items |-> sh.items, first |-> first,
                            until |-> UntilItem(sh.defs, sh.items, first)]
      Of(sh) == Placed(sh, FirstItem(sh.defs, sh.items))
  IN /\ phase = "share"
     /\ shared' = Of(Share([ i \in DOMAIN plan.stages[si].items |->
                               ReadLets(plan.stages[si].items[i], plan.stages[si].lets) ]))
     /\ st' = [st EXCEPT !.at = [ k \in DOMAIN shared'.defs |-> 0 ]]
     /\ ci' = 1 /\ phase' = "columns"
     /\ UNCHANGED <<source, plan, row, si, out>>

\* emit_shared_for: the shared values first read by column c, in order.
EmitSharedFor(c, s0) ==
  LET From[k \in 0 .. Len(shared.defs)] ==
        IF k = 0 THEN s0
        ELSE LET s == From[k - 1]
                 Held(r) == [r.st EXCEPT !.live = Append(@, r.lane), !.at[k] = Len(r.st.live) + 1]
             IN IF shared.first[k] # c \/ s.trap # 0 THEN s ELSE Held(Run(shared.defs[k], s))
  IN From[Len(shared.defs)]

Without(s, i) == SubSeq(s, 1, i - 1) \o SubSeq(s, i + 1, Len(s))

DropInPlace(c, s0) ==   \* mutant: what lies above keeps its place
  LET From[k \in 0 .. Len(shared.defs)] ==
        IF k = 0 THEN s0
        ELSE LET s == From[k - 1]
             IN IF shared.until[k] # c \/ s.at[k] = 0 THEN s
                ELSE [s EXCEPT !.live = Without(@, s.at[k]), !.at[k] = 0]
  IN From[Len(shared.defs)]

\* drop_dead_shared: those last read by column c leave the live stack, and
\* every shared value above one moves down.
DropDeadShared(c, s0) ==
  LET From[k \in 0 .. Len(shared.defs)] ==
        IF k = 0 THEN s0
        ELSE LET s == From[k - 1]
                 p == s.at[k]
             IN IF shared.until[k] # c \/ p = 0 THEN s
                ELSE [s EXCEPT !.live = Without(@, p),
                               !.at = [ x \in DOMAIN @ |->
                                          IF x = k THEN 0
                                          ELSE IF @[x] > p THEN @[x] - 1 ELSE @[x] ]]
  IN From[Len(shared.defs)]

IsLast == si = Len(plan.stages)

\* A nullable column is stored with its flag, any other without.
Stored(e, l) == IF e.nul /\ l.flag = 0 THEN Null ELSE Val(l.v)

Column ==
  /\ phase = "columns" /\ ci <= Len(shared.items)
  /\ \E r \in {Run(shared.items[ci], EmitSharedFor(ci, st))} :
       IF r.st.trap # 0
       THEN st' = r.st /\ phase' = "trapped" /\ UNCHANGED <<ci, out>>
       ELSE /\ st' = DropDeadShared(ci, IF IsLast THEN r.st
                                       ELSE [r.st EXCEPT !.live = Append(@, r.lane)])
            /\ out' = IF IsLast THEN Append(out, Stored(plan.stages[si].items[ci], r.lane))
                      ELSE out
            /\ ci' = ci + 1
            /\ UNCHANGED phase
  /\ UNCHANGED <<source, plan, row, si, shared>>

\* The inner stage's scope is closed: what is left are its columns, as slots.
NextStage ==
  /\ phase = "columns" /\ ci > Len(shared.items) /\ ~IsLast
  /\ st' = [st EXCEPT !.live = SubSeq(@, 1 + IF si = 1 THEN 0 ELSE Len(plan.stages[si - 1].items),
                                      Len(@))]
  /\ si' = si + 1 /\ phase' = "head"
  /\ UNCHANGED <<source, plan, row, shared, ci, out>>

Emit ==
  /\ phase = "columns" /\ ci > Len(shared.items) /\ IsLast
  /\ phase' = "answered"
  /\ UNCHANGED <<source, plan, row, si, shared, ci, st, out>>

Done == phase \in Ends /\ UNCHANGED vars

Next == FoldPlan \/ StageHead \/ ShareStage \/ Column \/ NextStage \/ Emit \/ Done

Spec == Init /\ [][Next]_vars

---------------------------------------------------------------------------
(* Properties.                                                              *)

\* The plan a reader of the SQL has in mind: every let read where it stands.
Spelled == [source EXCEPT !.stages =
              [ k \in DOMAIN @ |->
                  [@[k] EXCEPT !.items = [ i \in DOMAIN @ |-> ReadLets(@[i], source.stages[k].lets) ]] ]]

\* A row ends as SQL ends it: with the same columns, dropped by the same join
\* or WHERE, or with the first trap SQL meets, whatever was folded, shared,
\* dropped as checked before, dispatched, or computed on rows that never
\* asked for it.
RowEndsAsSql ==
  phase \in Ends =>
    LET EndsAs(sql) == CASE phase = "answered" -> sql.is = "go" /\ out = sql.row
                         [] phase = "skipped" -> sql.is = "skip"
                         [] phase = "trapped" -> sql.is = "trap" /\ st.trap = sql.n
    IN EndsAs(SqlAnswer(Spelled, row))

\* What may be computed early, or on a row that never asked, cannot trap: of
\* every expression of the plan, can_trap says no only where SQL raises
\* nothing, and what trap_skeleton keeps of a column nobody reads traps as
\* the column would have, on the same rows and with the same trap.
TrapsOf(r) == IF r.is = "trap" THEN r.n ELSE 0
TrapFactsAreSound ==
  phase = "bound" /\ Len(plan.joins) = 0 =>
    \A e \in AllNodes(Spelled.stages[1].items \o Spelled.stages[1].pred) :
      LET kept == TrapSkeleton(e)
          traps == TrapsOf(Sql(e, row))
      IN /\ CanTrap(e) \/ traps = 0
         /\ MayTrap(e) \/ traps = 0
         /\ traps = IF kept = <<>> THEN 0 ELSE TrapsOf(Sql(kept[1], row))

\* A shared definition, or an item, with the definitions it reads put back.
RECURSIVE PutBack(_)
PutBack(e) == IF e.op = "shared" THEN PutBack(shared.defs[e.n])
              ELSE [e EXCEPT !.kids = [ i \in DOMAIN e.kids |-> PutBack(e.kids[i]) ]]

\* Between two columns the live stack holds the inner stage's columns, this
\* stage's so far when another follows, and exactly the shared values that
\* are still to be read, each with the value its expression has in SQL.
LiveStackIsExact ==
  phase = "columns" =>
    LET slots == IF si = 1 THEN 0 ELSE Len(plan.stages[si - 1].items)
        held == { k \in DOMAIN st.at : st.at[k] # 0 }
        Values(scope) == \A k \in held : /\ st.at[k] \in DOMAIN st.live
                                         /\ OutcomeOf(st.live[st.at[k]])
                                              = Sql(PutBack(shared.defs[k]), scope)
        Over(inner) == /\ \A i \in 1 .. slots : OutcomeOf(st.live[i]) = inner[i]
                       /\ Values(SqlScope(plan, si, inner).row)
    IN /\ Len(st.live) = slots + (IF IsLast THEN 0 ELSE ci - 1) + Cardinality(held)
       /\ held = { k \in DOMAIN st.at : shared.first[k] < ci /\ ci <= shared.until[k] }
       /\ Over(SqlAfter(plan, si - 1, row).row)

\* A row whose column is NULL in SQL raises nothing: the docs say so of every
\* operation that checks its operands.
NullPreemptsTraps ==
  phase = "trapped" => SqlAnswer(Spelled, row).is = "trap"
=============================================================================
