------------------------------ MODULE Freezing ------------------------------
(***************************************************************************)
(* Freezing (_plan.py, _analysis.py, _correlate.py): a query over __FIT__  *)
(* and __THIS__ becomes the steps that are run once at fit, each a table   *)
(* registered under a parameter's name, and the residual query that reads  *)
(* those tables and __THIS__ when it is served.                            *)
(*                                                                         *)
(* The walks thread the plan made so far: its steps, the qualifiers a      *)
(* lifted correlation took for outer ones, and why the query is refused.   *)
(***************************************************************************)
EXTENDS FitQuery

Fresh == [steps |-> <<>>, shadow |-> {}, refused |-> ""]
Refuse(st, why) == IF st.refused = "" THEN [st EXCEPT !.refused = why] ELSE st
ParamsOf(steps) == { steps[i].param : i \in DOMAIN steps }

-----------------------------------------------------------------------------
(* What a subtree reads, and what it reaches out to. `outer' is the set of *)
(* names bound around it, folded; `reading' what each CTE in scope reads.  *)

AllOf(v)    == {v} \union Descendants(v, TRUE)
TablesIn(v) == { x \in AllOf(v) : x.is = "table" }
ColsIn(v)   == { x \in AllOf(v) : x.is = "col" }

Reads(v, reading) ==
  UNION { IF t.name \in {FIT, THIS} THEN {t.name}
          ELSE IF Fold(t.name) \in DOMAIN reading THEN reading[Fold(t.name)] ELSE {}
            : t \in TablesIn(v) }

RefName(r) == CASE r.is = "table"  -> IF r.alias # "" THEN r.alias ELSE r.name
                [] r.is = "subref" -> r.alias
                [] OTHER           -> ""
KeysOf(v) == { Fold(CteEntries(v)[i].key) : i \in DOMAIN CteEntries(v) }

NamesIn(v) ==
  (KeysOf(v) \union UNION { IF IsQuery(x) THEN KeysOf(x) ELSE {Fold(RefName(x))}
                              : x \in { y \in Descendants(v, TRUE) : IsQuery(y) \/ IsRef(y) } })
    \ {""}

BindingsAt(v) ==
  (KeysOf(v) \union { Fold(RefName(x)) : x \in { y \in Descendants(v, FALSE) : IsRef(y) } }) \ {""}

Reaches(x, inside, outer) == x.q # "" /\ Fold(x.q) \notin inside /\ Fold(x.q) \in outer
Outward(v, inside, outer) == { x \in ColsIn(v) : Reaches(x, inside, outer) }
Inward(v, inside, outer)  == \E x \in ColsIn(v) : ~Reaches(x, inside, outer)

-----------------------------------------------------------------------------
(* Steps, and their names: from the CTE they freeze, or their number.      *)

NewName(st, hint) ==
  LET base   == "__param_" \o (IF hint # "" THEN hint ELSE ToString(Len(st.steps)))
      nth(n) == IF n = 0 THEN base ELSE base \o "_" \o ToString(n)
  IN  nth(CHOOSE n \in 0 .. Len(st.steps) :
            /\ nth(n) \notin ParamsOf(st.steps)
            /\ \A m \in 0 .. n - 1 : nth(m) \in ParamsOf(st.steps))

\* The enclosing CTEs are carried in.
FreezeInto(st, sub, ctes, hint) ==
  LET param == NewName(st, hint) IN
  [st    |-> [st EXCEPT !.steps = Append(@, [param |-> param, node |-> With(ctes \o sub.ctes, sub)])],
   param |-> param]

Freeze(st, sub, ctes, hint) ==
  LET f == FreezeInto(st, sub, ctes, hint) IN [st |-> f.st, v |-> SelectStar(f.param)]

Unnamed(item) == item.as = NoName /\ \E x \in Descendants(item.x, TRUE) : IsQuery(x)
PinDerivedNames(v) ==
  IF v.is # "select" THEN v
  ELSE [v EXCEPT !.items = [i \in DOMAIN v.items |->
         LET item == v.items[i] IN
         IF Unnamed(item) THEN [item EXCEPT !.as = Printed(item.x)] ELSE item]]

BareFit(v, deep) == \E x \in Descendants(v, deep) : x.is = "table" /\ x.name = FIT

\* A flat SELECT DISTINCT of columns of one CTE that was frozen.
FrozenPick(sub, ctes, params) ==
  /\ sub.is = "select" /\ sub.ctes = <<>> /\ sub.modifier = "distinct"
  /\ sub.where = <<>> /\ sub.group = <<>>
  /\ sub.from.is = "table" /\ ~sub.from.sample
  /\ \A i \in DOMAIN sub.items :
       sub.items[i].x.is = "col" /\ Fold(sub.items[i].x.q) = Fold(RefName(sub.from))
  /\ \A i, j \in DOMAIN sub.items :
       Fold(NameOf(sub.items[i]).s) = Fold(NameOf(sub.items[j]).s) => i = j
  /\ LET found == SelectSeq(ctes, LAMBDA e : Fold(e.key) = Fold(sub.from.name)) IN
     /\ found # <<>>
     /\ \E p \in params : Last(found).query = SelectStar(p)

-----------------------------------------------------------------------------
(* A correlated subquery, lifted into a keyed table (_correlate.py).       *)

Transparent(q) ==
  q.is = "select" /\ q.modifier = "" /\ q.group = <<>> /\ q.ctes = <<>> /\ q.items = <<Item(Star)>>

\* SELECT * FROM x WHERE p in the FROM, merged into its parent unless the base
\* would answer to another alias.
Flatten(sub) ==
  IF ~(sub.from.is = "subref" /\ Transparent(sub.from.query) /\ sub.from.query.from.is = "table") THEN sub
  ELSE LET base  == sub.from.query.from
           alias == sub.from.alias
       IN  IF IF alias = "" THEN base.alias # "" ELSE alias # RefName(base) THEN sub
           ELSE [sub EXCEPT !.from  = [base EXCEPT !.alias = IF alias # "" THEN alias ELSE base.alias],
                            !.where = sub.from.query.where \o @]

\* The correlation's equality of a conjunct, either way round.
Sides(c, inside, outer) ==
  { <<i, o>> \in { <<1, 2>>, <<2, 1>> } :
      /\ c.is = "op" /\ c.op \in {"=", "indf"}
      /\ Outward(c.args[i], inside, outer) = {} /\ ~Inward(c.args[o], inside, outer) }

\* Each conjunct goes to one place: the step's WHERE, its keys or the lookup.
Place(c, inside, outer) ==
  CASE Outward(c, inside, outer) = {} -> "kept"
    [] Outward(c, inside, outer) # {} /\ ~Inward(c, inside, outer) -> "guard"
    [] Outward(c, inside, outer) # {} /\ Inward(c, inside, outer) ->
         IF Sides(c, inside, outer) # {} THEN "key" ELSE "refused"

Complaints == {"not-a-scalar-subquery", "not-a-select", "modifier", "grouping", "sample", "window",
               "not-aggregated", "outside-where", "not-an-equality"}
Complains(why, v, sub, inside, outer) ==
  CASE why = "not-a-scalar-subquery" -> v.is = "sub" /\ v.type # "SCALAR"
    [] why = "not-a-select"    -> sub.is # "select"
    [] why = "modifier"        -> sub.is = "select" /\ sub.modifier # ""
    [] why = "grouping"        -> sub.is = "select" /\ sub.group # <<>>
    [] why = "sample"          -> \E t \in TablesIn(sub) : t.sample
    [] why = "window"          -> \E x \in AllOf(sub) : x.is = "op" /\ x.op = "over"
    [] why = "not-aggregated"  -> sub.is = "select" /\ \E i \in DOMAIN sub.items : ~HasAgg(sub.items[i].x)
    [] why = "outside-where"   -> /\ sub.is = "select"
                                  /\ Outward([sub EXCEPT !.where = <<>>], inside, outer) # {}
    [] why = "not-an-equality" -> /\ sub.is = "select"
                                  /\ \E i \in DOMAIN sub.where : Place(sub.where[i], inside, outer) = "refused"

KeyName(i)   == "__key_" \o ToString(i - 1)
ValueName(i) == "__value_" \o ToString(i - 1)
NotNull(x)   == Op("notnull", <<x>>)

\* The grouped table: `=' never matches a NULL key, so those are not shipped.
KeyTable(sub, kept, keys) ==
  [sub EXCEPT !.items = [i \in DOMAIN keys |-> As(keys[i].inner, KeyName(i))]
                          \o [i \in DOMAIN sub.items |-> As(sub.items[i].x, ValueName(i))],
              !.where = kept \o LET strict == SelectSeq(keys, LAMBDA k : k.op = "=")
                                IN  [i \in DOMAIN strict |-> NotNull(strict[i].inner)],
              !.group = [i \in DOMAIN keys |-> keys[i].inner]]

\* What the author's subquery answers for a key __FIT__ does not have.
Probe(sub) ==
  LET miss(i) == [sub EXCEPT !.items = <<As(sub.items[i].x, ValueName(i))>>,
                             !.where = <<NotNull(Col("__miss", "n"))>>]
  IN  With(sub.ctes, Select([i \in DOMAIN sub.items |-> As(Scalar(miss(i)), ValueName(i))],
                            Derived(Select(<<As(Lit(Null), "n")>>, Nothing, <<>>), "__miss"), <<>>))

Lookup(i, table, probe) ==
  LET count == Agg("count", <<>>) IN
  Op("case", << Op("<", <<Lit(1), count>>), Op("error", <<>>),
                Op("=", <<count, Lit(1)>>), Agg("any_value", <<Col(table, ValueName(i))>>),
                Scalar(Select(<<Item(Col("", ValueName(i)))>>, Table(probe, ""), <<>>)) >>)

Unguarded(table, keys, guards) ==    \* mutant: a conjunct over the outer query is dropped
  [i \in DOMAIN keys |-> Op(keys[i].op, <<Col(table, KeyName(i)), keys[i].outer>>)]

\* Guards filter the lookup's rows: a false one finds none.
Matching(table, keys, guards) ==
  [i \in DOMAIN keys |-> Op(keys[i].op, <<Col(table, KeyName(i)), keys[i].outer>>)] \o guards

Emit(st, sub, kept, keys, guards, ctes) ==
  LET t == FreezeInto(st, KeyTable(sub, kept, keys), ctes, "")
      p == FreezeInto(t.st, Probe(sub), ctes, "")
  IN  [st |-> p.st,
       v  |-> Select([i \in DOMAIN sub.items |-> [x  |-> Lookup(i, t.param, p.param),
                                                  as |-> IF sub.items[i].as # NoName
                                                         THEN sub.items[i].as
                                                         ELSE NameOf(sub.items[i])]],
                     Table(t.param, ""), Matching(t.param, keys, guards))]

\* ours: a subquery over __FIT__ alone that correlates; `sub' is its body.
KeyOf(c, inside, outer) ==
  LET s == CHOOSE s \in Sides(c, inside, outer) : TRUE
  IN  [inner |-> c.args[s[1]], op |-> c.op, outer |-> c.args[s[2]]]
Placed(sub, p, inside, outer) == SelectSeq(sub.where, LAMBDA c : Place(c, inside, outer) = p)
KeysIn(conjuncts, inside, outer) == [i \in DOMAIN conjuncts |-> KeyOf(conjuncts[i], inside, outer)]

Lift(st, sub, inside, ctx) ==
  Emit([st EXCEPT !.shadow = @ \union { Fold(x.q) : x \in Outward(sub, inside, ctx.outer) }], sub,
       Placed(sub, "kept", inside, ctx.outer),
       KeysIn(Placed(sub, "key", inside, ctx.outer), inside, ctx.outer),
       Placed(sub, "guard", inside, ctx.outer), ctx.ctes)
InPlace(v, made) == [st |-> made.st, v |-> [v EXCEPT !.query = made.v]]

DecorrelateAs(st, v, sub, inside, ctx) ==
  IF Outward(sub, inside, ctx.outer) = {} THEN [st |-> st, v |-> v]
  ELSE IF \E why \in Complaints : Complains(why, v, sub, inside, ctx.outer)
  THEN [st |-> Refuse(st, CHOOSE why \in Complaints : Complains(why, v, sub, inside, ctx.outer)), v |-> v]
  ELSE InPlace(v, Lift(st, sub, inside, ctx))
DecorrelateBody(st, v, sub, ctx) == DecorrelateAs(st, v, sub, NamesIn(sub), ctx)

Decorrelate(st, v, ctx) ==
  IF st.refused # "" \/ THIS \in Reads(v.query, ctx.reading) \/ FIT \notin Reads(v.query, ctx.reading)
  THEN [st |-> st, v |-> v]
  ELSE DecorrelateBody(st, v, IF v.query.is = "select" THEN Flatten(v.query) ELSE v.query, ctx)

-----------------------------------------------------------------------------
(* The rewrite. Every walk returns the plan so far and the new subtree; a  *)
(* refusal ends it.                                                        *)

RECURSIVE Visit(_, _, _, _), Descend(_, _, _), Walk(_, _, _, _), WalkAll(_, _, _, _), Entries(_, _)

\* One level: nested queries are visited by the second walk, and the first
\* offers subqueries and derived tables to Decorrelate, bottom up.
Offered(pass, r, ctx) ==
  IF pass = "lift" /\ r.v.is \in {"sub", "subref"} THEN Decorrelate(r.st, r.v, ctx) ELSE r
Met(r, new) == [st |-> new.st, cs |-> Append(r.cs, new.v)]
Child(pass, r, c, ctx) ==
  Met(r, CASE IsQuery(c) /\ pass = "lift"  -> [st |-> r.st, v |-> c]
           [] IsQuery(c) /\ pass = "visit" -> Visit(r.st, c, ctx, "")
           [] ~IsQuery(c) -> Offered(pass, Walk(pass, r.st, c, ctx), ctx))
Rebuilt(v, r) == [st |-> r.st, v |-> IF r.st.refused # "" THEN v ELSE WithChildren(v, r.cs)]
WalkAll(pass, r, cs, ctx) ==
  IF r.st.refused # "" \/ cs = <<>> THEN r ELSE WalkAll(pass, Child(pass, r, Head(cs), ctx), Tail(cs), ctx)
Walk(pass, st, v, ctx) == Rebuilt(v, WalkAll(pass, [st |-> st, cs |-> <<>>], Children(v), ctx))

Visit(st, sub, ctx, hint) ==
  CASE st.refused # "" -> [st |-> st, v |-> sub]
    [] st.refused = "" /\ sub.is = "recursive" ->
         [st |-> IF BareFit(sub, TRUE) THEN Refuse(st, "recursive") ELSE st, v |-> sub]
    [] st.refused = "" /\ sub.is # "recursive" ->
         LET fitOnly == FIT \in Reads(sub, ctx.reading) /\ THIS \notin Reads(sub, ctx.reading)
             free    == Outward(sub, NamesIn(sub), ctx.outer) # {}
         IN  IF fitOnly /\ free /\ ~FrozenPick(sub, ctx.ctes, ParamsOf(st.steps))
             THEN [st |-> Refuse(st, "not-in-a-subquery"), v |-> sub]
             ELSE IF fitOnly \/ FrozenPick(sub, ctx.ctes, ParamsOf(st.steps))
             THEN Freeze(st, sub, ctx.ctes, hint)
             ELSE Descend(st, PinDerivedNames(sub), ctx)

\* The CTEs in order, each read for what is left of it once it was visited.
InScope(r, e, body) ==
  [st  |-> body.st, made |-> Append(r.made, Cte(e.key, body.v)),
   ctx |-> [r.ctx EXCEPT !.reading = (Fold(e.key) :> Reads(body.v, @)) @@ @,
                         !.ctes    = Append(@, Cte(e.key, body.v))]]
Entries(r, ctes) ==
  IF r.st.refused # "" \/ ctes = <<>> THEN r
  ELSE LET e == Head(ctes) IN
       Entries(InScope(r, e, Visit(r.st, e.query, r.ctx, e.key)), Tail(ctes))
Refusing(r) == [r EXCEPT !.st = IF BareFit(r.v, FALSE) THEN Refuse(@, "whole-training-set") ELSE @]
Nests(r, ctx) == IF r.st.refused # "" THEN r ELSE Refusing(Walk("visit", r.st, r.v, ctx))
Level(st, node, ctx) == Nests(Walk("lift", st, node, ctx), ctx)
Around(node, r) ==
  IF r.st.refused # "" THEN [st |-> r.st, v |-> node]
  ELSE Level(r.st, With(r.made, node),
        [r.ctx EXCEPT !.outer = @ \union BindingsAt(With(r.made, node))])
Descend(st, node, ctx) ==
  Around(node, Entries([st |-> st, made |-> <<>>, ctx |-> ctx], node.ctes))

-----------------------------------------------------------------------------
(* What is left over is pruned.                                            *)

NamesRead(v) == { Fold(t.name) : t \in TablesIn(v) }
Referenced(v, params) == { p \in params : Fold(p) \in NamesRead(v) }

RECURSIVE Living(_, _), DropDeadCtes(_)
Living(entries, live) ==
  LET kept == SelectSeq(entries, LAMBDA e : Fold(e.key) \in live)
      more == UNION { NamesRead(kept[i].query) : i \in DOMAIN kept }
  IN  IF more \subseteq live THEN kept ELSE Living(entries, live \union more)

Pruned(ctes, w) == IF ctes = <<>> THEN w ELSE With(Living(ctes, NamesRead(With(<<>>, w))), w)
DropDeadCtes(v) ==
  Pruned([i \in DOMAIN CteEntries(v) |-> [CteEntries(v)[i] EXCEPT !.query = DropDeadCtes(@)]],
         WithChildren(v, [i \in DOMAIN Children(v) |-> DropDeadCtes(Children(v)[i])]))

\* The steps the residual reaches, through the steps that feed it.
Needed(steps, residual) ==
  LET names == ParamsOf(steps) IN
  FoldRight(LAMBDA s, acc : IF s.param \in acc THEN acc \union Referenced(s.node, names) ELSE acc,
            steps, Referenced(residual, names))
Planned(st, steps, residual) ==
  [steps |-> SelectSeq(steps, LAMBDA s : s.param \in Needed(steps, residual)), residual |-> residual,
   shadow |-> st.shadow, refused |-> st.refused]
Leftover(r) ==
  Planned(r.st, [i \in DOMAIN r.st.steps |-> [r.st.steps[i] EXCEPT !.node = DropDeadCtes(@)]],
          DropDeadCtes(r.v))
Plan(doc) == Leftover(Visit(Fresh, doc, [ctes |-> <<>>, outer |-> {}, reading |-> <<>>], ""))
=============================================================================
