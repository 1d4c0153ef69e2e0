--------------------------- MODULE MCVerifiedRun ----------------------------
(***************************************************************************)
(* Verifier and interpreter together: on what blocks store and how they    *)
(* end, on shapes of control flow, on the values instructions read and     *)
(* define, and on loops that carry values. What is refused is not run.     *)
(***************************************************************************)
EXTENDS VerifiedRun

CONSTANTS
  c1, c2,                  \* columns
  v1, v2, v3, v4, v5, v6   \* values

Store(c) == [uses |-> <<>>, dsts |-> <<>>, col |-> c]

To(b) == [to |-> b, args |-> <<>>]

End(op) == [op |-> op, cond |-> NoVal, edges |-> <<>>]
Goto(op, b) == [op |-> op, cond |-> NoVal, edges |-> <<To(b)>>]
Fork(a, b) == [op |-> "brif", cond |-> NoVal, edges |-> <<To(a), To(b)>>]

Bare(insts, term) == [params |-> <<>>, insts |-> insts, term |-> term]

\* Two blocks that store a column once, twice, or not at all, and end the row
\* in every way; a second target does not exist.
StoreLists == { <<>>, <<Store(c1), Store(c2)>>, <<Store(c1), Store(c1), Store(c2)>> }

StoreTerms == { End(op) : op \in RowEnders }
                \union { Goto(op, b) : op \in {"jump", "emit.to"}, b \in 1 .. 2 }
                \union { Fork(a, b) : a, b \in 1 .. 2 }

StorePrograms ==
  [0 .. 1 -> { Bare(is, t) : is \in StoreLists, t \in StoreTerms }]

\* Three blocks, each storing some of two columns in one order.
PairLists == { <<>>, <<Store(c1)>>, <<Store(c2)>>, <<Store(c1), Store(c2)>> }

PairTerms == { End(op) : op \in {"emit", "skip"} }
               \union { Goto(op, b) : op \in {"jump", "emit.to"}, b \in 1 .. 2 }
               \union { Fork(1, 1), Fork(1, 2) }

PairPrograms ==
  [0 .. 2 -> { Bare(is, t) : is \in PairLists, t \in PairTerms }]

\* Four blocks that store nothing: every shape of jumps and branches.
ShapeTerms == { End("skip") }
                \union { Goto("jump", b) : b \in 1 .. 3 }
                \union { Fork(a, b) : a \in 1 .. 3, b \in 1 .. 2 }

ShapePrograms == [0 .. 3 -> { Bare(<<>>, t) : t \in ShapeTerms }]

\* Two blocks that compute: the entry defines up to two values and hands some
\* on; the second block binds them, may use its own and the entry's, and ends
\* or loops. Types, scopes, arities, targets and double definitions all vary.
Val(v, t) == [val |-> v, ty |-> t]
Def(uses, dsts) == [uses |-> uses, dsts |-> dsts, col |-> NoCol]

EntryLists ==
  { <<>>, <<Def(<<>>, <<Val(v1, "i1")>>)>>,
    <<Def(<<>>, <<Val(v1, "i1")>>), Def(<<Val(v1, "i1")>>, <<Val(v2, "i64")>>)>>,
    <<Def(<<>>, <<Val(v1, "i1"), Val(v2, "i64")>>)>>,
    <<Def(<<Val(v2, "i64")>>, <<Val(v2, "i64")>>)>>,
    <<Def(<<>>, <<Val(v1, "i1")>>), Def(<<>>, <<Val(v1, "i64")>>)>> }

LoopParams ==
  { <<>>, <<Val(v3, "i1")>>, <<Val(v3, "i64")>>, <<Val(v2, "i64")>>,
    <<Val(v3, "i1"), Val(v2, "i1")>>, <<Val(v3, "i1"), Val(v3, "i64")>> }

LoopLists ==
  { <<>>, <<Def(<<Val(v3, "i1")>>, <<Val(v2, "i64")>>)>>,
    <<Def(<<Val(v1, "i1")>>, <<>>)>>, <<Def(<<Val(v3, "i64")>>, <<>>)>> }

ArgLists == { <<>>, <<v1>>, <<v2>>, <<v3>>, <<v1, v2>>, <<v3, v2>> }

GotoWith(b, args) ==
  [op |-> "jump", cond |-> NoVal, edges |-> <<[to |-> b, args |-> args]>>]

\* A condition, and arms that carry different arguments.
ForkWith(c, b, args) ==
  [op |-> "brif", cond |-> c,
   edges |-> <<[to |-> 1, args |-> args], [to |-> b, args |-> <<>>]>>]

ValueTerms ==
  {End("skip")}
    \union { GotoWith(b, args) : b \in 0 .. 2, args \in ArgLists }
    \union { ForkWith(c, b, args) : c \in {v1, v3}, b \in 0 .. 1, args \in ArgLists }

\* ... and the program without blocks.
ValuePrograms ==
  {<<>>} \union
  { [b \in 0 .. 1 |->
       IF b = 0 THEN Bare(is, t)
       ELSE [params |-> ps, insts |-> js, term |-> u]] :
      is \in EntryLists, ps \in LoopParams, js \in LoopLists,
      t \in { GotoWith(1, args) : args \in ArgLists },
      u \in ValueTerms }

\* A loop block of two parameters that goes round with one of these argument
\* lists or leaves: copies of its own parameters, in and out of order, and of
\* a value it computes.
Carry(args) ==
  [op |-> "brif", cond |-> v1,
   edges |-> <<[to |-> 1, args |-> args], [to |-> 2, args |-> <<v2>>]>>]

LoopOf(args, read) ==
  [b \in 0 .. 2 |->
     CASE b = 0 -> Bare(<<Def(<<>>, <<Val(v3, "i1"), Val(v4, "i1")>>)>>,
                           GotoWith(1, <<v3, v4>>))
       [] b = 1 -> [params |-> <<Val(v1, "i1"), Val(v2, "i1")>>,
                    insts  |-> <<Def(<<Val(read, "i1")>>, <<Val(v5, "i1")>>)>>,
                    term   |-> Carry(args)]
       [] b = 2 -> [params |-> <<Val(v6, "i1")>>,
                    insts  |-> <<Def(<<Val(v6, "i1")>>, <<>>), Store(c1), Store(c2)>>,
                    term   |-> End("emit")]]

LoopPrograms == { LoopOf(<<a, b>>, r) : a, b \in {v1, v2, v3, v5}, r \in {v1, v3} }


AllPrograms ==
  PairPrograms \union StorePrograms \union ValuePrograms \union ShapePrograms
    \union LoopPrograms
VerifiedPrograms == { p \in AllPrograms : Verified(p) }
=============================================================================
