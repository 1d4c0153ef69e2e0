---------------------------- MODULE LeasesProofs ----------------------------
(***************************************************************************)
(* Proofs about the leases of executions, for any needs, any fit steps and *)
(* any number of executions, artifacts and releases.                       *)
(*                                                                         *)
(* The argument: what is under way is a stack on which every execution but *)
(* the innermost is in its body, and every release has nothing but other   *)
(* releases above it. Each name is claimed by one execution or one lease,  *)
(* and a name under an execution's own token by that execution only. So    *)
(* what one registers replaces nothing of another's, and what one removes  *)
(* was its own.                                                            *)
(***************************************************************************)
EXTENDS Leases, SharedLemmas

Names == Bases \X Tokens

Frame == [kind : {"fit", "eager", "relation", "release"}, id : 0 .. MaxTokens,
          art : 0 .. MaxTokens, row : BOOLEAN, phase : {"lease", "body", "undo"},
          next : Nat, held : SUBSET Names, todo : SUBSET Names, error : BOOLEAN,
          observed : Nat]

Lease == [id : Tokens, held : SUBSET Names]

Typed ==
  /\ stack \in Seq(Frame) /\ threads \in Nat /\ drawn \in 0 .. MaxTokens
  /\ alive \subseteq [id : Tokens, row : BOOLEAN]
  /\ leases \in [Tokens -> Seq(Lease)] /\ tried \in [Tokens -> Nat]

\* What is under way: an execution starts in the body of another, a release
\* anywhere, but not of an artifact that is being released.
Nested ==
  \A i, j \in DOMAIN stack : i < j =>
    /\ stack[j].kind # "release" => stack[i].phase = "body"
    /\ stack[j].kind = "release" /\ stack[i].kind = "release" => stack[i].art # stack[j].art

\* What one call under way relies on, d being the tokens drawn so far.
Kept(f, d) ==
  /\ f.kind \in {"relation", "release"} => ~ f.row /\ f.art \in Tokens
  /\ f.kind = "release" => f.phase = "undo" /\ f.held = {}
  /\ f.kind # "release" => f.id \in 1 .. d
  /\ f.phase # "undo" => f.todo = {} /\ f.next > 0
  /\ f.kind # "release" /\ f.phase = "undo" => f.held \subseteq f.todo
  /\ f.kind = "fit" /\ f.phase = "body" => \A p \in Landed(f.next) : \E n \in f.held : n[1] = p

FramesKept == \A i \in DOMAIN stack : Kept(stack[i], drawn)

\* The setting as the first n calls of the stack s leave it.
ThreadsUnder(s, n) == IF \E i \in 1 .. n : s[i].row THEN 1 ELSE CallerThreads

Observed ==
  /\ threads = ThreadsUnder(stack, Len(stack))
  /\ \A i \in DOMAIN stack : stack[i].row => stack[i].observed = ThreadsUnder(stack, i - 1)

\* The names an execution has registered or still has to give back.
Claims(f) == f.held \union f.todo

\* Names m are none of execution f's, nor under its token.
Apart(m, f) == m \intersect Claims(f) = {} /\ \A n \in m : n[2] # f.id

Drawn(m, d) == \A n \in m : n[2] <= d

ExecutionsApart ==
  /\ \A i \in Executions : Drawn(Claims(stack[i]), drawn)
  /\ \A i, j \in Executions : i # j =>
       stack[i].id # stack[j].id /\ Apart(Claims(stack[i]), stack[j])

LeasesApart ==
  \A a \in Tokens : \A k \in DOMAIN leases[a] :
    /\ Drawn(leases[a][k].held, drawn)
    /\ \A i \in Executions : Apart(leases[a][k].held, stack[i])
    /\ \A b \in Tokens : \A m \in DOMAIN leases[b] :
         <<a, k>> # <<b, m>> => leases[a][k].held \intersect leases[b][m].held = {}

\* The leases a release has come to are gone, but for what it is still to
\* remove and what could not be removed. Its list is own, names are what is
\* registered and lost what could not be removed.
GivingBack(f, own, names, lost, tries) ==
  /\ f.next <= Len(own)
  /\ f.next = 0 => f.todo = {}
  /\ f.next > 0 => f.todo \subseteq own[f.next].held /\ tries[own[f.next].id] > 0
  /\ \A k \in 1 .. f.next : own[k].held \intersect names \subseteq lost \union f.todo

ReleasesKept ==
  \A i \in DOMAIN stack : stack[i].kind = "release" =>
    GivingBack(stack[i], leases[stack[i].art], DOMAIN catalog, failed, tried)

\* The inductive invariant.
Inv ==
  /\ Typed /\ Nested /\ FramesKept /\ Observed
  /\ ExecutionsApart /\ LeasesApart /\ ReleasesKept
  /\ NothingOutlives /\ BindingsHold

-----------------------------------------------------------------------------
(***************************************************************************)
(* The stack.                                                              *)
(***************************************************************************)

(* What the type invariant says of the calls, in the form the steps use it. *)
LEMMA FramesTyped ==
  ASSUME Typed
  PROVE  /\ drawn \in Nat /\ MaxTokens \in Nat /\ Len(stack) \in Nat /\ DOMAIN stack = 1 .. Len(stack)
         /\ \A i \in DOMAIN stack : stack[i] \in Frame /\ stack[i].id \in Nat
<1>1. MaxTokens \in Nat /\ drawn \in Nat
  BY LeasesAssumption DEF Typed
<1>2. Len(stack) \in Nat /\ DOMAIN stack = 1 .. Len(stack)
  BY LenProperties DEF Typed
<1>3. \A i \in DOMAIN stack : stack[i] \in Frame
  BY <1>2, ElementOfSeq DEF Typed
<1>4. \A f \in Frame : f.id \in Nat
  BY <1>1 DEF Frame
<1>. QED
  BY <1>1, <1>2, <1>3, <1>4

\* The innermost call.
LEMMA TopFrame ==
  ASSUME Typed, stack # <<>>
  PROVE  /\ Len(stack) \in Nat \ {0} /\ DOMAIN stack = 1 .. Len(stack)
         /\ Len(stack) \in DOMAIN stack /\ Top = stack[Len(stack)] /\ Top \in Frame
<1>1. Len(stack) \in Nat \ {0} /\ stack[Len(stack)] \in Frame
  BY TopOfStack DEF Typed
<1>. QED
  BY <1>1, LenProperties DEF Typed, Top, Last

\* Replacing it, calling, and returning.
LEMMA Replacing ==
  ASSUME Typed, stack # <<>>, NEW f \in Frame, stack' = OnTop(f)
  PROVE  /\ stack' \in Seq(Frame) /\ Len(stack') = Len(stack) /\ DOMAIN stack' = DOMAIN stack
         /\ \A i \in DOMAIN stack : stack'[i] = IF i = Len(stack) THEN f ELSE stack[i]
<1>. DEFINE below == SubSeq(stack, 1, Len(stack) - 1)
<1>1. /\ below \in Seq(Frame) /\ Len(below) = Len(stack) - 1
      /\ \A i \in 1 .. Len(stack) - 1 : below[i] = stack[i]
  BY PoppedStack DEF Typed
<1>2. stack' = Append(below, f)
  BY DEF OnTop, Front
<1>3. Len(stack) \in Nat /\ DOMAIN stack = 1 .. Len(stack)
  BY TopFrame
<1>. HIDE DEF below
<1>4. /\ Append(below, f) \in Seq(Frame) /\ Len(Append(below, f)) = Len(below) + 1
      /\ Append(below, f)[Len(below) + 1] = f
      /\ \A i \in 1 .. Len(below) : Append(below, f)[i] = below[i]
  BY <1>1, PushedStack
<1>5. stack' \in Seq(Frame) /\ Len(stack') = Len(stack) /\ DOMAIN stack' = 1 .. Len(stack)
  BY <1>1, <1>2, <1>3, <1>4, LenProperties
<1>. QED
  BY <1>1, <1>2, <1>3, <1>4, <1>5

(* A call that begins is the last frame; the frames under it stay as they were. *)
LEMMA Calling ==
  ASSUME Typed, NEW f \in Frame, stack' = Append(stack, f)
  PROVE  /\ stack' \in Seq(Frame) /\ Len(stack) \in Nat /\ Len(stack') = Len(stack) + 1
         /\ DOMAIN stack = 1 .. Len(stack) /\ DOMAIN stack' = 1 .. Len(stack) + 1
         /\ stack'[Len(stack) + 1] = f
         /\ \A i \in DOMAIN stack : i \in DOMAIN stack' /\ i # Len(stack) + 1 /\ stack'[i] = stack[i]
<1>1. /\ stack' \in Seq(Frame) /\ Len(stack') = Len(stack) + 1
      /\ stack'[Len(stack) + 1] = f
      /\ \A i \in 1 .. Len(stack) : stack'[i] = stack[i]
  BY PushedStack DEF Typed
<1>2. /\ Len(stack) \in Nat /\ DOMAIN stack = 1 .. Len(stack)
      /\ DOMAIN stack' = 1 .. Len(stack) + 1
  BY <1>1, LenProperties DEF Typed
<1>. QED
  BY <1>1, <1>2

(* A call that ends takes its own frame away and no other. *)
LEMMA Returning ==
  ASSUME Typed, stack # <<>>, stack' = Front(stack)
  PROVE  /\ stack' \in Seq(Frame) /\ Len(stack') = Len(stack) - 1
         /\ DOMAIN stack' = 1 .. Len(stack) - 1
         /\ \A i \in DOMAIN stack' : i \in DOMAIN stack /\ i < Len(stack) /\ stack'[i] = stack[i]
<1>1. /\ stack' \in Seq(Frame) /\ Len(stack') = Len(stack) - 1
      /\ \A i \in 1 .. Len(stack) - 1 : stack'[i] = stack[i]
  BY PoppedStack DEF Typed, Front
<1>2. Len(stack) \in Nat \ {0} /\ DOMAIN stack = 1 .. Len(stack) /\ DOMAIN stack' = 1 .. Len(stack) - 1
  BY <1>1, TopFrame, LenProperties
<1>. QED
  BY <1>1, <1>2

\* While an execution is innermost nothing is being released.
LEMMA NoReleaseUnder ==
  ASSUME Inv, stack # <<>>, Top.kind # "release" \/ Top.phase = "body"
  PROVE  \A i \in DOMAIN stack : stack[i].kind # "release"
<1>1. /\ Len(stack) \in Nat \ {0} /\ DOMAIN stack = 1 .. Len(stack)
      /\ Len(stack) \in DOMAIN stack /\ Top = stack[Len(stack)]
  BY TopFrame DEF Inv
<1>2. Top.kind # "release"
  BY <1>1 DEF Inv, FramesKept, Kept
<1>3. \A i \in DOMAIN stack : i # Len(stack) => stack[i].phase = "body"
  BY <1>1, <1>2 DEF Inv, Nested
<1>. QED
  BY <1>1, <1>2, <1>3 DEF Inv, FramesKept, Kept

\* What a frame keeps, it keeps when more tokens are drawn.
LEMMA KeptOn ==
  ASSUME NEW f, NEW d \in Nat, NEW e \in Nat, d <= e, f.id \in Nat, Kept(f, d)
  PROVE  Kept(f, e)
BY DEF Kept

\* The setting under a call depends on the calls below only.
LEMMA SameThreads ==
  ASSUME NEW s, NEW t, NEW n, \A i \in 1 .. n : s[i].row = t[i].row
  PROVE  ThreadsUnder(s, n) = ThreadsUnder(t, n)
BY DEF ThreadsUnder

\* A step of the innermost call leaves the order of the calls and their view
\* of the setting as they are.
LEMMA StepInPlace ==
  ASSUME Inv, stack # <<>>, NEW f \in Frame, stack' = OnTop(f),
         f.kind = Top.kind, f.art = Top.art, f.row = Top.row, f.observed = Top.observed,
         drawn' \in 0 .. MaxTokens, drawn <= drawn', Kept(f, drawn'), UNCHANGED threads
  PROVE  stack' \in Seq(Frame) /\ Nested' /\ FramesKept' /\ Observed'
<1>1. /\ Len(stack) \in Nat \ {0} /\ DOMAIN stack = 1 .. Len(stack)
      /\ Len(stack) \in DOMAIN stack /\ Top = stack[Len(stack)]
  BY TopFrame DEF Inv
<1>2. /\ stack' \in Seq(Frame) /\ Len(stack') = Len(stack) /\ DOMAIN stack' = DOMAIN stack
      /\ \A i \in DOMAIN stack : stack'[i] = IF i = Len(stack) THEN f ELSE stack[i]
  BY Replacing DEF Inv
<1>3. Nested'
  <2>. SUFFICES ASSUME NEW i \in DOMAIN stack, NEW j \in DOMAIN stack, i < j
                PROVE  /\ stack'[j].kind # "release" => stack'[i].phase = "body"
                       /\ stack'[j].kind = "release" /\ stack'[i].kind = "release" =>
                            stack'[i].art # stack'[j].art
    BY <1>2 DEF Nested
  <2>1. stack'[i] = stack[i] /\ stack'[j].kind = stack[j].kind /\ stack'[j].art = stack[j].art
    BY <1>1, <1>2
  <2>. QED
    BY <2>1 DEF Inv, Nested
<1>4. FramesKept'
  <2>. SUFFICES ASSUME NEW i \in DOMAIN stack PROVE Kept(stack'[i], drawn')
    BY <1>2 DEF FramesKept
  <2>1. CASE i = Len(stack)
    BY <1>2, <2>1
  <2>2. CASE i # Len(stack)
    <3>1. Kept(stack[i], drawn) /\ stack[i].id \in Nat /\ drawn \in Nat /\ drawn' \in Nat
      BY FramesTyped DEF Inv, FramesKept
    <3>. QED
      BY <1>2, <2>2, <3>1, KeptOn
  <2>. QED
    BY <2>1, <2>2
<1>5. Observed'
  <2>1. \A i \in DOMAIN stack : stack'[i].row = stack[i].row /\ stack'[i].observed = stack[i].observed
    BY <1>1, <1>2
  <2>2. ThreadsUnder(stack', Len(stack)) = ThreadsUnder(stack, Len(stack))
    BY <1>1, <2>1, SameThreads
  <2>3. ASSUME NEW i \in DOMAIN stack
        PROVE  ThreadsUnder(stack', i - 1) = ThreadsUnder(stack, i - 1)
    <3>1. \A k \in 1 .. i - 1 : k \in DOMAIN stack
      BY <1>1
    <3>. QED
      BY <2>1, <3>1, SameThreads
  <2>. QED
    BY <1>2, <2>1, <2>2, <2>3 DEF Inv, Observed
<1>. QED
  BY <1>2, <1>3, <1>4, <1>5

-----------------------------------------------------------------------------
(***************************************************************************)
(* Names.                                                                  *)
(***************************************************************************)

\* Names that carry the innermost execution's token, or one just drawn, are
\* claimed by nobody else.
Fresh(names) ==
  \A n \in names : n[2] = Top.id \/ (n[2] = drawn + 1 /\ drawn' = drawn + 1)

(* A name made of a token drawn by this step is in no other call and in no lease: two
   executions never mix their names (_lease draws a token of its own). *)
LEMMA FreshIsUnclaimed ==
  ASSUME Inv, stack # <<>>, Top.kind # "release", NEW names, Fresh(names)
  PROVE  /\ \A i \in DOMAIN stack : i # Len(stack) =>
              Apart(names, stack[i]) /\ \A n \in names : n \notin Claims(stack[i])
         /\ \A a \in Tokens : \A k \in DOMAIN leases[a] : names \intersect leases[a][k].held = {}
<1>1. Len(stack) \in DOMAIN stack /\ Top = stack[Len(stack)]
  BY TopFrame DEF Inv
<1>2. Executions = DOMAIN stack
  BY NoReleaseUnder DEF Executions
<1>3. drawn \in Nat /\ \A i \in DOMAIN stack : stack[i].id \in 1 .. drawn
  BY <1>2, FramesTyped DEF Inv, FramesKept, Kept, Executions
<1>4. ASSUME NEW i \in DOMAIN stack, i # Len(stack)
      PROVE  Apart(names, stack[i]) /\ \A n \in names : n \notin Claims(stack[i])
  <2>1. /\ stack[i].id # Top.id /\ Drawn(Claims(stack[i]), drawn)
        /\ \A n \in Claims(stack[i]) : n[2] # Top.id
    BY <1>1, <1>2, <1>4 DEF Inv, ExecutionsApart, Apart
  <2>2. \A n \in names : n \notin Claims(stack[i]) /\ n[2] # stack[i].id
    BY <1>3, <2>1 DEF Fresh, Drawn
  <2>. QED
    BY <2>2 DEF Apart
<1>5. ASSUME NEW a \in Tokens, NEW k \in DOMAIN leases[a]
      PROVE  names \intersect leases[a][k].held = {}
  <2>1. Drawn(leases[a][k].held, drawn) /\ \A n \in leases[a][k].held : n[2] # Top.id
    BY <1>1, <1>2 DEF Inv, LeasesApart, Apart
  <2>. QED
    BY <1>3, <2>1 DEF Fresh, Drawn
<1>. QED
  BY <1>4, <1>5

\* What the innermost execution claims it may keep, and add fresh names to.
LEMMA ClaimsStayApart ==
  ASSUME Inv, stack # <<>>, Top.kind # "release",
         NEW f \in Frame, stack' = OnTop(f), f.kind = Top.kind, f.id = Top.id,
         NEW names, Claims(f) \subseteq Claims(Top) \union names, Fresh(names),
         drawn' \in Nat, drawn <= drawn', UNCHANGED leases
  PROVE  ExecutionsApart' /\ LeasesApart' /\ ReleasesKept'
<1>1. /\ Len(stack) \in Nat \ {0} /\ DOMAIN stack = 1 .. Len(stack)
      /\ Len(stack) \in DOMAIN stack /\ Top = stack[Len(stack)]
  BY TopFrame DEF Inv
<1>2. /\ DOMAIN stack' = DOMAIN stack
      /\ \A i \in DOMAIN stack : stack'[i] = IF i = Len(stack) THEN f ELSE stack[i]
  BY Replacing DEF Inv
<1>3. /\ Executions = DOMAIN stack /\ Executions' = DOMAIN stack
      /\ \A i \in DOMAIN stack : stack'[i].id = stack[i].id /\ stack'[i].kind # "release"
  BY <1>1, <1>2, NoReleaseUnder DEF Executions
<1>4. /\ drawn \in Nat /\ \A i \in DOMAIN stack : stack[i].id \in 1 .. drawn
  BY <1>3, FramesTyped DEF Inv, FramesKept, Kept, Executions
<1>5. \A i \in DOMAIN stack : Claims(stack'[i]) \subseteq Claims(stack[i]) \union (IF i = Len(stack) THEN names ELSE {})
  BY <1>1, <1>2
<1>6. Drawn(names, drawn')
  BY <1>1, <1>4 DEF Fresh, Drawn
<1>7. /\ \A i \in DOMAIN stack : i # Len(stack) =>
              Apart(names, stack[i]) /\ \A n \in names : n \notin Claims(stack[i])
      /\ \A a \in Tokens : \A k \in DOMAIN leases[a] : names \intersect leases[a][k].held = {}
  BY FreshIsUnclaimed
<1>8. ExecutionsApart'
  <2>1. \A i \in DOMAIN stack : Drawn(Claims(stack'[i]), drawn')
    <3>1. \A i \in DOMAIN stack : Drawn(Claims(stack[i]), drawn)
      BY <1>3 DEF Inv, ExecutionsApart
    <3>2. \A i \in DOMAIN stack : \A n \in Claims(stack[i]) : n \in Names
      BY FramesTyped DEF Inv, Frame, Claims
    <3>3. \A n \in Names : n[2] \in Nat
      BY DEF Names, Tokens
    <3>4. \A i \in DOMAIN stack : Drawn(Claims(stack[i]), drawn')
      BY <1>4, <3>1, <3>2, <3>3 DEF Drawn
    <3>. QED
      BY <1>5, <1>6, <3>4 DEF Drawn
  <2>2. ASSUME NEW i \in DOMAIN stack, NEW j \in DOMAIN stack, i # j
        PROVE  stack'[i].id # stack'[j].id /\ Apart(Claims(stack'[i]), stack'[j])
    <3>1. /\ stack[i].id # stack[j].id /\ Apart(Claims(stack[i]), stack[j])
          /\ Claims(stack[j]) \intersect Claims(stack[i]) = {}
      BY <1>3, <2>2 DEF Inv, ExecutionsApart, Apart
    <3>2. CASE i = Len(stack)
      BY <1>2, <1>3, <1>5, <1>7, <2>2, <3>1, <3>2 DEF Apart
    <3>3. CASE i # Len(stack)
      BY <1>2, <1>3, <1>5, <1>7, <2>2, <3>1, <3>3 DEF Apart
    <3>. QED
      BY <3>2, <3>3
  <2>. QED
    BY <1>3, <2>1, <2>2 DEF ExecutionsApart
<1>9. LeasesApart'
  <2>. SUFFICES ASSUME NEW a \in Tokens, NEW k \in DOMAIN leases[a]
                PROVE  /\ Drawn(leases[a][k].held, drawn')
                       /\ \A i \in DOMAIN stack : Apart(leases[a][k].held, stack'[i])
    BY <1>3 DEF Inv, LeasesApart
  <2>. DEFINE held == leases[a][k].held
  <2>1. Drawn(held, drawn) /\ \A i \in DOMAIN stack : Apart(held, stack[i])
    BY <1>3 DEF Inv, LeasesApart
  <2>2. \A n \in held : n[2] \in Nat
    <3>1. leases[a][k] \in Lease
      BY ElementOfSeq DEF Inv, Typed
    <3>. QED
      BY <3>1 DEF Lease, Names, Tokens
  <2>3. Drawn(held, drawn')
    BY <1>4, <2>1, <2>2 DEF Drawn
  <2>4. \A n \in names : n \notin held
    BY <1>7
  <2>. QED
    BY <1>2, <1>3, <1>5, <2>1, <2>3, <2>4 DEF Apart
<1>10. ReleasesKept'
  BY <1>2, <1>3 DEF ReleasesKept
<1>. QED
  BY <1>8, <1>9, <1>10

\* Only one name is registered or removed: where it is held it is bound, and
\* where it stays registered it is held or could not be removed.
LEMMA OneNameTouched ==
  ASSUME Inv, NEW name \in Names,
         \A n : n # name => /\ n \in DOMAIN catalog' <=> n \in DOMAIN catalog
                            /\ n \in DOMAIN catalog => catalog'[n] = catalog[n],
         failed \subseteq failed' \union {name},
         Executions' = Executions,
         \A i \in Executions : /\ stack'[i].id = stack[i].id
                               /\ stack'[i].held \ {name} = stack[i].held \ {name}
                               /\ name \in stack'[i].held => name \in DOMAIN catalog' /\ catalog'[name] = stack[i].id,
         \A lease \in Leased : tried[lease.id] = 0 => name \notin lease.held,
         name \in DOMAIN catalog' => name \in failed' \/ \E i \in Executions : name \in stack'[i].held,
         UNCHANGED <<leases, tried>>
  PROVE  NothingOutlives' /\ BindingsHold'
<1>1. name \notin CallerNames
  BY DEF Names, Tokens, CallerNames
<1>2. Leased' = Leased
  BY DEF Leased
<1>3. NothingOutlives'
  <2>. SUFFICES ASSUME NEW n \in DOMAIN catalog'
                PROVE  \/ n \in CallerNames \/ n \in failed'
                       \/ \E i \in Executions : n \in stack'[i].held
                       \/ \E lease \in Leased : n \in lease.held
    BY <1>2 DEF NothingOutlives
  <2>1. CASE n = name
    BY <2>1
  <2>2. CASE n # name
    <3>1. n \in DOMAIN catalog
      BY <2>2
    <3>2. \/ n \in CallerNames \/ n \in failed
          \/ \E i \in Executions : n \in stack[i].held
          \/ \E lease \in Leased : n \in lease.held
      BY <3>1 DEF Inv, NothingOutlives
    <3>. QED
      BY <2>2, <3>2
  <2>. QED
    BY <2>1, <2>2
<1>4. BindingsHold'
  <2>1. \A n \in CallerNames : n \in DOMAIN catalog' /\ catalog'[n] = 0
    BY <1>1 DEF Inv, BindingsHold
  <2>2. ASSUME NEW i \in Executions, NEW n \in stack'[i].held
        PROVE  n \in DOMAIN catalog' /\ catalog'[n] = stack'[i].id
    <3>1. CASE n = name
      BY <3>1
    <3>2. CASE n # name
      <4>1. n \in stack[i].held
        BY <3>2
      <4>. QED
        BY <3>2, <4>1 DEF Inv, BindingsHold
    <3>. QED
      BY <3>1, <3>2
  <2>3. ASSUME NEW lease \in Leased, tried[lease.id] = 0, NEW n \in lease.held
        PROVE  n \in DOMAIN catalog' /\ catalog'[n] = lease.id
    BY <2>3 DEF Inv, BindingsHold
  <2>. QED
    BY <1>2, <2>1, <2>2, <2>3 DEF BindingsHold
<1>. QED
  BY <1>3, <1>4

\* What the innermost execution registers is its own.
LEMMA Registering ==
  ASSUME Inv, stack # <<>>, Top.kind # "release",
         NEW f \in Frame, stack' = OnTop(f), f.kind = Top.kind, f.id = Top.id,
         NEW name \in Names, Fresh({name}), Land(name), f.held = Top.held \union {name},
         UNCHANGED <<leases, tried, failed>>
  PROVE  NothingOutlives' /\ BindingsHold'
<1>1. Len(stack) \in DOMAIN stack /\ Top = stack[Len(stack)]
  BY TopFrame DEF Inv
<1>2. /\ DOMAIN stack' = DOMAIN stack
      /\ \A i \in DOMAIN stack : stack'[i] = IF i = Len(stack) THEN f ELSE stack[i]
  BY Replacing DEF Inv
<1>3. Executions' = Executions /\ Len(stack) \in Executions
  BY <1>1, <1>2 DEF Executions
<1>4. /\ DOMAIN catalog' = DOMAIN catalog \union {name} /\ catalog'[name] = Top.id
      /\ \A n \in DOMAIN catalog : n # name => catalog'[n] = catalog[n]
  BY DEF Land
<1>5. /\ \A i \in DOMAIN stack : i # Len(stack) => name \notin stack[i].held
      /\ \A a \in Tokens : \A k \in DOMAIN leases[a] : name \notin leases[a][k].held
  BY FreshIsUnclaimed DEF Claims
<1>6. \A lease \in Leased : name \notin lease.held
  BY <1>5 DEF Leased, ToSet
<1>7. \A i \in Executions : /\ stack'[i].id = stack[i].id
                            /\ stack'[i].held \ {name} = stack[i].held \ {name}
                            /\ name \in stack'[i].held => i = Len(stack)
  BY <1>1, <1>2, <1>5 DEF Executions
<1>8. name \in stack'[Len(stack)].held
  BY <1>1, <1>2
<1>. QED
  BY <1>1, <1>3, <1>4, <1>6, <1>7, <1>8, OneNameTouched

\* Removing a name leaves the others, and a name that stays is a failure.
LEMMA Removed ==
  ASSUME NEW name, NEW raises, Unregister(name, raises)
  PROVE  /\ \A n : n # name => /\ n \in DOMAIN catalog' <=> n \in DOMAIN catalog
                               /\ n \in DOMAIN catalog => catalog'[n] = catalog[n]
         /\ failed \subseteq failed' \union {name}
         /\ name \in DOMAIN catalog' => name \in failed'
         /\ DOMAIN catalog' \subseteq DOMAIN catalog
BY DEF Unregister, Restrict

\* What the innermost execution removes was its own.
LEMMA RemovingOwn ==
  ASSUME Inv, stack # <<>>, Top.kind # "release",
         NEW f \in Frame, stack' = OnTop(f), f.kind = Top.kind, f.id = Top.id,
         NEW name \in Claims(Top), NEW raises, Unregister(name, raises),
         f.held = Top.held \ {name}, UNCHANGED <<leases, tried>>
  PROVE  NothingOutlives' /\ BindingsHold'
<1>1. Len(stack) \in DOMAIN stack /\ Top = stack[Len(stack)] /\ Top \in Frame
  BY TopFrame DEF Inv
<1>2. /\ DOMAIN stack' = DOMAIN stack
      /\ \A i \in DOMAIN stack : stack'[i] = IF i = Len(stack) THEN f ELSE stack[i]
  BY Replacing DEF Inv
<1>3. Executions' = Executions /\ Len(stack) \in Executions
  BY <1>1, <1>2 DEF Executions
<1>4. name \in Names
  BY <1>1 DEF Frame, Claims
<1>5. \A i \in Executions : i # Len(stack) => name \notin stack[i].held
  BY <1>1, <1>3 DEF Inv, ExecutionsApart, Apart, Claims
<1>6. \A lease \in Leased : name \notin lease.held
  BY <1>1, <1>3 DEF Inv, LeasesApart, Apart, Leased, ToSet
<1>7. \A i \in Executions : /\ stack'[i].id = stack[i].id
                            /\ stack'[i].held \ {name} = stack[i].held \ {name}
                            /\ name \notin stack'[i].held
  BY <1>1, <1>2, <1>5 DEF Executions
<1>. QED
  BY <1>3, <1>4, <1>6, <1>7, Removed, OneNameTouched

\* A step that registers and removes nothing, of a call whose names and
\* token stay.
LEMMA CatalogStands ==
  ASSUME Inv, Executions' = Executions,
         \A i \in Executions : stack'[i].id = stack[i].id /\ stack'[i].held = stack[i].held,
         UNCHANGED <<catalog, failed, leases>>,
         \A lease \in Leased : tried'[lease.id] = 0 => tried[lease.id] = 0
  PROVE  NothingOutlives' /\ BindingsHold'
<1>1. Leased' = Leased
  BY DEF Leased
<1>2. NothingOutlives'
  BY <1>1 DEF Inv, NothingOutlives
<1>3. BindingsHold'
  BY <1>1 DEF Inv, BindingsHold
<1>. QED
  BY <1>2, <1>3

\* The same of a step of the innermost execution.
LEMMA CatalogStandsUnder ==
  ASSUME Inv, stack # <<>>,
         NEW f \in Frame, stack' = OnTop(f), f.kind = Top.kind, f.id = Top.id,
         f.held = Top.held, UNCHANGED <<catalog, failed, leases, tried>>
  PROVE  NothingOutlives' /\ BindingsHold'
<1>1. Len(stack) \in DOMAIN stack /\ Top = stack[Len(stack)]
  BY TopFrame DEF Inv
<1>2. /\ DOMAIN stack' = DOMAIN stack
      /\ \A i \in DOMAIN stack : stack'[i] = IF i = Len(stack) THEN f ELSE stack[i]
  BY Replacing DEF Inv
<1>3. Executions' = Executions
  BY <1>1, <1>2 DEF Executions
<1>4. \A i \in Executions : stack'[i].id = stack[i].id /\ stack'[i].held = stack[i].held
  BY <1>1, <1>2 DEF Executions
<1>. QED
  BY <1>3, <1>4, CatalogStands

-----------------------------------------------------------------------------
(***************************************************************************)
(* The steps of an execution.                                              *)
(***************************************************************************)

\* f is a later state of the innermost execution.
Goes(f) ==
  /\ f \in Frame /\ stack' = OnTop(f)
  /\ f.kind = Top.kind /\ f.id = Top.id /\ f.art = Top.art
  /\ f.row = Top.row /\ f.observed = Top.observed

(* What an execution has to show for a step that changes its own frame and the catalog: its
   claims grow by fresh names at most. *)
LEMMA ExecutionGoes ==
  ASSUME Inv, stack # <<>>, Top.kind # "release", NEW f, Goes(f), Kept(f, drawn'),
         NEW names, Fresh(names), Claims(f) \subseteq Claims(Top) \union names,
         drawn' \in 0 .. MaxTokens, drawn <= drawn',
         UNCHANGED <<threads, alive, leases, tried>>,
         NothingOutlives', BindingsHold'
  PROVE  Inv'
<1>1. stack' \in Seq(Frame) /\ Nested' /\ FramesKept' /\ Observed'
  BY StepInPlace DEF Goes
<1>2. drawn' \in Nat
  BY FramesTyped DEF Inv
<1>3. ExecutionsApart' /\ LeasesApart' /\ ReleasesKept'
  BY <1>2, ClaimsStayApart DEF Goes
<1>4. Typed'
  BY <1>1 DEF Inv, Typed
<1>. QED
  BY <1>1, <1>3, <1>4 DEF Inv

\* The innermost call, by the phase it is in.
LEMMA TopKept ==
  ASSUME Inv, stack # <<>>
  PROVE  /\ Top \in Frame /\ Kept(Top, drawn)
         /\ Top.phase # "undo" => Top.kind # "release" /\ Top.next \in Nat \ {0} /\ Top.todo = {}
         /\ Top.kind # "release" => Top.id \in 1 .. drawn /\ Top.id \in Tokens
<1>1. Top \in Frame /\ Kept(Top, drawn)
  BY TopFrame DEF Inv, FramesKept
<1>2. drawn <= MaxTokens /\ drawn \in Nat /\ MaxTokens \in Nat
  BY FramesTyped DEF Inv, Typed
<1>. QED
  BY <1>1, <1>2 DEF Kept, Frame, Tokens

(* Registering the next relation or function of a lease (_lease). *)
LEMMA RegisterKeeps ==
  ASSUME Inv, Register  PROVE  Inv'
<1>. DEFINE name == Under(Needs[Top.next], Top.id)
            f == [Top EXCEPT !.next = @ + 1, !.held = @ \union {name}]
<1>1. /\ stack # <<>> /\ Top.phase = "lease" /\ Top.next <= Len(Needs)
      /\ Land(name) /\ stack' = OnTop(f)
      /\ UNCHANGED <<threads, alive, leases, drawn, failed, tried>>
  BY DEF Register, Leasing
<1>2. /\ Top \in Frame /\ Kept(Top, drawn) /\ Top.kind # "release" /\ Top.next \in Nat \ {0}
      /\ Top.todo = {} /\ Top.id \in Tokens
  BY <1>1, TopKept
<1>3. Needs[Top.next] \in Bases
  BY <1>1, <1>2, LeasesAssumption, ElementOfSeq
<1>4. name \in Names /\ Fresh({name})
  BY <1>2, <1>3 DEF Under, Names, Fresh
<1>. HIDE DEF name
<1>5. /\ f \in Frame /\ f.kind = Top.kind /\ f.id = Top.id /\ f.art = Top.art
      /\ f.row = Top.row /\ f.observed = Top.observed /\ f.phase = "lease"
      /\ f.held = Top.held \union {name} /\ f.todo = {} /\ f.next > 0
  <2>1. Top.next + 1 \in Nat /\ Top.next + 1 > 0 /\ Top.held \union {name} \in SUBSET Names
    BY <1>2, <1>4 DEF Frame
  <2>2. f.held = Top.held \union {name} /\ f.next = Top.next + 1
    BY <1>2 DEF Frame
  <2>3. f \in Frame
    BY <1>2, <2>1 DEF Frame
  <2>. QED
    BY <1>1, <1>2, <2>1, <2>2, <2>3 DEF Frame
<1>. HIDE DEF f
<1>6. Kept(f, drawn')
  BY <1>1, <1>2, <1>5 DEF Kept
<1>7. NothingOutlives' /\ BindingsHold'
  BY <1>1, <1>2, <1>4, <1>5, Registering
<1>8. Goes(f) /\ Claims(f) \subseteq Claims(Top) \union {name}
  BY <1>1, <1>5 DEF Goes, Claims
<1>9. drawn' \in 0 .. MaxTokens /\ drawn <= drawn'
  BY <1>1, FramesTyped DEF Inv, Typed
<1>. QED
  BY <1>1, <1>2, <1>4, <1>6, <1>7, <1>8, <1>9, ExecutionGoes

\* A step that registers and removes nothing.
LEMMA QuietStep ==
  ASSUME Inv, stack # <<>>, Top.kind # "release", NEW f, Goes(f), Kept(f, drawn),
         f.held = Top.held, f.todo \subseteq Claims(Top),
         UNCHANGED <<catalog, threads, alive, leases, drawn, failed, tried>>
  PROVE  Inv'
<1>1. NothingOutlives' /\ BindingsHold'
  BY CatalogStandsUnder DEF Goes
<1>2. Fresh({}) /\ Claims(f) \subseteq Claims(Top) \union {}
  BY DEF Fresh, Claims
<1>3. drawn' \in 0 .. MaxTokens /\ drawn <= drawn' /\ Kept(f, drawn')
  BY FramesTyped DEF Inv, Typed
<1>. QED
  BY <1>1, <1>2, <1>3, ExecutionGoes

(* A registration that raises: the execution turns to undoing what it holds. *)
LEMMA RegisterFailsKeeps ==
  ASSUME Inv, RegisterFails  PROVE  Inv'
<1>. DEFINE f == [Top EXCEPT !.phase = "undo", !.error = TRUE, !.todo = HeldOnly(Top)]
<1>1. /\ stack # <<>> /\ Top.phase = "lease" /\ stack' = OnTop(f)
      /\ UNCHANGED <<catalog, threads, alive, leases, drawn, failed, tried>>
  BY DEF RegisterFails, Leasing
<1>2. Top \in Frame /\ Kept(Top, drawn) /\ Top.kind # "release"
  BY <1>1, TopKept
<1>3. /\ f \in Frame /\ f.kind = Top.kind /\ f.id = Top.id /\ f.art = Top.art
      /\ f.row = Top.row /\ f.observed = Top.observed /\ f.phase = "undo"
      /\ f.held = Top.held /\ f.todo = Top.held
  BY <1>2 DEF Frame, HeldOnly
<1>. HIDE DEF f
<1>4. Kept(f, drawn) /\ Goes(f) /\ f.todo \subseteq Claims(Top)
  BY <1>1, <1>2, <1>3 DEF Kept, Goes, Claims
<1>. QED
  BY <1>1, <1>2, <1>3, <1>4, QuietStep

(* Everything is registered, and the body of the execution begins. *)
LEMMA LeaseHeldKeeps ==
  ASSUME Inv, LeaseHeld  PROVE  Inv'
<1>. DEFINE f == [Top EXCEPT !.phase = "body", !.next = 1]
<1>1. /\ stack # <<>> /\ Top.phase = "lease" /\ stack' = OnTop(f)
      /\ UNCHANGED <<catalog, threads, alive, leases, drawn, failed, tried>>
  BY DEF LeaseHeld, Leasing
<1>2. Top \in Frame /\ Kept(Top, drawn) /\ Top.kind # "release" /\ Top.todo = {}
  BY <1>1, TopKept
<1>3. /\ f \in Frame /\ f.kind = Top.kind /\ f.id = Top.id /\ f.art = Top.art
      /\ f.row = Top.row /\ f.observed = Top.observed /\ f.phase = "body"
      /\ f.held = Top.held /\ f.todo = {} /\ f.next = 1
  BY <1>2 DEF Frame
<1>4. Landed(1) = {}
  BY DEF Landed
<1>. HIDE DEF f
<1>5. Kept(f, drawn) /\ Goes(f) /\ f.todo \subseteq Claims(Top)
  BY <1>1, <1>2, <1>3, <1>4 DEF Kept, Goes, Claims
<1>. QED
  BY <1>1, <1>2, <1>3, <1>5, QuietStep

(* The body ends, well or not, and its cleanups begin (_session). *)
LEMMA BodyEndsKeeps ==
  ASSUME Inv, BodyEnds  PROVE  Inv'
<1>1. PICK error \in BOOLEAN :
        stack' = OnTop([Top EXCEPT !.phase = "undo", !.error = error, !.todo = Top.held])
  BY DEF BodyEnds
<1>. DEFINE f == [Top EXCEPT !.phase = "undo", !.error = error, !.todo = Top.held]
<1>2. /\ stack # <<>> /\ Top.phase = "body" /\ stack' = OnTop(f)
      /\ UNCHANGED <<catalog, threads, alive, leases, drawn, failed, tried>>
  BY <1>1 DEF BodyEnds, InBody
<1>3. Top \in Frame /\ Kept(Top, drawn) /\ Top.kind # "release"
  BY <1>2, TopKept
<1>4. /\ f \in Frame /\ f.kind = Top.kind /\ f.id = Top.id /\ f.art = Top.art
      /\ f.row = Top.row /\ f.observed = Top.observed /\ f.phase = "undo"
      /\ f.held = Top.held /\ f.todo = Top.held
  BY <1>3 DEF Frame
<1>. HIDE DEF f
<1>5. Kept(f, drawn) /\ Goes(f) /\ f.todo \subseteq Claims(Top)
  BY <1>2, <1>3, <1>4 DEF Kept, Goes, Claims
<1>. QED
  BY <1>2, <1>3, <1>4, <1>5, QuietStep

\* What is registered and not dropped, step by step.
LEMMA LandedGrows ==
  ASSUME NEW k \in Nat \ {0}, FitOps[k].op = "register"
  PROVE  Landed(k + 1) \subseteq Landed(k) \union {FitOps[k].param}
<1>1. 1 .. (k + 1) - 1 = (1 .. k - 1) \union {k}
  OBVIOUS
<1>2. \A j \in 1 .. k - 1 : j + 1 .. k - 1 \subseteq j + 1 .. (k + 1) - 1
  OBVIOUS
<1>. QED
  BY <1>1, <1>2 DEF Landed

(* After a parameter was dropped, what a fit has landed no longer holds it. *)
LEMMA LandedShrinks ==
  ASSUME NEW k \in Nat \ {0}, FitOps[k] = [op |-> "drop", param |-> FitOps[k].param]
  PROVE  Landed(k + 1) \subseteq Landed(k) \ {FitOps[k].param}
<1>1. 1 .. (k + 1) - 1 = (1 .. k - 1) \union {k}
  OBVIOUS
<1>2. \A j \in 1 .. k - 1 : j + 1 .. k - 1 \subseteq j + 1 .. (k + 1) - 1
  OBVIOUS
<1>3. \A j \in 1 .. k - 1 : k \in j + 1 .. (k + 1) - 1
  OBVIOUS
<1>. SUFFICES ASSUME NEW j \in 1 .. (k + 1) - 1, FitOps[j].op = "register",
                     \A m \in j + 1 .. (k + 1) - 1 : FitOps[m] # [op |-> "drop", param |-> FitOps[j].param]
              PROVE  FitOps[j].param \in Landed(k) /\ FitOps[j].param # FitOps[k].param
  BY DEF Landed
<1>4. FitOps[k].op = "drop"
  OBVIOUS
<1>5. j \in 1 .. k - 1
  BY <1>1, <1>4
<1>6. FitOps[j].param \in Landed(k)
  BY <1>2, <1>5 DEF Landed
<1>7. FitOps[k] # [op |-> "drop", param |-> FitOps[j].param]
  BY <1>3, <1>5
<1>. QED
  BY <1>6, <1>7

(* An operation of a fit names a base relation. *)
LEMMA FitOpsTyped ==
  ASSUME NEW k \in Nat \ {0}, k <= Len(FitOps)
  PROVE  /\ k \in DOMAIN FitOps /\ FitOps[k].param \in Bases
         /\ FitOps[k] = [op |-> FitOps[k].op, param |-> FitOps[k].param]
<1>. DEFINE Op == [op : {"register", "drop"}, param : Bases]
<1>1. FitOps \in Seq(Op)
  BY LeasesAssumption
<1>. HIDE DEF Op
<1>2. k \in DOMAIN FitOps /\ FitOps[k] \in Op
  BY <1>1, LenProperties, ElementOfSeq
<1>. QED
  BY <1>2 DEF Op

(* A fit registers a parameter that its later steps read. *)
LEMMA RegisterParamKeeps ==
  ASSUME Inv, RegisterParam  PROVE  Inv'
<1>. DEFINE name == Under(FitOps[Top.next].param, drawn + 1)
            f == [Top EXCEPT !.next = @ + 1, !.held = @ \union {name}]
<1>1. /\ stack # <<>> /\ Top.phase = "body" /\ Top.kind = "fit" /\ Top.next <= Len(FitOps)
      /\ FitOps[Top.next].op = "register" /\ drawn < MaxTokens
      /\ Land(name) /\ stack' = OnTop(f) /\ drawn' = drawn + 1
      /\ UNCHANGED <<threads, alive, leases, failed, tried>>
  BY DEF RegisterParam, FitOp, InBody
<1>2. /\ Top \in Frame /\ Kept(Top, drawn) /\ Top.kind # "release" /\ Top.next \in Nat \ {0}
      /\ Top.todo = {} /\ Top.id \in Tokens
  BY <1>1, TopKept
<1>3. FitOps[Top.next].param \in Bases
  BY <1>1, <1>2, FitOpsTyped
<1>4. drawn \in Nat /\ MaxTokens \in Nat
  BY FramesTyped DEF Inv
<1>5. name \in Names /\ Fresh({name}) /\ name[1] = FitOps[Top.next].param
  BY <1>1, <1>3, <1>4 DEF Under, Names, Tokens, Fresh
<1>. HIDE DEF name
<1>6. /\ f \in Frame /\ f.kind = Top.kind /\ f.id = Top.id /\ f.art = Top.art
      /\ f.row = Top.row /\ f.observed = Top.observed /\ f.phase = "body"
      /\ f.held = Top.held \union {name} /\ f.todo = {} /\ f.next = Top.next + 1
  <2>1. Top.next + 1 \in Nat /\ Top.held \union {name} \in SUBSET Names
    BY <1>2, <1>5 DEF Frame
  <2>2. f.held = Top.held \union {name} /\ f.next = Top.next + 1
    BY <1>2 DEF Frame
  <2>3. f \in Frame
    BY <1>2, <2>1 DEF Frame
  <2>. QED
    BY <1>1, <1>2, <2>2, <2>3 DEF Frame
<1>. HIDE DEF f
<1>7. Kept(f, drawn')
  <2>1. \A p \in Landed(f.next) : \E n \in f.held : n[1] = p
    BY <1>1, <1>2, <1>5, <1>6, LandedGrows DEF Kept
  <2>2. f.id \in 1 .. drawn' /\ f.next > 0
    BY <1>1, <1>2, <1>4, <1>6, TopKept
  <2>. QED
    BY <1>1, <1>2, <1>6, <2>1, <2>2 DEF Kept
<1>8. NothingOutlives' /\ BindingsHold'
  BY <1>1, <1>2, <1>5, <1>6, Registering
<1>9. Goes(f) /\ Claims(f) \subseteq Claims(Top) \union {name}
  BY <1>1, <1>6 DEF Goes, Claims
<1>10. drawn' \in 0 .. MaxTokens /\ drawn <= drawn'
  BY <1>1, <1>4
<1>. QED
  BY <1>1, <1>2, <1>5, <1>7, <1>8, <1>9, <1>10, ExecutionGoes

(* A fit drops a parameter whose last reader has run. *)
LEMMA DropParamKeeps ==
  ASSUME Inv, DropParam  PROVE  Inv'
<1>. DEFINE param == FitOps[Top.next].param
            name == CHOOSE n \in Top.held : n[1] = param
            rest == Top.held \ {name}
            went == [Top EXCEPT !.next = @ + 1, !.held = rest]
            stuck == [Top EXCEPT !.phase = "undo", !.error = TRUE, !.held = rest, !.todo = rest]
<1>1. /\ stack # <<>> /\ Top.phase = "body" /\ Top.kind = "fit" /\ Top.next <= Len(FitOps)
      /\ FitOps[Top.next].op = "drop"
      /\ UNCHANGED <<threads, alive, leases, drawn, tried>>
      /\ \/ Unregister(name, FALSE) /\ stack' = OnTop(went)
         \/ Unregister(name, TRUE) /\ stack' = OnTop(stuck)
  BY DEF DropParam, FitOp, InBody
<1>2. /\ Top \in Frame /\ Kept(Top, drawn) /\ Top.kind # "release" /\ Top.next \in Nat \ {0}
      /\ Top.todo = {} /\ Top.id \in 1 .. drawn
  BY <1>1, TopKept
<1>3. /\ Top.next \in DOMAIN FitOps
      /\ FitOps[Top.next] = [op |-> "drop", param |-> FitOps[Top.next].param]
  BY <1>1, <1>2, FitOpsTyped
<1>4. param \in Landed(Top.next)
  BY <1>1, <1>3, LeasesAssumption
<1>5. \E n \in Top.held : n[1] = param
  BY <1>1, <1>2, <1>4 DEF Kept
<1>6. name \in Top.held /\ name[1] = param
  BY <1>5
<1>. HIDE DEF name
<1>7. rest \in SUBSET Names /\ rest \subseteq Top.held
  BY <1>2 DEF Frame
<1>8. /\ went \in Frame /\ went.kind = Top.kind /\ went.id = Top.id /\ went.art = Top.art
      /\ went.row = Top.row /\ went.observed = Top.observed /\ went.phase = "body"
      /\ went.held = rest /\ went.todo = {} /\ went.next = Top.next + 1
  <2>1. Top.next + 1 \in Nat
    BY <1>2
  <2>2. went \in Frame
    BY <1>2, <1>7, <2>1 DEF Frame
  <2>. QED
    BY <1>1, <1>2, <2>2 DEF Frame
<1>9. /\ stuck \in Frame /\ stuck.kind = Top.kind /\ stuck.id = Top.id /\ stuck.art = Top.art
      /\ stuck.row = Top.row /\ stuck.observed = Top.observed /\ stuck.phase = "undo"
      /\ stuck.held = rest /\ stuck.todo = rest
  <2>1. stuck \in Frame
    BY <1>2, <1>7 DEF Frame
  <2>. QED
    BY <1>2, <2>1 DEF Frame
<1>. HIDE DEF went, stuck
<1>10. Kept(went, drawn)
  <2>1. ASSUME NEW p \in Landed(went.next)
        PROVE  \E n \in went.held : n[1] = p
    <3>1. p \in Landed(Top.next) /\ p # param
      BY <1>2, <1>3, <1>8, LandedShrinks
    <3>2. PICK n \in Top.held : n[1] = p
      BY <1>1, <1>2, <3>1 DEF Kept
    <3>3. n # name
      BY <1>6, <3>1, <3>2
    <3>. QED
      BY <1>8, <3>2, <3>3
  <2>. QED
    BY <1>1, <1>2, <1>8, <2>1 DEF Kept
<1>11. Kept(stuck, drawn)
  BY <1>1, <1>2, <1>9 DEF Kept
<1>12. name \in Claims(Top) /\ Fresh({})
  BY <1>6 DEF Claims, Fresh
<1>13. drawn' \in 0 .. MaxTokens /\ drawn <= drawn' /\ drawn' = drawn
  BY <1>1, FramesTyped DEF Inv, Typed
<1>14. CASE Unregister(name, FALSE) /\ stack' = OnTop(went)
  <2>1. NothingOutlives' /\ BindingsHold'
    BY <1>1, <1>2, <1>8, <1>12, <1>14, RemovingOwn
  <2>2. Goes(went) /\ Claims(went) \subseteq Claims(Top) \union {}
    BY <1>7, <1>8, <1>14 DEF Goes, Claims
  <2>. QED
    BY <1>1, <1>2, <1>10, <1>12, <1>13, <2>1, <2>2, ExecutionGoes
<1>15. CASE Unregister(name, TRUE) /\ stack' = OnTop(stuck)
  <2>1. NothingOutlives' /\ BindingsHold'
    BY <1>1, <1>2, <1>9, <1>12, <1>15, RemovingOwn
  <2>2. Goes(stuck) /\ Claims(stuck) \subseteq Claims(Top) \union {}
    BY <1>7, <1>9, <1>15 DEF Goes, Claims
  <2>. QED
    BY <1>1, <1>2, <1>11, <1>12, <1>13, <2>1, <2>2, ExecutionGoes
<1>. QED
  BY <1>1, <1>14, <1>15

\* A cleanup of an execution's own.
LEMMA SettleKeeps ==
  ASSUME Inv, Settle, Top.kind # "release"  PROVE  Inv'
<1>1. PICK raises \in BOOLEAN : \E name \in Cleanups(Top.todo) :
        /\ Unregister(name, raises)
        /\ stack' = OnTop([Top EXCEPT !.todo = Rest(@, name, raises), !.error = @ \/ raises,
                                      !.held = @ \ {name}])
  BY DEF Settle
<1>2. PICK name \in Cleanups(Top.todo) :
        /\ Unregister(name, raises)
        /\ stack' = OnTop([Top EXCEPT !.todo = Rest(@, name, raises), !.error = @ \/ raises,
                                      !.held = @ \ {name}])
  BY <1>1
<1>. DEFINE f == [Top EXCEPT !.todo = @ \ {name}, !.error = @ \/ raises, !.held = @ \ {name}]
<1>3. /\ stack # <<>> /\ Top.phase = "undo" /\ stack' = OnTop(f)
      /\ UNCHANGED <<threads, alive, leases, drawn, tried>>
  BY <1>2 DEF Settle, Undoing, Rest
<1>4. Top \in Frame /\ Kept(Top, drawn)
  BY <1>3, TopKept
<1>5. name \in Claims(Top)
  BY DEF Cleanups, Claims
<1>6. /\ f \in Frame /\ f.kind = Top.kind /\ f.id = Top.id /\ f.art = Top.art
      /\ f.row = Top.row /\ f.observed = Top.observed /\ f.phase = "undo"
      /\ f.held = Top.held \ {name} /\ f.todo = Top.todo \ {name}
  <2>1. Top.held \ {name} \in SUBSET Names /\ Top.todo \ {name} \in SUBSET Names
        /\ (Top.error \/ raises) \in BOOLEAN
    BY <1>4 DEF Frame
  <2>2. f \in Frame
    BY <1>4, <2>1 DEF Frame
  <2>. QED
    BY <1>3, <1>4, <2>2 DEF Frame
<1>. HIDE DEF f
<1>7. Kept(f, drawn')
  BY <1>3, <1>4, <1>6 DEF Kept
<1>8. NothingOutlives' /\ BindingsHold'
  BY <1>2, <1>3, <1>5, <1>6, RemovingOwn
<1>9. Goes(f) /\ Claims(f) \subseteq Claims(Top) \union {} /\ Fresh({})
  BY <1>3, <1>6 DEF Goes, Claims, Fresh
<1>10. drawn' \in 0 .. MaxTokens /\ drawn <= drawn'
  BY <1>3, FramesTyped DEF Inv, Typed
<1>. QED
  BY <1>3, <1>7, <1>8, <1>9, <1>10, ExecutionGoes

-----------------------------------------------------------------------------
(***************************************************************************)
(* An execution begins.                                                    *)
(***************************************************************************)

\* A call on top of the others leaves their view of the setting as it is.
LEMMA CallSeesThreads ==
  ASSUME Inv, NEW f \in Frame, stack' = Append(stack, f), f.observed = threads,
         threads' = IF f.row THEN 1 ELSE threads
  PROVE  Observed'
<1>1. /\ Len(stack) \in Nat /\ Len(stack') = Len(stack) + 1
      /\ DOMAIN stack = 1 .. Len(stack) /\ DOMAIN stack' = 1 .. Len(stack) + 1
      /\ stack'[Len(stack) + 1] = f
      /\ \A i \in DOMAIN stack : stack'[i] = stack[i]
  BY Calling DEF Inv
<1>2. ASSUME NEW n \in Nat, n <= Len(stack)
      PROVE  ThreadsUnder(stack', n) = ThreadsUnder(stack, n)
  <2>1. \A k \in 1 .. n : stack'[k].row = stack[k].row
    BY <1>1, <1>2
  <2>. QED
    BY <2>1, SameThreads
<1>3. threads' = ThreadsUnder(stack', Len(stack) + 1)
  <2>1. 1 .. Len(stack) + 1 = (1 .. Len(stack)) \union {Len(stack) + 1}
    BY <1>1
  <2>2. threads = ThreadsUnder(stack, Len(stack))
    BY DEF Inv, Observed
  <2>3. \A k \in 1 .. Len(stack) : stack'[k].row = stack[k].row
    BY <1>1
  <2>4. (\E i \in 1 .. Len(stack) + 1 : stack'[i].row) <=> f.row \/ \E i \in 1 .. Len(stack) : stack[i].row
    <3>. DEFINE n == Len(stack) + 1
    <3>1. stack'[n] = f /\ 1 .. n = (1 .. Len(stack)) \union {n}
      BY <1>1, <2>1
    <3>. HIDE DEF n
    <3>2. (\E i \in 1 .. n : stack'[i].row) <=> f.row \/ \E i \in 1 .. Len(stack) : stack[i].row
      BY <2>3, <3>1
    <3>. QED
      BY <3>2 DEF n
  <2>. QED
    BY <2>2, <2>4 DEF ThreadsUnder
<1>4. ASSUME NEW i \in DOMAIN stack', stack'[i].row
      PROVE  stack'[i].observed = ThreadsUnder(stack', i - 1)
  <2>1. CASE i = Len(stack) + 1
    <3>1. ThreadsUnder(stack', Len(stack)) = ThreadsUnder(stack, Len(stack))
      BY <1>1, <1>2
    <3>2. i - 1 = Len(stack) /\ stack'[i] = f
      BY <1>1, <2>1
    <3>. QED
      BY <3>1, <3>2 DEF Inv, Observed
  <2>2. CASE i # Len(stack) + 1
    <3>1. i \in DOMAIN stack /\ stack'[i] = stack[i] /\ i - 1 \in Nat /\ i - 1 <= Len(stack)
      BY <1>1, <2>2
    <3>2. ThreadsUnder(stack', i - 1) = ThreadsUnder(stack, i - 1)
      BY <1>2, <3>1
    <3>. QED
      BY <1>4, <3>1, <3>2 DEF Inv, Observed
  <2>. QED
    BY <2>1, <2>2
<1>. QED
  BY <1>1, <1>3, <1>4 DEF Observed

(* An execution begins: a fit, a run, a transform or a relation. *)
LEMMA OpenKeeps ==
  ASSUME Inv, NEW kind \in {"fit", "eager", "relation"}, NEW art \in 0 .. MaxTokens,
         NEW row \in BOOLEAN, kind = "relation" => art \in Tokens /\ ~ row,
         Open(kind, art, row)
  PROVE  Inv'
<1>. DEFINE f == Began(kind, art, row)
<1>1. /\ UserRuns /\ drawn < MaxTokens /\ stack' = Append(stack, f) /\ drawn' = drawn + 1
      /\ threads' = (IF row THEN 1 ELSE threads)
      /\ UNCHANGED <<catalog, alive, leases, failed, tried>>
  BY DEF Open
<1>2. drawn \in Nat /\ MaxTokens \in Nat /\ drawn + 1 \in 1 .. MaxTokens
      /\ \A i \in DOMAIN stack : stack[i] \in Frame /\ stack[i].id \in Nat
  BY <1>1, FramesTyped DEF Inv
<1>3. /\ f \in Frame /\ f.kind = kind /\ f.id = drawn + 1 /\ f.art = art /\ f.row = row
      /\ f.phase = "lease" /\ f.held = {} /\ f.todo = {} /\ f.observed = threads /\ f.next = 1
  BY <1>2 DEF Frame, Began, Inv, Typed
<1>. HIDE DEF f
<1>4. /\ stack' \in Seq(Frame) /\ Len(stack) \in Nat
      /\ DOMAIN stack = 1 .. Len(stack) /\ DOMAIN stack' = 1 .. Len(stack) + 1
      /\ stack'[Len(stack) + 1] = f
      /\ \A i \in DOMAIN stack : i \in DOMAIN stack' /\ i # Len(stack) + 1 /\ stack'[i] = stack[i]
  BY <1>1, <1>3, Calling DEF Inv
<1>5. \A i \in DOMAIN stack' : i # Len(stack) + 1 => i \in DOMAIN stack /\ stack'[i] = stack[i]
  BY <1>4
<1>6. \A i \in DOMAIN stack : stack[i].phase = "body" /\ stack[i].kind # "release"
  <2>1. CASE stack = <<>>
    BY <2>1
  <2>2. CASE stack # <<>>
    <3>1. /\ Len(stack) \in DOMAIN stack /\ Top = stack[Len(stack)]
      BY <2>2, TopFrame DEF Inv
    <3>2. Top.phase = "body"
      BY <1>1, <2>2 DEF UserRuns
    <3>3. \A i \in DOMAIN stack : stack[i].kind # "release"
      BY <2>2, <3>2, NoReleaseUnder
    <3>4. \A i \in DOMAIN stack : i # Len(stack) => stack[i].phase = "body"
      BY <1>4, <3>1, <3>3 DEF Inv, Nested
    <3>. QED
      BY <3>1, <3>2, <3>3, <3>4
  <2>. QED
    BY <2>1, <2>2
<1>7. Nested'
  <2>. SUFFICES ASSUME NEW i \in DOMAIN stack', NEW j \in DOMAIN stack', i < j
                PROVE  /\ stack'[j].kind # "release" => stack'[i].phase = "body"
                       /\ ~ (stack'[j].kind = "release" /\ stack'[i].kind = "release")
    BY DEF Nested
  <2>1. i \in DOMAIN stack /\ stack'[i] = stack[i]
    BY <1>4, <1>5
  <2>. QED
    BY <1>6, <2>1
<1>8. FramesKept'
  <2>1. Kept(f, drawn')
    BY <1>1, <1>2, <1>3 DEF Kept
  <2>2. \A i \in DOMAIN stack : Kept(stack[i], drawn')
    BY <1>1, <1>2, KeptOn DEF Inv, FramesKept
  <2>. QED
    BY <1>4, <1>5, <2>1, <2>2 DEF FramesKept
<1>9. Observed'
  BY <1>1, <1>3, CallSeesThreads
<1>10. /\ Executions = DOMAIN stack /\ Executions' = DOMAIN stack' /\ Claims(f) = {}
       /\ \A i \in DOMAIN stack' : stack'[i].kind # "release"
  BY <1>3, <1>4, <1>5, <1>6 DEF Executions, Claims
<1>11. ExecutionsApart'
  <2>1. \A i \in DOMAIN stack : /\ Drawn(Claims(stack[i]), drawn) /\ stack[i].id \in 1 .. drawn
                                /\ \A n \in Claims(stack[i]) : n[2] \in Nat
    <3>1. \A i \in DOMAIN stack : \A n \in Claims(stack[i]) : n \in Names
      BY <1>2 DEF Frame, Claims
    <3>. QED
      BY <1>6, <1>10, <3>1 DEF Inv, ExecutionsApart, FramesKept, Kept, Names, Tokens
  <2>2. \A i \in DOMAIN stack' : Drawn(Claims(stack'[i]), drawn')
    BY <1>1, <1>2, <1>4, <1>5, <1>10, <2>1 DEF Drawn
  <2>3. ASSUME NEW i \in DOMAIN stack', NEW j \in DOMAIN stack', i # j
        PROVE  stack'[i].id # stack'[j].id /\ Apart(Claims(stack'[i]), stack'[j])
    <3>1. CASE i = Len(stack) + 1
      BY <1>2, <1>3, <1>4, <1>5, <1>10, <2>1, <2>3, <3>1 DEF Apart
    <3>2. CASE j = Len(stack) + 1
      BY <1>2, <1>3, <1>4, <1>5, <1>10, <2>1, <2>3, <3>2 DEF Apart, Drawn
    <3>3. CASE i # Len(stack) + 1 /\ j # Len(stack) + 1
      BY <1>5, <1>10, <2>3, <3>3 DEF Inv, ExecutionsApart
    <3>. QED
      BY <3>1, <3>2, <3>3
  <2>. QED
    BY <1>10, <2>2, <2>3 DEF ExecutionsApart
<1>12. LeasesApart'
  <2>. SUFFICES ASSUME NEW a \in Tokens, NEW k \in DOMAIN leases[a]
                PROVE  /\ Drawn(leases[a][k].held, drawn')
                       /\ \A i \in DOMAIN stack' : Apart(leases[a][k].held, stack'[i])
    BY <1>1, <1>10 DEF Inv, LeasesApart
  <2>1. \A n \in leases[a][k].held : n[2] \in Nat
    <3>1. leases[a][k] \in Lease
      BY ElementOfSeq DEF Inv, Typed
    <3>. QED
      BY <3>1 DEF Lease, Names, Tokens
  <2>2. /\ Drawn(leases[a][k].held, drawn)
        /\ \A i \in DOMAIN stack : Apart(leases[a][k].held, stack[i])
    BY <1>10 DEF Inv, LeasesApart
  <2>3. Drawn(leases[a][k].held, drawn') /\ Apart(leases[a][k].held, f)
    BY <1>1, <1>2, <1>3, <1>10, <2>1, <2>2 DEF Drawn, Apart
  <2>. QED
    BY <1>4, <1>5, <2>2, <2>3
<1>13. ReleasesKept'
  BY <1>10 DEF ReleasesKept
<1>14. Leased' = Leased
  BY <1>1 DEF Leased
<1>15. NothingOutlives'
  <2>1. \A i \in Executions : i \in Executions' /\ stack'[i].held = stack[i].held
    BY <1>4, <1>10
  <2>. QED
    BY <1>1, <1>14, <2>1 DEF Inv, NothingOutlives
<1>16. BindingsHold'
  <2>1. \A i \in Executions' : \/ stack'[i].held = {}
                               \/ i \in Executions /\ stack'[i] = stack[i]
    BY <1>3, <1>4, <1>5, <1>10
  <2>. QED
    BY <1>1, <1>14, <2>1 DEF Inv, BindingsHold
<1>17. Typed'
  BY <1>1, <1>2, <1>4 DEF Inv, Typed
<1>. QED
  BY <1>7, <1>8, <1>9, <1>11, <1>12, <1>13, <1>15, <1>16, <1>17 DEF Inv

-----------------------------------------------------------------------------
(***************************************************************************)
(* A call ends.                                                            *)
(***************************************************************************)

\* Without the innermost call the others are what they were.
LEMMA OthersRemain ==
  ASSUME Inv, stack # <<>>, stack' = Front(stack), UNCHANGED drawn,
         threads' = IF Top.row THEN Top.observed ELSE threads
  PROVE  /\ stack' \in Seq(Frame) /\ Nested' /\ FramesKept' /\ Observed'
         /\ Executions' = Executions \ {Len(stack)}
         /\ \A i \in DOMAIN stack' : i \in DOMAIN stack /\ i < Len(stack) /\ stack'[i] = stack[i]
<1>1. /\ Len(stack) \in Nat \ {0} /\ DOMAIN stack = 1 .. Len(stack)
      /\ Len(stack) \in DOMAIN stack /\ Top = stack[Len(stack)]
  BY TopFrame DEF Inv
<1>2. /\ stack' \in Seq(Frame) /\ Len(stack') = Len(stack) - 1
      /\ DOMAIN stack' = 1 .. Len(stack) - 1
      /\ \A i \in DOMAIN stack' : i \in DOMAIN stack /\ i < Len(stack) /\ stack'[i] = stack[i]
  BY Returning DEF Inv
<1>3. Nested'
  BY <1>2 DEF Inv, Nested
<1>4. FramesKept'
  BY <1>2 DEF Inv, FramesKept
<1>5. ASSUME NEW n \in Nat, n <= Len(stack) - 1
      PROVE  ThreadsUnder(stack', n) = ThreadsUnder(stack, n)
  <2>1. \A k \in 1 .. n : stack'[k].row = stack[k].row
    BY <1>1, <1>2, <1>5
  <2>. QED
    BY <2>1, SameThreads
<1>6. threads' = ThreadsUnder(stack, Len(stack) - 1)
  <2>1. CASE Top.row
    BY <1>1, <2>1 DEF Inv, Observed
  <2>2. CASE ~ Top.row
    <3>1. 1 .. Len(stack) = (1 .. Len(stack) - 1) \union {Len(stack)}
      BY <1>1
    <3>2. (\E i \in 1 .. Len(stack) : stack[i].row) <=> \E i \in 1 .. Len(stack) - 1 : stack[i].row
      BY <1>1, <2>2, <3>1
    <3>. QED
      BY <2>2, <3>2 DEF Inv, Observed, ThreadsUnder
  <2>. QED
    BY <2>1, <2>2
<1>7. Observed'
  <2>1. Len(stack) - 1 \in Nat /\ ThreadsUnder(stack', Len(stack) - 1) = ThreadsUnder(stack, Len(stack) - 1)
    BY <1>1, <1>5
  <2>2. ASSUME NEW i \in DOMAIN stack', stack'[i].row
        PROVE  stack'[i].observed = ThreadsUnder(stack', i - 1)
    <3>1. i - 1 \in Nat /\ i - 1 <= Len(stack) - 1 /\ i \in DOMAIN stack /\ stack'[i] = stack[i]
      BY <1>1, <1>2
    <3>2. ThreadsUnder(stack', i - 1) = ThreadsUnder(stack, i - 1)
      BY <1>5, <3>1
    <3>. QED
      BY <2>2, <3>1, <3>2 DEF Inv, Observed
  <2>. QED
    BY <1>2, <1>6, <2>1, <2>2 DEF Observed
<1>8. Executions' = Executions \ {Len(stack)}
  BY <1>1, <1>2 DEF Executions
<1>. QED
  BY <1>2, <1>3, <1>4, <1>7, <1>8

\* Of the calls that remain, and the leases, no name is claimed twice.
LEMMA RemainApart ==
  ASSUME Inv, Executions' \subseteq Executions,
         \A i \in Executions' : stack'[i] = stack[i], UNCHANGED <<leases, drawn>>
  PROVE  ExecutionsApart' /\ LeasesApart'
<1>1. ExecutionsApart'
  BY DEF Inv, ExecutionsApart
<1>2. LeasesApart'
  BY DEF Inv, LeasesApart
<1>. QED
  BY <1>1, <1>2

\* An execution that has nothing left to give back ends.
LEMMA CloseKeeps ==
  ASSUME Inv, Close  PROVE  Inv'
<1>1. /\ stack # <<>> /\ Top.phase = "undo" /\ Top.todo = {} /\ Top.kind # "release"
      /\ stack' = Front(stack) /\ threads' = (IF Top.row THEN Top.observed ELSE threads)
      /\ UNCHANGED <<catalog, leases, drawn, failed, tried>>
  BY DEF Close, Undoing, PutBack
<1>2. /\ Top \in Frame /\ Kept(Top, drawn) /\ Top.held = {} /\ Top.id \in Tokens
      /\ Len(stack) \in DOMAIN stack /\ Top = stack[Len(stack)]
  BY <1>1, TopKept, TopFrame DEF Kept, Inv
<1>3. /\ stack' \in Seq(Frame) /\ Nested' /\ FramesKept' /\ Observed'
      /\ Executions' = Executions \ {Len(stack)}
      /\ \A i \in DOMAIN stack' : i \in DOMAIN stack /\ i < Len(stack) /\ stack'[i] = stack[i]
  BY <1>1, OthersRemain
<1>4. \A i \in Executions' : i \in Executions /\ stack'[i] = stack[i]
  BY <1>3 DEF Executions
<1>5. ExecutionsApart' /\ LeasesApart'
  BY <1>1, <1>4, RemainApart
<1>6. ReleasesKept'
  BY <1>1, <1>3, NoReleaseUnder DEF ReleasesKept
<1>7. Leased' = Leased
  BY <1>1 DEF Leased
<1>8. NothingOutlives'
  <2>. SUFFICES ASSUME NEW n \in DOMAIN catalog
                PROVE  \/ n \in CallerNames \/ n \in failed
                       \/ \E i \in Executions' : n \in stack'[i].held
                       \/ \E lease \in Leased : n \in lease.held
    BY <1>1, <1>7 DEF NothingOutlives
  <2>1. \/ n \in CallerNames \/ n \in failed
        \/ \E i \in Executions : n \in stack[i].held
        \/ \E lease \in Leased : n \in lease.held
    BY DEF Inv, NothingOutlives
  <2>2. \A i \in Executions : n \in stack[i].held => i \in Executions' /\ stack'[i] = stack[i]
    BY <1>2, <1>3, <1>4
  <2>. QED
    BY <2>1, <2>2
<1>9. BindingsHold'
  BY <1>1, <1>4, <1>7 DEF Inv, BindingsHold
<1>10. Typed'
  <2>1. alive' \subseteq [id : Tokens, row : BOOLEAN]
    <3>1. [id |-> Top.id, row |-> Top.row] \in [id : Tokens, row : BOOLEAN]
      BY <1>2 DEF Frame
    <3>. QED
      BY <3>1 DEF Close, Inv, Typed
  <2>2. threads' \in Nat
    BY <1>1, <1>2 DEF Inv, Typed, Frame
  <2>. QED
    BY <1>1, <1>3, <2>1, <2>2 DEF Inv, Typed
<1>. QED
  BY <1>3, <1>5, <1>6, <1>8, <1>9, <1>10 DEF Inv

\* A lazy execution ends by handing its lease to its artifact.
LEMMA LeaseHandedOverKeeps ==
  ASSUME Inv, LeaseHandedOver  PROVE  Inv'
<1>. DEFINE lease == [id |-> Top.id, held |-> Top.held]
            art == Top.art
            old == leases[art]
<1>1. /\ stack # <<>> /\ Top.phase = "lease" /\ Top.kind = "relation"
      /\ stack' = Front(stack) /\ leases' = [leases EXCEPT ![art] = Append(@, lease)]
      /\ UNCHANGED <<catalog, threads, alive, drawn, failed, tried>>
  BY DEF LeaseHandedOver, Leasing
<1>2. /\ Top \in Frame /\ Kept(Top, drawn) /\ Top.id \in Tokens /\ ~ Top.row /\ art \in Tokens
      /\ Len(stack) \in DOMAIN stack /\ Top = stack[Len(stack)] /\ Top.kind # "release"
  BY <1>1, TopKept, TopFrame DEF Kept, Inv
<1>3. lease \in Lease
  BY <1>2 DEF Lease, Frame
<1>4. /\ stack' \in Seq(Frame) /\ Nested' /\ FramesKept' /\ Observed'
      /\ Executions' = Executions \ {Len(stack)}
      /\ \A i \in DOMAIN stack' : i \in DOMAIN stack /\ i < Len(stack) /\ stack'[i] = stack[i]
  BY <1>1, <1>2, OthersRemain
<1>5. \A i \in Executions' : i \in Executions /\ stack'[i] = stack[i] /\ i # Len(stack)
  BY <1>4 DEF Executions
<1>6. Len(stack) \in Executions
  BY <1>2 DEF Executions
<1>7. leases \in [Tokens -> Seq(Lease)] /\ old \in Seq(Lease)
  BY <1>2 DEF Inv, Typed
<1>. HIDE DEF lease, art
<1>8. /\ leases'[art] \in Seq(Lease) /\ Len(old) \in Nat /\ DOMAIN old = 1 .. Len(old)
      /\ DOMAIN leases'[art] = 1 .. Len(old) + 1
      /\ leases'[art][Len(old) + 1] = lease
      /\ \A k \in 1 .. Len(old) : leases'[art][k] = old[k]
  <2>1. leases'[art] = Append(old, lease)
    BY <1>1, <1>2, <1>7
  <2>. HIDE DEF old
  <2>2. /\ Append(old, lease) \in Seq(Lease) /\ Len(Append(old, lease)) = Len(old) + 1
        /\ Append(old, lease)[Len(old) + 1] = lease
        /\ \A k \in 1 .. Len(old) : Append(old, lease)[k] = old[k]
    BY <1>3, <1>7, PushedStack
  <2>. QED
    BY <1>7, <2>1, <2>2, LenProperties
<1>9. leases' \in [Tokens -> Seq(Lease)] /\ \A a \in Tokens : a # art => leases'[a] = leases[a]
  BY <1>1, <1>2, <1>7, <1>8
\* Every lease is the new one or one that was there.
<1>10. \A a \in Tokens : \A k \in DOMAIN leases'[a] :
         \/ a = art /\ k = Len(old) + 1 /\ leases'[a][k] = lease
         \/ k \in DOMAIN leases[a] /\ leases'[a][k] = leases[a][k] /\ ~ (a = art /\ k = Len(old) + 1)
  BY <1>8, <1>9
<1>11. lease.held = Top.held /\ lease.id = Top.id
  BY DEF lease
<1>12. ExecutionsApart'
  BY <1>1, <1>5 DEF Inv, ExecutionsApart
<1>13. LeasesApart'
  <2>1. Drawn(Top.held, drawn) /\ \A i \in Executions' : Apart(Top.held, stack[i])
    BY <1>2, <1>5, <1>6 DEF Inv, ExecutionsApart, Apart, Claims, Drawn
  <2>2. \A a \in Tokens : \A k \in DOMAIN leases[a] :
          /\ Drawn(leases[a][k].held, drawn) /\ leases[a][k].held \intersect Top.held = {}
          /\ \A i \in Executions' : Apart(leases[a][k].held, stack[i])
    BY <1>2, <1>5, <1>6 DEF Inv, LeasesApart, Apart, Claims
  <2>3. \A a \in Tokens : \A k \in DOMAIN leases'[a] :
          /\ Drawn(leases'[a][k].held, drawn)
          /\ \A i \in Executions' : Apart(leases'[a][k].held, stack'[i])
    BY <1>5, <1>10, <1>11, <2>1, <2>2
  <2>4. ASSUME NEW a \in Tokens, NEW k \in DOMAIN leases'[a],
               NEW b \in Tokens, NEW m \in DOMAIN leases'[b], <<a, k>> # <<b, m>>
        PROVE  leases'[a][k].held \intersect leases'[b][m].held = {}
    <3>1. CASE a = art /\ k = Len(old) + 1
      BY <1>10, <1>11, <2>2, <2>4, <3>1
    <3>2. CASE b = art /\ m = Len(old) + 1
      BY <1>10, <1>11, <2>2, <2>4, <3>2
    <3>3. CASE ~ (a = art /\ k = Len(old) + 1) /\ ~ (b = art /\ m = Len(old) + 1)
      BY <1>10, <2>4, <3>3 DEF Inv, LeasesApart
    <3>. QED
      BY <3>1, <3>2, <3>3
  <2>. QED
    BY <1>1, <2>3, <2>4 DEF LeasesApart
<1>14. ReleasesKept'
  BY <1>1, <1>2, <1>4, NoReleaseUnder DEF ReleasesKept
<1>15. Leased' = Leased \union {lease}
  <2>1. \A a \in Tokens : \A k \in DOMAIN leases'[a] : leases'[a][k] \in Leased \union {lease}
    BY <1>10 DEF Leased, ToSet
  <2>2. \A a \in Tokens : \A k \in DOMAIN leases[a] : \E m \in DOMAIN leases'[a] : leases'[a][m] = leases[a][k]
    <3>. TAKE a \in Tokens
    <3>. TAKE k \in DOMAIN leases[a]
    <3>1. k \in DOMAIN leases'[a] /\ leases'[a][k] = leases[a][k]
      <4>1. CASE a # art
        BY <1>9, <4>1
      <4>2. CASE a = art
        BY <1>8, <4>2
      <4>. QED
        BY <4>1, <4>2
    <3>. QED
      BY <3>1
  <2>3. lease \in ToSet(leases'[art])
    BY <1>8 DEF ToSet
  <2>. QED
    BY <1>2, <2>1, <2>2, <2>3 DEF Leased, ToSet, art
<1>16. NothingOutlives'
  <2>. SUFFICES ASSUME NEW n \in DOMAIN catalog
                PROVE  \/ n \in CallerNames \/ n \in failed
                       \/ \E i \in Executions' : n \in stack'[i].held
                       \/ \E l \in Leased' : n \in l.held
    BY <1>1 DEF NothingOutlives
  <2>1. \/ n \in CallerNames \/ n \in failed
        \/ \E i \in Executions : n \in stack[i].held
        \/ \E l \in Leased : n \in l.held
    BY DEF Inv, NothingOutlives
  <2>2. \A i \in Executions : n \in stack[i].held =>
          n \in lease.held \/ (i \in Executions' /\ stack'[i] = stack[i])
    BY <1>2, <1>4, <1>5, <1>11
  <2>. QED
    BY <1>15, <2>1, <2>2
<1>17. BindingsHold'
  <2>1. \A n \in lease.held : n \in DOMAIN catalog /\ catalog[n] = lease.id
    BY <1>2, <1>6, <1>11 DEF Inv, BindingsHold
  <2>2. \A l \in Leased' : tried[l.id] = 0 => \A n \in l.held : n \in DOMAIN catalog /\ catalog[n] = l.id
    BY <1>15, <2>1 DEF Inv, BindingsHold
  <2>3. \A i \in Executions' : \A n \in stack'[i].held : n \in DOMAIN catalog /\ catalog[n] = stack'[i].id
    BY <1>5 DEF Inv, BindingsHold
  <2>. QED
    BY <1>1, <2>2, <2>3 DEF Inv, BindingsHold
<1>18. Typed'
  BY <1>1, <1>4, <1>9 DEF Inv, Typed
<1>. QED
  BY <1>4, <1>12, <1>13, <1>14, <1>16, <1>17, <1>18 DEF Inv

-----------------------------------------------------------------------------
(***************************************************************************)
(* An artifact gives its leases back.                                      *)
(***************************************************************************)

\* It begins while no other release of the same artifact is under way.
LEMMA GiveBackKeeps ==
  ASSUME Inv, NEW a \in Tokens, GiveBack(a), alive' \subseteq alive,
         \A i \in DOMAIN stack : stack[i].kind = "release" => stack[i].art # a
  PROVE  Inv'
<1>. DEFINE f == [Began("release", a, FALSE) EXCEPT !.phase = "undo", !.id = 0, !.next = 0]
<1>1. /\ stack' = Append(stack, f)
      /\ UNCHANGED <<catalog, threads, leases, drawn, failed, tried>>
  BY DEF GiveBack
<1>2. /\ f \in Frame /\ f.kind = "release" /\ f.id = 0 /\ f.art = a /\ f.row = FALSE
      /\ f.phase = "undo" /\ f.held = {} /\ f.todo = {} /\ f.observed = threads /\ f.next = 0
  <2>1. a \in 0 .. MaxTokens /\ 0 \in 0 .. MaxTokens /\ threads \in Nat
    BY FramesTyped DEF Inv, Typed, Tokens
  <2>. QED
    BY <2>1 DEF Frame, Began
<1>. HIDE DEF f
<1>3. /\ stack' \in Seq(Frame) /\ Len(stack) \in Nat
      /\ DOMAIN stack = 1 .. Len(stack) /\ DOMAIN stack' = 1 .. Len(stack) + 1
      /\ stack'[Len(stack) + 1] = f
      /\ \A i \in DOMAIN stack : i \in DOMAIN stack' /\ i # Len(stack) + 1 /\ stack'[i] = stack[i]
  BY <1>1, <1>2, Calling DEF Inv
<1>4. \A i \in DOMAIN stack' : i # Len(stack) + 1 => i \in DOMAIN stack /\ stack'[i] = stack[i]
  BY <1>3
<1>5. Executions' = Executions /\ \A i \in Executions : stack'[i] = stack[i]
  BY <1>2, <1>3, <1>4 DEF Executions
<1>6. Nested'
  <2>. SUFFICES ASSUME NEW i \in DOMAIN stack', NEW j \in DOMAIN stack', i < j
                PROVE  /\ stack'[j].kind # "release" => stack'[i].phase = "body"
                       /\ stack'[j].kind = "release" /\ stack'[i].kind = "release" =>
                            stack'[i].art # stack'[j].art
    BY DEF Nested
  <2>1. i \in DOMAIN stack /\ stack'[i] = stack[i]
    BY <1>3, <1>4
  <2>2. CASE j = Len(stack) + 1
    BY <1>2, <1>3, <2>1, <2>2
  <2>3. CASE j # Len(stack) + 1
    BY <1>4, <2>1, <2>3 DEF Inv, Nested
  <2>. QED
    BY <2>2, <2>3
<1>7. FramesKept'
  <2>1. Kept(f, drawn)
    BY <1>2 DEF Kept
  <2>. QED
    BY <1>1, <1>3, <1>4, <2>1 DEF Inv, FramesKept
<1>8. Observed'
  BY <1>1, <1>2, CallSeesThreads
<1>9. ExecutionsApart' /\ LeasesApart'
  BY <1>1, <1>5, RemainApart
<1>10. ReleasesKept'
  <2>1. GivingBack(f, leases[a], DOMAIN catalog, failed, tried)
    <3>1. leases[a] \in Seq(Lease)
      BY DEF Inv, Typed
    <3>2. 0 <= Len(leases[a]) /\ 1 .. 0 = {}
      BY <3>1, LenProperties
    <3>. QED
      BY <1>2, <3>2 DEF GivingBack
  <2>. SUFFICES ASSUME NEW i \in DOMAIN stack', stack'[i].kind = "release"
                PROVE  GivingBack(stack'[i], leases[stack'[i].art], DOMAIN catalog, failed, tried)
    BY <1>1 DEF ReleasesKept
  <2>2. CASE i = Len(stack) + 1
    BY <1>2, <1>3, <2>1, <2>2
  <2>3. CASE i # Len(stack) + 1
    BY <1>4, <2>3 DEF Inv, ReleasesKept
  <2>. QED
    BY <2>2, <2>3
<1>11. NothingOutlives' /\ BindingsHold'
  BY <1>1, <1>5, CatalogStands
<1>12. Typed'
  BY <1>1, <1>3 DEF Inv, Typed
<1>. QED
  BY <1>6, <1>7, <1>8, <1>9, <1>10, <1>11, <1>12 DEF Inv

(* The caller releases an artifact (Fitted.release). *)
LEMMA ReleaseKeeps ==
  ASSUME Inv, Release  PROVE  Inv'
<1>1. PICK a \in alive : GiveBack(a.id)
  BY DEF Release
<1>2. a.id \in Tokens
  BY DEF Inv, Typed
<1>3. \A i \in DOMAIN stack : stack[i].kind # "release"
  BY NoReleaseUnder DEF Release, UserRuns, Inv, Typed
<1>. QED
  BY <1>1, <1>2, <1>3, GiveBackKeeps DEF Release

(* An artifact is collected: its finalizer gives back its leases. *)
LEMMA CollectKeeps ==
  ASSUME Inv, Collect  PROVE  Inv'
<1>1. PICK a \in alive : /\ \A i \in DOMAIN stack : stack[i].art # a.id
                         /\ alive' = alive \ {a} /\ GiveBack(a.id)
  BY DEF Collect
<1>2. a.id \in Tokens
  BY DEF Inv, Typed
<1>. QED
  BY <1>1, <1>2, GiveBackKeeps

\* While a release is innermost the others' names and leases stand still.
LEMMA ReleaseGoes ==
  ASSUME Inv, stack # <<>>, Top.kind = "release", NEW f \in Frame, stack' = OnTop(f),
         f.kind = "release", f.art = Top.art, f.row = Top.row, f.observed = Top.observed,
         f.phase = "undo", f.held = {},
         UNCHANGED <<threads, alive, leases, drawn>>
  PROVE  /\ stack' \in Seq(Frame) /\ Nested' /\ FramesKept' /\ Observed'
         /\ ExecutionsApart' /\ LeasesApart'
         /\ Executions' = Executions /\ \A i \in Executions : stack'[i] = stack[i]
         /\ DOMAIN stack' = DOMAIN stack /\ stack'[Len(stack)] = f
         /\ \A i \in DOMAIN stack : i # Len(stack) =>
              stack'[i] = stack[i] /\ (stack[i].kind = "release" => stack[i].art # Top.art)
<1>1. /\ Len(stack) \in Nat \ {0} /\ DOMAIN stack = 1 .. Len(stack)
      /\ Len(stack) \in DOMAIN stack /\ Top = stack[Len(stack)] /\ Top \in Frame
      /\ Kept(Top, drawn)
  BY TopFrame DEF Inv, FramesKept
<1>2. /\ DOMAIN stack' = DOMAIN stack
      /\ \A i \in DOMAIN stack : stack'[i] = IF i = Len(stack) THEN f ELSE stack[i]
  BY Replacing DEF Inv
<1>3. Kept(f, drawn') /\ drawn' \in 0 .. MaxTokens /\ drawn <= drawn'
  BY <1>1, FramesTyped DEF Kept, Inv, Typed
<1>4. stack' \in Seq(Frame) /\ Nested' /\ FramesKept' /\ Observed'
  BY <1>3, StepInPlace
<1>5. Executions' = Executions /\ \A i \in Executions : stack'[i] = stack[i]
  BY <1>1, <1>2 DEF Executions
<1>6. ExecutionsApart' /\ LeasesApart'
  BY <1>5, RemainApart
<1>7. \A i \in DOMAIN stack : i # Len(stack) /\ stack[i].kind = "release" => stack[i].art # Top.art
  BY <1>1 DEF Inv, Nested
<1>. QED
  BY <1>1, <1>2, <1>4, <1>5, <1>6, <1>7

\* What a release has under way of a list of leases.
LEMMA TopReleases ==
  ASSUME Inv, stack # <<>>, Top.kind = "release"
  PROVE  /\ Top \in Frame /\ Kept(Top, drawn) /\ Top.art \in Tokens
         /\ leases[Top.art] \in Seq(Lease)
         /\ DOMAIN leases[Top.art] = 1 .. Len(leases[Top.art]) /\ Len(leases[Top.art]) \in Nat
         /\ GivingBack(Top, leases[Top.art], DOMAIN catalog, failed, tried)
<1>1. Len(stack) \in DOMAIN stack /\ Top = stack[Len(stack)] /\ Top \in Frame
  BY TopFrame DEF Inv
<1>2. Kept(Top, drawn) /\ Top.art \in Tokens
  BY <1>1 DEF Inv, FramesKept, Kept
<1>3. leases[Top.art] \in Seq(Lease)
  BY <1>2 DEF Inv, Typed
<1>4. GivingBack(Top, leases[Top.art], DOMAIN catalog, failed, tried)
  BY <1>1 DEF Inv, ReleasesKept
<1>. QED
  BY <1>1, <1>2, <1>3, <1>4, LenProperties

\* One cleanup of a release.
LEMMA ReleaseSettleKeeps ==
  ASSUME Inv, Settle, Top.kind = "release"  PROVE  Inv'
<1>1. PICK raises \in BOOLEAN : \E name \in Cleanups(Top.todo) :
        /\ Unregister(name, raises)
        /\ stack' = OnTop([Top EXCEPT !.todo = Rest(@, name, raises), !.error = @ \/ raises,
                                      !.held = @ \ {name}])
  BY DEF Settle
<1>2. PICK name \in Cleanups(Top.todo) :
        /\ Unregister(name, raises)
        /\ stack' = OnTop([Top EXCEPT !.todo = Rest(@, name, raises), !.error = @ \/ raises,
                                      !.held = @ \ {name}])
  BY <1>1
<1>. DEFINE f == [Top EXCEPT !.todo = @ \ {name}, !.error = @ \/ raises, !.held = @ \ {name}]
            own == leases[Top.art]
<1>3. /\ stack # <<>> /\ Top.phase = "undo" /\ stack' = OnTop(f)
      /\ UNCHANGED <<threads, alive, leases, drawn, tried>>
  BY <1>2 DEF Settle, Undoing, Rest
<1>4. /\ Top \in Frame /\ Kept(Top, drawn) /\ Top.art \in Tokens /\ own \in Seq(Lease)
      /\ DOMAIN own = 1 .. Len(own) /\ Len(own) \in Nat
      /\ GivingBack(Top, own, DOMAIN catalog, failed, tried)
  BY <1>3, TopReleases
<1>5. name \in Top.todo
  BY DEF Cleanups
<1>6. Top.next \in DOMAIN own /\ name \in own[Top.next].held /\ tried[own[Top.next].id] > 0
  <2>1. Top.next \in Nat /\ Top.next # 0
    BY <1>4, <1>5 DEF GivingBack, Frame
  <2>. QED
    BY <1>4, <1>5, <2>1 DEF GivingBack
<1>7. /\ f \in Frame /\ f.kind = "release" /\ f.art = Top.art /\ f.row = Top.row
      /\ f.observed = Top.observed /\ f.phase = "undo" /\ f.next = Top.next
      /\ f.held = {} /\ f.todo = Top.todo \ {name}
  <2>1. Top.held = {} /\ Top.todo \ {name} \in SUBSET Names /\ (Top.error \/ raises) \in BOOLEAN
    BY <1>4 DEF Frame, Kept
  <2>2. f \in Frame
    BY <1>4, <2>1 DEF Frame
  <2>. QED
    BY <1>3, <1>4, <2>1, <2>2 DEF Frame
<1>. HIDE DEF f
<1>8. /\ stack' \in Seq(Frame) /\ Nested' /\ FramesKept' /\ Observed'
      /\ ExecutionsApart' /\ LeasesApart'
      /\ Executions' = Executions /\ \A i \in Executions : stack'[i] = stack[i]
      /\ DOMAIN stack' = DOMAIN stack /\ stack'[Len(stack)] = f
      /\ \A i \in DOMAIN stack : i # Len(stack) =>
           stack'[i] = stack[i] /\ (stack[i].kind = "release" => stack[i].art # Top.art)
  BY <1>3, <1>7, ReleaseGoes
<1>9. /\ \A n : n # name => /\ n \in DOMAIN catalog' <=> n \in DOMAIN catalog
                            /\ n \in DOMAIN catalog => catalog'[n] = catalog[n]
      /\ failed \subseteq failed' \union {name}
      /\ name \in DOMAIN catalog' => name \in failed'
      /\ DOMAIN catalog' \subseteq DOMAIN catalog
  BY <1>2, Removed
<1>10. \A a \in Tokens : \A k \in DOMAIN leases[a] :
         <<a, k>> # <<Top.art, Top.next>> => name \notin leases[a][k].held
  BY <1>4, <1>6 DEF Inv, LeasesApart
<1>11. NothingOutlives' /\ BindingsHold'
  <2>1. name \in Names
    BY <1>4, <1>5 DEF Frame
  <2>2. \A lease \in Leased : tried[lease.id] = 0 => name \notin lease.held
    BY <1>6, <1>10 DEF Leased, ToSet
  <2>3. \A i \in Executions : name \notin stack[i].held
    BY <1>4, <1>6 DEF Inv, LeasesApart, Apart, Claims
  <2>. QED
    BY <1>3, <1>8, <1>9, <2>1, <2>2, <2>3, OneNameTouched
<1>12. ReleasesKept'
  <2>. SUFFICES ASSUME NEW i \in DOMAIN stack, stack'[i].kind = "release"
                PROVE  GivingBack(stack'[i], leases[stack'[i].art], DOMAIN catalog', failed', tried)
    BY <1>3, <1>8 DEF ReleasesKept
  <2>1. CASE i = Len(stack)
    <3>1. stack'[i] = f /\ leases[stack'[i].art] = own
      BY <1>7, <1>8, <2>1
    <3>. HIDE DEF own
    <3>2. \A k \in 1 .. f.next : own[k].held \intersect DOMAIN catalog' \subseteq failed' \union f.todo
      BY <1>4, <1>7, <1>9 DEF GivingBack
    <3>3. GivingBack(f, own, DOMAIN catalog', failed', tried)
      BY <1>4, <1>7, <3>2 DEF GivingBack
    <3>. QED
      BY <3>1, <3>3
  <2>2. CASE i # Len(stack)
    <3>1. stack'[i] = stack[i] /\ stack[i].kind = "release" /\ stack[i].art # Top.art
      BY <1>8, <2>2
    <3>. DEFINE its == leases[stack[i].art]
    <3>2. /\ GivingBack(stack[i], its, DOMAIN catalog, failed, tried) /\ stack[i].art \in Tokens
          /\ stack[i].next \in Nat
      BY <3>1, FramesTyped DEF Inv, ReleasesKept, FramesKept, Kept, Frame
    <3>3. Len(its) \in Nat /\ DOMAIN its = 1 .. Len(its)
      <4>1. its \in Seq(Lease)
        BY <3>2 DEF Inv, Typed
      <4>. QED
        BY <4>1, LenProperties
    <3>4. \A k \in DOMAIN its : name \notin its[k].held
      BY <1>10, <3>1, <3>2
    <3>. HIDE DEF its
    <3>5. \A k \in 1 .. stack[i].next : name \notin its[k].held
      BY <3>2, <3>3, <3>4 DEF GivingBack
    <3>6. \A k \in 1 .. stack[i].next :
            its[k].held \intersect DOMAIN catalog' \subseteq failed' \union stack[i].todo
      BY <1>9, <3>2, <3>5 DEF GivingBack
    <3>7. GivingBack(stack[i], its, DOMAIN catalog', failed', tried)
      BY <3>2, <3>6 DEF GivingBack
    <3>. QED
      BY <3>1, <3>7 DEF its
  <2>. QED
    BY <2>1, <2>2
<1>13. Typed'
  BY <1>3, <1>8 DEF Inv, Typed
<1>. QED
  BY <1>8, <1>11, <1>12, <1>13 DEF Inv

\* The release goes on to the next lease of its list.
LEMMA NextLeaseKeeps ==
  ASSUME Inv, NextLease  PROVE  Inv'
<1>. DEFINE own == leases[Top.art]
            lease == own[Top.next + 1]
            f == [Top EXCEPT !.next = @ + 1, !.todo = lease.held]
<1>1. /\ stack # <<>> /\ Top.phase = "undo" /\ Top.kind = "release" /\ Top.todo = {}
      /\ Top.next < Len(own) /\ stack' = OnTop(f)
      /\ tried' = [tried EXCEPT ![lease.id] = @ + 1]
      /\ UNCHANGED <<catalog, threads, alive, leases, drawn, failed>>
  BY DEF NextLease, Undoing
<1>2. /\ Top \in Frame /\ Kept(Top, drawn) /\ Top.art \in Tokens /\ own \in Seq(Lease)
      /\ DOMAIN own = 1 .. Len(own) /\ Len(own) \in Nat
      /\ GivingBack(Top, own, DOMAIN catalog, failed, tried)
  BY <1>1, TopReleases
<1>. HIDE DEF own
<1>3. Top.next \in Nat /\ Top.next + 1 \in Nat /\ Top.next + 1 \in DOMAIN own
  BY <1>1, <1>2 DEF Frame
<1>4. lease \in Lease
  BY <1>2, <1>3, ElementOfSeq
<1>5. tried' \in [Tokens -> Nat] /\ tried'[lease.id] > 0 /\ \A t \in Tokens : tried'[t] >= tried[t]
  <2>1. tried \in [Tokens -> Nat] /\ lease.id \in Tokens
    BY <1>4 DEF Inv, Typed, Lease
  <2>. QED
    BY <1>1, <2>1
<1>6. /\ f \in Frame /\ f.kind = "release" /\ f.art = Top.art /\ f.row = Top.row
      /\ f.observed = Top.observed /\ f.phase = "undo" /\ f.next = Top.next + 1
      /\ f.held = {} /\ f.todo = lease.held
  <2>1. Top.held = {} /\ lease.held \in SUBSET Names
    BY <1>1, <1>2, <1>4 DEF Kept, Lease
  <2>2. f \in Frame
    BY <1>2, <1>3, <2>1 DEF Frame
  <2>. QED
    BY <1>1, <1>2, <2>1, <2>2 DEF Frame
<1>. HIDE DEF f
<1>7. /\ stack' \in Seq(Frame) /\ Nested' /\ FramesKept' /\ Observed'
      /\ ExecutionsApart' /\ LeasesApart'
      /\ Executions' = Executions /\ \A i \in Executions : stack'[i] = stack[i]
      /\ DOMAIN stack' = DOMAIN stack /\ stack'[Len(stack)] = f
      /\ \A i \in DOMAIN stack : i # Len(stack) =>
           stack'[i] = stack[i] /\ (stack[i].kind = "release" => stack[i].art # Top.art)
  BY <1>1, <1>6, ReleaseGoes
<1>8. \A a \in Tokens : leases[a] \in Seq(Lease)
  BY DEF Inv, Typed
<1>9. NothingOutlives' /\ BindingsHold'
  <2>1. ASSUME NEW l \in Leased, tried'[l.id] = 0
        PROVE  tried[l.id] = 0
    <3>1. l \in Lease
      BY <1>8, ElementOfSeq DEF Leased, ToSet
    <3>2. l.id \in Tokens /\ tried[l.id] \in Nat
      BY <3>1 DEF Lease, Inv, Typed
    <3>. QED
      BY <1>5, <2>1, <3>2
  <2>. QED
    BY <1>1, <1>7, <2>1, CatalogStands
<1>10. ReleasesKept'
  <2>. SUFFICES ASSUME NEW i \in DOMAIN stack, stack'[i].kind = "release"
                PROVE  GivingBack(stack'[i], leases[stack'[i].art], DOMAIN catalog, failed, tried')
    BY <1>1, <1>7 DEF ReleasesKept
  <2>1. CASE i = Len(stack)
    <3>1. stack'[i] = f /\ leases[stack'[i].art] = own
      BY <1>6, <1>7, <2>1 DEF own
    <3>2. ASSUME NEW k \in 1 .. f.next
          PROVE  own[k].held \intersect DOMAIN catalog \subseteq failed \union f.todo
      <4>1. CASE k = Top.next + 1
        BY <1>6, <4>1
      <4>2. CASE k # Top.next + 1
        <5>1. k \in 1 .. Top.next
          BY <1>3, <1>6, <4>2
        <5>. QED
          BY <1>1, <1>2, <5>1 DEF GivingBack
      <4>. QED
        BY <4>1, <4>2
    <3>3. f.next <= Len(own) /\ f.next # 0 /\ own[f.next] = lease
      BY <1>1, <1>2, <1>3, <1>6
    <3>4. GivingBack(f, own, DOMAIN catalog, failed, tried')
      BY <1>5, <1>6, <3>2, <3>3 DEF GivingBack
    <3>. QED
      BY <3>1, <3>4
  <2>2. CASE i # Len(stack)
    <3>1. stack'[i] = stack[i] /\ stack[i].kind = "release"
      BY <1>7, <2>2
    <3>. DEFINE its == leases[stack[i].art]
    <3>2. /\ GivingBack(stack[i], its, DOMAIN catalog, failed, tried) /\ stack[i].art \in Tokens
          /\ stack[i].next \in Nat
      BY <3>1, FramesTyped DEF Inv, ReleasesKept, FramesKept, Kept, Frame
    <3>3. its \in Seq(Lease)
      BY <1>8, <3>2
    <3>. HIDE DEF its
    <3>4. stack[i].next > 0 => tried'[its[stack[i].next].id] > 0
      <4>. SUFFICES ASSUME stack[i].next > 0  PROVE  tried'[its[stack[i].next].id] > 0
        OBVIOUS
      <4>1. stack[i].next \in 1 .. Len(its)
        BY <3>2, <3>3, LenProperties DEF GivingBack
      <4>2. its[stack[i].next] \in Lease
        BY <3>3, <4>1, LenProperties, ElementOfSeq
      <4>3. its[stack[i].next].id \in Tokens
        BY <4>2 DEF Lease
      <4>4. tried[its[stack[i].next].id] > 0
        BY <3>2 DEF GivingBack
      <4>. QED
        BY <1>5, <4>3, <4>4 DEF Inv, Typed
    <3>5. GivingBack(stack[i], its, DOMAIN catalog, failed, tried')
      BY <3>2, <3>4 DEF GivingBack
    <3>. QED
      BY <3>1, <3>5 DEF its
  <2>. QED
    BY <2>1, <2>2
<1>11. Typed'
  BY <1>1, <1>5, <1>7 DEF Inv, Typed
<1>. QED
  BY <1>7, <1>9, <1>10, <1>11 DEF Inv

\* A release that failed leaves its list as it is.
LEMMA GiveBackFailsKeeps ==
  ASSUME Inv, GiveBackFails  PROVE  Inv'
<1>1. /\ stack # <<>> /\ Top.kind = "release" /\ stack' = Front(stack)
      /\ UNCHANGED <<catalog, threads, alive, leases, drawn, failed, tried>>
  BY DEF GiveBackFails, Undoing
<1>2. ~ Top.row /\ Len(stack) \in DOMAIN stack /\ Top = stack[Len(stack)]
  BY <1>1, TopReleases, TopFrame DEF Kept, Inv
<1>3. /\ stack' \in Seq(Frame) /\ Nested' /\ FramesKept' /\ Observed'
      /\ Executions' = Executions \ {Len(stack)}
      /\ \A i \in DOMAIN stack' : i \in DOMAIN stack /\ i < Len(stack) /\ stack'[i] = stack[i]
  BY <1>1, <1>2, OthersRemain
<1>4. Executions' = Executions /\ \A i \in Executions : stack'[i] = stack[i]
  BY <1>1, <1>2, <1>3 DEF Executions
<1>5. ExecutionsApart' /\ LeasesApart'
  BY <1>1, <1>4, RemainApart
<1>6. NothingOutlives' /\ BindingsHold'
  BY <1>1, <1>4, CatalogStands
<1>7. ReleasesKept'
  BY <1>1, <1>3 DEF Inv, ReleasesKept
<1>8. Typed'
  BY <1>1, <1>3 DEF Inv, Typed
<1>. QED
  BY <1>3, <1>5, <1>6, <1>7, <1>8 DEF Inv

\* A release that came to its end clears its list: what is left of those
\* names could not be removed.
LEMMA GaveBackKeeps ==
  ASSUME Inv, GaveBack  PROVE  Inv'
<1>. DEFINE art == Top.art
            own == leases[art]
<1>1. /\ stack # <<>> /\ Top.kind = "release" /\ Top.todo = {} /\ Top.next = Len(own)
      /\ leases' = [leases EXCEPT ![art] = <<>>] /\ stack' = Front(stack)
      /\ UNCHANGED <<catalog, threads, alive, drawn, failed, tried>>
  BY DEF GaveBack, Undoing
<1>2. /\ art \in Tokens /\ own \in Seq(Lease) /\ ~ Top.row
      /\ DOMAIN own = 1 .. Len(own) /\ GivingBack(Top, own, DOMAIN catalog, failed, tried)
      /\ Len(stack) \in Nat /\ Len(stack) \in DOMAIN stack /\ Top = stack[Len(stack)]
  BY <1>1, TopReleases, TopFrame DEF Kept, Inv
<1>3. /\ stack' \in Seq(Frame) /\ Nested' /\ FramesKept' /\ Observed'
      /\ Executions' = Executions \ {Len(stack)}
      /\ \A i \in DOMAIN stack' : i \in DOMAIN stack /\ i < Len(stack) /\ stack'[i] = stack[i]
  BY <1>1, <1>2, OthersRemain
<1>4. Executions' = Executions /\ \A i \in Executions : stack'[i] = stack[i]
  BY <1>1, <1>2, <1>3 DEF Executions
<1>5. \A k \in DOMAIN own : own[k].held \intersect DOMAIN catalog \subseteq failed
  BY <1>1, <1>2 DEF GivingBack
<1>6. /\ leases' \in [Tokens -> Seq(Lease)]
      /\ leases'[art] = <<>> /\ DOMAIN leases'[art] = {}
      /\ \A a \in Tokens : a # art => leases'[a] = leases[a]
  <2>1. leases \in [Tokens -> Seq(Lease)] /\ <<>> \in Seq(Lease) /\ DOMAIN <<>> = {}
    BY DEF Inv, Typed
  <2>. QED
    BY <1>1, <1>2, <2>1
<1>7. \A a \in Tokens : \A k \in DOMAIN leases'[a] :
        a # art /\ k \in DOMAIN leases[a] /\ leases'[a][k] = leases[a][k]
  BY <1>6
<1>8. ExecutionsApart'
  BY <1>1, <1>4 DEF Inv, ExecutionsApart
<1>9. LeasesApart'
  BY <1>1, <1>4, <1>7 DEF Inv, LeasesApart
<1>10. ReleasesKept'
  <2>. SUFFICES ASSUME NEW i \in DOMAIN stack', stack'[i].kind = "release"
                PROVE  GivingBack(stack'[i], leases'[stack'[i].art], DOMAIN catalog, failed, tried)
    BY <1>1 DEF ReleasesKept
  <2>1. i \in DOMAIN stack /\ i < Len(stack) /\ stack'[i] = stack[i]
    BY <1>3
  <2>2. stack[i].art # art /\ stack[i].art \in Tokens
    BY <1>1, <1>2, <2>1 DEF Inv, Nested, FramesKept, Kept
  <2>. QED
    BY <1>6, <2>1, <2>2 DEF Inv, ReleasesKept
<1>11. \A l \in Leased' : l \in Leased
  BY <1>7 DEF Leased, ToSet
<1>12. \A l \in Leased : l \in Leased' \/ l.held \intersect DOMAIN catalog \subseteq failed
  <2>. SUFFICES ASSUME NEW a \in Tokens, NEW k \in DOMAIN leases[a]
                PROVE  leases[a][k] \in Leased' \/ leases[a][k].held \intersect DOMAIN catalog \subseteq failed
    BY DEF Leased, ToSet
  <2>1. CASE a = art
    BY <1>5, <2>1
  <2>2. CASE a # art
    BY <1>6, <2>2 DEF Leased, ToSet
  <2>. QED
    BY <2>1, <2>2
<1>13. NothingOutlives'
  <2>. SUFFICES ASSUME NEW n \in DOMAIN catalog
                PROVE  \/ n \in CallerNames \/ n \in failed
                       \/ \E i \in Executions : n \in stack[i].held
                       \/ \E l \in Leased' : n \in l.held
    BY <1>1, <1>4 DEF NothingOutlives
  <2>1. \/ n \in CallerNames \/ n \in failed
        \/ \E i \in Executions : n \in stack[i].held
        \/ \E l \in Leased : n \in l.held
    BY DEF Inv, NothingOutlives
  <2>. QED
    BY <1>12, <2>1
<1>14. BindingsHold'
  BY <1>1, <1>4, <1>11 DEF Inv, BindingsHold
<1>15. Typed'
  BY <1>1, <1>3, <1>6 DEF Inv, Typed
<1>. QED
  BY <1>3, <1>8, <1>9, <1>10, <1>13, <1>14, <1>15 DEF Inv

-----------------------------------------------------------------------------
(***************************************************************************)
(* The theorems.                                                           *)
(***************************************************************************)

(* The invariant holds of a connection nothing has run on. *)
LEMMA InvStarts ==
  Init => Inv
<1>. SUFFICES ASSUME Init  PROVE  Inv
  OBVIOUS
<1>1. DOMAIN stack = {} /\ Len(stack) = 0 /\ stack \in Seq(Frame)
  BY DEF Init
<1>2. \A a \in Tokens : leases[a] = <<>> /\ leases[a] \in Seq(Lease) /\ DOMAIN leases[a] = {}
  BY DEF Init
<1>3. Executions = {} /\ Leased = {}
  BY <1>1, <1>2 DEF Executions, Leased, ToSet
<1>4. Typed
  <2>1. leases \in [Tokens -> Seq(Lease)]
    BY <1>2 DEF Init
  <2>. QED
    BY <1>1, <2>1, LeasesAssumption DEF Init, Typed
<1>5. Nested /\ FramesKept /\ ReleasesKept
  BY <1>1 DEF Nested, FramesKept, ReleasesKept
<1>6. Observed
  BY <1>1 DEF Init, Observed, ThreadsUnder
<1>7. ExecutionsApart /\ LeasesApart
  BY <1>2, <1>3 DEF ExecutionsApart, LeasesApart
<1>8. NothingOutlives /\ BindingsHold
  BY <1>3 DEF Init, NothingOutlives, BindingsHold
<1>. QED
  BY <1>4, <1>5, <1>6, <1>7, <1>8 DEF Inv

(* Every step keeps the invariant. *)
LEMMA NextKeeps ==
  Inv /\ [Next]_vars => Inv'
<1>. SUFFICES ASSUME Inv, [Next]_vars  PROVE  Inv'
  OBVIOUS
<1>1. \A a \in alive : a.id \in Tokens /\ a.id \in 0 .. MaxTokens /\ a.row \in BOOLEAN
  BY FramesTyped DEF Inv, Typed, Tokens
<1>2. 0 \in 0 .. MaxTokens
  BY FramesTyped DEF Inv
<1>3. CASE Fit
  BY <1>2, <1>3, OpenKeeps DEF Fit
<1>4. CASE Run
  BY <1>2, <1>4, OpenKeeps DEF Run
<1>5. CASE Transform
  BY <1>1, <1>5, OpenKeeps DEF Transform
<1>6. CASE Relation
  BY <1>1, <1>6, OpenKeeps DEF Relation
<1>7. CASE Register
  BY <1>7, RegisterKeeps
<1>8. CASE RegisterFails
  BY <1>8, RegisterFailsKeeps
<1>9. CASE LeaseHeld
  BY <1>9, LeaseHeldKeeps
<1>10. CASE LeaseHandedOver
  BY <1>10, LeaseHandedOverKeeps
<1>11. CASE RegisterParam
  BY <1>11, RegisterParamKeeps
<1>12. CASE DropParam
  BY <1>12, DropParamKeeps
<1>13. CASE BodyEnds
  BY <1>13, BodyEndsKeeps
<1>14. CASE Settle
  BY <1>14, SettleKeeps, ReleaseSettleKeeps
<1>15. CASE Close
  BY <1>15, CloseKeeps
<1>16. CASE Release
  BY <1>16, ReleaseKeeps
<1>17. CASE Collect
  BY <1>17, CollectKeeps
<1>18. CASE NextLease
  BY <1>18, NextLeaseKeeps
<1>19. CASE GaveBack
  BY <1>19, GaveBackKeeps
<1>20. CASE GiveBackFails
  BY <1>20, GiveBackFailsKeeps
<1>21. CASE UNCHANGED vars
  <2>1. /\ stack' = stack /\ catalog' = catalog /\ threads' = threads /\ alive' = alive
        /\ leases' = leases /\ drawn' = drawn /\ failed' = failed /\ tried' = tried
    BY <1>21 DEF vars
  <2>2. Executions' = Executions /\ Leased' = Leased
    BY <2>1 DEF Executions, Leased
  <2>3. Typed' /\ Nested' /\ FramesKept' /\ Observed'
    BY <2>1 DEF Inv, Typed, Nested, FramesKept, Observed
  <2>4. ExecutionsApart' /\ LeasesApart' /\ ReleasesKept'
    BY <2>1, <2>2 DEF Inv, ExecutionsApart, LeasesApart, ReleasesKept
  <2>5. NothingOutlives' /\ BindingsHold'
    BY <2>1, <2>2, CatalogStands DEF Inv
  <2>. QED
    BY <2>3, <2>4, <2>5 DEF Inv
<1>. QED
  BY <1>3, <1>4, <1>5, <1>6, <1>7, <1>8, <1>9, <1>10, <1>11, <1>12, <1>13, <1>14, <1>15, <1>16,
     <1>17, <1>18, <1>19, <1>20, <1>21 DEF Next

\* The invariant is one of every execution of the leases.
THEOREM InvHolds ==
  Spec => []Inv
BY InvStarts, NextKeeps, PTL DEF Spec

\* NothingOutlives for any needs, fit steps and number of calls: what a
\* connection holds beyond its caller's objects belongs to an execution under
\* way, to a lazy relation's lease, or could not be removed (_settle).
THEOREM NothingEverOutlives ==
  Spec => []NothingOutlives
<1>1. Inv => NothingOutlives
  BY DEF Inv
<1>. QED
  BY <1>1, InvHolds, PTL

\* BindingsHold likewise: no other execution, however they nest, replaces or
\* removes what one of them registered (the token of _EXECUTIONS in a name).
THEOREM BindingsAlwaysHold ==
  Spec => []BindingsHold
<1>1. Inv => BindingsHold
  BY DEF Inv
<1>. QED
  BY <1>1, InvHolds, PTL

\* ThreadsAreObserved likewise: a projection's execution, and whatever it
\* calls, runs at threads = 1, and the caller gets its own setting back.
THEOREM ThreadsAreAlwaysObserved ==
  Spec => []ThreadsAreObserved
<1>1. Inv => ThreadsAreObserved
  <2>. SUFFICES ASSUME Inv  PROVE  ThreadsAreObserved
    OBVIOUS
  <2>1. DOMAIN stack = 1 .. Len(stack)
    BY FramesTyped DEF Inv
  <2>. QED
    BY <2>1 DEF Inv, Observed, ThreadsUnder, ThreadsAreObserved
<1>. QED
  BY <1>1, InvHolds, PTL
=============================================================================
