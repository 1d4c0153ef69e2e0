---------------------------- MODULE IRRoundTrip -----------------------------
(***************************************************************************)
(* A program goes through its text: it is printed (ir/print.rs), the text  *)
(* may be edited by one token on the way, and the recursive-descent parser *)
(* (ir/parse.rs) reads it again, one declaration, block head, instruction  *)
(* or terminator per action.                                               *)
(***************************************************************************)
EXTENDS IRParse

CONSTANTS
  Edited  \* the sources whose text is edited on the way

ASSUME RoundTripAssumption == Edited \subseteq Sources

\* The parser goes on behind what r has read, or gives up.
Read(r, next) == r.ok /\ pos' = r.pos /\ phase' = next
Refuse(r) == ~ r.ok /\ phase' = "refused" /\ UNCHANGED <<pos, ids, got>>

Here == At(pos)
Names(word) == IsWord(Peek(Here), word)

IsNext(r, word) == IsWord(Peek(r), word)

-----------------------------------------------------------------------------
(***************************************************************************)
(* The way of the text.                                                    *)
(***************************************************************************)

WriteText ==
  /\ phase = "print"
  /\ text' = ProgramText(prog)
  /\ phase' = "edit"
  /\ UNCHANGED <<prog, pos, ids, got>>

\* An edit drops a token, writes it twice, swaps it with the next one, or
\* writes another in its place.
Edit ==
  /\ phase = "edit"
  /\ prog \in Edited
  /\ \E i \in 1 .. Len(text) - 2 :
       \/ text' = RemoveAt(text, i)
       \/ text' = InsertAt(text, i, text[i])
       \/ text' = [text EXCEPT ![i] = text[i + 1], ![i + 1] = text[i]]
       \/ \E a \in Edits : text' = [text EXCEPT ![i] = a]
  /\ phase' = "statics"
  /\ UNCHANGED <<prog, pos, ids, got>>

LeaveAlone ==
  /\ phase = "edit"
  /\ phase' = "statics"
  /\ UNCHANGED <<prog, text, pos, ids, got>>

-----------------------------------------------------------------------------
(***************************************************************************)
(* Declarations.                                                           *)
(***************************************************************************)

\* The declaration, as the one item the reader ends with.
Made(r, x) == IF r.ok THEN [r EXCEPT !.out = <<x>>] ELSE r

\* `word @n :', n the number of entries read before.
ReadEntry(word, n) ==
  LET Dense(r) == IF r.ok /\ r.out[1] = n THEN [r EXCEPT !.out = <<>>] ELSE Fail(r)
  IN  Dense(Tokens(Here, <<word, "@", "<int>", ":">>))

StaticTy(kind, ty, nullable, keys, values, n) ==
  [kind |-> kind, ty |-> ty, nullable |-> nullable, keys |-> keys, values |-> values, n |-> n]

ReadScalar(r) ==
  LET Of(q) == Made(q, StaticTy("scalar", q.out[1], q.out[2], <<>>, <<>>, 0))
  IN  Of(Eat(ReadColTy(Eat(r, "<")), ">"))

\* A batchmap's parentheses of keys are empty.
ReadMap(r, kind) ==
  LET Of(q) ==
        IF kind = "batchmap" /\ q.ok /\ q.out[1] # <<>> THEN Fail(q)
        ELSE Made(q, StaticTy(kind, Ty("i1"), FALSE, q.out[1], q.out[2], 0))
  IN  Of(ReadTys(Eat(ReadTys(r), "->")))

ReadModel(r) ==
  LET Of(q) == IF q.ok /\ q.out[1] < 0 THEN Fail(q)
               ELSE Made(q, StaticTy("model", Ty("i1"), FALSE, <<>>, <<>>, q.out[1]))
  IN  Of(Tokens(r, <<"<", "tree_ensemble", "(", "<int>", ")", ">">>))

\* static_ty
ReadStatic(r) ==
  LET kind == Peek(r).s IN
  CASE ~ r.ok \/ Peek(r).k # "id" -> Fail(r)
    [] kind = "scalar" -> ReadScalar(Bump(r))
    [] kind \in {"map", "multimap", "batchmap"} -> ReadMap(Bump(r), kind)
    [] kind = "model" -> ReadModel(Bump(r))
    [] OTHER -> Fail(r)

\* The flags of a regex, in any order and as often as they stand there.
RECURSIVE ReadFlags(_)
ReadFlags(r) ==
  LET Rewrite(q) == Keep(q, Peek(q).k = "str", Peek(q)) IN
  IF ~ r.ok THEN r
  ELSE IF IsNext(r, "ci") \/ IsNext(r, "dotall") THEN ReadFlags(Put(r, Peek(r)))
  ELSE IF IsNext(r, "rewrite") THEN ReadFlags(Rewrite(Bump(r)))
  ELSE r

ReadRegex(r) ==
  LET Words(q) == { i \in DOMAIN q.out : q.out[i].k = "id" }
      Rewrites(q) == SelectSeq(Tail(q.out), LAMBDA a : a.k = "str")
      LastOf(texts) == IF texts = <<>> THEN <<>> ELSE <<Last(texts).s>>
      Of(q) == Made(q, [pattern |-> q.out[1].s,
                        ci |-> \E i \in Words(q) : q.out[i].s = "ci",
                        dotall |-> \E i \in Words(q) : q.out[i].s = "dotall",
                        rewrite |-> LastOf(Rewrites(q))])
  IN  Of(ReadFlags(Keep(r, Peek(r).k = "str", Peek(r))))

\* The returns, as their types and their names: `("a": ty, ..)' or `(ty, ..)'.
ReadReturns(r) ==
  LET Unzip(q) ==
        LET list == Last(q.out)
            half == 1 .. Len(list) \div 2
        IN  [q EXCEPT !.out = r.out \o << [i \in half |-> list[2 * i]],
                                          [i \in half |-> list[2 * i - 1]] >>]
      Unnamed(q) == [q EXCEPT !.out = Append(@, <<>>)]
  IN  IF r.ok /\ Peek(r).k = "(" /\ Peek(Bump(r)).k = "str"
      THEN Unzip(ReadBetween(r, "(", "return", ")"))
      ELSE Unnamed(ReadTys(r))

Impure(r) == IsNext(r, "impure")

ReadExtern(r) ==
  LET Flag(q) == IF q.ok /\ IsNext(q, "impure") THEN Bump(q) ELSE q
      Of(q) == Made(Flag(q), [name |-> q.out[1], params |-> q.out[2], rets |-> q.out[3],
                              retNames |-> q.out[4], impure |-> Impure(q)])
  IN  Of(ReadReturns(Eat(ReadTys(Tokens(r, <<"<str>">>)), "->")))

ParseStatic ==
  /\ phase = "statics" /\ Names("static")
  /\ \E r \in {ReadStatic(ReadEntry("static", Len(got.statics)))} :
     \/ /\ Read(r, "statics")
        /\ got' = [got EXCEPT !.statics = Append(@, r.out[1])]
        /\ UNCHANGED ids
     \/ Refuse(r)
  /\ UNCHANGED <<prog, text>>

ParseRegex ==
  /\ phase \in {"statics", "regexes"} /\ Names("regex")
  /\ \E r \in {ReadRegex(ReadEntry("regex", Len(got.regexes)))} :
     \/ /\ Read(r, "regexes")
        /\ got' = [got EXCEPT !.regexes = Append(@, r.out[1])]
        /\ UNCHANGED ids
     \/ Refuse(r)
  /\ UNCHANGED <<prog, text>>

ParseExtern ==
  /\ phase \in {"statics", "regexes", "externs"} /\ Names("extern")
  /\ \E r \in {ReadExtern(ReadEntry("extern", Len(got.externs)))} :
     \/ /\ Read(r, "externs")
        /\ got' = [got EXCEPT !.externs = Append(@, r.out[1])]
        /\ UNCHANGED ids
     \/ Refuse(r)
  /\ UNCHANGED <<prog, text>>

-----------------------------------------------------------------------------
(***************************************************************************)
(* The function's head.                                                    *)
(***************************************************************************)

\* The columns of a batch, no name twice, as one item.
ReadBatch(r) ==
  LET Cols(list) == [i \in 1 .. Len(list) \div 3 |->
                       [name |-> list[3 * i - 2], ty |-> list[3 * i - 1],
                        nullable |-> list[3 * i]]]
      Checked(q) == IF q.ok /\ Distinct(Cols(Last(q.out)))
                    THEN [q EXCEPT !.out = Append(r.out, Cols(Last(@)))] ELSE Fail(q)
  IN  Checked(ReadBetween(EatWord(r, "batch"), "{", "col", "}"))

ReadHead(r) ==
  LET Ins(q) == ReadBatch(Tokens(q, <<"fn", "<id>", "(", "in", ":">>))
      Outs(q) == ReadBatch(Tokens(q, <<",", "out", ":">>))
  IN  Tokens(Outs(Ins(r)), <<")", "{">>)

ParseHead ==
  /\ phase \in {"statics", "regexes", "externs"}
  /\ ~ Names("extern")
  /\ Names("static") => phase # "statics"
  /\ Names("regex") => phase = "externs"
  /\ \E r \in {ReadHead(Here)} :
     \/ /\ Read(r, "blocks")
        /\ got' = [got EXCEPT !.name = r.out[1], !.inCols = r.out[2], !.outCols = r.out[3]]
        /\ UNCHANGED ids
     \/ Refuse(r)
  /\ UNCHANGED <<prog, text>>

-----------------------------------------------------------------------------
(***************************************************************************)
(* Blocks.                                                                 *)
(***************************************************************************)

PlaceOf(x, seq) == CHOOSE i \in DOMAIN seq : seq[i] = x

\* define_value, for a list of names: each new, and numbered in this order.
Fresh(names) ==
  /\ \A i, j \in DOMAIN names : names[i] = names[j] => i = j
  /\ \A i \in DOMAIN names : names[i] \notin DOMAIN ids

Defined(names) ==
  LET next == Cardinality(DOMAIN ids) IN
  [v \in DOMAIN ids \union ToSet(names) |->
     IF v \in DOMAIN ids THEN ids[v] ELSE next + PlaceOf(v, names) - 1]

\* `label:' or `label(%v: ty, ..):', as the label, the names and the types.
ReadBlockHead(r) ==
  LET Params(q) == IF q.ok /\ Peek(q).k = "(" THEN ReadBetween(q, "(", "param", ")")
                   ELSE [q EXCEPT !.out = Append(@, <<>>)]
      Split(q) ==
        LET list == Last(q.out)
            half == 1 .. Len(list) \div 2
        IN  IF ~ q.ok THEN q
            ELSE [q EXCEPT !.out = << @[1], [i \in half |-> list[2 * i - 1]],
                                      [i \in half |-> list[2 * i]] >>]
  IN  Split(Eat(Params(Keep(r, Peek(r).k = "id", Peek(r))), ":"))

NoTerm == [op |-> "none", args |-> <<>>, edges |-> <<>>]

ParseBlock ==
  /\ phase = "blocks" /\ Peek(Here).k # "}"
  /\ \E r \in {ReadBlockHead(Here)} :
     \/ /\ r.ok /\ Fresh(r.out[2]) /\ Read(r, "body")
        /\ ids' = Defined(r.out[2])
        /\ got' = [got EXCEPT !.blocks = Append(@,
             [label |-> r.out[1], insts |-> <<>>, term |-> NoTerm,
              params |-> [i \in DOMAIN r.out[2] |->
                            [val |-> ids'[r.out[2][i]], ty |-> r.out[3][i]]]])]
     \/ Refuse([r EXCEPT !.ok = @ /\ Fresh(r.out[2])])
  /\ UNCHANGED <<prog, text>>

\* head or head.suffix, as one item.
ReadOpcode(r) ==
  LET Suffix(q) == IF q.ok /\ Peek(q).k = "." THEN Tokens(q, <<".", "<id>">>)
                   ELSE [q EXCEPT !.out = Append(@, "")]
      Both(q) == [q EXCEPT !.out = Append(r.out, <<@[Len(@) - 1], Last(@)>>)]
      Of(q) == IF q.ok THEN Both(q) ELSE q
  IN  Of(Suffix(Tokens(r, <<"<id>">>)))

\* The operands of an opcode read, behind the names that it defines.
ReadOperands(names, r) ==
  LET Counted(dsts) == IF dsts = Some THEN names # <<>> ELSE Len(names) = dsts
      Of(opcode, shape, q) ==
        IF q.ok /\ shape.op[1] # "unknown" /\ Counted(shape.dsts) /\ Fresh(names)
        THEN Made(q, [names |-> names, does |-> Operation(opcode[1], shape, q.out)])
        ELSE Fail(q)
      Shaped(opcode, shape) == Of(opcode, shape, ReadForm([r EXCEPT !.out = <<>>], shape.form))
  IN  IF r.ok THEN Shaped(r.out[1], ParseOp(r.out[1][1], r.out[1][2])) ELSE r

\* An instruction that defines values, as the one item read: its names are not
\* visible to its operands.
ReadDefining(r) ==
  LET Opcode(q) == ReadOperands(q.out, ReadOpcode([Eat(q, "=") EXCEPT !.out = <<>>])) IN
  Opcode(ReadList(r, "dst"))

\* store and store.opt define nothing and begin with their name.
ReadStore(r) ==
  LET Form(opt) == <<"out", ",", "val">> \o (IF opt THEN <<",", "val">> ELSE <<>>)
      Of(opt, q) == Made(q, [names |-> <<>>,
        does |-> [op |-> <<IF opt THEN "StoreOpt" ELSE "Store", "">>, args |-> q.out]])
      Stored(q) ==
        IF q.ok /\ q.out[1][2] \in {"", "opt"}
        THEN Of(q.out[1][2] = "opt", ReadForm([q EXCEPT !.out = <<>>], Form(q.out[1][2] = "opt")))
        ELSE Fail(q)
  IN  Stored(ReadOpcode(r))

EndWords == {"emit", "skip", "trap", "jump", "brif"}
AtTerminator == Peek(Here).k = "id" /\ Peek(Here).s \in EndWords

\* The block being read grows by one instruction.
ParseInst ==
  /\ phase = "body" /\ ~ AtTerminator
  /\ \E r \in {IF Names("store") THEN ReadStore(Here) ELSE ReadDefining(Here)} :
     \/ /\ Read(r, "body")
        /\ ids' = Defined(r.out[1].names)
        /\ got' = [got EXCEPT !.blocks[Len(got.blocks)].insts = Append(@,
             [op |-> r.out[1].does.op, args |-> r.out[1].does.args,
              dsts |-> [i \in DOMAIN r.out[1].names |-> ids'[r.out[1].names[i]]]])]
     \/ Refuse(r)
  /\ UNCHANGED <<prog, text>>

\* A label and the arguments for its block, as one item.
ReadTarget(r) ==
  LET Args(q) == IF q.ok /\ Peek(q).k = "(" THEN Eat(MoreVals(ReadVal(Bump(q))), ")") ELSE q
      Of(q) == IF q.ok THEN [q EXCEPT !.out = Append(r.out, [to |-> @[1], args |-> Tail(@)])]
               ELSE q
  IN  Of(Args(Keep([r EXCEPT !.out = <<>>], Peek(r).k = "id", Peek(r))))

\* The terminator as [op, args, edges].
ReadTerminator(r) ==
  LET Ends(q, op, args, edges) == Made(q, [op |-> op, args |-> args, edges |-> edges])
      To(q, op) == Ends(q, op, <<>>, q.out)
      Cond(q) == Ends(q, "Brif", <<Head(q.out)>>, Tail(q.out))
      Why(q) == Ends(q, "Trap", q.out, <<>>)
      Behind(q) ==
        CASE Peek(r).s = "emit" ->
               IF Peek(q).k = "." THEN To(ReadTarget(Tokens(q, <<".", "to">>)), "EmitTo")
               ELSE Ends(q, "Emit", <<>>, <<>>)
          [] Peek(r).s = "skip" -> Ends(q, "Skip", <<>>, <<>>)
          [] Peek(r).s = "trap" -> Why(Keep(q, Peek(q).k = "str", Peek(q)))
          [] Peek(r).s = "jump" -> To(ReadTarget(q), "Jump")
          [] Peek(r).s = "brif" ->
               Cond(ReadTarget(Eat(ReadTarget(Eat(ReadVal(q), ",")), ",")))
  IN  Behind(Bump(r))

ParseTerminator ==
  /\ phase = "body" /\ AtTerminator
  /\ \E r \in {ReadTerminator(Here)} :
     \/ /\ Read(r, "blocks")
        /\ got' = [got EXCEPT !.blocks[Len(got.blocks)].term = r.out[1]]
        /\ UNCHANGED ids
     \/ Refuse(r)
  /\ UNCHANGED <<prog, text>>

\* The closing brace ends the text and follows at least one block.
ParseEnd ==
  /\ phase = "blocks" /\ Peek(Here).k = "}"
  /\ \E r \in {Eat(Bump(Here), "eof")} :
     \/ /\ got.blocks # <<>> /\ Read(r, "labels")
        /\ UNCHANGED <<ids, got>>
     \/ Refuse([r EXCEPT !.ok = @ /\ got.blocks # <<>>])
  /\ UNCHANGED <<prog, text>>

\* Labels become block ids, once all of them are known.
Labels == [i \in DOMAIN got.blocks |-> got.blocks[i].label]
Used == UNION { { got.blocks[i].term.edges[j].to : j \in DOMAIN got.blocks[i].term.edges }
                  : i \in DOMAIN got.blocks }

Resolved(b) ==
  [params |-> b.params, insts |-> b.insts,
   term |-> [b.term EXCEPT !.edges = [j \in DOMAIN @ |->
               [@[j] EXCEPT !.to = PlaceOf(@, Labels) - 1]]]]

FirstLabelWins == Used \subseteq ToSet(Labels)   \* mutant: a label twice
LabelsKnown == IsInjective(Labels) /\ Used \subseteq ToSet(Labels)

ResolveLabels ==
  /\ phase = "labels"
  /\ \/ /\ LabelsKnown
        /\ phase' = "done"
        /\ got' = [got EXCEPT !.blocks = [i \in DOMAIN @ |-> Resolved(@[i])]]
     \/ /\ ~ LabelsKnown
        /\ phase' = "refused" /\ UNCHANGED got
  /\ UNCHANGED <<prog, text, pos, ids>>

-----------------------------------------------------------------------------
Init ==
  /\ prog \in Sources
  /\ phase = "print" /\ text = <<>> /\ pos = 1 /\ ids = <<>>
  /\ got = [statics |-> <<>>, regexes |-> <<>>, externs |-> <<>>, name |-> "",
            inCols |-> <<>>, outCols |-> <<>>, blocks |-> <<>>]

Parse == \/ ParseStatic \/ ParseRegex \/ ParseExtern \/ ParseHead
         \/ ParseBlock \/ ParseInst \/ ParseTerminator \/ ParseEnd
         \/ ResolveLabels

\* Nothing else ends the parse: in any other phase a step is possible.
Ended == phase \in {"done", "refused"} /\ UNCHANGED vars

Next == WriteText \/ Edit \/ LeaveAlone \/ Parse \/ Ended

Spec == Init /\ [][Next]_vars

-----------------------------------------------------------------------------
(***************************************************************************)
(* Properties.                                                             *)
(***************************************************************************)

\* The bounds the parser puts on a decimal's precision and scale, and the
\* verifier does not.
InBounds(a) ==
  a.k = "scale" \/ (a.k = "ty" /\ IsDec(a)) => a.n \in 1 .. 38 /\ a.m \in 0 .. a.n

AllInBounds(atoms) == \A i \in DOMAIN atoms : InBounds(atoms[i])

DeclarationsPrintable(p) ==
  /\ Distinct(p.inCols)
  /\ \A c \in ToSet(p.inCols) \union ToSet(p.outCols) : InBounds(c.ty)
  /\ \A st \in ToSet(p.statics) :
       InBounds(st.ty) /\ AllInBounds(st.keys) /\ AllInBounds(st.values)
  /\ \A ex \in ToSet(p.externs) :
       /\ AllInBounds(ex.params) /\ AllInBounds(ex.rets)
       /\ ex.retNames # <<>> => Len(ex.retNames) = Len(ex.rets)

InstPrintable(inst) ==
  LET v == inst.op[1] IN
  /\ AllInBounds(inst.args)
  /\ inst.op # <<"Str1", "srev">>
  /\ ~ DanglingComma(inst)
  /\ v = "ProbeRead" => inst.dsts # <<>>
  /\ v = "Dop" => inst.args[1].n \in {0, 18, 38}
  /\ v = "Dunary" => {inst.args[1].n, inst.args[2].n} \subseteq 0 .. 38
  /\ v = "Cmp" => Lane(inst.args[1]) = inst.args[1]

\* What the verifier lets pass and the text does not carry. The parser refuses
\* reverse(), which it does not know; a `probe' without keys, whose comma it
\* does not expect; a `probe.read' of no columns, which defines nothing; two
\* input columns of one name; an overflow check other than 0, 18 and 38; a
\* shift above 38; a decimal of no digits, of more than 38, or of a scale above
\* them. It takes for another program a comparison at a narrow width, whose
\* head spells the lane, and an extern with fewer or more names than returns.
Printable(p) ==
  /\ DeclarationsPrintable(p)
  /\ \A b \in ToSet(p.blocks) :
       /\ \A i \in DOMAIN b.params : InBounds(b.params[i].ty)
       /\ \A i \in DOMAIN b.insts : InstPrintable(b.insts[i])

Unedited == phase \notin {"print", "edit"} /\ text = ProgramText(prog)

\* The text of a verified program is a program again, and the same one:
\* canonicalize's renumbering of it, with every declaration, operand, literal,
\* nullable mark and purity flag. Of the programs put to it this holds of those
\* that Printable describes and of no other (`A verified program must print to
\* parseable canonical text', verify.rs:83, says it of all).
RoundTripIsLossless ==
  Unedited /\ phase \in {"done", "refused"} /\ Verified(prog) =>
    (Printable(prog) <=> phase = "done" /\ got = Canonical(prog))

\* Two tokens a reader may take for one another: names of values and labels,
\* a column's name bare or quoted, an integer where a float is expected.
Alike(a, b) ==
  \/ a = b
  \/ {a.k, b.k} \subseteq {"id", "str"} /\ a.s = b.s
  \/ a.k = "num" /\ b.k = "num" /\ a.n = b.n
  \/ a.k = "val" /\ b.k = "val"
  \/ a.k = "id" /\ b.k = "id" /\ b.s \in ToSet(LabelNames)

IsFlag(a) == a.k = "id" /\ a.s \in {"ci", "dotall"}
Flags(t) == ToSet(SelectSeq(t, IsFlag))
Plain(t) == SelectSeq(t, LAMBDA a : ~ IsFlag(a))

\* A regex index or group past u32, which the parser cuts down in silence.
Wraps == \E i \in DOMAIN text : IsInt(text[i]) /\ text[i].n >= IdBound

\* Text that is accepted, edited as it may be, is the text of what it was
\* accepted as: nothing in it was overlooked, added or taken for something
\* else, up to the names of values and blocks and the order of regex flags.
AcceptedTextSaysSo ==
  phase = "done" /\ ~ Wraps =>
    LET own == Plain(ProgramText(got))
        given == Plain(text)
        named == { i \in DOMAIN own : own[i].k = "val" \/ own[i].s \in ToSet(LabelNames) }
    IN  /\ Flags(text) = Flags(ProgramText(got))
        /\ Len(own) = Len(given)
        /\ \A i \in DOMAIN own : Alike(given[i], own[i])
        /\ \A i, j \in named :
             (own[i] = own[j]) <=> (given[i] = given[j] /\ own[i].k = own[j].k)
=============================================================================
