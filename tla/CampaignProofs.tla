--------------------------- MODULE CampaignProofs ---------------------------
(***************************************************************************)
(* Proofs about the fuzz campaign, for any number of driver threads and    *)
(* seeds, torn lines included.                                             *)
(*                                                                         *)
(* The argument: what a worker has said and nobody has read is always the  *)
(* rest of the answer to the seed its driver holds, as the protocol of     *)
(* worker.py writes it, so nothing is left in the pipe when the seed's     *)
(* verdict is recorded. A worker that is gone while it is read was killed  *)
(* by a timer its driver will see to have fired, or crashed on this seed,  *)
(* or met the late kill of an earlier reading. Each driver touches its own *)
(* worker and its own seed only.                                           *)
(***************************************************************************)
EXTENDS CampaignRunner, SequenceTheorems, TLAPS

Sides == {"harness", "confit", "oracle"}
SeedOrNone == Seeds \union {NoSeed}

LineKinds == {"FINAL", "REFUSED", "PENDING", "OUTCOME", "SKIP", "EXCUSED", "KEPT", "TORN"}
Lines == [kind : LineKinds, seed : SeedOrNone]

Outcomes == [kind : LineKinds \union {"TIMEOUT", "PANIC", "EXCLUDED"}, seed : Seeds,
             note : {NoNote, "over-budget", "died"}, side : Sides \union {"none"}]

DriverState == [pc : {"take", "write", "readline", "cancel", "done", "dead"}, seed : SeedOrNone,
                read : Reads, got : Seq(Lines), verdict : Seq(Outcomes)]

WorkerState == [up : BOOLEAN, stage : {"idle", "queued", "verdict", "bracket", "report", "witness"},
                seed : SeedOrNone, side : Sides, out : Seq(Lines)]

Typed ==
  /\ next \in 1 .. MaxSeed + 1
  /\ driver \in [Drivers -> DriverState] /\ worker \in [Drivers -> WorkerState]
  /\ timer \in [Drivers -> {"off", "armed", "expired", "fired"}]
  /\ doomed \in [Drivers -> {"none", "late", "fired"}]
  /\ answers \in [Seeds -> Seq(Outcomes)] /\ spoke \subseteq Seeds

\* The drivers that have taken a seed and not recorded its verdict.
Holding(d) == driver[d].pc \in {"write", "readline", "cancel", "dead"}

\* Every seed taken is recorded once, or held by one driver.
SeedsKept ==
  /\ \A d \in Drivers : Holding(d) =>
       Held(d) \in Seeds /\ Held(d) < next /\ answers[Held(d)] = <<>>
  /\ \A d, e \in Drivers : d # e /\ Holding(d) /\ Holding(e) => Held(d) # Held(e)
  /\ \A s \in Seeds : s < next => Len(answers[s]) = 1 \/ \E d \in Drivers : Holding(d) /\ Held(d) = s
  /\ \A s \in Seeds : s >= next => answers[s] = <<>> /\ s \notin spoke

\* What a verdict says of its seed holds.
Sound(r, s) ==
  /\ r.kind = "PANIC" => s \in crashed \union raced
  /\ r.kind = "TIMEOUT" => s \in slow
  /\ r.kind \in {"TIMEOUT", "PANIC"} /\ s \in spoke => r.side # "oracle"

AnswersKept ==
  \A s \in Seeds : answers[s] # <<>> => Len(answers[s]) = 1 /\ Sound(answers[s][1], s)

\* The protocol: the lines that answer a reading, the reading each of them
\* asks for, and the stages a worker is in before it says such a line.
Kinds(read) ==
  CASE read = "verdict" -> {"FINAL", "REFUSED", "PENDING"}
    [] read = "bracket" -> {"FINAL"}
    [] read = "report"  -> {"OUTCOME", "SKIP"}
    [] read = "witness" -> {"EXCUSED", "KEPT"}
    [] OTHER            -> {}

Leads(kind) ==
  CASE kind = "PENDING" -> "bracket" [] kind = "REFUSED" -> "report" [] OTHER -> "none"

Before(read) ==
  CASE read = "verdict" -> {"queued", "verdict"}
    [] read \in {"bracket", "report", "witness"} -> {read}
    [] OTHER -> {"idle"}

\* Line l answers the reading, or was cut short by a kill of worker w.
Replies(l, read, s) == l.kind \in Kinds(read) /\ l.seed = s
Cut(w, l, read) == l.kind = "TORN" /\ ~ w.up /\ w.stage \in Before(read) /\ w.stage # "idle"

\* What worker w has said for seed s and nobody has read, when this reading
\* is the next.
Unread(w, read, s) ==
  /\ w.stage # "idle" => w.seed = s
  /\ Len(w.out) \in 0 .. 2
  /\ Len(w.out) = 0 => w.stage \in Before(read)
  /\ Len(w.out) = 1 =>
       \/ Cut(w, w.out[1], read)
       \/ Replies(w.out[1], read, s) /\ w.stage \in Before(Leads(w.out[1].kind))
  /\ Len(w.out) = 2 =>
       /\ Replies(w.out[1], read, s)
       /\ \/ Cut(w, w.out[2], Leads(w.out[1].kind))
          \/ /\ Replies(w.out[2], Leads(w.out[1].kind), s)
             /\ Leads(w.out[2].kind) = "none" /\ w.stage = "idle"

\* The verdict that waits for another reading.
Waits(r, read, s) ==
  /\ r.seed = s
  /\ read = "bracket" => r.kind = "PENDING"
  /\ read = "report" => r.kind = "REFUSED"
  /\ read = "witness" => r.kind = "TIMEOUT"

PipeKept(d) ==
  /\ driver[d].pc \in {"take", "write", "done"} =>
       worker[d].out = <<>> /\ worker[d].stage = "idle"
  /\ At(d, "readline") => Unread(worker[d], driver[d].read, Held(d))
  /\ At(d, "cancel") =>
       \/ ~ Got(d) /\ ~ worker[d].up
       \/ Got(d) /\ ~ Whole(d) /\ ~ worker[d].up
       \/ /\ Got(d) /\ Replies(Line(d), driver[d].read, Held(d))
          /\ Unread(worker[d], Leads(Line(d).kind), Held(d))
  /\ driver[d].pc \in {"readline", "cancel"} /\ driver[d].read # "verdict" =>
       driver[d].verdict # <<>> /\ Waits(driver[d].verdict[1], driver[d].read, Held(d))

\* Who is to blame for a worker that is gone, and for a kill on its way.
BlameKept(d) ==
  /\ timer[d] # "off" => driver[d].pc \in {"readline", "cancel"}
  /\ doomed[d] = "fired" => timer[d] = "fired" \/ At(d, "dead")
  /\ driver[d].pc \in {"readline", "cancel"} =>
       /\ timer[d] \in {"expired", "fired"} => Held(d) \in slow
       /\ doomed[d] = "late" => Held(d) \in raced
       /\ ~ worker[d].up => timer[d] = "fired" \/ Held(d) \in crashed \union raced
  /\ driver[d].pc \in {"readline", "cancel"} /\ driver[d].read = "witness" =>
       Held(d) \in slow /\ Held(d) \notin spoke
  /\ At(d, "write") => Held(d) \notin spoke
  /\ At(d, "readline") /\ driver[d].read = "verdict" => Held(d) \notin spoke
  /\ At(d, "cancel") /\ driver[d].read = "verdict" /\ ~ Got(d) => Held(d) \notin spoke

DriverKept(d) == PipeKept(d) /\ BlameKept(d)

\* The inductive invariant.
Inv == Typed /\ SeedsKept /\ AnswersKept /\ \A d \in Drivers : DriverKept(d)

-----------------------------------------------------------------------------
(***************************************************************************)
(* The pipe.                                                               *)
(***************************************************************************)

\* Sequences of lines, at their ends.
LEMMA Appending ==
  ASSUME NEW S, NEW q \in Seq(S), NEW x \in S
  PROVE  /\ Append(q, x) \in Seq(S) /\ Len(q) \in Nat /\ Len(Append(q, x)) = Len(q) + 1
         /\ Append(q, x)[Len(q) + 1] = x
         /\ \A i \in 1 .. Len(q) : Append(q, x)[i] = q[i]
BY AppendProperties, LenProperties

(* Taking the first line of a pipe leaves the others in their order. *)
LEMMA Heading ==
  ASSUME NEW S, NEW q \in Seq(S), q # <<>>
  PROVE  /\ Tail(q) \in Seq(S) /\ Len(q) \in Nat \ {0} /\ Len(Tail(q)) = Len(q) - 1
         /\ Head(q) = q[1] /\ Head(q) \in S
         /\ \A i \in 1 .. Len(q) - 1 : Tail(q)[i] = q[i + 1]
<1>1. Len(q) \in Nat \ {0}
  BY EmptySeq, LenProperties
<1>2. Tail(q) \in Seq(S) /\ Len(Tail(q)) = Len(q) - 1 /\ Head(q) \in S
  BY HeadTailProperties
<1>3. Head(q) = q[1]
  OBVIOUS
<1>4. \A i \in 1 .. Len(q) - 1 : Tail(q)[i] = q[i + 1]
  BY <1>1
<1>. QED
  BY <1>1, <1>2, <1>3, <1>4

\* A worker says the line its stage calls for, and what is unread is still
\* the rest of the answer.
LEMMA SayingKeeps ==
  ASSUME NEW w \in WorkerState, NEW v \in WorkerState, NEW s, NEW read \in Reads \union {"none"},
         NEW said \in Reads, NEW l \in Lines,
         Unread(w, read, s), w.up, w.stage # "idle", w.stage \in Before(said),
         l.kind \in Kinds(said), l.seed = w.seed,
         v.out = Append(w.out, l), v.seed = w.seed, v.up = w.up,
         v.stage \in Before(Leads(l.kind))
  PROVE  Unread(v, read, s)
<1>1. /\ Len(w.out) \in Nat /\ Len(v.out) = Len(w.out) + 1 /\ v.out[Len(w.out) + 1] = l
      /\ \A i \in 1 .. Len(w.out) : v.out[i] = w.out[i]
  BY Appending DEF WorkerState
<1>2. w.seed = s /\ l.seed = s /\ l.kind # "TORN"
  BY DEF Unread, Kinds, Reads
<1>3. CASE Len(w.out) = 0
  <2>1. said = read
    BY <1>3 DEF Unread, Before, Reads
  <2>2. Replies(v.out[1], read, s) /\ Len(v.out) = 1
    BY <1>1, <1>2, <1>3, <2>1 DEF Replies
  <2>. QED
    BY <1>1, <1>2, <1>3, <2>2 DEF Unread
<1>4. CASE Len(w.out) = 1
  <2>1. Replies(w.out[1], read, s) /\ w.stage \in Before(Leads(w.out[1].kind))
    BY <1>4 DEF Unread, Cut
  <2>2. said = Leads(w.out[1].kind) /\ said \in {"bracket", "report"}
    BY <2>1 DEF Before, Reads, Leads
  <2>3. Leads(l.kind) = "none" /\ v.stage = "idle"
    BY <2>2 DEF Kinds, Leads, Before
  <2>4. v.out[1] = w.out[1] /\ v.out[2] = l /\ Len(v.out) = 2
    BY <1>1, <1>4
  <2>. QED
    BY <1>2, <2>1, <2>2, <2>3, <2>4 DEF Unread, Replies
<1>5. CASE Len(w.out) = 2
  BY <1>5 DEF Unread, Cut
<1>. QED
  BY <1>3, <1>4, <1>5 DEF Unread

\* A worker is killed, in the middle of a line or not.
LEMMA DyingKeeps ==
  ASSUME NEW w \in WorkerState, NEW v \in WorkerState, NEW s, NEW read \in Reads \union {"none"},
         Unread(w, read, s), ~ v.up, v.seed = w.seed, v.stage = w.stage,
         \/ v.out = w.out
         \/ w.up /\ w.stage # "idle" /\ Torn \in Lines /\ v.out = Append(w.out, Torn)
  PROVE  Unread(v, read, s)
<1>1. CASE v.out = w.out
  BY <1>1 DEF Unread, Cut
<1>2. CASE w.up /\ w.stage # "idle" /\ Torn \in Lines /\ v.out = Append(w.out, Torn)
  <2>1. /\ Len(w.out) \in Nat /\ Len(v.out) = Len(w.out) + 1 /\ v.out[Len(w.out) + 1] = Torn
        /\ \A i \in 1 .. Len(w.out) : v.out[i] = w.out[i]
    BY <1>2, Appending DEF WorkerState
  <2>2. Torn.kind = "TORN"
    BY DEF Torn
  <2>3. CASE Len(w.out) = 0
    BY <1>2, <2>1, <2>2, <2>3 DEF Unread, Cut
  <2>4. CASE Len(w.out) = 1
    <3>1. Replies(w.out[1], read, s) /\ w.stage \in Before(Leads(w.out[1].kind))
      BY <1>2, <2>4 DEF Unread, Cut
    <3>2. v.out[1] = w.out[1] /\ v.out[2] = Torn /\ Len(v.out) = 2
      BY <2>1, <2>4
    <3>. QED
      BY <1>2, <2>2, <3>1, <3>2 DEF Unread, Cut
  <2>5. CASE Len(w.out) = 2
    BY <1>2, <2>5 DEF Unread, Cut
  <2>. QED
    BY <2>3, <2>4, <2>5 DEF Unread
<1>. QED
  BY <1>1, <1>2

\* The driver reads a line, and the rest answers the reading it asks for.
LEMMA ReadingKeeps ==
  ASSUME NEW w \in WorkerState, NEW v \in WorkerState, NEW s, NEW read \in Reads,
         Unread(w, read, s), w.out # <<>>,
         v.out = Tail(w.out), v.seed = w.seed, v.stage = w.stage, v.up = w.up
  PROVE  \/ Head(w.out).kind = "TORN" /\ ~ w.up
         \/ Replies(Head(w.out), read, s) /\ Unread(v, Leads(Head(w.out).kind), s)
<1>1. /\ Len(w.out) \in Nat \ {0} /\ Len(v.out) = Len(w.out) - 1 /\ Head(w.out) = w.out[1]
      /\ \A i \in 1 .. Len(w.out) - 1 : v.out[i] = w.out[i + 1]
  BY Heading DEF WorkerState
<1>2. CASE Len(w.out) = 1
  BY <1>1, <1>2 DEF Unread, Cut
<1>3. CASE Len(w.out) = 2
  <2>1. v.out[1] = w.out[2] /\ Len(v.out) = 1
    BY <1>1, <1>3
  <2>2. Cut(w, w.out[2], Leads(w.out[1].kind)) => Cut(v, v.out[1], Leads(w.out[1].kind))
    BY <2>1 DEF Cut
  <2>3. Leads(w.out[2].kind) = "none" => Before(Leads(w.out[2].kind)) = {"idle"}
    BY DEF Before
  <2>4. /\ Replies(w.out[1], read, s)
        /\ \/ Cut(w, w.out[2], Leads(w.out[1].kind))
           \/ /\ Replies(w.out[2], Leads(w.out[1].kind), s)
              /\ Leads(w.out[2].kind) = "none" /\ w.stage = "idle"
    BY <1>3 DEF Unread
  <2>5. w.stage # "idle" => w.seed = s
    BY DEF Unread
  <2>6. Unread(v, Leads(w.out[1].kind), s)
    <3>1. \/ Cut(v, v.out[1], Leads(w.out[1].kind))
          \/ /\ Replies(v.out[1], Leads(w.out[1].kind), s)
             /\ v.stage \in Before(Leads(v.out[1].kind))
      <4>1. CASE Cut(w, w.out[2], Leads(w.out[1].kind))
        BY <2>2, <4>1
      <4>2. CASE /\ Replies(w.out[2], Leads(w.out[1].kind), s)
                 /\ Leads(w.out[2].kind) = "none" /\ w.stage = "idle"
        <5>1. v.stage \in Before(Leads(w.out[2].kind))
          BY <2>3, <4>2
        <5>. QED
          BY <2>1, <4>2, <5>1
      <4>. QED
        BY <2>4, <4>1, <4>2
    <3>2. Len(v.out) \in 0 .. 2 /\ Len(v.out) # 0 /\ Len(v.out) # 2
      <4>1. \A n : n = 1 => n \in 0 .. 2 /\ n # 0 /\ n # 2
        OBVIOUS
      <4>. QED
        BY <2>1, <4>1, Zenon
    <3>3. v.stage # "idle" => v.seed = s
      BY <2>5
    <3>. QED
      BY <3>1, <3>2, <3>3 DEF Unread
  <2>. QED
    BY <1>1, <2>4, <2>6
<1>4. Len(w.out) = 1 \/ Len(w.out) = 2
  <2>1. Len(w.out) \in 0 .. 2
    BY DEF Unread
  <2>. QED
    BY <1>1, <2>1
<1>. QED
  BY <1>2, <1>3, <1>4

\* Nothing is left when the answer is complete.
LEMMA NothingUnread ==
  ASSUME NEW w \in WorkerState, NEW s, Unread(w, "none", s)
  PROVE  w.out = <<>> /\ w.stage = "idle"
<1>1. Len(w.out) = 0
  BY DEF Unread, Cut, Replies, Kinds, Before, Reads
<1>. QED
  BY <1>1, EmptySeq DEF Unread, Before, WorkerState

-----------------------------------------------------------------------------
(***************************************************************************)
(* Drivers apart.                                                          *)
(***************************************************************************)

\* A step of driver d, of its worker or of its timer.
Alone(d) ==
  /\ \A e \in Drivers \ {d} : /\ driver'[e] = driver[e] /\ worker'[e] = worker[e]
                              /\ timer'[e] = timer[e] /\ doomed'[e] = doomed[e]
  /\ crashed \subseteq crashed' /\ slow \subseteq slow' /\ raced \subseteq raced'
  /\ spoke \subseteq spoke'
  /\ spoke' = spoke \/ (Holding(d) /\ spoke' \subseteq spoke \union {Held(d)})

\* ... leaves the other drivers' seeds and workers as they are.
LEMMA OthersStand ==
  ASSUME Inv, NEW d \in Drivers, Alone(d), NEW e \in Drivers \ {d}
  PROVE  DriverKept(e)'
<1>1. /\ driver'[e] = driver[e] /\ worker'[e] = worker[e]
      /\ timer'[e] = timer[e] /\ doomed'[e] = doomed[e]
      /\ crashed \subseteq crashed' /\ slow \subseteq slow' /\ raced \subseteq raced'
  BY DEF Alone
<1>2. Holding(e) => (Held(e) \in spoke' => Held(e) \in spoke)
  BY DEF Alone, Inv, SeedsKept
<1>3. PipeKept(e) /\ BlameKept(e)
  BY DEF Inv, DriverKept
<1>4. PipeKept(e)'
  BY <1>1, <1>2, <1>3 DEF PipeKept, At, Held, Got, Line, Whole, Waits, Holding
<1>5. BlameKept(e)'
  BY <1>1, <1>2, <1>3 DEF BlameKept, At, Held, Got, Holding
<1>. QED
  BY <1>4, <1>5 DEF DriverKept

\* A step that takes no seed and records none.
LEMMA StepKeeps ==
  ASSUME Inv, NEW d \in Drivers, Alone(d), UNCHANGED <<next, answers>>,
         Holding(d)' = Holding(d), Holding(d) => Held(d)' = Held(d), Typed', DriverKept(d)'
  PROVE  Inv'
<1>1. \A e \in Drivers : Holding(e)' = Holding(e) /\ (Holding(e) => Held(e)' = Held(e))
  BY DEF Alone, Holding, Held
<1>2. \A s \in spoke' : s \in spoke \/ (Holding(d) /\ s = Held(d))
  BY DEF Alone
<1>3. SeedsKept'
  <2>1. \A e \in Drivers : Holding(e)' =>
          Held(e)' \in Seeds /\ Held(e)' < next' /\ answers'[Held(e)'] = <<>>
    BY <1>1 DEF Inv, SeedsKept
  <2>2. \A e, g \in Drivers : e # g /\ Holding(e)' /\ Holding(g)' => Held(e)' # Held(g)'
    BY <1>1 DEF Inv, SeedsKept
  <2>3. \A s \in Seeds : s < next' =>
          Len(answers'[s]) = 1 \/ \E e \in Drivers : Holding(e)' /\ Held(e)' = s
    BY <1>1 DEF Inv, SeedsKept
  <2>4. \A s \in Seeds : s >= next' => answers'[s] = <<>> /\ s \notin spoke'
    <3>1. next \in Nat /\ \A s \in Seeds : s \in Nat
      BY CampaignAssumption DEF Inv, Typed, Seeds
    <3>2. Holding(d) => Held(d) \in Seeds /\ Held(d) < next
      BY DEF Inv, SeedsKept
    <3>3. \A s \in Seeds : s >= next => ~ (Holding(d) /\ s = Held(d))
      BY <3>1, <3>2
    <3>. QED
      BY <1>2, <3>3 DEF Inv, SeedsKept
  <2>. QED
    BY <2>1, <2>2, <2>3, <2>4 DEF SeedsKept
<1>4. AnswersKept'
  BY <1>2 DEF Inv, SeedsKept, AnswersKept, Sound, Alone
<1>5. \A e \in Drivers : DriverKept(e)'
  BY OthersStand
<1>. QED
  BY <1>3, <1>4, <1>5 DEF Inv

-----------------------------------------------------------------------------
(***************************************************************************)
(* The worker's steps and the timer's.                                     *)
(***************************************************************************)

\* The state a driver sees, typed.
LEMMA SeenTyped ==
  ASSUME Inv, NEW d \in Drivers
  PROVE  /\ driver[d] \in DriverState /\ worker[d] \in WorkerState
         /\ timer[d] \in {"off", "armed", "expired", "fired"} /\ doomed[d] \in {"none", "late", "fired"}
         /\ PipeKept(d) /\ BlameKept(d)
BY DEF Inv, Typed, DriverKept

\* A worker works for a driver that reads, or for one that is gone.
LEMMA WorksReads ==
  ASSUME Inv, NEW d \in Drivers, worker[d].stage # "idle"
  PROVE  At(d, "readline") \/ At(d, "cancel") \/ At(d, "dead")
BY SeenTyped DEF PipeKept, At, DriverState

\* A step of the worker: what it leaves of its pipe is left in order.
LEMMA WorkerMoves ==
  ASSUME Inv, NEW d \in Drivers, NEW w \in WorkerState, Become(d, w),
         UNCHANGED <<next, driver, timer, answers, slow, spoke, raced>>,
         crashed \subseteq crashed',
         \A e \in Drivers \ {d} : doomed'[e] = doomed[e],
         doomed' \in [Drivers -> {"none", "late", "fired"}], doomed'[d] \in {"none", doomed[d]},
         worker[d].stage = "idle" => w.stage = "idle" /\ w.out = worker[d].out,
         \A read \in Reads \union {"none"} :
           (At(d, "readline") \/ At(d, "cancel")) /\ Unread(worker[d], read, Held(d)) =>
             Unread(w, read, Held(d)),
         w.up => worker[d].up,
         worker[d].up /\ ~ w.up /\ (At(d, "readline") \/ At(d, "cancel")) =>
           timer[d] = "fired" \/ Held(d) \in crashed' \union raced
  PROVE  Inv'
<1>1. worker' \in [Drivers -> WorkerState] /\ worker'[d] = w
      /\ \A e \in Drivers \ {d} : worker'[e] = worker[e]
  BY DEF Inv, Typed, Become
<1>2. Typed'
  BY <1>1 DEF Inv, Typed
<1>3. Alone(d)
  BY <1>1 DEF Alone
<1>4. Holding(d)' = Holding(d) /\ Held(d)' = Held(d)
  BY DEF Holding, Held
<1>5. /\ driver[d] \in DriverState /\ worker[d] \in WorkerState
      /\ PipeKept(d) /\ BlameKept(d)
  BY SeenTyped
<1>6. PipeKept(d)'
  <2>1. driver[d].pc \in {"take", "write", "done"} => w.out = <<>> /\ w.stage = "idle"
    BY <1>5 DEF PipeKept
  <2>2. At(d, "readline") => Unread(w, driver[d].read, Held(d))
    BY <1>5 DEF PipeKept, DriverState
  <2>3. At(d, "cancel") =>
          \/ ~ Got(d) /\ ~ w.up
          \/ Got(d) /\ ~ Whole(d) /\ ~ worker[d].up
          \/ /\ Got(d) /\ Replies(Line(d), driver[d].read, Held(d))
             /\ Unread(w, Leads(Line(d).kind), Held(d))
    <3>1. Leads(Line(d).kind) \in Reads \union {"none"}
      BY DEF Leads, Reads
    <3>. QED
      BY <1>5, <3>1 DEF PipeKept
  <2>. QED
    BY <1>1, <1>5, <2>1, <2>2, <2>3 DEF PipeKept, At, Held, Got, Whole, Line, Waits
<1>7. BlameKept(d)'
  BY <1>1, <1>5 DEF BlameKept, At, Held, Got
<1>. QED
  BY <1>2, <1>3, <1>4, <1>6, <1>7, StepKeeps DEF DriverKept

(* A worker announces the seed it begins. *)
LEMMA AnnouncesKeeps ==
  ASSUME Inv, NEW d \in Drivers, Announces(d)  PROVE  Inv'
<1>. DEFINE Then(w) == /\ Become(d, w) /\ w \in WorkerState /\ w.up /\ worker[d].up
                       /\ w.seed = worker[d].seed /\ w.out = worker[d].out
                       /\ \/ worker[d].stage \in {"queued", "verdict"} /\ w.stage = "verdict"
                          \/ worker[d].stage = "bracket" /\ w.stage = "bracket"
<1>1. worker[d] \in WorkerState /\ worker[d].up
  BY SeenTyped DEF Announces, Works
<1>2. UNCHANGED <<next, driver, timer, doomed, answers, slow, spoke, raced, crashed>>
  BY DEF Announces, Others
<1>3. PICK w : Then(w)
  <2>1. CASE /\ worker[d].stage = "queued"
             /\ Become(d, [worker[d] EXCEPT !.stage = "verdict", !.side = "harness"])
    <3>1. Then([worker[d] EXCEPT !.stage = "verdict", !.side = "harness"])
      BY <1>1, <2>1 DEF WorkerState, Sides
    <3>. QED
      BY <3>1
  <2>2. CASE \E side \in {"confit", "oracle"} :
               worker[d].stage = "verdict" /\ Become(d, [worker[d] EXCEPT !.side = side])
    <3>1. PICK side \in {"confit", "oracle"} :
               worker[d].stage = "verdict" /\ Become(d, [worker[d] EXCEPT !.side = side])
      BY <2>2
    <3>2. Then([worker[d] EXCEPT !.side = side])
      BY <1>1, <3>1 DEF WorkerState, Sides
    <3>. QED
      BY <3>2
  <2>3. CASE worker[d].stage = "bracket" /\ Become(d, [worker[d] EXCEPT !.side = "confit"])
    <3>1. Then([worker[d] EXCEPT !.side = "confit"])
      BY <1>1, <2>3 DEF WorkerState, Sides
    <3>. QED
      BY <3>1
  <2>. QED
    BY <2>1, <2>2, <2>3 DEF Announces
<1>4. ASSUME NEW read \in Reads \union {"none"}, Unread(worker[d], read, Held(d))
      PROVE  Unread(w, read, Held(d))
  <2>1. \A r : worker[d].stage \in Before(r) => w.stage \in Before(r)
    BY <1>3 DEF Before
  <2>. QED
    BY <1>1, <1>3, <1>4, <2>1 DEF Unread, Cut
<1>5. doomed \in [Drivers -> {"none", "late", "fired"}]
  BY DEF Inv, Typed
<1>. QED
  BY <1>1, <1>2, <1>3, <1>4, <1>5, WorkerMoves

\* The worker says a line.
LEMMA SaysKeeps ==
  ASSUME Inv, NEW d \in Drivers, Works(d), NEW kind, NEW stage, NEW side \in Sides,
         NEW said \in Reads, worker[d].stage \in Before(said), kind \in Kinds(said),
         stage \in Before(Leads(kind)), Says(d, kind, stage, side)
  PROVE  Inv'
<1>. DEFINE l == [kind |-> kind, seed |-> worker[d].seed]
            w == [worker[d] EXCEPT !.out = Append(@, l), !.stage = stage, !.side = side]
<1>1. /\ worker[d] \in WorkerState /\ worker[d].up /\ worker[d].stage # "idle" /\ Become(d, w)
      /\ UNCHANGED <<next, driver, timer, doomed, answers, slow, spoke, raced, crashed>>
  BY SeenTyped DEF Works, Says, Others
<1>2. kind \in LineKinds
  BY DEF Kinds, Reads, LineKinds
<1>3. l \in Lines /\ l.kind = kind /\ l.seed = worker[d].seed
  BY <1>1, <1>2 DEF Lines, WorkerState
<1>4. stage \in {"idle", "bracket", "report"}
  BY DEF Before, Leads
<1>. HIDE DEF l
<1>5. Append(worker[d].out, l) \in Seq(Lines)
  BY <1>1, <1>3, Appending DEF WorkerState
<1>6. /\ w \in WorkerState /\ w.up = worker[d].up /\ w.seed = worker[d].seed
      /\ w.stage = stage /\ w.out = Append(worker[d].out, l)
  BY <1>1, <1>4, <1>5 DEF WorkerState
<1>. HIDE DEF w
<1>7. \A read \in Reads \union {"none"} : Unread(worker[d], read, Held(d)) => Unread(w, read, Held(d))
  BY <1>1, <1>3, <1>6, SayingKeeps
<1>8. doomed \in [Drivers -> {"none", "late", "fired"}]
  BY DEF Inv, Typed
<1>. QED
  BY <1>1, <1>6, <1>7, <1>8, WorkerMoves

(* A worker says its verdict. *)
LEMMA VerdictKeeps ==
  ASSUME Inv, NEW d \in Drivers, Verdict(d)  PROVE  Inv'
<1>1. Works(d) /\ worker[d].stage \in Before("verdict") /\ worker[d].side \in Sides
  BY SeenTyped DEF Verdict, Before, WorkerState
<1>2. /\ "FINAL" \in Kinds("verdict") /\ "idle" \in Before(Leads("FINAL"))
      /\ "REFUSED" \in Kinds("verdict") /\ "report" \in Before(Leads("REFUSED"))
      /\ "PENDING" \in Kinds("verdict") /\ "bracket" \in Before(Leads("PENDING"))
  BY DEF Kinds, Before, Leads
<1>3. "verdict" \in Reads /\ "oracle" \in Sides
  BY DEF Reads, Sides
<1>. QED
  BY <1>1, <1>2, <1>3, SaysKeeps DEF Verdict

(* A worker whose verdict was pending says its final one. *)
LEMMA BracketedKeeps ==
  ASSUME Inv, NEW d \in Drivers, Bracketed(d)  PROVE  Inv'
<1>1. Works(d) /\ worker[d].stage \in Before("bracket") /\ worker[d].side \in Sides
  BY SeenTyped DEF Bracketed, Before, WorkerState
<1>2. "FINAL" \in Kinds("bracket") /\ "idle" \in Before(Leads("FINAL")) /\ "bracket" \in Reads
  BY DEF Kinds, Before, Leads, Reads
<1>. QED
  BY <1>1, <1>2, SaysKeeps DEF Bracketed

(* A worker that refused its case says what the oracle made of it. *)
LEMMA ReportedKeeps ==
  ASSUME Inv, NEW d \in Drivers, Reported(d)  PROVE  Inv'
<1>1. Works(d) /\ worker[d].stage \in Before("report") /\ "oracle" \in Sides
  BY DEF Reported, Before, Sides
<1>2. /\ \A kind \in {"OUTCOME", "SKIP"} : kind \in Kinds("report") /\ "idle" \in Before(Leads(kind))
      /\ "report" \in Reads
  BY DEF Kinds, Before, Leads, Reads
<1>. QED
  BY <1>1, <1>2, SaysKeeps DEF Reported

(* A worker says whether the witness excuses the finding. *)
LEMMA WitnessedKeeps ==
  ASSUME Inv, NEW d \in Drivers, Witnessed(d)  PROVE  Inv'
<1>1. Works(d) /\ worker[d].stage \in Before("witness") /\ worker[d].side \in Sides
  BY SeenTyped DEF Witnessed, Before, WorkerState
<1>2. /\ \A kind \in {"EXCUSED", "KEPT"} : kind \in Kinds("witness") /\ "idle" \in Before(Leads(kind))
      /\ "witness" \in Reads
  BY DEF Kinds, Before, Leads, Reads
<1>. QED
  BY <1>1, <1>2, SaysKeeps DEF Witnessed

(* A worker dies of the case it runs. *)
LEMMA CrashesKeeps ==
  ASSUME Inv, NEW d \in Drivers, Crashes(d)  PROVE  Inv'
<1>. DEFINE w == [worker[d] EXCEPT !.up = FALSE]
<1>1. /\ worker[d] \in WorkerState /\ worker[d].up /\ worker[d].stage # "idle" /\ Become(d, w)
      /\ crashed' = crashed \union {worker[d].seed}
      /\ UNCHANGED <<next, driver, timer, doomed, answers, slow, spoke, raced>>
  BY SeenTyped DEF Crashes, Works, Others
<1>2. /\ w \in WorkerState /\ ~ w.up /\ w.seed = worker[d].seed
      /\ w.stage = worker[d].stage /\ w.out = worker[d].out
  BY <1>1 DEF WorkerState
<1>. HIDE DEF w
<1>3. \A read \in Reads \union {"none"} : Unread(worker[d], read, Held(d)) => Unread(w, read, Held(d))
  BY <1>1, <1>2, DyingKeeps
<1>4. (At(d, "readline") \/ At(d, "cancel")) => timer[d] = "fired" \/ Held(d) \in crashed' \union raced
  <2>1. CASE At(d, "readline")
    BY <1>1, <2>1, SeenTyped DEF PipeKept, Unread
  <2>2. CASE At(d, "cancel")
    <3>1. Got(d)
      BY <1>1, <2>2, SeenTyped DEF PipeKept
    <3>. QED
      BY <1>1, <2>2, <3>1, SeenTyped DEF PipeKept, Unread
  <2>. QED
    BY <2>1, <2>2
<1>5. doomed \in [Drivers -> {"none", "late", "fired"}]
  BY DEF Inv, Typed
<1>. QED
  BY <1>1, <1>2, <1>3, <1>4, <1>5, WorkerMoves

\* The kill of a timer arrives.
LEMMA KilledKeeps ==
  ASSUME Inv, NEW d \in Drivers, Killed(d)  PROVE  Inv'
<1>1. /\ worker[d] \in WorkerState /\ doomed[d] # "none" /\ doomed' = [doomed EXCEPT ![d] = "none"]
      /\ UNCHANGED <<next, driver, timer, answers, crashed, slow, spoke, raced>>
  BY SeenTyped DEF Killed, history
<1>. DEFINE Then(w) == /\ Become(d, w) /\ w \in WorkerState /\ ~ w.up
                       /\ w.seed = worker[d].seed /\ w.stage = worker[d].stage
                       /\ \/ w.out = worker[d].out
                          \/ /\ worker[d].up /\ worker[d].stage # "idle"
                             /\ Torn \in Lines /\ w.out = Append(worker[d].out, Torn)
<1>2. PICK w : Then(w)
  <2>1. CASE Become(d, [worker[d] EXCEPT !.up = FALSE])
    <3>1. Then([worker[d] EXCEPT !.up = FALSE])
      BY <1>1, <2>1 DEF WorkerState
    <3>. QED
      BY <3>1
  <2>2. CASE /\ Works(d)
             /\ Become(d, [worker[d] EXCEPT !.up = FALSE, !.out = Append(@, Torn)])
    <3>. DEFINE w == [worker[d] EXCEPT !.up = FALSE, !.out = Append(@, Torn)]
    <3>1. Torn \in Lines
      BY DEF Torn, Lines, LineKinds, SeedOrNone
    <3>2. Append(worker[d].out, Torn) \in Seq(Lines)
      BY <1>1, <3>1, Appending DEF WorkerState
    <3>3. w \in WorkerState
      BY <1>1, <3>2 DEF WorkerState
    <3>4. ~ w.up /\ w.seed = worker[d].seed /\ w.stage = worker[d].stage
          /\ w.out = Append(worker[d].out, Torn)
      BY <1>1 DEF WorkerState
    <3>5. Become(d, w)
      BY <2>2
    <3>. HIDE DEF w
    <3>6. Then(w)
      BY <2>2, <3>1, <3>3, <3>4, <3>5 DEF Works
    <3>. QED
      BY <3>6
  <2>. QED
    BY <2>1, <2>2 DEF Killed
<1>3. \A read \in Reads \union {"none"} : Unread(worker[d], read, Held(d)) => Unread(w, read, Held(d))
  BY <1>1, <1>2, DyingKeeps
<1>4. (At(d, "readline") \/ At(d, "cancel")) => timer[d] = "fired" \/ Held(d) \in crashed' \union raced
  BY <1>1, SeenTyped DEF BlameKept, At
<1>5. /\ doomed' \in [Drivers -> {"none", "late", "fired"}] /\ doomed'[d] = "none"
      /\ \A e \in Drivers \ {d} : doomed'[e] = doomed[e]
  BY <1>1 DEF Inv, Typed
<1>. QED
  BY <1>1, <1>2, <1>3, <1>4, <1>5, WorkerMoves

(* A timer has run out and has passed its own check of the cancellation. *)
LEMMA ExpiresKeeps ==
  ASSUME Inv, NEW d \in Drivers, Expires(d)  PROVE  Inv'
<1>1. /\ timer[d] = "armed" /\ timer' = [timer EXCEPT ![d] = "expired"]
      /\ slow' = slow \union {driver[d].seed}
      /\ UNCHANGED <<next, driver, worker, doomed, answers, crashed, spoke, raced>>
  BY DEF Expires
<1>2. /\ timer' \in [Drivers -> {"off", "armed", "expired", "fired"}] /\ timer'[d] = "expired"
      /\ \A e \in Drivers \ {d} : timer'[e] = timer[e]
  BY <1>1 DEF Inv, Typed
<1>3. Typed' /\ Alone(d) /\ Holding(d)' = Holding(d) /\ Held(d)' = Held(d)
  BY <1>1, <1>2 DEF Inv, Typed, Alone, Holding, Held
<1>4. PipeKept(d)'
  BY <1>1, SeenTyped DEF PipeKept, At, Held, Got, Whole, Line, Waits
<1>5. BlameKept(d)'
  BY <1>1, <1>2, SeenTyped DEF BlameKept, At, Held, Got
<1>. QED
  BY <1>1, <1>3, <1>4, <1>5, StepKeeps DEF DriverKept

(* A timer that ran out says so, before it kills. *)
LEMMA FiresKeeps ==
  ASSUME Inv, NEW d \in Drivers, Fires(d)  PROVE  Inv'
<1>1. /\ timer[d] = "expired" /\ timer' = [timer EXCEPT ![d] = "fired"]
      /\ doomed' = [doomed EXCEPT ![d] = "fired"]
      /\ UNCHANGED <<next, driver, worker, answers, crashed, slow, spoke, raced>>
  BY DEF Fires, history
<1>2. /\ timer' \in [Drivers -> {"off", "armed", "expired", "fired"}] /\ timer'[d] = "fired"
      /\ doomed' \in [Drivers -> {"none", "late", "fired"}] /\ doomed'[d] = "fired"
      /\ \A e \in Drivers \ {d} : timer'[e] = timer[e] /\ doomed'[e] = doomed[e]
  BY <1>1 DEF Inv, Typed
<1>3. Typed' /\ Alone(d) /\ Holding(d)' = Holding(d) /\ Held(d)' = Held(d)
  BY <1>1, <1>2 DEF Inv, Typed, Alone, Holding, Held
<1>4. PipeKept(d)'
  BY <1>1, SeenTyped DEF PipeKept, At, Held, Got, Whole, Line, Waits
<1>5. BlameKept(d)'
  BY <1>1, <1>2, SeenTyped DEF BlameKept, At, Held, Got
<1>. QED
  BY <1>1, <1>3, <1>4, <1>5, StepKeeps DEF DriverKept

-----------------------------------------------------------------------------
(***************************************************************************)
(* The driver's steps.                                                     *)
(***************************************************************************)

(* A driver takes the next seed from the shared iterator, or finds none left. *)
LEMMA TakeKeeps ==
  ASSUME Inv, NEW d \in Drivers, Take(d)  PROVE  Inv'
<1>1. /\ driver[d] \in DriverState /\ driver[d].pc = "take" /\ ~ Holding(d)
      /\ UNCHANGED <<worker, timer, doomed, answers, crashed, slow, spoke, raced>>
  BY SeenTyped DEF Take, At, history, Holding
<1>2. next \in Nat /\ MaxSeed \in Nat /\ next \in 1 .. MaxSeed + 1 /\ \A s \in Seeds : s \in Nat
  BY CampaignAssumption DEF Inv, Typed, Seeds
<1>3. ASSUME NEW pc \in {"write", "done"}, NEW seed \in SeedOrNone,
             driver' = [driver EXCEPT ![d].pc = pc, ![d].seed = seed]
      PROVE  /\ driver' \in [Drivers -> DriverState]
             /\ driver'[d].pc = pc /\ driver'[d].seed = seed
             /\ \A e \in Drivers \ {d} : driver'[e] = driver[e]
  BY <1>1, <1>3 DEF Inv, Typed, DriverState
<1>4. CASE next <= MaxSeed
  <2>1. driver' = [driver EXCEPT ![d].pc = "write", ![d].seed = next] /\ next' = next + 1
    BY <1>4 DEF Take
  <2>2. next \in Seeds /\ next \in SeedOrNone /\ next' \in 1 .. MaxSeed + 1
    BY <1>2, <1>4, <2>1 DEF Seeds, SeedOrNone
  <2>3. /\ driver' \in [Drivers -> DriverState]
        /\ driver'[d].pc = "write" /\ driver'[d].seed = next
        /\ \A e \in Drivers \ {d} : driver'[e] = driver[e]
    BY <1>3, <2>1, <2>2
  <2>4. Typed' /\ Alone(d)
    BY <1>1, <2>2, <2>3 DEF Inv, Typed, Alone
  <2>5. Holding(d)' /\ Held(d)' = next
    BY <2>3 DEF Holding, Held
  <2>6. \A e \in Drivers \ {d} : Holding(e)' = Holding(e) /\ Held(e)' = Held(e)
    BY <2>3 DEF Holding, Held
  <2>7. answers[next] = <<>> /\ next \notin spoke
    BY <1>2, <2>2 DEF Inv, SeedsKept
  <2>8. SeedsKept'
    <3>1. ASSUME NEW e \in Drivers, Holding(e)'
          PROVE  Held(e)' \in Seeds /\ Held(e)' < next' /\ answers'[Held(e)'] = <<>>
      <4>1. CASE e = d
        BY <1>1, <1>2, <2>1, <2>2, <2>5, <2>7, <4>1
      <4>2. CASE e # d
        <5>1. Held(e) \in Seeds /\ Held(e) < next /\ answers[Held(e)] = <<>> /\ Held(e)' = Held(e)
          BY <2>6, <3>1, <4>2 DEF Inv, SeedsKept
        <5>2. Held(e) < next'
          BY <1>2, <2>1, <5>1
        <5>. QED
          BY <1>1, <5>1, <5>2
      <4>. QED
        BY <4>1, <4>2
    <3>2. ASSUME NEW e \in Drivers, NEW g \in Drivers, e # g, Holding(e)', Holding(g)'
          PROVE  Held(e)' # Held(g)'
      <4>1. \A f \in Drivers \ {d} : Holding(f) => Held(f) < next /\ Held(f) \in Nat
        BY <1>2 DEF Inv, SeedsKept
      <4>2. \A f \in Drivers \ {d} : Holding(f) => Held(f) # next
        BY <1>2, <4>1
      <4>3. CASE e = d
        BY <2>5, <2>6, <3>2, <4>2, <4>3
      <4>4. CASE g = d
        BY <2>5, <2>6, <3>2, <4>2, <4>4
      <4>5. CASE e # d /\ g # d
        BY <2>6, <3>2, <4>5 DEF Inv, SeedsKept
      <4>. QED
        BY <4>3, <4>4, <4>5
    <3>3. ASSUME NEW s \in Seeds, s < next'
          PROVE  Len(answers'[s]) = 1 \/ \E e \in Drivers : Holding(e)' /\ Held(e)' = s
      <4>1. CASE s = next
        BY <2>5, <4>1
      <4>2. CASE s # next
        <5>1. s < next
          BY <1>2, <2>1, <3>3, <4>2
        <5>2. Len(answers[s]) = 1 \/ \E e \in Drivers : Holding(e) /\ Held(e) = s
          BY <5>1 DEF Inv, SeedsKept
        <5>3. \A e \in Drivers : Holding(e) => e # d
          BY <1>1
        <5>. QED
          BY <1>1, <2>6, <5>2, <5>3
      <4>. QED
        BY <4>1, <4>2
    <3>4. ASSUME NEW s \in Seeds, s >= next'
          PROVE  answers'[s] = <<>> /\ s \notin spoke'
      <4>1. s >= next
        BY <1>2, <2>1, <3>4
      <4>. QED
        BY <1>1, <4>1 DEF Inv, SeedsKept
    <3>. QED
      BY <3>1, <3>2, <3>3, <3>4 DEF SeedsKept
  <2>9. AnswersKept'
    BY <1>1 DEF Inv, AnswersKept, Sound
  <2>10. PipeKept(d)'
    BY <1>1, <2>3, SeenTyped DEF PipeKept, At
  <2>11. BlameKept(d)'
    BY <1>1, <2>3, <2>5, <2>7, SeenTyped DEF BlameKept, At
  <2>12. \A e \in Drivers : DriverKept(e)'
    BY <2>4, <2>10, <2>11, OthersStand DEF DriverKept
  <2>. QED
    BY <2>4, <2>8, <2>9, <2>12 DEF Inv
<1>5. CASE ~ next <= MaxSeed
  <2>1. driver' = [driver EXCEPT ![d].pc = "done", ![d].seed = NoSeed] /\ next' = next
    BY <1>5 DEF Take
  <2>2. /\ driver' \in [Drivers -> DriverState]
        /\ driver'[d].pc = "done" /\ \A e \in Drivers \ {d} : driver'[e] = driver[e]
    BY <1>3, <2>1 DEF SeedOrNone
  <2>3. Typed' /\ Alone(d) /\ Holding(d)' = Holding(d)
    BY <1>1, <2>1, <2>2 DEF Inv, Typed, Alone, Holding
  <2>4. PipeKept(d)'
    BY <1>1, <2>2, SeenTyped DEF PipeKept, At
  <2>5. BlameKept(d)'
    BY <1>1, <2>2, SeenTyped DEF BlameKept, At
  <2>. QED
    BY <1>1, <2>1, <2>3, <2>4, <2>5, StepKeeps DEF DriverKept
<1>. QED
  BY <1>4, <1>5

\* The seed is handed to a worker whose pipe is empty.
LEMMA WriteKeeps ==
  ASSUME Inv, NEW d \in Drivers, Write(d)  PROVE  Inv'
<1>. DEFINE v == IF worker[d].up THEN worker[d] ELSE Spawned
            w == [v EXCEPT !.stage = "queued", !.seed = driver[d].seed]
<1>1. /\ driver[d] \in DriverState /\ worker[d] \in WorkerState /\ driver[d].pc = "write" /\ Holding(d)
      /\ Become(d, w) /\ timer' = [timer EXCEPT ![d] = "armed"]
      /\ doomed' = [doomed EXCEPT ![d] = IF worker[d].up THEN @ ELSE "none"]
      /\ driver' = [driver EXCEPT ![d].pc = "readline", ![d].read = "verdict"]
      /\ raced' = (IF doomed'[d] = "late" THEN raced \union {driver[d].seed} ELSE raced)
      /\ UNCHANGED <<next, answers, crashed, slow, spoke>>
  BY SeenTyped DEF Write, At, Holding
<1>2. v \in WorkerState /\ v.up /\ v.out = <<>>
  <2>1. worker[d].out = <<>>
    BY <1>1, SeenTyped DEF PipeKept
  <2>2. Spawned \in WorkerState /\ Spawned.up /\ Spawned.out = <<>>
    BY DEF Spawned, WorkerState, SeedOrNone, Sides
  <2>. QED
    BY <1>1, <2>1, <2>2
<1>. HIDE DEF v
<1>3. w \in WorkerState /\ w.up /\ w.out = <<>> /\ w.stage = "queued" /\ w.seed = driver[d].seed
  BY <1>1, <1>2 DEF WorkerState, DriverState
<1>. HIDE DEF w
<1>4. /\ worker' \in [Drivers -> WorkerState] /\ worker'[d] = w
      /\ \A e \in Drivers \ {d} : worker'[e] = worker[e]
  BY <1>1, <1>3 DEF Inv, Typed, Become
<1>5. /\ driver' \in [Drivers -> DriverState] /\ driver'[d].pc = "readline"
      /\ driver'[d].read = "verdict" /\ driver'[d].seed = driver[d].seed
      /\ \A e \in Drivers \ {d} : driver'[e] = driver[e]
  BY <1>1 DEF Inv, Typed, DriverState, Reads
<1>6. /\ timer' \in [Drivers -> {"off", "armed", "expired", "fired"}] /\ timer'[d] = "armed"
      /\ doomed' \in [Drivers -> {"none", "late", "fired"}] /\ doomed'[d] \in {"none", doomed[d]}
      /\ \A e \in Drivers \ {d} : timer'[e] = timer[e] /\ doomed'[e] = doomed[e]
  BY <1>1 DEF Inv, Typed
<1>7. Typed' /\ Alone(d) /\ Holding(d)' = Holding(d) /\ Held(d)' = Held(d)
  BY <1>1, <1>4, <1>5, <1>6 DEF Inv, Typed, Alone, Holding, Held
<1>8. PipeKept(d)'
  <2>1. Unread(w, "verdict", driver[d].seed)
    BY <1>3, EmptySeq DEF Unread, Before
  <2>. QED
    BY <1>4, <1>5, <2>1 DEF PipeKept, At, Held
<1>9. BlameKept(d)'
  <2>1. doomed'[d] # "fired" /\ Held(d) \notin spoke
    BY <1>1, <1>6, SeenTyped DEF BlameKept, At
  <2>. QED
    BY <1>1, <1>3, <1>4, <1>5, <1>6, <1>7, <2>1 DEF BlameKept, At, Held
<1>. QED
  BY <1>1, <1>7, <1>8, <1>9, StepKeeps DEF DriverKept

(* A driver reads a line of its worker, or the end of its pipe. *)
LEMMA ReadLineKeeps ==
  ASSUME Inv, NEW d \in Drivers, ReadLine(d)  PROVE  Inv'
<1>1. /\ driver[d] \in DriverState /\ worker[d] \in WorkerState /\ driver[d].pc = "readline"
      /\ Holding(d) /\ Unread(worker[d], driver[d].read, Held(d)) /\ driver[d].read \in Reads
      /\ UNCHANGED <<next, timer, doomed, answers, crashed, slow, raced>>
  BY SeenTyped DEF ReadLine, At, Holding, PipeKept, DriverState
<1>2. ASSUME NEW got \in Seq(Lines), driver' = [driver EXCEPT ![d].pc = "cancel", ![d].got = got]
      PROVE  /\ driver' \in [Drivers -> DriverState] /\ driver'[d].pc = "cancel"
             /\ driver'[d].got = got /\ driver'[d].read = driver[d].read
             /\ driver'[d].seed = driver[d].seed /\ driver'[d].verdict = driver[d].verdict
             /\ \A e \in Drivers \ {d} : driver'[e] = driver[e]
  BY <1>1, <1>2 DEF Inv, Typed, DriverState
<1>3. CASE /\ worker[d].out # <<>>
           /\ driver' = [driver EXCEPT ![d].pc = "cancel", ![d].got = <<Head(worker[d].out)>>]
           /\ Become(d, [worker[d] EXCEPT !.out = Tail(@)])
           /\ spoke' = IF driver[d].read = "verdict" THEN spoke \union {driver[d].seed} ELSE spoke
  <2>. DEFINE l == Head(worker[d].out)
              w == [worker[d] EXCEPT !.out = Tail(@)]
  <2>1. Tail(worker[d].out) \in Seq(Lines) /\ l \in Lines
    BY <1>1, <1>3, Heading DEF WorkerState
  <2>. HIDE DEF l
  <2>2. <<l>> \in Seq(Lines) /\ <<l>> # <<>> /\ <<l>>[1] = l
    BY <2>1
  <2>3. /\ driver' \in [Drivers -> DriverState] /\ driver'[d].pc = "cancel"
        /\ driver'[d].got = <<l>> /\ driver'[d].read = driver[d].read
        /\ driver'[d].seed = driver[d].seed /\ driver'[d].verdict = driver[d].verdict
        /\ \A e \in Drivers \ {d} : driver'[e] = driver[e]
    BY <1>2, <1>3, <2>2 DEF l
  <2>4. /\ w \in WorkerState /\ w.out = Tail(worker[d].out) /\ w.seed = worker[d].seed
        /\ w.stage = worker[d].stage /\ w.up = worker[d].up
    BY <1>1, <2>1 DEF WorkerState
  <2>. HIDE DEF w
  <2>5. /\ worker' \in [Drivers -> WorkerState] /\ worker'[d] = w
        /\ \A e \in Drivers \ {d} : worker'[e] = worker[e]
    BY <1>3, <2>4 DEF Inv, Typed, Become, w
  <2>6. \/ l.kind = "TORN" /\ ~ worker[d].up
        \/ Replies(l, driver[d].read, Held(d)) /\ Unread(w, Leads(l.kind), Held(d))
    BY <1>1, <1>3, <2>4, ReadingKeeps DEF l
  <2>7. Typed' /\ Alone(d) /\ Holding(d)' = Holding(d) /\ Held(d)' = Held(d)
    <3>1. spoke' \subseteq Seeds
      BY <1>1, <1>3 DEF Inv, Typed, SeedsKept, Held
    <3>. QED
      BY <1>1, <1>3, <2>3, <2>5, <3>1 DEF Inv, Typed, Alone, Holding, Held
  <2>8. driver[d].read # "verdict" => (Held(d) \in spoke' => Held(d) \in spoke)
    BY <1>3
  <2>9. PipeKept(d)'
    <3>1. Got(d)' /\ Line(d)' = l /\ Held(d)' = Held(d)
      BY <2>2, <2>3, <2>7 DEF Got, Line
    <3>2. driver'[d].pc \in {"readline", "cancel"} /\ driver'[d].read # "verdict" =>
            driver'[d].verdict # <<>> /\ Waits(driver'[d].verdict[1], driver'[d].read, Held(d)')
      BY <1>1, <2>3, <2>7, SeenTyped DEF PipeKept, Waits
    <3>3. \/ Got(d)' /\ ~ Whole(d)' /\ ~ worker'[d].up
          \/ /\ Got(d)' /\ Replies(Line(d)', driver'[d].read, Held(d)')
             /\ Unread(worker'[d], Leads(Line(d)'.kind), Held(d)')
      <4>1. CASE l.kind = "TORN" /\ ~ worker[d].up
        BY <2>4, <2>5, <3>1, <4>1 DEF Whole
      <4>2. CASE Replies(l, driver[d].read, Held(d)) /\ Unread(w, Leads(l.kind), Held(d))
        BY <2>3, <2>5, <3>1, <4>2
      <4>. QED
        BY <2>6, <4>1, <4>2
    <3>. QED
      BY <2>3, <3>2, <3>3 DEF PipeKept, At, Waits
  <2>10. BlameKept(d)'
    <3>1. Got(d)'
      BY <2>2, <2>3 DEF Got
    <3>. QED
      BY <1>1, <2>3, <2>4, <2>5, <2>7, <2>8, <3>1, SeenTyped DEF BlameKept, At
  <2>. QED
    BY <1>1, <2>7, <2>9, <2>10, StepKeeps DEF DriverKept
<1>4. CASE /\ worker[d].out = <<>> /\ ~ worker[d].up
           /\ driver' = [driver EXCEPT ![d].pc = "cancel", ![d].got = <<>>]
           /\ UNCHANGED <<worker, spoke>>
  <2>1. /\ driver' \in [Drivers -> DriverState] /\ driver'[d].pc = "cancel"
        /\ driver'[d].got = <<>> /\ driver'[d].read = driver[d].read
        /\ driver'[d].seed = driver[d].seed /\ driver'[d].verdict = driver[d].verdict
        /\ \A e \in Drivers \ {d} : driver'[e] = driver[e]
    <3>1. <<>> \in Seq(Lines)
      OBVIOUS
    <3>. QED
      BY <1>2, <1>4, <3>1
  <2>2. Typed' /\ Alone(d) /\ Holding(d)' = Holding(d) /\ Held(d)' = Held(d) /\ ~ Got(d)'
    BY <1>1, <1>4, <2>1 DEF Inv, Typed, Alone, Holding, Held, Got
  <2>3. PipeKept(d)'
    BY <1>1, <1>4, <2>1, <2>2, SeenTyped DEF PipeKept, At, Waits
  <2>4. BlameKept(d)'
    BY <1>1, <1>4, <2>1, <2>2, SeenTyped DEF BlameKept, At
  <2>. QED
    BY <1>1, <2>2, <2>3, <2>4, StepKeeps DEF DriverKept
<1>. QED
  BY <1>3, <1>4 DEF ReadLine

\* The timers and the kills after a driver has looked at its timer.
LEMMA LettingGo ==
  ASSUME Inv, NEW d \in Drivers, LetGo(d)
  PROVE  /\ doomed' \in [Drivers -> {"none", "late", "fired"}]
         /\ doomed'[d] = IF timer[d] = "expired" THEN "late" ELSE doomed[d]
         /\ \A e \in Drivers \ {d} : doomed'[e] = doomed[e]
BY DEF Inv, Typed, LetGo

(* A driver that sets its timer touches no other. *)
LEMMA TimerSet ==
  ASSUME Inv, NEW d \in Drivers, NEW t \in {"off", "armed"}, timer' = [timer EXCEPT ![d] = t]
  PROVE  /\ timer' \in [Drivers -> {"off", "armed", "expired", "fired"}] /\ timer'[d] = t
         /\ \A e \in Drivers \ {d} : timer'[e] = timer[e]
BY DEF Inv, Typed

(* A driver meets a torn line and ends. *)
LEMMA DiesKeeps ==
  ASSUME Inv, NEW d \in Drivers, Dies(d)  PROVE  Inv'
<1>1. /\ driver[d] \in DriverState /\ driver[d].pc = "cancel"
      /\ driver' = [driver EXCEPT ![d].pc = "dead"] /\ LetGo(d) /\ timer' = [timer EXCEPT ![d] = "off"]
      /\ UNCHANGED <<next, worker, answers, crashed, slow, spoke, raced>>
  BY SeenTyped DEF Dies, At, Cancelled, history
<1>2. /\ driver' \in [Drivers -> DriverState] /\ driver'[d].pc = "dead"
      /\ driver'[d].seed = driver[d].seed /\ \A e \in Drivers \ {d} : driver'[e] = driver[e]
  BY <1>1 DEF Inv, Typed, DriverState
<1>3. /\ doomed' \in [Drivers -> {"none", "late", "fired"}]
      /\ timer' \in [Drivers -> {"off", "armed", "expired", "fired"}] /\ timer'[d] = "off"
      /\ \A e \in Drivers \ {d} : doomed'[e] = doomed[e] /\ timer'[e] = timer[e]
  BY <1>1, LettingGo, TimerSet
<1>4. Typed' /\ Alone(d) /\ Holding(d)' = Holding(d) /\ Held(d)' = Held(d)
  BY <1>1, <1>2, <1>3 DEF Inv, Typed, Alone, Holding, Held
<1>5. PipeKept(d)' /\ BlameKept(d)'
  BY <1>2, <1>3 DEF PipeKept, BlameKept, At
<1>. QED
  BY <1>1, <1>4, <1>5, StepKeeps DEF DriverKept

(* The write to a replaced worker fails as well, and the driver ends. *)
LEMMA WriteRaisesKeeps ==
  ASSUME Inv, NEW d \in Drivers, WriteRaises(d)  PROVE  Inv'
<1>. DEFINE v == Spawned
            w == [v EXCEPT !.up = FALSE]
<1>1. /\ driver[d] \in DriverState /\ driver[d].pc = "write"
      /\ Become(d, w) /\ doomed' = [doomed EXCEPT ![d] = "none"]
      /\ driver' = [driver EXCEPT ![d].pc = "dead"]
      /\ UNCHANGED <<next, timer, answers, crashed, slow, spoke, raced>>
  BY SeenTyped DEF WriteRaises, At, history
<1>2. /\ driver' \in [Drivers -> DriverState] /\ driver'[d].pc = "dead"
      /\ driver'[d].seed = driver[d].seed /\ \A e \in Drivers \ {d} : driver'[e] = driver[e]
  BY <1>1 DEF Inv, Typed, DriverState
<1>3. w \in WorkerState
  <2>1. v \in WorkerState
    BY DEF Spawned, WorkerState, SeedOrNone, Sides
  <2>. HIDE DEF v
  <2>. QED
    BY <2>1 DEF WorkerState
<1>. HIDE DEF w
<1>4. /\ worker' \in [Drivers -> WorkerState]
      /\ \A e \in Drivers \ {d} : worker'[e] = worker[e]
  BY <1>1, <1>3 DEF Inv, Typed, Become
<1>5. /\ doomed' \in [Drivers -> {"none", "late", "fired"}] /\ doomed'[d] = "none"
      /\ \A e \in Drivers \ {d} : doomed'[e] = doomed[e]
  BY <1>1 DEF Inv, Typed
<1>6. Typed' /\ Alone(d) /\ Holding(d)' = Holding(d) /\ Held(d)' = Held(d)
  BY <1>1, <1>2, <1>4, <1>5 DEF Inv, Typed, Alone, Holding, Held
<1>7. timer'[d] = "off"
  BY <1>1, SeenTyped DEF BlameKept
<1>8. PipeKept(d)' /\ BlameKept(d)'
  BY <1>2, <1>5, <1>7 DEF PipeKept, BlameKept, At
<1>. QED
  BY <1>1, <1>6, <1>8, StepKeeps DEF DriverKept

\* A verdict waits for another reading of its worker.
LEMMA ReadOnKeeps ==
  ASSUME Inv, NEW d \in Drivers, At(d, "cancel"), timer[d] # "fired",
         NEW read \in {"bracket", "report"}, NEW r \in Outcomes, Waits(r, read, Held(d)),
         Unread(worker[d], read, Held(d)), ReadOn(d, read, r)
  PROVE  Inv'
<1>1. /\ driver[d] \in DriverState /\ driver[d].pc = "cancel"
      /\ driver' = [driver EXCEPT ![d].pc = "readline", ![d].read = read, ![d].verdict = <<r>>,
                              ![d].got = <<>>]
      /\ LetGo(d) /\ timer' = [timer EXCEPT ![d] = "armed"]
      /\ raced' = (IF doomed'[d] = "late" THEN raced \union {Held(d)} ELSE raced)
      /\ UNCHANGED <<next, worker, answers, crashed, slow, spoke>>
  BY SeenTyped DEF ReadOn, At, Armed
<1>2. <<r>> \in Seq(Outcomes) /\ <<r>> # <<>> /\ <<r>>[1] = r /\ <<>> \in Seq(Lines) /\ read \in Reads
  BY DEF Reads
<1>3. /\ driver' \in [Drivers -> DriverState] /\ driver'[d].pc = "readline"
      /\ driver'[d].read = read /\ driver'[d].verdict = <<r>>
      /\ driver'[d].seed = driver[d].seed /\ \A e \in Drivers \ {d} : driver'[e] = driver[e]
  BY <1>1, <1>2 DEF Inv, Typed, DriverState
<1>4. /\ doomed' \in [Drivers -> {"none", "late", "fired"}]
      /\ doomed'[d] = (IF timer[d] = "expired" THEN "late" ELSE doomed[d])
      /\ timer' \in [Drivers -> {"off", "armed", "expired", "fired"}] /\ timer'[d] = "armed"
      /\ \A e \in Drivers \ {d} : doomed'[e] = doomed[e] /\ timer'[e] = timer[e]
  BY <1>1, LettingGo, TimerSet
<1>5. Typed' /\ Alone(d) /\ Holding(d)' = Holding(d) /\ Held(d)' = Held(d)
  BY <1>1, <1>3, <1>4 DEF Inv, Typed, Alone, Holding, Held
<1>6. PipeKept(d)'
  <2>1. Unread(worker'[d], driver'[d].read, Held(d)')
    BY <1>1, <1>3, <1>5
  <2>2. driver'[d].verdict # <<>> /\ Waits(driver'[d].verdict[1], driver'[d].read, Held(d)')
    BY <1>1, <1>2, <1>3, <1>5 DEF Waits
  <2>. QED
    BY <1>3, <2>1, <2>2 DEF PipeKept, At, Waits
<1>7. BlameKept(d)'
  BY <1>1, <1>3, <1>4, <1>5, SeenTyped DEF BlameKept, At
<1>. QED
  BY <1>1, <1>5, <1>6, <1>7, StepKeeps DEF DriverKept

\* The verdict of the seed a driver holds is recorded.
LEMMA RecordKeeps ==
  ASSUME Inv, NEW d \in Drivers, At(d, "cancel"), NEW r \in Outcomes, r.seed = Held(d),
         Sound(r, Held(d)), NEW lost \in BOOLEAN,
         ~ lost => timer[d] # "fired" /\ worker[d].out = <<>> /\ worker[d].stage = "idle",
         Record(d, r, lost)
  PROVE  Inv'
<1>. DEFINE s == Held(d)
<1>1. /\ driver[d] \in DriverState /\ worker[d] \in WorkerState /\ driver[d].pc = "cancel" /\ Holding(d)
      /\ answers' = [answers EXCEPT ![s] = Append(answers[s], r)]
      /\ driver' = [driver EXCEPT ![d].pc = "take", ![d].got = <<>>, ![d].verdict = <<>>]
      /\ timer' = [timer EXCEPT ![d] = "off"]
      /\ UNCHANGED <<next, crashed, slow, spoke, raced>>
  BY SeenTyped DEF Record, At, Holding, Appended, Cancelled, history
<1>2. s \in Seeds /\ s < next /\ answers[s] = <<>> /\ answers \in [Seeds -> Seq(Outcomes)]
      /\ next \in Nat /\ \A t \in Seeds : t \in Nat
  BY <1>1, CampaignAssumption DEF Inv, Typed, SeedsKept, Seeds
<1>. HIDE DEF s
<1>3. /\ answers' \in [Seeds -> Seq(Outcomes)] /\ answers'[s] = <<r>>
      /\ \A t \in Seeds \ {s} : answers'[t] = answers[t]
  <2>1. Append(answers[s], r) = <<r>> /\ <<r>> \in Seq(Outcomes)
    BY <1>2
  <2>. QED
    BY <1>1, <1>2, <2>1
<1>4. Len(<<r>>) = 1 /\ <<r>>[1] = r /\ <<>> \in Seq(Lines) /\ <<>> \in Seq(Outcomes)
  OBVIOUS
<1>5. /\ driver' \in [Drivers -> DriverState] /\ driver'[d].pc = "take"
      /\ \A e \in Drivers \ {d} : driver'[e] = driver[e]
  BY <1>1, <1>4 DEF Inv, Typed, DriverState
<1>6. /\ timer' \in [Drivers -> {"off", "armed", "expired", "fired"}] /\ timer'[d] = "off"
      /\ \A e \in Drivers \ {d} : timer'[e] = timer[e]
  BY <1>1, TimerSet
<1>7. /\ doomed' \in [Drivers -> {"none", "late", "fired"}] /\ doomed'[d] # "fired"
      /\ worker' \in [Drivers -> WorkerState] /\ worker'[d].out = <<>> /\ worker'[d].stage = "idle"
      /\ \A e \in Drivers \ {d} : doomed'[e] = doomed[e] /\ worker'[e] = worker[e]
  <2>1. CASE lost
    <3>1. doomed' = [doomed EXCEPT ![d] = "none"] /\ worker' = [worker EXCEPT ![d] = Spawned]
      BY <2>1 DEF Record, KeepWorker, Become
    <3>2. Spawned \in WorkerState /\ Spawned.out = <<>> /\ Spawned.stage = "idle"
      BY DEF Spawned, WorkerState, SeedOrNone, Sides
    <3>. QED
      BY <3>1, <3>2 DEF Inv, Typed
  <2>2. CASE ~ lost
    <3>1. LetGo(d) /\ worker' = worker
      BY <2>2 DEF Record, KeepWorker
    <3>2. /\ doomed' \in [Drivers -> {"none", "late", "fired"}]
          /\ doomed'[d] = (IF timer[d] = "expired" THEN "late" ELSE doomed[d])
          /\ \A e \in Drivers \ {d} : doomed'[e] = doomed[e]
      BY <3>1, LettingGo
    <3>3. doomed[d] # "fired"
      BY <1>1, <2>2, SeenTyped DEF BlameKept, At
    <3>. QED
      BY <2>2, <3>1, <3>2, <3>3 DEF Inv, Typed
  <2>. QED
    BY <2>1, <2>2
<1>8. Typed' /\ Alone(d) /\ ~ Holding(d)'
  BY <1>1, <1>3, <1>5, <1>6, <1>7 DEF Inv, Typed, Alone, Holding
<1>9. \A e \in Drivers \ {d} : /\ Holding(e)' = Holding(e) /\ Held(e)' = Held(e)
                               /\ Holding(e) => Held(e) # s
  BY <1>1, <1>5 DEF Holding, Held, Inv, SeedsKept, s
<1>10. SeedsKept'
  <2>1. ASSUME NEW e \in Drivers, Holding(e)'
        PROVE  Held(e)' \in Seeds /\ Held(e)' < next' /\ answers'[Held(e)'] = <<>>
    <3>1. e # d
      BY <1>8, <2>1
    <3>. QED
      BY <1>1, <1>3, <1>9, <2>1, <3>1 DEF Inv, SeedsKept
  <2>2. ASSUME NEW e \in Drivers, NEW g \in Drivers, e # g, Holding(e)', Holding(g)'
        PROVE  Held(e)' # Held(g)'
    <3>1. e # d /\ g # d
      BY <1>8, <2>2
    <3>. QED
      BY <1>9, <2>2, <3>1 DEF Inv, SeedsKept
  <2>3. ASSUME NEW t \in Seeds, t < next'
        PROVE  Len(answers'[t]) = 1 \/ \E e \in Drivers : Holding(e)' /\ Held(e)' = t
    <3>1. CASE t = s
      BY <1>3, <1>4, <3>1
    <3>2. CASE t # s
      <4>1. Len(answers[t]) = 1 \/ \E e \in Drivers : Holding(e) /\ Held(e) = t
        BY <1>1, <2>3 DEF Inv, SeedsKept
      <4>. QED
        BY <1>3, <1>9, <3>2, <4>1 DEF s
    <3>. QED
      BY <3>1, <3>2
  <2>4. ASSUME NEW t \in Seeds, t >= next'
        PROVE  answers'[t] = <<>> /\ t \notin spoke'
    <3>1. t # s
      BY <1>1, <1>2, <2>4
    <3>. QED
      BY <1>1, <1>3, <2>4, <3>1 DEF Inv, SeedsKept
  <2>. QED
    BY <2>1, <2>2, <2>3, <2>4 DEF SeedsKept
<1>11. AnswersKept'
  <2>. SUFFICES ASSUME NEW t \in Seeds, answers'[t] # <<>>
                PROVE  Len(answers'[t]) = 1 /\ Sound(answers'[t][1], t)
    BY <1>1 DEF AnswersKept, Sound
  <2>1. CASE t = s
    BY <1>3, <1>4, <2>1 DEF s
  <2>2. CASE t # s
    BY <1>3, <2>2 DEF Inv, AnswersKept
  <2>. QED
    BY <2>1, <2>2
<1>12. PipeKept(d)'
  BY <1>5, <1>7 DEF PipeKept, At
<1>13. BlameKept(d)'
  BY <1>5, <1>6, <1>7 DEF BlameKept, At
<1>14. \A e \in Drivers : DriverKept(e)'
  BY <1>8, <1>12, <1>13, OthersStand DEF DriverKept
<1>. QED
  BY <1>8, <1>10, <1>11, <1>14 DEF Inv

-----------------------------------------------------------------------------
(***************************************************************************)
(* What a driver records.                                                  *)
(***************************************************************************)

\* What a driver at its cancel knows.
LEMMA AtCancel ==
  ASSUME Inv, NEW d \in Drivers, At(d, "cancel")
  PROVE  /\ driver[d] \in DriverState /\ worker[d] \in WorkerState /\ Held(d) \in Seeds
         /\ Fired(d) => Held(d) \in slow
         /\ ~ Got(d) => ~ worker[d].up
         /\ ~ worker[d].up => Fired(d) \/ Held(d) \in crashed \union raced
         /\ driver[d].read = "verdict" /\ ~ Got(d) => Held(d) \notin spoke
         /\ driver[d].read = "witness" => Held(d) \in slow /\ Held(d) \notin spoke
         /\ driver[d].read # "verdict" =>
              driver[d].verdict[1] \in Outcomes /\ Waits(driver[d].verdict[1], driver[d].read, Held(d))
<1>1. /\ driver[d] \in DriverState /\ worker[d] \in WorkerState /\ PipeKept(d) /\ BlameKept(d)
  BY SeenTyped
<1>2. Held(d) \in Seeds
  BY DEF At, Holding, Inv, SeedsKept
<1>3. driver[d].read # "verdict" => driver[d].verdict # <<>>
  BY <1>1 DEF PipeKept, At
<1>4. driver[d].read # "verdict" => driver[d].verdict[1] \in Outcomes
  BY <1>1, <1>3, Heading DEF DriverState
<1>. QED
  BY <1>1, <1>2, <1>4 DEF PipeKept, BlameKept, At, Fired

\* The line it got, unless it was cut short.
LEMMA LineGot ==
  ASSUME Inv, NEW d \in Drivers, At(d, "cancel"), Got(d), Whole(d)
  PROVE  /\ Line(d).kind \in Kinds(driver[d].read) /\ Line(d).kind \in LineKinds /\ Line(d).seed = Held(d)
         /\ Unread(worker[d], Leads(Line(d).kind), Held(d))
         /\ Told(Line(d)) \in Outcomes /\ Told(Line(d)).seed = Held(d)
         /\ Told(Line(d)).kind = Line(d).kind
<1>1. /\ Replies(Line(d), driver[d].read, Held(d)) /\ Unread(worker[d], Leads(Line(d).kind), Held(d))
  BY SeenTyped DEF PipeKept
<1>2. Held(d) \in Seeds /\ driver[d].read \in Reads
  BY AtCancel DEF DriverState
<1>3. Line(d).kind \in LineKinds
  BY <1>1, <1>2 DEF Replies, Kinds, Reads, LineKinds
<1>4. Line(d).seed = Held(d)
  BY <1>1 DEF Replies
<1>5. Told(Line(d)) = [kind |-> Line(d).kind, seed |-> Line(d).seed, note |-> NoNote, side |-> "none"]
  BY DEF Told, Baseline
<1>6. Told(Line(d)) \in Outcomes /\ Told(Line(d)).seed = Held(d) /\ Told(Line(d)).kind = Line(d).kind
  BY <1>2, <1>3, <1>4, <1>5 DEF Outcomes
<1>. QED
  BY <1>1, <1>3, <1>4, <1>6 DEF Replies

\* When that line asks for no other reading, the pipe is empty.
LEMMA LastLine ==
  ASSUME Inv, NEW d \in Drivers, At(d, "cancel"), Got(d), Whole(d), Leads(Line(d).kind) = "none"
  PROVE  worker[d].out = <<>> /\ worker[d].stage = "idle"
BY LineGot, AtCancel, NothingUnread

\* What is not blamed is sound, and blame is when the worker is gone.
LEMMA NoBlame ==
  ASSUME NEW r, NEW s, r.kind \notin {"PANIC", "TIMEOUT"}
  PROVE  Sound(r, s)
BY DEF Sound

(* A worker that is blamed died of this seed, or was killed while it was read for. *)
LEMMA Blaming ==
  ASSUME Inv, NEW d \in Drivers, At(d, "cancel"), NEW over \in BOOLEAN, over <=> Fired(d),
         ~ over => ~ worker[d].up, worker[d].side # "oracle" \/ Held(d) \notin spoke
  PROVE  /\ Blame(d, over) \in Outcomes /\ Blame(d, over).seed = Held(d)
         /\ Sound(Blame(d, over), Held(d))
<1>1. Blame(d, over) = [kind |-> IF over THEN "TIMEOUT" ELSE "PANIC", seed |-> Held(d),
                        note |-> NoNote, side |-> worker[d].side]
  BY DEF Blame, Baseline
<1>2. Held(d) \in Seeds /\ worker[d].side \in Sides
  BY AtCancel DEF WorkerState
<1>3. Blame(d, over) \in Outcomes /\ Blame(d, over).seed = Held(d)
      /\ Blame(d, over).kind = (IF over THEN "TIMEOUT" ELSE "PANIC")
      /\ Blame(d, over).side = worker[d].side
  BY <1>1, <1>2 DEF Outcomes
<1>4. Sound(Blame(d, over), Held(d))
  BY <1>3, AtCancel DEF Sound
<1>. QED
  BY <1>3, <1>4

\* A note changes neither a verdict's kind nor its seed.
LEMMA Noted ==
  ASSUME NEW r \in Outcomes, NEW note \in {NoNote, "over-budget", "died"}
  PROVE  /\ [r EXCEPT !.note = note] \in Outcomes
         /\ [r EXCEPT !.note = note].kind = r.kind /\ [r EXCEPT !.note = note].seed = r.seed
BY DEF Outcomes

(* A case whose bracket was lost is given a sound verdict. *)
LEMMA UnbracketedSound ==
  ASSUME Inv, NEW d \in Drivers, At(d, "cancel"), NEW over \in BOOLEAN, over <=> Fired(d),
         ~ over => ~ worker[d].up,
         NEW r \in Outcomes, r.kind = "PENDING", r.seed = Held(d)
  PROVE  /\ Unbracketed(d, r, over) \in Outcomes /\ Unbracketed(d, r, over).seed = Held(d)
         /\ Sound(Unbracketed(d, r, over), Held(d))
<1>1. CASE worker[d].side = "oracle"
  <2>1. PICK note \in {"over-budget", "died"} : Unbracketed(d, r, over) = [r EXCEPT !.note = note]
    BY <1>1 DEF Unbracketed
  <2>. DEFINE q == [r EXCEPT !.note = note]
  <2>2. q \in Outcomes /\ q.kind = "PENDING" /\ q.seed = Held(d)
    BY Noted
  <2>. HIDE DEF q
  <2>3. Sound(q, Held(d))
    BY <2>2, NoBlame
  <2>. QED
    BY <2>1, <2>2, <2>3 DEF q
<1>2. CASE worker[d].side # "oracle"
  <2>1. Unbracketed(d, r, over) = Blame(d, over)
    BY <1>2 DEF Unbracketed
  <2>. QED
    BY <1>2, <2>1, Blaming
<1>. QED
  BY <1>1, <1>2

(* A refused case whose report was lost is given a sound verdict. *)
LEMMA UnreportedSound ==
  ASSUME NEW over \in BOOLEAN, NEW r \in Outcomes, r.kind = "REFUSED"
  PROVE  /\ Unreported(r, over) \in Outcomes /\ Unreported(r, over).seed = r.seed
         /\ \A s : Sound(Unreported(r, over), s)
<1>1. PICK note \in {"over-budget", "died"} : Unreported(r, over) = [r EXCEPT !.note = note]
  BY DEF Unreported
<1>. DEFINE q == [r EXCEPT !.note = note]
<1>2. q \in Outcomes /\ q.kind = "REFUSED" /\ q.seed = r.seed
  BY Noted
<1>. HIDE DEF q
<1>3. \A s : Sound(q, s)
  BY <1>2, NoBlame
<1>. QED
  BY <1>1, <1>2, <1>3 DEF q

(* The driver has read the line of a verdict. *)
LEMMA GotVerdictKeeps ==
  ASSUME Inv, NEW d \in Drivers, GotVerdict(d)  PROVE  Inv'
<1>. DEFINE r == Told(Line(d))
<1>1. At(d, "cancel") /\ driver[d].read = "verdict" /\ Got(d) /\ Whole(d)
  BY DEF GotVerdict, Reading
<1>2. /\ Line(d).kind \in Kinds("verdict") /\ Unread(worker[d], Leads(Line(d).kind), Held(d))
      /\ r \in Outcomes /\ r.seed = Held(d) /\ r.kind = Line(d).kind
  BY <1>1, LineGot
<1>3. r.kind \in {"FINAL", "REFUSED", "PENDING"}
  BY <1>2 DEF Kinds
<1>4. /\ r.kind = "PENDING" /\ ~ Fired(d) => ReadOn(d, "bracket", r)
      /\ r.kind = "PENDING" /\ Fired(d) => Record(d, Unbracketed(d, r, TRUE), TRUE)
      /\ r.kind = "REFUSED" /\ ~ Fired(d) => ReadOn(d, "report", r)
      /\ r.kind = "REFUSED" /\ Fired(d) => Record(d, Unreported(r, TRUE), TRUE)
      /\ r.kind = "FINAL" => Record(d, r, Fired(d))
  BY <1>3 DEF GotVerdict
<1>. HIDE DEF r
<1>5. CASE r.kind = "PENDING" /\ ~ Fired(d)
  BY <1>1, <1>2, <1>4, <1>5, ReadOnKeeps DEF Waits, Leads, Fired
<1>6. CASE r.kind = "PENDING" /\ Fired(d)
  BY <1>1, <1>2, <1>4, <1>6, UnbracketedSound, RecordKeeps
<1>7. CASE r.kind = "REFUSED" /\ ~ Fired(d)
  BY <1>1, <1>2, <1>4, <1>7, ReadOnKeeps DEF Waits, Leads, Fired
<1>8. CASE r.kind = "REFUSED" /\ Fired(d)
  BY <1>1, <1>2, <1>4, <1>8, UnreportedSound, RecordKeeps
<1>9. CASE r.kind = "FINAL"
  <2>1. Leads(Line(d).kind) = "none"
    BY <1>2, <1>9 DEF Leads
  <2>2. worker[d].out = <<>> /\ worker[d].stage = "idle" /\ Fired(d) \in BOOLEAN
    BY <1>1, <2>1, LastLine DEF Fired
  <2>3. Sound(r, Held(d)) /\ (~ Fired(d) => timer[d] # "fired")
    BY <1>9, NoBlame DEF Fired
  <2>. QED
    BY <1>1, <1>2, <1>4, <1>9, <2>2, <2>3, RecordKeeps
<1>. QED
  BY <1>3, <1>5, <1>6, <1>7, <1>8, <1>9

(* The driver has read the line after the bracket. *)
LEMMA GotBracketKeeps ==
  ASSUME Inv, NEW d \in Drivers, GotBracket(d)  PROVE  Inv'
<1>1. At(d, "cancel") /\ driver[d].read = "bracket" /\ Whole(d) /\ Fired(d) \in BOOLEAN
  BY DEF GotBracket, Reading, Fired
<1>2. CASE Got(d)
  <2>. DEFINE r == Told(Line(d))
  <2>1. /\ Line(d).kind \in Kinds("bracket") /\ r \in Outcomes /\ r.seed = Held(d) /\ r.kind = Line(d).kind
    BY <1>1, <1>2, LineGot
  <2>2. Record(d, r, Fired(d))
    BY <1>2 DEF GotBracket
  <2>. HIDE DEF r
  <2>3. r.kind = "FINAL" /\ Leads(Line(d).kind) = "none"
    BY <2>1 DEF Kinds, Leads
  <2>4. Sound(r, Held(d)) /\ (~ Fired(d) => timer[d] # "fired")
    BY <2>3, NoBlame DEF Fired
  <2>5. worker[d].out = <<>> /\ worker[d].stage = "idle"
    BY <1>1, <1>2, <2>3, LastLine
  <2>. QED
    BY <1>1, <2>1, <2>2, <2>4, <2>5, RecordKeeps
<1>3. CASE ~ Got(d)
  <2>. DEFINE r == driver[d].verdict[1]
  <2>1. r \in Outcomes /\ r.kind = "PENDING" /\ r.seed = Held(d) /\ ~ worker[d].up
    BY <1>1, <1>3, AtCancel DEF Waits
  <2>2. Record(d, Unbracketed(d, r, Fired(d)), TRUE)
    BY <1>3 DEF GotBracket
  <2>. HIDE DEF r
  <2>. QED
    BY <1>1, <2>1, <2>2, UnbracketedSound, RecordKeeps
<1>. QED
  BY <1>2, <1>3

(* The driver has read the line of the report. *)
LEMMA GotReportKeeps ==
  ASSUME Inv, NEW d \in Drivers, GotReport(d)  PROVE  Inv'
<1>. DEFINE r == driver[d].verdict[1]
<1>1. At(d, "cancel") /\ driver[d].read = "report" /\ Whole(d) /\ Fired(d) \in BOOLEAN
  BY DEF GotReport, Reading, Fired
<1>2. r \in Outcomes /\ r.kind = "REFUSED" /\ r.seed = Held(d)
  BY <1>1, AtCancel DEF Waits
<1>3. CASE Got(d)
  <2>1. PICK kind \in {"SKIP", r.kind} : Record(d, [r EXCEPT !.kind = kind], Fired(d))
    BY <1>3 DEF GotReport
  <2>2. /\ [r EXCEPT !.kind = kind] \in Outcomes /\ [r EXCEPT !.kind = kind].kind \in {"SKIP", "REFUSED"}
        /\ [r EXCEPT !.kind = kind].seed = Held(d)
    BY <1>2 DEF Outcomes, LineKinds
  <2>3. Leads(Line(d).kind) = "none"
    <3>1. Line(d).kind \in Kinds("report")
      BY <1>1, <1>3, LineGot
    <3>. QED
      BY <3>1 DEF Kinds, Leads
  <2>4. Sound([r EXCEPT !.kind = kind], Held(d)) /\ (~ Fired(d) => timer[d] # "fired")
    BY <2>2, NoBlame DEF Fired
  <2>5. worker[d].out = <<>> /\ worker[d].stage = "idle"
    BY <1>1, <1>3, <2>3, LastLine
  <2>. QED
    BY <1>1, <2>1, <2>2, <2>4, <2>5, RecordKeeps
<1>4. CASE ~ Got(d)
  <2>1. Record(d, Unreported(r, Fired(d)), TRUE)
    BY <1>4 DEF GotReport
  <2>. HIDE DEF r
  <2>. QED
    BY <1>1, <1>2, <2>1, UnreportedSound, RecordKeeps
<1>. QED
  BY <1>3, <1>4

(* The driver has read the line of the witness. *)
LEMMA GotWitnessKeeps ==
  ASSUME Inv, NEW d \in Drivers, GotWitness(d)  PROVE  Inv'
<1>. DEFINE r == driver[d].verdict[1]
<1>1. At(d, "cancel") /\ driver[d].read = "witness" /\ Whole(d)
  BY DEF GotWitness, Reading
<1>2. r \in Outcomes /\ r.kind = "TIMEOUT" /\ r.seed = Held(d)
      /\ Held(d) \in slow /\ Held(d) \notin spoke
  BY <1>1, AtCancel DEF Waits
<1>3. CASE Fired(d) \/ ~ Got(d)
  <2>1. Record(d, r, TRUE)
    BY <1>3 DEF GotWitness
  <2>2. Sound(r, Held(d))
    BY <1>2 DEF Sound
  <2>. HIDE DEF r
  <2>. QED
    BY <1>1, <1>2, <2>1, <2>2, RecordKeeps
<1>4. CASE ~ Fired(d) /\ Got(d)
  <2>1. PICK kind \in {"EXCLUDED", r.kind} : Record(d, [r EXCEPT !.kind = kind], FALSE)
    BY <1>4 DEF GotWitness
  <2>2. /\ [r EXCEPT !.kind = kind] \in Outcomes /\ [r EXCEPT !.kind = kind].kind \in {"EXCLUDED", "TIMEOUT"}
        /\ [r EXCEPT !.kind = kind].seed = Held(d)
    BY <1>2 DEF Outcomes
  <2>3. Leads(Line(d).kind) = "none"
    <3>1. Line(d).kind \in Kinds("witness")
      BY <1>1, <1>4, LineGot
    <3>. QED
      BY <3>1 DEF Kinds, Leads
  <2>4. Sound([r EXCEPT !.kind = kind], Held(d)) /\ timer[d] # "fired"
    BY <1>2, <1>4, <2>2 DEF Sound, Fired
  <2>5. worker[d].out = <<>> /\ worker[d].stage = "idle"
    BY <1>1, <1>4, <2>3, LastLine
  <2>. QED
    BY <1>1, <2>1, <2>2, <2>4, <2>5, RecordKeeps
<1>. QED
  BY <1>3, <1>4

\* The end of an output: the seed is blamed, or read again by its witness.
LEMMA GotNothingKeeps ==
  ASSUME Inv, NEW d \in Drivers, GotNothing(d)  PROVE  Inv'
<1>. DEFINE r == Blame(d, Fired(d))
<1>1. At(d, "cancel") /\ driver[d].read = "verdict" /\ ~ Got(d) /\ Fired(d) \in BOOLEAN
  BY DEF GotNothing, Reading, Fired
<1>2. /\ driver[d] \in DriverState /\ ~ worker[d].up /\ Held(d) \notin spoke /\ Held(d) \in Seeds
      /\ Fired(d) => Held(d) \in slow
  BY <1>1, AtCancel
<1>3. r \in Outcomes /\ r.seed = Held(d) /\ Sound(r, Held(d))
  BY <1>1, <1>2, Blaming
<1>4. r.kind = "TIMEOUT" => Held(d) \in slow
  BY <1>3 DEF Sound
<1>. HIDE DEF r
<1>5. CASE ~ (r.kind = "TIMEOUT" /\ r.side = "oracle")
  <2>1. Record(d, r, TRUE)
    BY <1>5 DEF GotNothing, r
  <2>. QED
    BY <1>1, <1>3, <2>1, RecordKeeps
<1>6. CASE r.kind = "TIMEOUT" /\ r.side = "oracle"
  <2>. DEFINE w == [Spawned EXCEPT !.stage = "witness", !.seed = Held(d)]
  <2>1. /\ driver' = [driver EXCEPT ![d].pc = "readline", ![d].read = "witness", ![d].verdict = <<r>>]
        /\ Become(d, w) /\ doomed' = [doomed EXCEPT ![d] = "none"]
        /\ timer' = [timer EXCEPT ![d] = "armed"]
        /\ UNCHANGED <<next, answers, crashed, slow, spoke, raced>>
    BY <1>6 DEF GotNothing, history, r
  <2>2. w \in WorkerState /\ w.up /\ w.out = <<>> /\ w.stage = "witness" /\ w.seed = Held(d)
    <3>1. Held(d) \in SeedOrNone /\ "harness" \in Sides /\ <<>> \in Seq(Lines)
      BY <1>2 DEF SeedOrNone, Sides
    <3>2. Spawned \in WorkerState /\ Spawned.up /\ Spawned.out = <<>>
      BY DEF Spawned, WorkerState, SeedOrNone, Sides
    <3>3. "witness" \in {"idle", "queued", "verdict", "bracket", "report", "witness"}
      OBVIOUS
    <3>. QED
      BY <3>1, <3>2, <3>3 DEF WorkerState
  <2>. HIDE DEF w
  <2>3. /\ worker' \in [Drivers -> WorkerState] /\ worker'[d] = w
        /\ \A e \in Drivers \ {d} : worker'[e] = worker[e]
    BY <2>1, <2>2 DEF Inv, Typed, Become
  <2>4. <<r>> \in Seq(Outcomes) /\ <<r>> # <<>> /\ <<r>>[1] = r /\ "witness" \in Reads
    BY <1>3 DEF Reads
  <2>5. /\ driver' \in [Drivers -> DriverState] /\ driver'[d].pc = "readline"
        /\ driver'[d].read = "witness" /\ driver'[d].verdict = <<r>>
        /\ driver'[d].seed = driver[d].seed /\ \A e \in Drivers \ {d} : driver'[e] = driver[e]
    BY <1>2, <2>1, <2>4 DEF Inv, Typed, DriverState
  <2>6. /\ timer' \in [Drivers -> {"off", "armed", "expired", "fired"}] /\ timer'[d] = "armed"
        /\ doomed' \in [Drivers -> {"none", "late", "fired"}] /\ doomed'[d] = "none"
        /\ \A e \in Drivers \ {d} : timer'[e] = timer[e] /\ doomed'[e] = doomed[e]
    BY <2>1 DEF Inv, Typed
  <2>7. Typed' /\ Alone(d) /\ Holding(d)' = Holding(d) /\ Held(d)' = Held(d)
    BY <1>1, <2>1, <2>3, <2>5, <2>6 DEF Inv, Typed, Alone, Holding, Held, At
  <2>8. PipeKept(d)'
    <3>1. Unread(w, "witness", Held(d))
      BY <2>2, EmptySeq DEF Unread, Before
    <3>2. Waits(r, "witness", Held(d))
      BY <1>3, <1>6 DEF Waits
    <3>. QED
      BY <2>3, <2>4, <2>5, <2>7, <3>1, <3>2 DEF PipeKept, At
  <2>9. BlameKept(d)'
    BY <1>2, <1>4, <1>6, <2>1, <2>2, <2>3, <2>5, <2>6, <2>7 DEF BlameKept, At
  <2>. QED
    BY <2>1, <2>7, <2>8, <2>9, StepKeeps DEF DriverKept
<1>. QED
  BY <1>5, <1>6

-----------------------------------------------------------------------------
(***************************************************************************)
(* The theorems.                                                           *)
(***************************************************************************)

(* The invariant holds when the campaign begins. *)
LEMMA InvStarts ==
  Init => Inv
<1>. SUFFICES ASSUME Init  PROVE  Inv
  OBVIOUS
<1>1. MaxSeed \in Nat /\ next = 1 /\ \A s \in Seeds : s \in Nat /\ s >= 1
  BY CampaignAssumption DEF Init, Seeds
<1>2. <<>> \in Seq(Lines) /\ <<>> \in Seq(Outcomes)
  OBVIOUS
<1>3. Spawned \in WorkerState
  BY <1>2 DEF Spawned, WorkerState, SeedOrNone, Sides
<1>4. [pc |-> "take", seed |-> NoSeed, read |-> "verdict", got |-> <<>>, verdict |-> <<>>] \in DriverState
  BY <1>2 DEF DriverState, SeedOrNone, Reads
<1>5. \A d \in Drivers : /\ driver[d].pc = "take" /\ worker[d] = Spawned
                         /\ timer[d] = "off" /\ doomed[d] = "none"
  BY DEF Init
<1>6. \A s \in Seeds : answers[s] = <<>>
  BY DEF Init
<1>7. Typed
  <2>1. next \in 1 .. MaxSeed + 1
    BY <1>1
  <2>. QED
    BY <1>2, <1>3, <1>4, <2>1 DEF Init, Typed
<1>8. SeedsKept /\ AnswersKept
  BY <1>1, <1>5, <1>6 DEF Init, SeedsKept, AnswersKept, Holding
<1>9. \A d \in Drivers : DriverKept(d)
  <2>1. Spawned.out = <<>> /\ Spawned.stage = "idle"
    BY DEF Spawned
  <2>. QED
    BY <1>5, <2>1 DEF DriverKept, PipeKept, BlameKept, At
<1>. QED
  BY <1>7, <1>8, <1>9 DEF Inv

(* Every step keeps the invariant. *)
LEMMA NextKeeps ==
  Inv /\ [Next]_vars => Inv'
<1>. SUFFICES ASSUME Inv, [Next]_vars  PROVE  Inv'
  OBVIOUS
<1>1. ASSUME NEW d \in Drivers, DriverStep(d)
      PROVE  Inv'
  <2>1. CASE Take(d)
    BY <2>1, TakeKeeps
  <2>2. CASE Write(d)
    BY <2>2, WriteKeeps
  <2>3. CASE ReadLine(d)
    BY <2>3, ReadLineKeeps
  <2>4. CASE Dies(d) \/ WriteRaises(d)
    BY <2>4, DiesKeeps, WriteRaisesKeeps
  <2>5. CASE GotVerdict(d)
    BY <2>5, GotVerdictKeeps
  <2>6. CASE GotBracket(d)
    BY <2>6, GotBracketKeeps
  <2>7. CASE GotReport(d)
    BY <2>7, GotReportKeeps
  <2>8. CASE GotNothing(d)
    BY <2>8, GotNothingKeeps
  <2>9. CASE GotWitness(d)
    BY <2>9, GotWitnessKeeps
  <2>. QED
    BY <1>1, <2>1, <2>2, <2>3, <2>4, <2>5, <2>6, <2>7, <2>8, <2>9 DEF DriverStep
<1>2. ASSUME NEW d \in Drivers, TimerStep(d)
      PROVE  Inv'
  BY <1>2, ExpiresKeeps, FiresKeeps, KilledKeeps DEF TimerStep
<1>3. ASSUME NEW d \in Drivers, WorkerStep(d)
      PROVE  Inv'
  BY <1>3, AnnouncesKeeps, VerdictKeeps, BracketedKeeps, ReportedKeeps, WitnessedKeeps, CrashesKeeps
     DEF WorkerStep
<1>4. CASE UNCHANGED vars
  <2>1. /\ next' = next /\ driver' = driver /\ worker' = worker /\ timer' = timer
        /\ doomed' = doomed /\ answers' = answers /\ crashed' = crashed /\ slow' = slow
        /\ spoke' = spoke /\ raced' = raced
    BY <1>4 DEF vars
  <2>2. Typed' /\ SeedsKept' /\ AnswersKept'
    BY <2>1 DEF Inv, Typed, SeedsKept, AnswersKept, Sound, Holding, Held
  <2>3. ASSUME NEW d \in Drivers
        PROVE  DriverKept(d)'
    BY <2>1, SeenTyped DEF DriverKept, PipeKept, BlameKept, At, Held, Got, Whole, Line
  <2>. QED
    BY <2>2, <2>3 DEF Inv
<1>. QED
  BY <1>1, <1>2, <1>3, <1>4 DEF Next

\* The invariant is one of every campaign.
THEOREM InvHolds ==
  Spec => []Inv
BY InvStarts, NextKeeps, PTL DEF Spec

\* LinesAreOfTheirSeed for any number of drivers and seeds: no line of an
\* earlier seed or reading is left in a worker's pipe (_read, _dispatch).
THEOREM LinesAreAlwaysOfTheirSeed ==
  Spec => []LinesAreOfTheirSeed
<1>1. Inv => LinesAreOfTheirSeed
  <2>. SUFFICES ASSUME Inv, NEW d \in Drivers, At(d, "cancel"), Got(d), Whole(d)
                PROVE  /\ Line(d).seed = Held(d)
                       /\ Line(d).kind \in
                            CASE driver[d].read = "verdict" -> {"FINAL", "REFUSED", "PENDING"}
                              [] driver[d].read = "bracket" -> {"FINAL"}
                              [] driver[d].read = "report"  -> {"OUTCOME", "SKIP"}
                              [] driver[d].read = "witness" -> {"EXCUSED", "KEPT"}
    BY DEF LinesAreOfTheirSeed
  <2>1. driver[d].read \in {"verdict", "bracket", "report", "witness"}
    BY AtCancel DEF DriverState, Reads
  <2>2. Line(d).kind \in Kinds(driver[d].read) /\ Line(d).seed = Held(d)
    BY LineGot
  <2>. QED
    BY <2>1, <2>2 DEF Kinds
<1>. QED
  BY <1>1, InvHolds, PTL

\* EverySeedIsAnswered likewise: whatever happens to the workers, each seed
\* taken has one verdict, or its driver thread met a line cut short, or wrote
\* to a second worker that was gone.
THEOREM EverySeedIsAlwaysAnswered ==
  Spec => []EverySeedIsAnswered
<1>1. Inv => EverySeedIsAnswered
  <2>. SUFFICES ASSUME Inv  PROVE  EverySeedIsAnswered
    OBVIOUS
  <2>1. next \in 1 .. MaxSeed + 1 /\ MaxSeed \in Nat
    BY CampaignAssumption DEF Inv, Typed
  <2>2. ASSUME NEW s \in Seeds
        PROVE  Len(answers[s]) <= 1
    <3>1. CASE answers[s] = <<>>
      BY <3>1
    <3>2. CASE answers[s] # <<>>
      <4>1. Len(answers[s]) = 1
        BY <3>2 DEF Inv, AnswersKept
      <4>. QED
        BY <4>1
    <3>. QED
      BY <3>1, <3>2
  <2>3. ASSUME \A d \in Drivers : Gone(d), NEW s \in 1 .. next - 1
        PROVE  Len(answers[s]) = 1 \/ \E d \in Drivers : At(d, "dead") /\ Held(d) = s
    <3>1. s \in Seeds /\ s < next
      BY <2>1 DEF Seeds
    <3>2. \A d \in Drivers : Holding(d) => At(d, "dead")
      BY <2>3 DEF Gone, Holding, At
    <3>. QED
      BY <3>1, <3>2 DEF Inv, SeedsKept
  <2>. QED
    BY <2>2, <2>3 DEF EverySeedIsAnswered
<1>. QED
  BY <1>1, InvHolds, PTL

\* The verdicts of a seed are one or none, and sound.
LEMMA VerdictsSound ==
  ASSUME Inv, NEW s \in Seeds, NEW r \in Verdicts(s)
  PROVE  Sound(r, s)
<1>1. PICK i \in DOMAIN answers[s] : r = answers[s][i]
  BY DEF Verdicts
<1>2. answers[s] \in Seq(Outcomes)
  BY DEF Inv, Typed
<1>3. answers[s] # <<>>
  BY <1>1, <1>2, EmptySeq, LenProperties
<1>4. Len(answers[s]) = 1 /\ Sound(answers[s][1], s)
  BY <1>3 DEF Inv, AnswersKept
<1>5. i = 1
  BY <1>1, <1>2, <1>4, LenProperties
<1>. QED
  BY <1>1, <1>4, <1>5

\* ReadingsCostNoFinding likewise: a seed whose verdict line came is blamed
\* for nothing that happened in DuckDB afterwards (_unbracketed, _report).
THEOREM ReadingsNeverCostAFinding ==
  Spec => []ReadingsCostNoFinding
<1>1. Inv => ReadingsCostNoFinding
  <2>. SUFFICES ASSUME Inv, NEW s \in spoke, NEW r \in Verdicts(s), r.kind \in {"TIMEOUT", "PANIC"}
                PROVE  r.side # "oracle"
    BY DEF ReadingsCostNoFinding
  <2>1. s \in Seeds
    BY DEF Inv, Typed
  <2>. QED
    BY <2>1, VerdictsSound DEF Sound
<1>. QED
  BY <1>1, InvHolds, PTL

\* NoInnocentBlame likewise: a driver blames a seed for a crash or a timeout
\* only when that seed's own reading met one (blame, threading.Timer).
THEOREM NoInnocentIsEverBlamed ==
  Spec => []NoInnocentBlame
<1>1. Inv => NoInnocentBlame
  BY VerdictsSound DEF NoInnocentBlame, Sound
<1>. QED
  BY <1>1, InvHolds, PTL
=============================================================================
