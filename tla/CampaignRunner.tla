--------------------------- MODULE CampaignRunner ---------------------------
(***************************************************************************)
(* The fuzz campaign (packages/confit/fuzz/runner.py, worker.py): driver   *)
(* threads take seeds off one iterator, each hands its seed to a worker    *)
(* process of its own and reads the worker's lines, each line under a      *)
(* threading.Timer that kills the worker. A worker that dies or outruns    *)
(* its budget is blamed for the seed it held, and replaced.                *)
(*                                                                         *)
(* A worker answers a seed with one line, FINAL, or with two: REFUSED and  *)
(* then the OUTCOME of the report-only reading, or PENDING, the verdict    *)
(* before the bracket reading, and then FINAL. It may crash while it works *)
(* on a seed, and it may hang: it is never obliged to go on.               *)
(***************************************************************************)
EXTENDS Integers, Sequences

CONSTANTS
  Drivers,    \* the driver threads
  MaxSeed,    \* the campaign runs the seeds 1 .. MaxSeed
  NoSeed,     \* a driver or a worker that holds none
  TornLines   \* whether a kill may cut a line the worker is writing

ASSUME CampaignAssumption == MaxSeed \in Nat /\ TornLines \in BOOLEAN

VARIABLES
  next,     \* the shared iterator: the next seed
  driver,   \* driver -> [pc, seed, got, verdict]
  worker,   \* driver -> its worker [up, stage, seed, side, out]
  timer,    \* driver -> the timer of the read under way
  doomed,   \* driver -> the kill on its way to its worker: of a timer seen to
            \*   have fired, or of one that fired behind its driver's back
  answers,  \* seed -> the verdicts recorded for it
  crashed,  \* history: seeds on which a worker crashed by itself
  slow,     \* history: seeds of which a read outran its budget
  spoke,    \* history: seeds a verdict line was read for
  raced     \* history: seeds read for while another reading's kill was due

vars == <<next, driver, worker, timer, doomed, answers, crashed, slow, spoke, raced>>
history == <<crashed, slow, spoke, raced>>

Seeds == 1 .. MaxSeed

Reads == {"verdict", "bracket", "report", "witness"}

\* A worker that has just been spawned: its first marker is harness:startup.
Spawned == [up |-> TRUE, stage |-> "idle", seed |-> NoSeed, side |-> "harness", out |-> <<>>]

Init ==
  /\ next = 1
  /\ driver = [d \in Drivers |-> [pc |-> "take", seed |-> NoSeed, read |-> "verdict",
                                  got |-> <<>>, verdict |-> <<>>]]
  /\ worker = [d \in Drivers |-> Spawned]
  /\ timer = [d \in Drivers |-> "off"]
  /\ doomed = [d \in Drivers |-> "none"]
  /\ answers = [s \in Seeds |-> <<>>]
  /\ crashed = {} /\ slow = {} /\ spoke = {} /\ raced = {}

-----------------------------------------------------------------------------
(***************************************************************************)
(* The worker.                                                             *)
(***************************************************************************)

Works(d) == worker[d].up /\ worker[d].stage # "idle"

Become(d, w) == worker' = [worker EXCEPT ![d] = w]

Others(d) == UNCHANGED <<next, driver, timer, doomed, answers, slow, spoke, raced>>

Says(d, kind, stage, side) ==
  /\ Become(d, [worker[d] EXCEPT !.out = Append(@, [kind |-> kind, seed |-> worker[d].seed]),
                                 !.stage = stage, !.side = side])
  /\ Others(d) /\ UNCHANGED crashed

\* It takes its seed off stdin, and announces the phases it goes through.
Announces(d) ==
  /\ Works(d)
  /\ \/ /\ worker[d].stage = "queued"
        /\ Become(d, [worker[d] EXCEPT !.stage = "verdict", !.side = "harness"])
     \/ /\ worker[d].stage = "verdict"
        /\ \E side \in {"confit", "oracle"} :
             worker[d].side # side /\ Become(d, [worker[d] EXCEPT !.side = side])
     \/ /\ worker[d].stage = "bracket" /\ worker[d].side = "oracle"
        /\ Become(d, [worker[d] EXCEPT !.side = "confit"])
  /\ Others(d) /\ UNCHANGED crashed

Verdict(d) ==
  /\ Works(d) /\ worker[d].stage = "verdict"
  /\ \/ Says(d, "FINAL", "idle", worker[d].side)
     \/ Says(d, "REFUSED", "report", worker[d].side)
     \/ worker[d].side = "oracle" /\ Says(d, "PENDING", "bracket", "oracle")

Bracketed(d) == Works(d) /\ worker[d].stage = "bracket" /\ Says(d, "FINAL", "idle", worker[d].side)

\* An exception in the reading makes the refusal a SKIP.
Reported(d) ==
  /\ Works(d) /\ worker[d].stage = "report"
  /\ \E kind \in {"OUTCOME", "SKIP"} : Says(d, kind, "idle", "oracle")

Witnessed(d) ==
  /\ Works(d) /\ worker[d].stage = "witness"
  /\ \E kind \in {"EXCUSED", "KEPT"} : Says(d, kind, "idle", worker[d].side)

Crashes(d) ==
  /\ Works(d)
  /\ Become(d, [worker[d] EXCEPT !.up = FALSE])
  /\ crashed' = crashed \union {worker[d].seed}
  /\ Others(d)

Torn == [kind |-> "TORN", seed |-> NoSeed]

\* The kill arrives.
Killed(d) ==
  /\ doomed[d] # "none"
  /\ doomed' = [doomed EXCEPT ![d] = "none"]
  /\ \/ Become(d, [worker[d] EXCEPT !.up = FALSE])
     \/ /\ TornLines /\ Works(d) /\ worker[d].stage # "queued"
        /\ Become(d, [worker[d] EXCEPT !.up = FALSE, !.out = Append(@, Torn)])
  /\ UNCHANGED <<next, driver, timer, answers, history>>

-----------------------------------------------------------------------------
(***************************************************************************)
(* The timer of a read: armed, expired (it has seen that nobody cancelled  *)
(* it), fired (f is set, the kill is next).                                *)
(***************************************************************************)

Expires(d) ==
  /\ timer[d] = "armed"
  /\ timer' = [timer EXCEPT ![d] = "expired"]
  /\ slow' = slow \union {driver[d].seed}
  /\ UNCHANGED <<next, driver, worker, doomed, answers, crashed, spoke, raced>>

Fires(d) ==
  /\ timer[d] = "expired"
  /\ timer' = [timer EXCEPT ![d] = "fired"]
  /\ doomed' = [doomed EXCEPT ![d] = "fired"]
  /\ UNCHANGED <<next, driver, worker, answers, history>>

-----------------------------------------------------------------------------
(***************************************************************************)
(* The driver.                                                             *)
(***************************************************************************)

At(d, pc) == driver[d].pc = pc

Take(d) ==
  /\ At(d, "take")
  /\ IF next <= MaxSeed
     THEN /\ driver' = [driver EXCEPT ![d].pc = "write", ![d].seed = next]
          /\ next' = next + 1
     ELSE /\ driver' = [driver EXCEPT ![d].pc = "done", ![d].seed = NoSeed]
          /\ UNCHANGED next
  /\ UNCHANGED <<worker, timer, doomed, answers, history>>

\* A write to a worker that is gone raises; a new one gets the seed.
Write(d) ==
  /\ At(d, "write")
  /\ LET w == IF worker[d].up THEN worker[d] ELSE Spawned IN
       Become(d, [w EXCEPT !.stage = "queued", !.seed = driver[d].seed])
  /\ doomed' = [doomed EXCEPT ![d] = IF worker[d].up THEN @ ELSE "none"]
  /\ driver' = [driver EXCEPT ![d].pc = "readline", ![d].read = "verdict"]
  /\ timer' = [timer EXCEPT ![d] = "armed"]
  /\ raced' = IF doomed'[d] = "late" THEN raced \union {driver[d].seed} ELSE raced
  /\ UNCHANGED <<next, answers, crashed, slow, spoke>>

\* The new one may have died as it started: the second write raises too, which
\* nobody catches, and the thread is gone.
WriteRaises(d) ==
  /\ At(d, "write") /\ ~ worker[d].up
  /\ Become(d, [Spawned EXCEPT !.up = FALSE])
  /\ doomed' = [doomed EXCEPT ![d] = "none"]
  /\ driver' = [driver EXCEPT ![d].pc = "dead"]
  /\ UNCHANGED <<next, timer, answers, history>>

\* readline: a line, or the end of a dead worker's output.
ReadLine(d) ==
  /\ At(d, "readline")
  /\ \/ /\ worker[d].out # <<>>
        /\ driver' = [driver EXCEPT ![d].pc = "cancel", ![d].got = <<Head(worker[d].out)>>]
        /\ Become(d, [worker[d] EXCEPT !.out = Tail(@)])
        /\ spoke' = IF driver[d].read = "verdict" THEN spoke \union {driver[d].seed} ELSE spoke
     \/ /\ worker[d].out = <<>> /\ ~ worker[d].up
        /\ driver' = [driver EXCEPT ![d].pc = "cancel", ![d].got = <<>>]
        /\ UNCHANGED <<worker, spoke>>
  /\ UNCHANGED <<next, timer, doomed, answers, crashed, slow, raced>>

\* timer.cancel() stops a timer that is still waiting; one that has expired
\* goes on to kill.
Cancelled(d) == timer' = [timer EXCEPT ![d] = "off"]
LetGo(d) == doomed' = [doomed EXCEPT ![d] = IF timer[d] = "expired" THEN "late" ELSE @]

Fired(d) == timer[d] = "fired"
Got(d) == driver[d].got # <<>>
Line(d) == driver[d].got[1]

ArmVerdicts(read) == IF read = "verdict" THEN "armed" ELSE "off"   \* mutant
Armed(read) == "armed"

NoNote == "none"
Held(d) == driver[d].seed

Baseline(kind, seed, note, side) == [kind |-> kind, seed |-> seed, note |-> note, side |-> side]
Told(line) == Baseline(line.kind, line.seed, NoNote, "none")

\* blame: the side is that of the last marker on the worker's stderr.
Blame(d, fired) ==
  Baseline(IF fired THEN "TIMEOUT" ELSE "PANIC", Held(d), NoNote, worker[d].side)

\* _unbracketed
AlwaysBlamed(d, r, over) == Blame(d, over)   \* mutant: DuckDB's time is blamed too
Unbracketed(d, r, over) ==
  IF worker[d].side = "oracle"
  THEN [r EXCEPT !.note = IF over THEN "over-budget" ELSE "died"]
  ELSE Blame(d, over)

Unreported(r, over) == [r EXCEPT !.note = IF over THEN "over-budget" ELSE "died"]

KeepWithLine(d, lost) == Got(d)      \* mutant: a line that came keeps its worker
KeepWorker(d, lost) == ~ lost

Unblamed(r) == IF r.kind = "PANIC" THEN answers[r.seed] ELSE Append(answers[r.seed], r)   \* mutant
Appended(r) == Append(answers[r.seed], r)

\* The verdict is recorded; the worker stays or is replaced.
Record(d, r, lost) ==
  /\ answers' = [answers EXCEPT ![r.seed] = Appended(r)]
  /\ driver' = [driver EXCEPT ![d].pc = "take", ![d].got = <<>>, ![d].verdict = <<>>]
  /\ IF KeepWorker(d, lost)
     THEN LetGo(d) /\ UNCHANGED worker
     ELSE doomed' = [doomed EXCEPT ![d] = "none"] /\ Become(d, Spawned)
  /\ Cancelled(d)
  /\ UNCHANGED <<next, history>>

\* Another line is read for the same seed, under a timer of its own.
ReadOn(d, read, r) ==
  /\ driver' = [driver EXCEPT ![d].pc = "readline", ![d].read = read, ![d].verdict = <<r>>,
                          ![d].got = <<>>]
  /\ LetGo(d)
  /\ timer' = [timer EXCEPT ![d] = Armed(read)]
  /\ raced' = IF doomed'[d] = "late" THEN raced \union {Held(d)} ELSE raced
  /\ UNCHANGED <<next, worker, answers, crashed, slow, spoke>>

Reading(d, read) == At(d, "cancel") /\ driver[d].read = read
Whole(d) == Got(d) => Line(d).kind # "TORN"

\* json.loads raises on a line cut short, and the thread is gone.
Dies(d) ==
  /\ At(d, "cancel") /\ ~ Whole(d)
  /\ driver' = [driver EXCEPT ![d].pc = "dead"]
  /\ LetGo(d)
  /\ Cancelled(d)
  /\ UNCHANGED <<next, worker, answers, history>>

GotVerdict(d) ==
  /\ Reading(d, "verdict") /\ Got(d) /\ Whole(d)
  /\ LET r == Told(Line(d)) IN
     CASE r.kind = "PENDING" /\ ~ Fired(d) -> ReadOn(d, "bracket", r)
       [] r.kind = "PENDING" /\ Fired(d)   -> Record(d, Unbracketed(d, r, TRUE), TRUE)
       [] r.kind = "REFUSED" /\ ~ Fired(d) -> ReadOn(d, "report", r)
       [] r.kind = "REFUSED" /\ Fired(d)   -> Record(d, Unreported(r, TRUE), TRUE)
       [] OTHER                            -> Record(d, r, Fired(d))

GotBracket(d) ==
  /\ Reading(d, "bracket") /\ Whole(d)
  /\ IF Got(d)
     THEN Record(d, Told(Line(d)), Fired(d))
     ELSE Record(d, Unbracketed(d, driver[d].verdict[1], Fired(d)), TRUE)

GotReport(d) ==
  /\ Reading(d, "report") /\ Whole(d)
  /\ IF Got(d)
     THEN Record(d, [driver[d].verdict[1] EXCEPT !.kind = IF Line(d).kind = "SKIP" THEN "SKIP" ELSE @],
                 Fired(d))
     ELSE Record(d, Unreported(driver[d].verdict[1], Fired(d)), TRUE)

\* Nothing was read: the seed is blamed, and a timeout in the oracle is read
\* again by its witness, in the new worker.
GotNothing(d) ==
  /\ Reading(d, "verdict") /\ ~ Got(d)
  /\ LET r == Blame(d, Fired(d)) IN
     IF r.kind = "TIMEOUT" /\ r.side = "oracle"
     THEN /\ driver' = [driver EXCEPT ![d].pc = "readline", ![d].read = "witness",
                                      ![d].verdict = <<r>>]
          /\ Become(d, [Spawned EXCEPT !.stage = "witness", !.seed = Held(d)])
          /\ doomed' = [doomed EXCEPT ![d] = "none"]
          /\ timer' = [timer EXCEPT ![d] = "armed"]
          /\ UNCHANGED <<next, answers, history>>
     ELSE Record(d, r, TRUE)

GotWitness(d) ==
  /\ Reading(d, "witness") /\ Whole(d)
  /\ LET r == driver[d].verdict[1] IN
     IF Fired(d) \/ ~ Got(d)
     THEN Record(d, r, TRUE)
     ELSE Record(d, [r EXCEPT !.kind = IF Line(d).kind = "EXCUSED" THEN "EXCLUDED" ELSE @], FALSE)

-----------------------------------------------------------------------------
DriverStep(d) ==
  \/ Take(d) \/ Write(d) \/ WriteRaises(d) \/ ReadLine(d) \/ Dies(d)
  \/ GotVerdict(d) \/ GotBracket(d) \/ GotReport(d) \/ GotNothing(d) \/ GotWitness(d)

TimerStep(d) == Expires(d) \/ Fires(d) \/ Killed(d)

WorkerStep(d) ==
  Announces(d) \/ Verdict(d) \/ Bracketed(d) \/ Reported(d) \/ Witnessed(d) \/ Crashes(d)

Next == \E d \in Drivers : DriverStep(d) \/ TimerStep(d) \/ WorkerStep(d)

Spec == Init /\ [][Next]_vars

\* The scheduler runs every thread, and a timer's time comes. Nothing obliges
\* a worker to answer.
FairSpec ==
  Spec /\ \A d \in Drivers : WF_vars(DriverStep(d)) /\ WF_vars(TimerStep(d))

-----------------------------------------------------------------------------
(***************************************************************************)
(* Properties.                                                             *)
(***************************************************************************)

Verdicts(s) == { answers[s][i] : i \in DOMAIN answers[s] }

Gone(d) == driver[d].pc \in {"done", "dead"}

\* A worker that dies or outruns its budget costs its campaign no seed: when
\* the driver threads are through, each seed taken has exactly one verdict,
\* but for the seed of a thread that a torn line has ended, or a
\* second write that fails.
EverySeedIsAnswered ==
  /\ \A s \in Seeds : Len(answers[s]) <= 1
  /\ (\A d \in Drivers : Gone(d)) =>
       \A s \in 1 .. next - 1 :
         Len(answers[s]) = 1 \/ \E d \in Drivers : At(d, "dead") /\ Held(d) = s

\* A line that is read for a seed was said for that seed, and is of the kind
\* the driver reads it as: no line of an earlier reading is left in the pipe.
LinesAreOfTheirSeed ==
  \A d \in Drivers : At(d, "cancel") /\ Got(d) /\ Whole(d) =>
    /\ Line(d).seed = Held(d)
    /\ Line(d).kind \in CASE driver[d].read = "verdict" -> {"FINAL", "REFUSED", "PENDING"}
                           [] driver[d].read = "bracket" -> {"FINAL"}
                           [] driver[d].read = "report"  -> {"OUTCOME", "SKIP"}
                           [] driver[d].read = "witness" -> {"EXCUSED", "KEPT"}

\* The readings after a verdict cost the report an outcome or the verdict its
\* label, never a finding: a seed whose verdict came is a TIMEOUT or a PANIC
\* only for a worker lost outside DuckDB.
ReadingsCostNoFinding ==
  \A s \in spoke : \A r \in Verdicts(s) : r.kind \in {"TIMEOUT", "PANIC"} => r.side # "oracle"

\* A PANIC is of a seed its own worker crashed on, a TIMEOUT of a seed whose
\* own reading outran its budget -- as long as no timer thread fires between
\* its driver's look at it and the driver's next write.
NoInnocentBlame ==
  \A s \in Seeds : \A r \in Verdicts(s) :
    /\ r.kind = "PANIC" => s \in crashed \union raced
    /\ r.kind = "TIMEOUT" => s \in slow

\* Whatever the workers do, every driver thread ends.
CampaignEnds == <>(\A d \in Drivers : Gone(d))
=============================================================================
