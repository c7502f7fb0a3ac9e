---------------------------- MODULE PhasedLoop ----------------------------
(***************************************************************************)
(* The outer loop of a run: PhasedLoop.run (crux_scaffold/loop.py) inside  *)
(* Scaffold.run (crux_scaffold/scaffold.py), which saves the state when a  *)
(* process starts and again however it ends, under the CLI's signal handler*)
(* (crux_scaffold/cli.py).  A killed process saves nothing more.  A        *)
(* synchronous stretch of Python is one step; the loop awaits measurements,*)
(* the turn, the gates and the pause between iterations.                   *)
(***************************************************************************)
EXTENDS Naturals, Sequences

CONSTANTS
  Phases,         \* number of phases
  MaxIterations,  \* of each phase; 0 is "unlimited"
  Gated,          \* the phases that have gates
  Paused,         \* the phases with interval_seconds
  Unreadable,     \* the phases whose prompt files may be missing when they are read
  MaxLaunches,    \* bound: process starts
  MaxRecords      \* bound: iterations recorded, for unlimited phases

ASSUME LoopAssumption ==
  /\ Phases \in Nat \ {0}
  /\ MaxIterations \in [1..Phases -> Nat]
  /\ Gated \subseteq 1..Phases /\ Paused \subseteq 1..Phases /\ Unreadable \subseteq 1..Phases
  /\ {MaxLaunches, MaxRecords} \subseteq Nat

VARIABLES
  disk,      \* state.json
  mem,       \* RunState of the running process
  pc,        \* where the loop awaits
  prompted,  \* the prompt the running turn was given
  outcome,   \* how the last process ended
  launches,  \* process starts
  spent,     \* what the run's turns have really cost
  lost,      \* cost that killed processes took with them
  unread     \* the records after which the continuation prompt could not be read

vars == <<disk, mem, pc, prompted, outcome, launches, spent, lost, unread>>

\* phase counts from 1.  prompt is 0 for the phase's own prompt, and otherwise
\* the record whose failures the continuation prompt reports.
FirstState == [phase |-> 1, iteration |-> 0, prompt |-> 0, history |-> <<>>, used |-> 0]

Init ==
  /\ disk = FirstState /\ mem = FirstState
  /\ pc = "down" /\ prompted = 0 /\ outcome = "none"
  /\ launches = 0 /\ spent = 0 /\ lost = 0 /\ unread = {}

----------------------------------------------------------------------------

Launch ==
  /\ pc = "down" /\ launches < MaxLaunches
  /\ launches' = launches + 1
  /\ mem' = disk
  /\ pc' = "top" /\ outcome' = "none"
  /\ UNCHANGED <<disk, prompted, spent, lost, unread>>

\* The process ends in order, or by an exception: Scaffold.run saves the state once more.
SaveAndEnd(state, how) ==
  /\ pc' = "down" /\ outcome' = how
  /\ mem' = state /\ disk' = state
  /\ UNCHANGED <<prompted, launches, spent, lost>>

Exit(state, how) == SaveAndEnd(state, how) /\ UNCHANGED unread

Finish == pc = "top" /\ mem.phase > Phases /\ Exit(mem, "completed")

StopForBudget == pc = "top" /\ mem.phase <= Phases /\ Exit(mem, "budget_exhausted")

StartIteration ==
  /\ pc = "top" /\ mem.phase <= Phases /\ Len(mem.history) < MaxRecords
  /\ mem' = [mem EXCEPT !.iteration = @ + 1]
  /\ prompted' = mem.prompt
  /\ pc' = "turn"
  /\ UNCHANGED <<disk, outcome, launches, spent, lost, unread>>

\* The phase's own prompt is read before the iteration is counted.
PromptMissing ==
  pc = "top" /\ mem.phase \in Unreadable /\ mem.prompt = 0 /\ Exit(mem, "failed")

Ended(passed, completed) ==
  Append(mem.history, [phase |-> mem.phase, iteration |-> mem.iteration,
                       completed |-> completed, passed |-> passed])

\* The phase has a limit and this iteration reached it.
Exhausted == MaxIterations[mem.phase] # 0 /\ mem.iteration >= MaxIterations[mem.phase]

\* Fault: the next prompt is not replaced.
Fault_Continued(history) == [mem EXCEPT !.history = history]

Continued(history) == [mem EXCEPT !.history = history, !.prompt = Len(history)]

\* Every gate passed: the next phase starts afresh.
Advance(history) ==
  /\ mem' = [mem EXCEPT !.history = history, !.phase = @ + 1, !.iteration = 0, !.prompt = 0]
  /\ disk' = mem'
  /\ pc' = "top"
  /\ UNCHANGED <<prompted, outcome, launches, spent, lost, unread>>

\* A failure with iterations left: the next prompt is written, and there may be
\* a pause before it is sent.
Continue(history) ==
  /\ mem' = Continued(history)
  /\ disk' = mem'
  /\ pc' = IF mem.phase \in Paused THEN "pause" ELSE "top"
  /\ UNCHANGED <<prompted, outcome, launches, spent, lost, unread>>

\* No failed gate brings a next prompt of its own, and the continuation prompt is missing: by
\* then the iteration is recorded, and it is not taken back.
ContinuationMissing(history) ==
  /\ mem.phase \in Unreadable
  /\ SaveAndEnd([mem EXCEPT !.history = history], "failed")
  /\ unread' = unread \cup {Len(history)}

\* The iteration is recorded and saved, and the loop goes on or ends.
Record(passed, completed) ==
  LET history == Ended(passed, completed)
  IN  IF passed THEN Advance(history)
      ELSE IF Exhausted THEN Exit([mem EXCEPT !.history = history], "iterations_exhausted")
      ELSE Continue(history) \/ ContinuationMissing(history)

\* The turn runs out of turns, or leaves delegates' work outstanding: no gates.
TurnUnfinished == pc = "turn" /\ Record(FALSE, FALSE)

TurnCompleted ==
  /\ pc = "turn"
  /\ IF mem.phase \in Gated
     THEN pc' = "gates" /\ UNCHANGED <<disk, mem, prompted, outcome, launches, spent, lost, unread>>
     ELSE Record(TRUE, TRUE)

GatesReport == pc = "gates" /\ \E passed \in BOOLEAN : Record(passed, TRUE)

\* Model calls of the orchestrator, its delegates and judges are booked at once.
Spend ==
  /\ pc \in {"turn", "gates"} /\ spent < 1 + Len(mem.history)
  /\ spent' = spent + 1
  /\ mem' = [mem EXCEPT !.used = @ + 1]
  /\ UNCHANGED <<disk, pc, prompted, outcome, launches, lost, unread>>

\* Fault: an interrupted iteration stays counted.
Fault_Interrupted == mem

\* An unfinished iteration is taken back, so that it reruns.
Interrupted == IF pc \in {"turn", "gates"} THEN [mem EXCEPT !.iteration = @ - 1] ELSE mem

Wake ==
  /\ pc = "pause" /\ pc' = "top"
  /\ UNCHANGED <<disk, mem, prompted, outcome, launches, spent, lost, unread>>

\* SIGTERM or SIGINT cancels whatever is awaited.
Stop == pc # "down" /\ Exit(Interrupted, "stopped")

\* The turn or a gate raises.
Fail == pc \in {"turn", "gates"} /\ Exit(Interrupted, "failed")

\* SIGKILL, power loss, or the kernel short of memory.
Kill ==
  /\ pc # "down"
  /\ pc' = "down" /\ outcome' = "killed"
  /\ lost' = lost + (mem.used - disk.used)
  /\ mem' = disk
  /\ UNCHANGED <<disk, prompted, launches, spent, unread>>

Step == Finish \/ StartIteration \/ TurnUnfinished \/ TurnCompleted \/ GatesReport \/ Wake

Next == Launch \/ StopForBudget \/ PromptMissing \/ Spend \/ Stop \/ Fail \/ Kill \/ Step

Spec == Init /\ [][Next]_vars

\* A running process goes on: turns, gates and pauses end.
FairSpec == Spec /\ WF_vars(Step)

----------------------------------------------------------------------------
(* Properties *)

Last(s) == s[Len(s)]

\* Every variable keeps its type, and the state on disk never counts an
\* iteration or a cost the running process does not know of.
TypeOK ==
  LET States == [phase : 1..Phases + 1, iteration : Nat, prompt : 0..MaxRecords,
                 history : Seq([phase : 1..Phases, iteration : Nat \ {0},
                                completed : BOOLEAN, passed : BOOLEAN]),
                 used : Nat]
  IN  /\ disk \in States /\ mem \in States
      /\ pc \in {"down", "top", "turn", "gates", "pause"}
      /\ disk.used <= mem.used /\ disk.iteration <= mem.iteration
      /\ prompted \in 0..MaxRecords
      /\ outcome \in {"none", "completed", "budget_exhausted", "iterations_exhausted",
                      "stopped", "failed", "killed"}
      /\ {launches, spent, lost} \subseteq Nat /\ unread \subseteq 1..MaxRecords

\* Where a state says the loop is: one past its last recorded iteration.
Place(state) ==
  IF state.history = <<>> THEN <<1, 0>>
  ELSE LET last == Last(state.history)
       IN  IF last.passed THEN <<last.phase + 1, 0>> ELSE <<last.phase, last.iteration>>

\* Whatever stops, kills and restarts a run, its history reads as one run: each
\* phase's iterations 1, 2, ... to the one that passed, phases in order, nothing
\* counted twice, and the saved position is where the history ends.
HistoryIsOneRun ==
  /\ Place(disk) = <<disk.phase, disk.iteration>>
  /\ \A i \in 1..Len(disk.history) :
       LET before == Place([disk EXCEPT !.history = SubSeq(@, 1, i - 1)])
       IN  <<disk.history[i].phase, disk.history[i].iteration>> = <<before[1], before[2] + 1>>

\* A phase is left only forward, on an iteration whose turn finished and whose
\* gates all passed, and no restart leads back.
PassesAreCompleted ==
  [][disk'.phase # disk.phase =>
       disk'.phase = disk.phase + 1 /\ Last(disk'.history).completed /\ Last(disk'.history).passed]_vars

\* A phase runs no more iterations than it may, except one for each time a run
\* that had exhausted them is started again.
IterationsBounded ==
  \A i \in 1..Len(disk.history) :
    LET r == disk.history[i]
    IN  MaxIterations[r.phase] # 0 => r.iteration < MaxIterations[r.phase] + launches

\* What a run has cost is on its books when a process ends in order, but for
\* what a killed process had not yet saved.
CostIsOnTheBooks ==
  pc = "down" /\ outcome # "none" => disk.used + lost = spent

\* The prompt the loop owes the running turn: the continuation that reports the
\* phase's last failure, and the phase's own prompt if there was none.
Owed ==
  IF mem.history # <<>> /\ ~Last(mem.history).passed THEN Len(mem.history) ELSE 0

\* A failing gate produces the next prompt, through any restart.
FailureIsPrompted == pc \in {"turn", "gates"} => prompted = Owed

\* The failures of the phase whose continuation prompts were written: all but those that used
\* up its iterations and those whose prompt could not be read.
Reported ==
  {i \in 1..Len(mem.history) \ unread :
     LET r == mem.history[i]
     IN  /\ r.phase = mem.phase /\ ~r.passed
         /\ MaxIterations[r.phase] = 0 \/ r.iteration < MaxIterations[r.phase]}

\* loop.py: through any stop, kill and restart a turn is prompted with the phase's last
\* failure for which a continuation was written, and with the phase's own prompt only if there
\* is none: the failures it is not told of are those that exhausted the phase, and those
\* whose continuation prompt could not be read.
ReportedFailureIsPrompted ==
  pc \in {"turn", "gates"} =>
    /\ prompted # 0 => prompted \in Reported
    /\ \A i \in Reported : i <= prompted

\* scaffold.py, loop.py: what a process leaves is what its run came to: the history reads as
\* one run, the costs are booked, and phases do not run more iterations than they may.
StateIsTrue == TypeOK /\ HistoryIsOneRun /\ CostIsOnTheBooks /\ IterationsBounded

\* A process ends if every phase is limited.
RunEnds == (\A p \in 1..Phases : MaxIterations[p] # 0) => (pc # "down" ~> pc = "down")
=============================================================================
