---------------------------- MODULE CodingBriefs ----------------------------
(***************************************************************************)
(* Background coding briefs (agent_runtimes/openai_agents_sdk.py): a call  *)
(* starts a brief and another one collects it, one brief per coding agent  *)
(* for all the callers in a turn; the end of the turn collects what is     *)
(* left, and an error or a cancellation of the turn stops what runs.  The  *)
(* workers and the agents that call are external.                          *)
(***************************************************************************)
EXTENDS Naturals, Sequences, FiniteSets

CONSTANTS
  Names,       \* coding agents
  Callers,     \* agents that call them: the PI and its delegates
  MaxBriefs,   \* bound: briefs of an agent
  MaxStops     \* bound: errors and cancellations of a turn

None == 0
BriefIds == Names \X (1..MaxBriefs)

ASSUME BriefAssumption == MaxBriefs \in Nat

VARIABLES
  turn,       \* idle (between turns), running, ending, failing
  worker,     \* of each brief: none, running, stopping, then done, failed or cancelled
  task,       \* _coding_tasks: the brief of each agent
  stopped,    \* _coding_cancelled: the cancelled brief of each agent
  waiting,    \* the brief whose end each caller waits for
  left,       \* agents the end of the turn has yet to collect from
  remaining,  \* the reports it collected
  awaited,    \* workers whose end a failing turn waits for
  reports,    \* what callers and the session were told: <<brief, what>>
  dropped,    \* briefs collected by an end of a turn that was interrupted
  stops, twice   \* errors and cancellations so far; whether a cancellation came while workers were being stopped

briefVars == <<turn, worker, task, stopped, waiting, left, remaining, awaited, reports, dropped, stops, twice>>
ended == <<left, remaining, awaited, dropped, stops, twice>>

Nobody == [n \in Names |-> None]
NoBrief == <<>>

BriefInit ==
  /\ turn = "idle" /\ worker = [b \in BriefIds |-> "none"]
  /\ task = Nobody /\ stopped = Nobody /\ waiting = [c \in Callers |-> NoBrief]
  /\ left = {} /\ remaining = {} /\ awaited = {} /\ reports = {} /\ dropped = {}
  /\ stops = 0 /\ twice = FALSE

Active(b) == worker[b] \in {"running", "stopping"}
IsDone(b) == worker[b] \in {"done", "failed", "cancelled"}

BeginTurn ==
  /\ turn = "idle" /\ turn' = "running"
  /\ UNCHANGED <<worker, task, stopped, waiting, reports, ended>>

\* A worker ends; one that is stopping has yet to clean up.
Work(b) ==
  /\ Active(b)
  /\ worker' = [worker EXCEPT ![b] = IF @ = "running" THEN "done" ELSE "cancelled"]
  /\ UNCHANGED <<turn, task, stopped, waiting, reports, ended>>

Fail(b) ==
  /\ worker[b] = "running" /\ worker' = [worker EXCEPT ![b] = "failed"]
  /\ UNCHANGED <<turn, task, stopped, waiting, reports, ended>>

----------------------------------------------------------------------------
(* The tools of a coding agent *)

Free(c) == turn = "running" /\ waiting[c] = NoBrief

MayStart(n) == task[n] = None

Started(n) == Cardinality({k \in 1..MaxBriefs : worker[<<n, k>>] # "none"})

\* The start tells of a brief that was cancelled before.
Previous(n) == {<<<<n, stopped[n]>>, "cancelled">> : k \in {stopped[n]} \ {None}}

StartBrief(c, n) ==
  /\ Free(c) /\ MayStart(n) /\ Started(n) < MaxBriefs
  /\ worker' = [worker EXCEPT ![<<n, Started(n) + 1>>] = "running"]
  /\ task' = [task EXCEPT ![n] = Started(n) + 1]
  /\ reports' = reports \cup Previous(n)
  /\ stopped' = [stopped EXCEPT ![n] = None]
  /\ UNCHANGED <<turn, waiting, ended>>

\* Another caller may have collected the brief and started the next one.
Collected(b) == IF task[b[1]] = b[2] THEN None ELSE task[b[1]]

\* What _coding_result returns of a brief that has ended.
Outcome(b) == {<<b, worker[b]>>}

Collect(b) == task' = [task EXCEPT ![b[1]] = Collected(b)] /\ UNCHANGED stopped

\* Nothing to collect, or a cancelled brief to tell of.
ResultOfNone(c, n) ==
  /\ Free(c) /\ task[n] = None /\ stopped[n] # None
  /\ reports' = reports \cup {<<<<n, stopped[n]>>, "cancelled">>}
  /\ stopped' = [stopped EXCEPT ![n] = None]
  /\ UNCHANGED <<turn, worker, task, waiting, ended>>

Result(c, n) ==
  LET b == <<n, task[n]>>
  IN  /\ Free(c) /\ task[n] # None /\ IsDone(b)
      /\ Collect(b) /\ reports' = reports \cup Outcome(b)
      /\ UNCHANGED <<turn, worker, waiting, ended>>

\* With wait, the call sleeps until the brief ends or the time is up, and then until
\* it has its caller's slot again.
Wait(c, n) ==
  /\ Free(c) /\ task[n] # None /\ ~IsDone(<<n, task[n]>>)
  /\ waiting' = [waiting EXCEPT ![c] = <<n, task[n]>>]
  /\ UNCHANGED <<turn, worker, task, stopped, reports, ended>>

WaitReturns(c) ==
  LET b == waiting[c]
  IN  /\ b # NoBrief /\ turn = "running"
      /\ waiting' = [waiting EXCEPT ![c] = NoBrief]
      /\ IF IsDone(b)
         THEN Collect(b) /\ reports' = reports \cup Outcome(b)
         ELSE UNCHANGED <<task, stopped, reports>>
      /\ UNCHANGED <<turn, worker, ended>>

----------------------------------------------------------------------------
(* OpenAIAgentsRuntime.run after the PI has answered *)

EndTurn ==
  /\ turn = "running" /\ \A c \in Callers : waiting[c] = NoBrief
  /\ turn' = "ending" /\ left' = {n \in Names : task[n] # None}
  /\ UNCHANGED <<worker, task, stopped, waiting, remaining, awaited, reports, dropped, stops, twice>>

Ready(b) == IsDone(b)

CollectLeft(n) ==
  LET b == <<n, task[n]>>
  IN  /\ turn = "ending" /\ n \in left /\ Ready(b)
      /\ left' = left \ {n} /\ remaining' = remaining \cup Outcome(b)
      /\ Collect(b)
      /\ UNCHANGED <<turn, worker, waiting, awaited, reports, dropped, stops, twice>>

\* The reports are added to the session and to the output.
Return ==
  /\ turn = "ending" /\ left = {}
  /\ turn' = "idle" /\ reports' = reports \cup remaining /\ remaining' = {}
  /\ UNCHANGED <<worker, task, stopped, waiting, left, awaited, dropped, stops, twice>>

\* Fault: the tasks are cancelled and not awaited.
Fault_Awaited(running) == {}

Awaited(running) == running

\* The turn fails or is cancelled, with its callers: _cancel_coding.
Interrupt ==
  /\ turn \in {"running", "ending"} /\ stops < MaxStops /\ stops' = stops + 1
  /\ LET running == {b \in BriefIds : task[b[1]] = b[2] /\ worker[b] = "running"}
         names == {b[1] : b \in running}
     IN  /\ worker' = [b \in BriefIds |-> IF b \in running THEN "stopping" ELSE worker[b]]
         /\ stopped' = [n \in Names |-> IF n \in names THEN task[n] ELSE stopped[n]]
         /\ task' = [n \in Names |-> IF n \in names THEN None ELSE task[n]]
         /\ awaited' = Awaited(running)
  /\ turn' = "failing" /\ waiting' = [c \in Callers |-> NoBrief]
  /\ left' = {} /\ remaining' = {} /\ dropped' = dropped \cup {r[1] : r \in remaining}
  /\ UNCHANGED <<reports, twice>>

\* The error goes on once the workers have stopped ...
Raise ==
  /\ turn = "failing" /\ \A b \in awaited : IsDone(b)
  /\ turn' = "idle" /\ awaited' = {}
  /\ UNCHANGED <<worker, task, stopped, waiting, left, remaining, reports, dropped, stops, twice>>

\* ... or at once, when a second cancellation comes while they do.
InterruptAgain ==
  /\ turn = "failing" /\ stops < MaxStops /\ stops' = stops + 1
  /\ twice' = (twice \/ \E b \in awaited : ~IsDone(b))
  /\ turn' = "idle" /\ awaited' = {}
  /\ UNCHANGED <<worker, task, stopped, waiting, left, remaining, reports, dropped>>

BriefNext ==
  \/ BeginTurn \/ EndTurn \/ Return \/ Interrupt \/ Raise \/ InterruptAgain
  \/ \E b \in BriefIds : Work(b) \/ Fail(b)
  \/ \E c \in Callers : WaitReturns(c)
  \/ \E c \in Callers, n \in Names : StartBrief(c, n) \/ ResultOfNone(c, n) \/ Result(c, n) \/ Wait(c, n)
  \/ \E n \in Names : CollectLeft(n)

BriefSpec == BriefInit /\ [][BriefNext]_briefVars

----------------------------------------------------------------------------
(* Properties *)

\* An agent never works on two briefs at a time, and nobody works on the workspace
\* when a turn has returned or raised, so that its gates and the saved state see
\* finished work; the exception is a turn cancelled again while it stopped them.
NobodyWorksUnseen ==
  /\ turn = "idle" => twice \/ \A b \in BriefIds : ~Active(b)
  /\ \A n \in Names : Cardinality({k \in 1..MaxBriefs : Active(<<n, k>>)}) <= 1 \/ twice

\* Each brief that has ended, or was told to, is told of or can still be asked for,
\* also when several callers wait for it and one starts the next; the exception is
\* a report that the end of the turn had collected when it was interrupted.
NoOutcomeIsLost ==
  \A b \in BriefIds :
    IsDone(b) \/ worker[b] = "stopping" =>
      \/ b[2] \in {task[b[1]], stopped[b[1]]}
      \/ \E r \in reports \cup remaining : r[1] = b
      \/ b \in dropped

\* What is told of a brief is what became of it: nobody is told that a worker was
\* stopped that had finished, nor handed the result of one that goes on; a worker
\* told to be stopped may only still be at it if the turn was cancelled twice.
ReportsAreTrue ==
  \A r \in reports \cup remaining : worker[r[1]] = r[2] \/ (twice /\ worker[r[1]] = "stopping")

\* openai_agents_sdk.py: whoever starts, collects or stops them, briefs are worked on one at
\* a time and never behind a turn's back, and what became of each is told, truly.
BriefsAreAccountedFor == NobodyWorksUnseen /\ NoOutcomeIsLost /\ ReportsAreTrue
=============================================================================
