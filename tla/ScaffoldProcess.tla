--------------------------- MODULE ScaffoldProcess ---------------------------
(* One process of the SDK scaffold: `check`, `run` or `probe`, from its command line to *)
(* its exit code (cli.py), the observations it sends to Langfuse as it goes              *)
(* (telemetry.py), and what a stop signal does to the two: it cancels the main task,     *)
(* whose unwinding cancels the coding briefs, waits for them, ends the iteration's trace,*)
(* closes the servers, saves the state and flushes.  The delegates are those of a run    *)
(* with background coding; interactive ones outlive an iteration (see DelegateTasks).    *)
(* A kill only cuts a behaviour short.                                                   *)
EXTENDS Integers, Sequences

CONSTANTS
  Briefs,          \* the coding briefs an iteration may start
  MaxRounds,       \* bound: iterations of the loop
  MaxStops         \* bound: stop signals sent to the process

ASSUME ProcessAssumption == "trace" \notin Briefs /\ MaxRounds \in Nat \ {0}

VARIABLES
  command, traced,   \* the subcommand; whether the Langfuse keys are set
  point, raised,     \* where the main task is; what it is raising
  result,            \* what the loop, or the probe's replies, came to
  cancelling,        \* a stop signal has cancelled the main task, which has not resumed
  received,          \* the stop signals the handlers got
  iteration, task,   \* the loop's iteration, and the tasks of its briefs
  obs, sent,         \* the observations, and those the exporter has handed over
  attempts, exit     \* the probe's attempts to delete its directory; the exit code

processVars ==
  <<command, traced, point, raised, result, cancelling, received, iteration, task, obs, sent, attempts, exit>>
flow == <<point, raised, result, cancelling>>
traces == <<obs, sent>>
fixed == <<command, traced>>

SIGINT == 2
SIGTERM == 15
CleanUps == 6
Trace(i) == <<i, "trace">>
Observations == (1..MaxRounds) \X ({"trace"} \cup Briefs)
Over == {"ended", "failed", "stopped"}
Done == {b \in Briefs : task[b] \in {"none", "over"}}

ProcessInit ==
  /\ command \in {"check", "run", "probe"} /\ traced \in BOOLEAN
  /\ point = "starting" /\ raised = "none" /\ result = "none" /\ cancelling = FALSE /\ received = <<>>
  /\ iteration = 0 /\ task = [b \in Briefs |-> "none"]
  /\ obs = [o \in Observations |-> "none"] /\ sent = {} /\ attempts = 0 /\ exit = -1
-----------------------------------------------------------------------------
\* Telemetry: an observation is sent when it ends, so it ends once, as what it came to.
Begin(o) == obs' = [obs EXCEPT ![o] = IF traced THEN "open" ELSE @]
End(o, how) == obs' = [obs EXCEPT ![o] = IF @ = "open" THEN how ELSE @]
EndedBy(reason) == CASE reason = "none" -> "ended" [] reason = "cancelled" -> "stopped" [] OTHER -> "failed"

\* The exporter sends what has ended, in batches.
Finished == {o \in Observations : obs[o] \in Over}

Export ==
  /\ exit = -1 /\ sent # Finished
  /\ sent' = Finished
  /\ UNCHANGED <<fixed, flow, received, iteration, task, obs, attempts, exit>>

ExitWith(code) == point' = "exited" /\ exit' = code /\ UNCHANGED <<raised, result, cancelling>>
Goto(place) == point' = place /\ UNCHANGED <<raised, result, cancelling, exit>>
Raise(reason, place) == point' = place /\ raised' = reason /\ UNCHANGED <<result, exit>>

\* The drop-in is loaded and the scaffold assembled before the handlers are installed.
Start ==
  /\ point = "starting" /\ command # "probe"
  /\ \/ ExitWith(2)
     \/ command = "check" /\ ExitWith(0)
     \/ command = "run" /\ Goto("entering")
     \/ command = "run" /\ ExitWith(1)   \* the state cannot be saved
  /\ UNCHANGED <<fixed, received, iteration, task, traces, attempts>>

\* The loop's handler of SIGTERM and SIGINT, while an event loop runs; it does nothing
\* to a main task that is over.
Suspended == point \in {"entering", "loop", "turn", "gates", "leaving"} \/ (point = "unwinding" /\ Done # Briefs)

Signal ==
  /\ command = "run" /\ point \notin {"starting", "exited"} /\ Len(received) < MaxStops
  /\ \E signum \in {SIGTERM, SIGINT} : received' = Append(received, signum)
  /\ cancelling' = (cancelling \/ Suspended)
  /\ UNCHANGED <<fixed, point, raised, result, iteration, task, traces, attempts, exit>>

\* `async with self.runtime`: a server that cannot start, or lacks a tool, ends the run.
Enter ==
  /\ point = "entering" /\ ~cancelling
  /\ \/ Goto("loop")
     \/ \E reason \in {"config", "error"} : Raise(reason, "saving") /\ UNCHANGED cancelling
  /\ UNCHANGED <<fixed, received, iteration, task, traces, attempts>>

\* The loop ends, fails between iterations (a missing continuation prompt), or goes on.
LoopEnds ==
  /\ point = "loop" /\ ~cancelling
  /\ \/ \E status \in {"completed", "exhausted"} :
          point' = "leaving" /\ result' = status /\ UNCHANGED <<raised, cancelling, exit>>
     \/ \E reason \in {"config", "error"} : Raise(reason, "leaving") /\ UNCHANGED cancelling
  /\ UNCHANGED <<fixed, received, iteration, task, traces, attempts>>

Iterate ==
  /\ point = "loop" /\ ~cancelling /\ iteration < MaxRounds
  /\ iteration' = iteration + 1 /\ task' = [b \in Briefs |-> "none"]
  /\ Begin(Trace(iteration')) /\ Goto("turn")
  /\ UNCHANGED <<fixed, received, sent, attempts>>

\* The brief's task is created by its tool; it begins when it has a slot and its status.
StartBrief(b) ==
  /\ point = "turn" /\ ~cancelling /\ task[b] = "none"
  /\ task' = [task EXCEPT ![b] = "created"]
  /\ UNCHANGED <<fixed, flow, received, iteration, traces, attempts, exit>>

BeginBrief(b) ==
  /\ task[b] = "created"
  /\ task' = [task EXCEPT ![b] = "running"] /\ Begin(<<iteration, b>>)
  /\ UNCHANGED <<fixed, flow, received, iteration, sent, attempts, exit>>

FinishBrief(b) ==
  /\ task[b] = "running" /\ command = "run"
  /\ task' = [task EXCEPT ![b] = "over"]
  /\ \E how \in {"ended", "failed"} : End(<<iteration, b>>, how)
  /\ UNCHANGED <<fixed, flow, received, iteration, sent, attempts, exit>>

\* A cancelled brief closes its app server, whatever else is cancelled meanwhile; should
\* that fail, the failure takes the place of the cancellation.
EndCancelledBrief(b) ==
  /\ task[b] = "cancelled"
  /\ task' = [task EXCEPT ![b] = "over"]
  /\ \E how \in {"stopped", "failed"} : End(<<iteration, b>>, how)
  /\ UNCHANGED <<fixed, flow, received, iteration, sent, attempts, exit>>

\* The turn ends when the briefs it started are over; the gates come next.
TurnEnds ==
  /\ point = "turn" /\ ~cancelling /\ Done = Briefs
  /\ Goto("gates")
  /\ UNCHANGED <<fixed, received, iteration, task, traces, attempts>>

IterationEnds ==
  /\ point = "gates" /\ ~cancelling
  /\ End(Trace(iteration), "ended") /\ Goto("loop")
  /\ UNCHANGED <<fixed, received, iteration, task, sent, attempts>>
-----------------------------------------------------------------------------
\* What the main task raises: the cancellation of a stop signal, or an error.
Thrown(reason) == IF cancelling THEN reason = "cancelled" ELSE reason \in {"config", "error"}

\* run's except: the briefs that are not done are cancelled, and waited for.
IterationFails ==
  /\ point \in {"turn", "gates"}
  /\ \E reason \in {"cancelled", "config", "error"} : Thrown(reason) /\ Raise(reason, "unwinding")
  /\ cancelling' = FALSE
  /\ task' = [b \in Briefs |-> CASE task[b] = "running" -> "cancelled" [] task[b] = "created" -> "over" [] OTHER -> task[b]]
  /\ UNCHANGED <<fixed, received, iteration, traces, attempts>>

Fault_WaitIsOver == TRUE   \* the cancelled briefs are not waited for
WaitIsOver == Done = Briefs
Reason == IF cancelling THEN "cancelled" ELSE raised

\* A further signal cannot cut the wait short: the gather is cancelled with its children.
Unwind ==
  /\ point = "unwinding" /\ WaitIsOver
  /\ End(Trace(iteration), EndedBy(Reason))
  /\ Raise(Reason, "leaving") /\ cancelling' = FALSE
  /\ UNCHANGED <<fixed, received, iteration, task, sent, attempts>>

\* Outside an iteration no observation is open.
Cancelled ==
  /\ cancelling /\ point \in {"entering", "loop"}
  /\ Raise("cancelled", IF point = "entering" THEN "saving" ELSE "leaving") /\ cancelling' = FALSE
  /\ UNCHANGED <<fixed, received, iteration, task, traces, attempts>>

\* __aexit__ closes the servers, which may fail, or be cancelled.
Leave ==
  /\ point = "leaving"
  /\ \E reason \in {Reason, "error"} : Raise(reason, "saving")
  /\ cancelling' = FALSE
  /\ UNCHANGED <<fixed, received, iteration, task, traces, attempts>>

Save ==
  /\ point = "saving"
  /\ \E reason \in {raised, "error"} : Raise(reason, "flushing") /\ UNCHANGED cancelling
  /\ UNCHANGED <<fixed, received, iteration, task, traces, attempts>>

ExitCode ==
  CASE raised = "config" -> 2
    [] raised = "cancelled" -> 128 + received[1]
    [] raised = "error" -> 1
    [] OTHER -> IF result \in {"completed", "answered"} THEN 0 ELSE IF result = "exhausted" THEN 3 ELSE 1

\* client.flush() waits for the exporter.
Flush ==
  /\ point = "flushing" /\ sent = Finished
  /\ ExitWith(ExitCode)
  /\ UNCHANGED <<fixed, received, iteration, task, traces, attempts>>
-----------------------------------------------------------------------------
\* `probe`: without keys, or with keys Langfuse refuses, it fails before it asks anyone.
StartProbe ==
  /\ point = "starting" /\ command = "probe"
  /\ \/ ExitWith(2) /\ UNCHANGED <<iteration, obs>>
     \/ ExitWith(1) /\ UNCHANGED <<iteration, obs>>
     \/ traced /\ Goto("probing") /\ iteration' = 1 /\ Begin(Trace(1))
  /\ UNCHANGED <<fixed, received, task, sent, attempts>>

Answered(reply) == IF result = "wrong" THEN "wrong" ELSE reply

\* The model replies; the coding agent asked for is probed next, in a directory of its own.
ProbeModel ==
  /\ point = "probing" /\ result = "none"
  /\ \E reply \in {"answered", "wrong"} : result' = reply
  /\ \/ point' = "probed" /\ UNCHANGED <<task, obs>>
     \/ \E b \in Briefs : point' = "agent" /\ task' = [task EXCEPT ![b] = "running"] /\ Begin(<<1, b>>)
  /\ UNCHANGED <<fixed, raised, cancelling, received, iteration, sent, attempts, exit>>

\* asyncio.run's own handler cancels the probe at SIGINT.
SignalProbe == /\ Len(received) < MaxStops /\ received' = Append(received, SIGINT)

ProbeFails ==
  /\ point = "probing"
  /\ \/ SignalProbe /\ Raise("cancelled", "probed")
     \/ \E reason \in {"config", "error"} : Raise(reason, "probed") /\ UNCHANGED received
  /\ UNCHANGED <<fixed, cancelling, iteration, task, traces, attempts>>

\* The agent's generation ends before its directory is deleted.
ProbeAgent ==
  /\ point = "agent" /\ point' = "cleaning"
  /\ \/ \E reply \in {"answered", "wrong"} : result' = Answered(reply) /\ UNCHANGED <<raised, received>>
     \/ SignalProbe /\ raised' = "cancelled" /\ UNCHANGED result
     \/ raised' = "error" /\ UNCHANGED <<result, received>>
  /\ task' = [b \in Briefs |-> IF task[b] = "running" THEN "over" ELSE task[b]]
  /\ \E b \in Briefs : task[b] = "running" /\ End(<<1, b>>, EndedBy(raised'))
  /\ UNCHANGED <<fixed, cancelling, iteration, sent, attempts, exit>>

\* Deleted, or not: a directory the agent still writes to is tried again, six times at most.
CleanUp ==
  /\ point = "cleaning"
  /\ \/ Goto("probed") /\ UNCHANGED <<received, attempts>>
     \/ Raise("error", "probed") /\ UNCHANGED <<cancelling, received, attempts>>
     \/ /\ attempts + 1 < CleanUps /\ attempts' = attempts + 1
        /\ \/ UNCHANGED <<flow, received, exit>>
           \/ SignalProbe /\ Raise("cancelled", "probed") /\ UNCHANGED cancelling
  /\ UNCHANGED <<fixed, iteration, task, traces>>

ProbeEnds ==
  /\ point = "probed"
  /\ End(Trace(1), EndedBy(raised)) /\ Goto("flushing")
  /\ UNCHANGED <<fixed, received, iteration, task, sent, attempts>>
-----------------------------------------------------------------------------
BriefStep == \E b \in Briefs : StartBrief(b) \/ BeginBrief(b) \/ FinishBrief(b) \/ EndCancelledBrief(b)
Unwinding == IterationFails \/ Unwind \/ Cancelled \/ Leave \/ Save \/ Flush
Probe == StartProbe \/ ProbeModel \/ ProbeFails \/ ProbeAgent \/ CleanUp \/ ProbeEnds

ProcessNext ==
  \/ Start \/ Signal \/ Enter \/ LoopEnds \/ Iterate \/ BriefStep \/ TurnEnds \/ IterationEnds
  \/ Unwinding \/ Probe \/ Export

\* A cancelled task resumes, a cancelled brief closes its server, the exporter delivers.
\* Nothing makes a turn or an agent end by itself.
Stopping ==
  \/ cancelling /\ IterationFails
  \/ Unwind \/ Cancelled \/ Leave \/ Save \/ Flush \/ Export
  \/ \E b \in Briefs : EndCancelledBrief(b)

ProcessSpec == ProcessInit /\ [][ProcessNext]_processVars
ProcessFairness == WF_processVars(Stopping)
-----------------------------------------------------------------------------
ProcessTypeOK ==
  /\ command \in {"check", "run", "probe"} /\ traced \in BOOLEAN /\ cancelling \in BOOLEAN
  /\ raised \in {"none", "cancelled", "config", "error"} /\ iteration \in 0..MaxRounds
  /\ task \in [Briefs -> {"none", "created", "running", "cancelled", "over"}]
  /\ obs \in [Observations -> {"none", "open"} \cup Over] /\ sent \subseteq Observations /\ exit \in -1..143

\* design.md:99-106, telemetry.py: a process that ends by itself has sent every observation it
\* made, and its exit code is the first stop signal's only if there was one; an
\* observation marked as stopped is one the process stopped for, never one it completed.
StopsAreMarked ==
  /\ exit # -1 => sent = {o \in Observations : obs[o] # "none"} /\ sent = Finished
  /\ exit >= 128 => received # <<>> /\ exit = 128 + received[1]
  /\ exit \in {0, 3} => \A o \in Observations : obs[o] # "stopped"
  /\ \A i \in 1..MaxRounds : obs[Trace(i)] = "stopped" => received # <<>>

\* telemetry.py:59-61: an observation is sent as it ended, what was sent stays so, and
\* the briefs of an iteration end before its trace does.
ObservationsHold ==
  [][/\ sent \subseteq sent' /\ \A o \in Observations : obs[o] \in Over => obs'[o] = obs[o]
     /\ \A i \in 1..MaxRounds, b \in Briefs : obs'[<<i, b>>] = "open" => obs'[Trace(i)] = "open"]_processVars

StopsAreTold == []StopsAreMarked /\ ObservationsHold

\* until_stopped: a stop signal that reaches the main task ends the process.
StopEnds == cancelling ~> exit # -1
=============================================================================
