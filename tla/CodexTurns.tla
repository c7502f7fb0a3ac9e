----------------------------- MODULE CodexTurns -----------------------------
(***************************************************************************)
(* Running a brief on Codex (CodexCodingAgent.execute and CodingAgent.run, *)
(* coding_agents.py): turns of one native thread until one ends without a  *)
(* transient error, a task that reads the turn's events, and a way out     *)
(* that stops the turn and closes the client whatever is cancelled.  The   *)
(* agent's object, with the usage it reported, is shared by its briefs.    *)
(* The Codex app-server is external.                                       *)
(***************************************************************************)
EXTENDS Naturals, FiniteSets

CONSTANTS
  Briefs,
  Parallel,    \* whether briefs of the agent may overlap
  Retries,     \* turn_retries
  MaxUsage, MaxCancels  \* bounds: usage of a thread, cancellations

VARIABLES
  reported,  \* _reported_usage of the agent's object
  pc,        \* where each execute is
  known,     \* whether it holds a turn
  reading,   \* its task that reads events: none, on, done, cut
  attempts,
  result,    \* how it is going to end: returned or raised
  native,    \* the turn in the app-server: none, running, ended, killed
  status,    \* how that turn ended: completed, transient, fatal, interrupted
  spent,     \* usage of the thread
  seen,      \* the largest snapshot of it that was read
  latest,    \* usage as execute knows it
  booked,
  excused,   \* briefs of which the stream broke or the turn did not stop in time
  cancels

vars == <<reported, pc, known, reading, attempts, result, native, status, spent, seen, latest, booked,
          excused, cancels>>
server == <<native, status, spent>>
usage == <<reported, seen, latest, booked>>

Zero == [b \in Briefs |-> 0]

Init ==
  /\ reported = 0 /\ pc = [b \in Briefs |-> "new"] /\ known = [b \in Briefs |-> FALSE]
  /\ reading = [b \in Briefs |-> "none"] /\ attempts = Zero /\ result = [b \in Briefs |-> "none"]
  /\ native = [b \in Briefs |-> "none"] /\ status = [b \in Briefs |-> "none"]
  /\ spent = Zero /\ seen = Zero /\ latest = Zero /\ booked = Zero
  /\ excused = {} /\ cancels = 0

Goto(b, place) == pc' = [pc EXCEPT ![b] = place]

----------------------------------------------------------------------------
(* The app-server *)

Accept(b) ==
  /\ pc[b] = "asking" /\ native[b] = "none"
  /\ native' = [native EXCEPT ![b] = "running"]
  /\ UNCHANGED <<usage, pc, known, reading, attempts, result, status, spent, excused, cancels>>

Spend(b) ==
  /\ native[b] = "running" /\ spent[b] < MaxUsage
  /\ spent' = [spent EXCEPT ![b] = @ + 1]
  /\ UNCHANGED <<usage, pc, known, reading, attempts, result, native, status, excused, cancels>>

TurnEnds(b) ==
  /\ native[b] = "running" /\ native' = [native EXCEPT ![b] = "ended"]
  /\ \E how \in {"completed", "transient", "fatal"} \cup (IF pc[b] = "stopping" THEN {"interrupted"} ELSE {}) :
       status' = [status EXCEPT ![b] = how]
  /\ UNCHANGED <<usage, pc, known, reading, attempts, result, spent, excused, cancels>>

----------------------------------------------------------------------------
(* report_usage *)

\* A repeated or stale snapshot adds nothing.
Increment(b, total) == IF total > reported THEN total - reported ELSE 0

ReportUsage(b, total) ==
  /\ booked' = [booked EXCEPT ![b] = @ + Increment(b, total)]
  /\ reported' = reported + Increment(b, total)

----------------------------------------------------------------------------
(* execute *)

\* Usage of a new thread starts at nothing.
Before(b) == 0

Start(b) ==
  /\ pc[b] = "new" /\ (Parallel \/ \A c \in Briefs : pc[c] \in {"new", "closed"})
  /\ Goto(b, "opening") /\ reported' = Before(b)
  /\ UNCHANGED <<known, reading, attempts, result, server, seen, latest, booked, excused, cancels>>

\* The client starts, logs in and starts the thread.
Open(b) ==
  /\ pc[b] = "opening" /\ Goto(b, "asking")
  /\ UNCHANGED <<usage, known, reading, attempts, result, server, excused, cancels>>

Ask(b) ==
  /\ pc[b] = "asking" /\ native[b] = "running" /\ Goto(b, "streaming")
  /\ known' = [known EXCEPT ![b] = TRUE] /\ reading' = [reading EXCEPT ![b] = "on"]
  /\ attempts' = [attempts EXCEPT ![b] = @ + 1]
  /\ UNCHANGED <<usage, result, server, excused, cancels>>

\* A call to the app-server fails.
Refused(b) ==
  /\ pc[b] = "opening" \/ (pc[b] = "asking" /\ native[b] = "none")
  /\ Goto(b, "closing") /\ result' = [result EXCEPT ![b] = "raised"]
  /\ UNCHANGED <<usage, known, reading, attempts, server, excused, cancels>>

\* The events arrive in their order, and a snapshot may repeat an earlier one.
ReadUsage(b) ==
  /\ reading[b] = "on"
  /\ \E total \in 1..spent[b] :
       /\ ReportUsage(b, total)
       /\ seen' = [seen EXCEPT ![b] = IF total > @ THEN total ELSE @]
  /\ latest' = [latest EXCEPT ![b] = reported']
  /\ UNCHANGED <<pc, known, reading, attempts, result, server, excused, cancels>>

ReadEnd(b) ==
  /\ reading[b] = "on" /\ native[b] = "ended" /\ seen[b] = spent[b]
  /\ reading' = [reading EXCEPT ![b] = "done"]
  /\ UNCHANGED <<usage, pc, known, attempts, result, server, excused, cancels>>

StreamBreaks(b) ==
  /\ reading[b] = "on" /\ pc[b] = "streaming"
  /\ reading' = [reading EXCEPT ![b] = "cut"] /\ excused' = excused \cup {b}
  /\ Goto(b, "closing") /\ result' = [result EXCEPT ![b] = "raised"]
  /\ UNCHANGED <<usage, known, attempts, server, cancels>>

Settle(b) ==
  /\ pc[b] = "streaming" /\ reading[b] = "done"
  /\ IF status[b] = "transient" /\ attempts[b] <= Retries
     THEN /\ Goto(b, "sleeping") /\ known' = [known EXCEPT ![b] = FALSE]
          /\ native' = [native EXCEPT ![b] = "none"] /\ UNCHANGED result
     ELSE /\ Goto(b, "closing") /\ result' = [result EXCEPT ![b] = "returned"]
          /\ UNCHANGED <<known, native>>
  /\ UNCHANGED <<usage, reading, attempts, status, spent, excused, cancels>>

Wake(b) ==
  /\ pc[b] = "sleeping" /\ Goto(b, "asking")
  /\ UNCHANGED <<usage, known, reading, attempts, result, server, excused, cancels>>

\* Fault: the client is closed at once.
Fault_WayOut(b) == "closing"

\* A turn that is held is asked to stop.
WayOut(b) == IF known[b] THEN "stopping" ELSE "closing"

Cancel(b) ==
  /\ pc[b] \in {"opening", "asking", "streaming", "sleeping"} /\ cancels < MaxCancels
  /\ cancels' = cancels + 1
  /\ Goto(b, WayOut(b)) /\ result' = [result EXCEPT ![b] = "raised"]
  /\ UNCHANGED <<usage, known, reading, attempts, server, excused>>

\* uninterrupted() goes on.
After(b) == pc[b]

CancelAgain(b) ==
  /\ pc[b] \in {"stopping", "closing"} /\ cancels < MaxCancels
  /\ cancels' = cancels + 1
  /\ Goto(b, After(b)) /\ result' = [result EXCEPT ![b] = "raised"]
  /\ UNCHANGED <<usage, known, reading, attempts, server, excused>>

\* The turn's events were read to its end.
Stopped(b) ==
  /\ pc[b] = "stopping" /\ reading[b] # "on" /\ Goto(b, "closing")
  /\ UNCHANGED <<usage, known, reading, attempts, result, server, excused, cancels>>

\* Fault: stop_turn waits as long as it takes.
Fault_GivesUp(b) == FALSE

GivesUp(b) == pc[b] = "stopping"

\* The interrupt failed, or five seconds are over and the reading task is cancelled.
StopTimeout(b) ==
  /\ GivesUp(b) /\ reading[b] = "on" /\ Goto(b, "closing")
  /\ reading' = [reading EXCEPT ![b] = "cut"] /\ excused' = excused \cup {b}
  /\ UNCHANGED <<usage, known, attempts, result, server, cancels>>

\* The client ends with the app-server; run books the result's usage.
Close(b) ==
  /\ pc[b] = "closing" /\ Goto(b, "closed")
  /\ reading' = [reading EXCEPT ![b] = IF @ = "on" THEN "cut" ELSE @]
  /\ native' = [native EXCEPT ![b] = IF @ = "running" THEN "killed" ELSE @]
  /\ IF result[b] = "returned" THEN ReportUsage(b, latest[b]) ELSE UNCHANGED <<booked, reported>>
  /\ UNCHANGED <<known, attempts, result, status, spent, seen, latest, excused, cancels>>

App(b) == Accept(b) \/ Spend(b) \/ TurnEnds(b)

Execute(b) ==
  \/ Start(b) \/ Open(b) \/ Ask(b) \/ Refused(b) \/ ReadUsage(b) \/ ReadEnd(b) \/ StreamBreaks(b)
  \/ Settle(b) \/ Wake(b) \/ Cancel(b) \/ CancelAgain(b) \/ Stopped(b) \/ StopTimeout(b) \/ Close(b)

Next == \E b \in Briefs : App(b) \/ Execute(b)

\* The event loop runs what it can, whatever the app-server does.
Fairness == \A b \in Briefs : WF_vars(Stopped(b) \/ StopTimeout(b)) /\ WF_vars(Close(b))

Spec == Init /\ [][Next]_vars /\ Fairness

----------------------------------------------------------------------------
(* Properties *)

\* Usage is booked once, as the thread counts it: retried turns, repeated snapshots
\* and the final summary add nothing to it, a cancelled brief keeps what it booked,
\* and a brief that returns has booked everything, completed or failed.
UsageIsBookedOnce ==
  \A b \in Briefs :
    /\ booked[b] <= spent[b]
    /\ pc[b] = "closed" /\ result[b] = "returned" => booked[b] = spent[b]

\* No turn works on behind a brief that is over, and a turn is only killed when it
\* did not stop in time, its stream broke, or the cancellation came before its
\* start was acknowledged: whenever the cancellations come, it was asked to stop.
NoTurnOutlivesItsBrief ==
  \A b \in Briefs : pc[b] = "closed" =>
    /\ native[b] # "running" /\ reading[b] # "on"
    /\ native[b] = "killed" => b \in excused \/ ~known[b]

\* A cancelled brief ends, whether or not the app-server answers.
CancelledBriefsEnd == \A b \in Briefs : result[b] = "raised" ~> pc[b] = "closed"

\* coding_agents.py: whatever was retried or cancelled, usage is booked once and no
\* turn goes on behind the back of the brief that started it.
TurnsAreAccountedFor == UsageIsBookedOnce /\ NoTurnOutlivesItsBrief
=============================================================================
