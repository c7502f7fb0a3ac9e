------------------------------ MODULE Workbench -------------------------------
(***************************************************************************)
(* The tools with which agents work and wait (crux_scaffold/workspace.py,  *)
(* tools.py): shell commands with a timeout, fixed commands, background    *)
(* jobs and rests, called in parallel by one event loop, which a fixed     *)
(* command blocks.  A command's processes are external: bash may start a   *)
(* child that shares its pipe, one that does not, and one that leaves its  *)
(* process group with the pipe.                                            *)
(***************************************************************************)
EXTENDS Naturals, FiniteSets

CONSTANTS
  Calls,      \* tool calls; each is made at most once
  MaxOutput,  \* bound: chunks a command prints
  Total, MinRest, MaxRest,  \* the options of the one rest tool
  Asked       \* what a rest may be asked for

\* configuration: rests are whole seconds, and none is longer than the longest.
RestAssumption ==
  /\ IsFiniteSet(Calls) /\ {Total, MinRest, MaxRest} \subseteq Nat /\ MinRest <= MaxRest
  /\ Asked \subseteq Nat /\ MaxOutput \in Nat /\ "none" \notin Calls

None == "none"
Group == {"bash", "child", "quiet"}       \* what killpg reaches
Holders == {"bash", "child", "escapee"}   \* what holds the pipe open

VARIABLES
  kind,     \* "shell", "command", "job" or "rest" of a call
  stage,    \* idle, collect, drain (after the kill), rest, done
  how,      \* how a call ended or is to end
  alive,    \* the processes of each call's command
  printed,  \* chunks its command printed into the pipe
  got,      \* those the call has read
  blocking, \* the call that blocks the event loop
  granted,  \* seconds of each rest
  used,     \* used_seconds of the rest tool
  overlaps  \* rests that were granted while others were resting

processes == <<alive, printed>>
resting == <<granted, used, overlaps>>
toolVars == <<kind, stage, how, processes, got, blocking, resting>>

ToolsInit ==
  /\ kind = [c \in Calls |-> None] /\ stage = [c \in Calls |-> "idle"] /\ how = [c \in Calls |-> None]
  /\ alive = [c \in Calls |-> {}] /\ printed = [c \in Calls |-> 0] /\ got = [c \in Calls |-> 0]
  /\ blocking = None /\ granted = [c \in Calls |-> 0] /\ used = 0 /\ overlaps = 0

----------------------------------------------------------------------------
(* The processes of a command *)

Fork(c, p) ==
  /\ "bash" \in alive[c] /\ p \notin alive[c] /\ kind[c] # "job"
  /\ alive' = [alive EXCEPT ![c] = @ \cup {p}]
  /\ UNCHANGED <<kind, stage, how, printed, got, blocking, resting>>

ProcessExits(c, p) ==
  /\ p \in alive[c] /\ alive' = [alive EXCEPT ![c] = @ \ {p}]
  /\ UNCHANGED <<kind, stage, how, printed, got, blocking, resting>>

PrintOutput(c) ==
  /\ alive[c] \cap Holders # {} /\ kind[c] # "job" /\ printed[c] < MaxOutput
  /\ printed' = [printed EXCEPT ![c] = @ + 1]
  /\ UNCHANGED <<kind, stage, how, alive, got, blocking, resting>>

----------------------------------------------------------------------------
(* The event loop, unless a fixed command keeps it *)

Runs(c) == blocking \in {None, c}

Call(c, k, s) ==
  /\ blocking = None /\ stage[c] = "idle"
  /\ kind' = [kind EXCEPT ![c] = k] /\ stage' = [stage EXCEPT ![c] = s]

\* run_shell_async, and run_shell, which waits without an await.
StartCommand(c, k) ==
  /\ Call(c, k, "collect") /\ k \in {"shell", "command"}
  /\ alive' = [alive EXCEPT ![c] = {"bash"}]
  /\ blocking' = IF k = "command" THEN c ELSE None
  /\ UNCHANGED <<how, printed, got, resting>>

\* run_background: the job writes to its log and is nobody's to wait for.
StartJob(c) ==
  /\ Call(c, "job", "done") /\ how' = [how EXCEPT ![c] = "started"]
  /\ alive' = [alive EXCEPT ![c] = {"bash"}]
  /\ UNCHANGED <<printed, got, blocking, resting>>

Answer(c, outcome) ==
  /\ stage' = [stage EXCEPT ![c] = "done"] /\ how' = [how EXCEPT ![c] = outcome]
  /\ blocking' = None

\* Output is read as it comes.
Read(c) ==
  /\ stage[c] = "collect" /\ Runs(c) /\ got[c] < printed[c]
  /\ got' = [got EXCEPT ![c] = printed[c]]
  /\ UNCHANGED <<kind, stage, how, processes, blocking, resting>>

\* The pipe is closed by all that held it, and bash has ended.
PipeClosed(c) == alive[c] \cap Holders = {}

Collected(c) ==
  /\ stage[c] = "collect" /\ Runs(c) /\ PipeClosed(c)
  /\ got' = [got EXCEPT ![c] = printed[c]]
  /\ Answer(c, "exit")
  /\ UNCHANGED <<kind, processes, resting>>

\* Fault: the shell is killed, and not what it started.
Fault_Killed(c) == alive[c] \ {"bash"}

\* killpg, of which nothing may be left.
Killed(c) == alive[c] \ Group

\* The timeout, or a cancellation, of which a command that blocks the loop does not hear.
KillGroup(c, outcome) ==
  /\ stage[c] = "collect" /\ Runs(c) /\ (outcome = "cancelled" => kind[c] = "shell")
  /\ alive' = [alive EXCEPT ![c] = Killed(c)]
  /\ stage' = [stage EXCEPT ![c] = "drain"] /\ how' = [how EXCEPT ![c] = outcome]
  /\ UNCHANGED <<kind, printed, got, blocking, resting>>

\* Fault: what was read before the kill is the answer.
Fault_Drained(c) == UNCHANGED got

\* The rest of the output, up to the end of the pipe.
Drained(c) == got' = [got EXCEPT ![c] = printed[c]]

Drain(c) ==
  /\ stage[c] = "drain" /\ Runs(c) /\ PipeClosed(c)
  /\ Drained(c) /\ Answer(c, how[c])
  /\ UNCHANGED <<kind, processes, resting>>

\* A cancellation while the rest of the output is awaited.
CancelAgain(c) ==
  /\ stage[c] = "drain" /\ kind[c] = "shell" /\ blocking = None
  /\ Answer(c, "cancelled")
  /\ UNCHANGED <<kind, processes, got, resting>>

----------------------------------------------------------------------------
(* Rest.invoke *)

Least(S) == CHOOSE x \in S : \A y \in S : x <= y

Clamped(asked) == IF asked < MinRest THEN MinRest ELSE Least({asked, MaxRest})

Granted(asked) == Least({Clamped(asked), Total - used})

StartRest(c, asked) ==
  IF used >= Total
  THEN /\ Call(c, "rest", "done") /\ how' = [how EXCEPT ![c] = "exhausted"]
       /\ UNCHANGED <<processes, got, blocking, resting>>
  ELSE /\ Call(c, "rest", "rest") /\ granted' = [granted EXCEPT ![c] = Granted(asked)]
       /\ overlaps' = IF \E d \in Calls : stage[d] = "rest" THEN overlaps + 1 ELSE overlaps
       /\ UNCHANGED <<how, processes, got, blocking, used>>

\* It ends, or steering wakes it; a cancelled one is not counted.
EndRest(c, outcome, waited) ==
  /\ stage[c] = "rest" /\ blocking = None /\ waited <= granted[c]
  /\ used' = IF outcome = "rested" THEN used + waited ELSE used
  /\ Answer(c, outcome)
  /\ UNCHANGED <<kind, processes, got, granted, overlaps>>

ToolsNext ==
  \/ \E c \in Calls, p \in {"child", "quiet", "escapee"} : Fork(c, p)
  \/ \E c \in Calls, p \in Group \cup Holders : ProcessExits(c, p)
  \/ \E c \in Calls, k \in {"shell", "command"} : StartCommand(c, k)
  \/ \E c \in Calls, outcome \in {"timeout", "cancelled"} : KillGroup(c, outcome)
  \/ \E c \in Calls :
       PrintOutput(c) \/ StartJob(c) \/ Read(c) \/ Collected(c) \/ Drain(c) \/ CancelAgain(c)
  \/ \E c \in Calls, asked \in Asked : StartRest(c, asked)
  \/ \E c \in Calls, outcome \in {"rested", "cancelled"}, waited \in 0..MaxRest : EndRest(c, outcome, waited)

ToolsSpec == ToolsInit /\ [][ToolsNext]_toolVars

\* Timeouts come, and the event loop runs what can run.
ToolsFairness ==
  \A c \in Calls :
    /\ WF_toolVars(KillGroup(c, "timeout")) /\ WF_toolVars(Collected(c)) /\ WF_toolVars(Drain(c))
    /\ WF_toolVars(EndRest(c, "rested", granted[c]))

----------------------------------------------------------------------------
(* Properties *)

Open(c) == stage[c] \in {"collect", "drain", "rest"}

\* workspace.py: a command that timed out answers with all it printed before the kill,
\* as does one that ended; what was killed leaves nothing of its process group behind.
CommandsAreWhole ==
  \A c \in Calls :
    /\ stage[c] = "done" /\ how[c] \in {"exit", "timeout"} => got[c] = printed[c]
    /\ kind[c] # "rest" /\ how[c] \in {"timeout", "cancelled"} => alive[c] \cap Group = {}

\* tools.py: the total bounds the rests together; rests in parallel, which read what is
\* left before any of them is counted, may pass it by a rest for each that overlapped.
RestsAreBounded == used <= Total + overlaps * MaxRest

\* workspace.py, tools.py: what the tools promise whoever calls them.
ToolsAreTrue == CommandsAreWhole /\ RestsAreBounded

\* workspace.py: no command outlasts its timeout for long, nor holds up the event loop,
\* but for a process that left its group and still holds the pipe.  Each call is made
\* once at most, so that the time comes when none is open any more.
CallsAreAnswered ==
  <>[]((\A c \in Calls : ~Open(c)) \/ \E c \in Calls : Open(c) /\ "escapee" \in alive[c])
=============================================================================
