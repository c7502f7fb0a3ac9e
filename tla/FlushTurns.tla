----------------------------- MODULE FlushTurns -----------------------------
(***************************************************************************)
(* codex-flush-turns.py: after the gateway's Codex exits and before it     *)
(* starts again, the last turn of each main-thread rollout is uploaded     *)
(* through the tracing plugin, unless the plugin recorded it or a process  *)
(* held the rollout open when the flush began.  Codex, systemd and the     *)
(* plugin are external.  A turn is its number in its rollout.              *)
(***************************************************************************)
EXTENDS Naturals, Sequences, FiniteSets, Functions

CONSTANTS
  Rollouts,   \* main-thread rollouts, in the order of their paths
  Operated,   \* those that an operator's own Codex writes
  MaxTurns, MaxLines, MaxFailures  \* bounds: turns of each rollout, lines of a turn, failed uploads

Mains == Range(Rollouts)

Gateway == Mains \ Operated

ASSUME FlushAssumption == Rollouts \in Seq(Mains)

VARIABLES
  lines,     \* lines of each turn of each rollout
  running,   \* rollouts whose last turn runs
  open,     \* rollouts that a process holds open
  started,   \* whether systemd has started the gateway
  recorded,  \* <rollout>.langfuse
  uploads,   \* the turns in Langfuse: <<rollout, turn, lines>>
  failed,    \* turns of which an upload failed, or was due when a flush was cut short
  late,      \* open rollouts that were opened while a flush was under way
  stage, todo, inUse, target,  \* the flush
  pre        \* whether it is the one before a start

codexState == <<lines, running, open, started>>
flush == <<stage, todo, inUse, target, pre>>
flushVars == <<codexState, recorded, uploads, failed, late, flush>>

FlushInit ==
  /\ lines = [t \in Mains |-> <<>>] /\ running = {} /\ open = {} /\ started = FALSE
  /\ recorded = [t \in Mains |-> {}] /\ uploads = {} /\ failed = {} /\ late = {}
  /\ stage = "idle" /\ todo = <<>> /\ inUse = {} /\ target = 0 /\ pre = FALSE

LastTurn(t) == Len(lines[t])

----------------------------------------------------------------------------
(* Codex and its Stop hook *)

Open(t) ==
  /\ t \notin open /\ (t \in Operated \/ started)
  /\ open' = open \cup {t}
  /\ late' = IF stage = "idle" THEN late ELSE late \cup {t}
  /\ UNCHANGED <<lines, running, started, recorded, uploads, failed, flush>>

StartTurn(t) ==
  /\ t \in open \ running /\ LastTurn(t) < MaxTurns[t]
  /\ lines' = [lines EXCEPT ![t] = Append(@, 1)] /\ running' = running \cup {t}
  /\ UNCHANGED <<open, started, recorded, uploads, failed, late, flush>>

WriteLine(t) ==
  /\ t \in running /\ lines[t][LastTurn(t)] < MaxLines
  /\ lines' = [lines EXCEPT ![t][LastTurn(t)] = @ + 1]
  /\ UNCHANGED <<running, open, started, recorded, uploads, failed, late, flush>>

\* The plugin uploads a turn that it has not recorded, and records it ...
Uploaded(t, n) ==
  /\ recorded' = [recorded EXCEPT ![t] = @ \cup {n}]
  /\ uploads' = uploads \cup (IF n \in recorded[t] THEN {} ELSE {<<t, n, lines[t][n]>>})
  /\ UNCHANGED failed

\* ... or does not, whether or not Langfuse took it.
UploadFails(t, n) ==
  /\ Cardinality(failed) < MaxFailures
  /\ failed' = failed \cup {<<t, n>>}
  /\ UNCHANGED <<recorded, uploads>>

\* The turn ends, and Codex waits for its Stop hook.
EndTurn(t) ==
  /\ t \in running /\ running' = running \ {t}
  /\ Uploaded(t, LastTurn(t)) \/ UploadFails(t, LastTurn(t))
  /\ UNCHANGED <<lines, open, started, late, flush>>

\* A process ends at any time, the gateway's with all its rollouts; the turns that
\* run never get a Stop.
Exit(gone) ==
  /\ open' = open \ gone /\ running' = running \ gone
  /\ late' = late \ gone
  /\ UNCHANGED <<lines, recorded, uploads, failed>>

StopOperator(t) == t \in Operated \cap open /\ Exit({t}) /\ UNCHANGED <<started, flush>>

----------------------------------------------------------------------------
(* The flush *)

\* systemd runs the flush before the gateway starts.
Before == stage = "done"

StartGateway ==
  /\ ~started /\ Before
  /\ started' = TRUE /\ stage' = IF stage = "done" THEN "idle" ELSE stage
  /\ UNCHANGED <<lines, running, open, recorded, uploads, failed, late, todo, inUse, target, pre>>

\* Fault: the flush does not look at what is open.
Fault_OpenRollouts == {}

OpenRollouts == open

BeginFlush(found) == stage' = "next" /\ todo' = Rollouts /\ inUse' = found /\ target' = 0

\* ExecStopPost, which a restart follows with ExecStartPre.
StopGateway ==
  /\ started /\ stage = "idle" /\ started' = FALSE
  /\ LET gone == Gateway \cap open
     IN  /\ Exit(gone)
         /\ BeginFlush(OpenRollouts \ gone) /\ pre' = FALSE

StartPre ==
  /\ ~started /\ stage = "idle" /\ BeginFlush(OpenRollouts) /\ pre' = TRUE
  /\ UNCHANGED <<codexState, recorded, uploads, failed, late>>

\* A rollout without turns, with its last turn recorded, or in use.
Skips(t) == LastTurn(t) = 0 \/ LastTurn(t) \in recorded[t] \/ t \in inUse

NextRollout ==
  /\ stage = "next" /\ todo # <<>>
  /\ IF Skips(Head(todo))
     THEN todo' = Tail(todo) /\ UNCHANGED <<stage, target>>
     ELSE target' = LastTurn(Head(todo)) /\ stage' = "upload" /\ UNCHANGED todo
  /\ UNCHANGED <<codexState, recorded, uploads, failed, late, inUse, pre>>

\* The plugin is run for the turn; a timeout and an exit without a record are failures.
Upload ==
  /\ stage = "upload"
  /\ Uploaded(Head(todo), target) \/ UploadFails(Head(todo), target)
  /\ todo' = Tail(todo) /\ stage' = "next" /\ target' = 0
  /\ UNCHANGED <<codexState, late, inUse, pre>>

EndFlush ==
  /\ stage = "next" /\ todo = <<>>
  /\ stage' = IF pre THEN "done" ELSE "idle"
  /\ inUse' = {} /\ pre' = FALSE
  /\ UNCHANGED <<codexState, recorded, uploads, failed, late, todo, target>>

\* systemd cuts a flush short that takes too long, and goes on.
CutFlush ==
  /\ stage \in {"next", "upload"} /\ todo # <<>> /\ Cardinality(failed) < MaxFailures
  /\ failed' = failed \cup {<<t, LastTurn(t)>> : t \in Range(todo) \ inUse}
  /\ stage' = IF pre THEN "done" ELSE "idle"
  /\ todo' = <<>> /\ inUse' = {} /\ target' = 0 /\ pre' = FALSE
  /\ UNCHANGED <<codexState, recorded, uploads, late>>

FlushNext ==
  \/ \E t \in Mains : Open(t) \/ StartTurn(t) \/ WriteLine(t) \/ EndTurn(t) \/ StopOperator(t)
  \/ StartGateway \/ StopGateway \/ StartPre \/ NextRollout \/ Upload \/ EndFlush \/ CutFlush

FlushSpec == FlushInit /\ [][FlushNext]_flushVars

----------------------------------------------------------------------------
(* Properties *)

\* A turn of the gateway that ran to its end or was killed is in Langfuse whole
\* before another one of its rollout starts, unless an upload of it failed or was
\* cut short: the flush only ever looks at the last turn, and none is lost that way.
TurnsAreFlushed ==
  \A t \in Gateway : \A n \in 1..LastTurn(t) :
    n < LastTurn(t) \/ (started /\ t \notin running) =>
      <<t, n, lines[t][n]>> \in uploads \/ <<t, n>> \in failed

\* A turn that a live process still writes is never uploaded: what the plugin
\* recorded is final.  Of rollouts opened while a flush was under way nothing is
\* promised, since the flush looks at what is open only once.
RunningIsLeft ==
  \A t \in running \ late : LastTurn(t) \notin recorded[t]

\* codex-flush-turns.py: every turn of the gateway is uploaded whole, or its upload
\* failed, and what a live process still writes is left alone.
FlushIsSafe == TurnsAreFlushed /\ RunningIsLeft
=============================================================================
