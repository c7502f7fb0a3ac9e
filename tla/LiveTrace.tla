------------------------------ MODULE LiveTrace ------------------------------
(***************************************************************************)
(* The live exporter of Codex turns (monitoring/tracing/codex/live_trace): *)
(* a service that sends what is complete on every pass, and the --finalize *)
(* run of the gateway unit, while Codex appends to the rollouts.  A pass   *)
(* discovers the transcripts, parses the changed ones one by one, looks at *)
(* /proc (finalize only), and sends what the ledger does not have, batch   *)
(* by batch.  Codex, Langfuse and the file lock are external.              *)
(***************************************************************************)
EXTENDS Rollout, FiniteSets

CONSTANTS
  Files,      \* transcripts, in the order of their paths
  Parent,     \* the file of each file's parent thread, None for a main thread
  Scripts,    \* what Codex may write: [gateway, lines], see script
  Service, Finalizer,  \* the two exporting processes
  Batch,      \* observations in a request
  MaxStops, MaxFaults  \* bounds: stops of Codex; crashes and lost answers

Threads == {Files[i] : i \in DOMAIN Files}
Exporters == {Service, Finalizer}

ASSUME LiveTraceAssumption ==
  /\ Batch \in Nat \ {0} /\ MaxStops \in Nat /\ MaxFaults \in Nat
  /\ Service # Finalizer /\ None \notin Threads \cup Exporters
  /\ Files \in Seq(Threads) /\ Parent \in [Threads -> Threads \cup {None}]
  /\ \A t \in Threads : Parent[t] # None => Parent[Parent[t]] = None   \* a subagent has none of its own

\* The kinds of lines the model writes when it answers.
Answers == {"assistant", "request", "instant"}

\* The turns of a thread have ids of their own, Codex writes one prompt after a turn's settings
\* and before the model answers, and a subagent begins with its first turn.
ASSUME ScriptAssumption ==
  \A x \in Scripts : \A t \in Threads :
    LET lines == x.lines[t]
        Starts == {n \in DOMAIN lines : lines[n].kind = "started"}
    IN  /\ Len(lines) \in Nat /\ DOMAIN lines = 1..Len(lines)
        /\ \A i, j \in Starts : lines[i].id = lines[j].id => i = j
        /\ \A h, i, j \in DOMAIN lines :
             /\ h < i /\ i < j /\ lines[h].kind = "settings" /\ lines[i].kind = "user" /\ lines[j].kind = "user"
             /\ h..j \cap Starts = {}
             => \E k \in i..j : lines[k].kind \in Answers
        /\ Parent[t] # None /\ lines # <<>> => 1 \in Starts

VARIABLES
  script,        \* lines: a sequence of [kind, id] to write to each file; gateway: the main
                 \* files that the gateway's Codex writes, and an operator's Codex the others
  next,          \* the place of the next line of each file
  size,          \* lines in each transcript
  parsed,        \* what parsing the whole of each transcript gives
  now,           \* lines written, the time
  alive,         \* main files whose Codex process runs
  stops,
  lock,          \* the exporter in its pass
  pc, left,      \* where each exporter is, and the files that are yet to be parsed or sent
  key, view,     \* each one's ParseCache: the size seen and the turns parsed of each file
  held,          \* the files held open
  stale,         \* of those not held, the files that grew since they were parsed
  batches,       \* what is pending of the file that is sent
  ledger,        \* recorded observations of each file
  received,      \* the batches Langfuse took
  doubts,        \* observations that it took and the exporter could not record
  faults

codex == <<script, next, size, parsed, now, alive, stops>>
exporter == <<lock, pc, left, key, view, held, stale, batches>>
vars == <<codex, exporter, ledger, received, doubts, faults>>

Unseen == [t \in Threads |-> 0]
Unread == [t \in Threads |-> <<>>]

IsMain(t) == Parent[t] = None
Root(t) == IF IsMain(t) THEN t ELSE Parent[t]

Init ==
  /\ script \in Scripts
  /\ next = [t \in Threads |-> 1]
  /\ size = [t \in Threads |-> 0] /\ parsed = [t \in Threads |-> Empty] /\ now = 0 /\ alive = {} /\ stops = 0
  /\ lock = None /\ pc = [e \in Exporters |-> "idle"] /\ left = {}
  /\ key = [e \in Exporters |-> Unseen] /\ view = [e \in Exporters |-> Unread]
  /\ held = {} /\ stale = {} /\ batches = {}
  /\ ledger = [t \in Threads |-> {}] /\ received = <<>> /\ doubts = {} /\ faults = 0

----------------------------------------------------------------------------
(* Codex *)

StartCodex(m) ==
  /\ IsMain(m) /\ m \notin alive /\ stops < MaxStops + 1
  /\ m \in script.gateway => pc[Finalizer] = "idle"   \* systemd: ExecStopPost and ExecStartPre come first
  /\ alive' = alive \cup {m}
  /\ UNCHANGED <<script, next, size, parsed, now, stops, exporter, ledger, received, doubts, faults>>

\* The place of the next turn in a script; what remains of the current one is never written.
Skip(t) ==
  IF next[t] > Len(script.lines[t]) \/ size[t] = 0 THEN next[t]
  ELSE LET starts == {n \in next[t]..Len(script.lines[t]) : script.lines[t][n].kind = "started"}
       IN  IF starts = {} THEN Len(script.lines[t]) + 1 ELSE CHOOSE n \in starts : \A i \in starts : n <= i

\* The process ends at any time, with all its threads.
StopCodex(m) ==
  /\ m \in alive /\ stops < MaxStops
  /\ alive' = alive \ {m} /\ stops' = stops + 1
  /\ next' = [t \in Threads |-> IF Root(t) = m THEN Skip(t) ELSE next[t]]
  /\ UNCHANGED <<script, size, parsed, now, exporter, ledger, received, doubts, faults>>

Turns(t) == parsed[t].turns

\* A line is written; a subagent's turn starts while its parent's turn runs.
Write(t) ==
  /\ Root(t) \in alive /\ next[t] <= Len(script.lines[t])
  /\ LET line == script.lines[t][next[t]]
     IN  /\ (~IsMain(t) /\ line.kind = "started") => IsOpen(Turns(Parent[t]))
         /\ parsed' = [parsed EXCEPT ![t] = Apply(@, Line(line.kind, line.id, now + 1))]
  /\ size' = [size EXCEPT ![t] = @ + 1]
  /\ next' = [next EXCEPT ![t] = @ + 1] /\ now' = now + 1
  /\ UNCHANGED <<script, alive, stops, exporter, ledger, received, doubts, faults>>

----------------------------------------------------------------------------
(* A pass reads: ParseCache.threads, then held_open. *)

Place(t) == CHOOSE i \in DOMAIN Files : Files[i] = t

\* Files are parsed in the order of their paths.
IsNext(t) == t \in left /\ \A u \in left : Place(t) <= Place(u)

\* Fault: the passes of the two exporters overlap.
Fault_TakeLock(e) == TRUE

TakeLock(e) == lock = None

\* The cache lasts as long as the process.
Forget(e) == key' = [key EXCEPT ![e] = Unseen] /\ view' = [view EXCEPT ![e] = Unread]

\* The gateway unit runs --finalize when its Codex has exited, as a new process.
BeginPass(e) ==
  /\ pc[e] = "idle" /\ TakeLock(e)
  /\ e = Finalizer => alive \cap script.gateway = {}
  /\ lock' = e /\ pc' = [pc EXCEPT ![e] = "stat"]
  /\ left' = {t \in Threads : size[t] > 0}   \* the files are listed before the first one is parsed
  /\ UNCHANGED <<codex, key, view, held, stale, batches, ledger, received, doubts, faults>>

\* Fault: the size is taken after the file was parsed.
Fault_Seen(e, t) == size[t]

\* The size a parsed file is cached under was taken before it was parsed.
Seen(e, t) == key[e][t]

Stat(e, t) ==
  /\ lock = e /\ pc[e] = "stat" /\ IsNext(t)
  /\ IF key[e][t] = size[t] THEN left' = left \ {t} /\ UNCHANGED <<pc, key>>
     ELSE key' = [key EXCEPT ![e][t] = size[t]] /\ pc' = [pc EXCEPT ![e] = "parse"] /\ UNCHANGED left
  /\ UNCHANGED <<codex, lock, view, held, stale, batches, ledger, received, doubts, faults>>

ParseFile(e, t) ==
  /\ lock = e /\ pc[e] = "parse" /\ IsNext(t)
  /\ view' = [view EXCEPT ![e][t] = Turns(t)]
  /\ pc' = [pc EXCEPT ![e] = "cache"]
  /\ UNCHANGED <<codex, lock, left, key, held, stale, batches, ledger, received, doubts, faults>>

CacheFile(e, t) ==
  /\ lock = e /\ pc[e] = "cache" /\ IsNext(t)
  /\ key' = [key EXCEPT ![e][t] = Seen(e, t)]
  /\ left' = left \ {t} /\ pc' = [pc EXCEPT ![e] = "stat"]
  /\ UNCHANGED <<codex, lock, view, held, stale, batches, ledger, received, doubts, faults>>

HeldOpen == {t \in Threads : Root(t) \in alive}

Look(e) ==
  /\ lock = e /\ pc[e] = "stat" /\ left = {}
  /\ held' = IF e = Finalizer THEN HeldOpen ELSE {}
  /\ stale' = IF e = Finalizer THEN {t \in Threads \ held' : view[e][t] # Turns(t)} ELSE {}
  /\ left' = {t \in Threads : view[e][t] # <<>>} /\ pc' = [pc EXCEPT ![e] = "thread"]
  /\ UNCHANGED <<codex, lock, key, view, batches, ledger, received, doubts, faults>>

----------------------------------------------------------------------------
(* A pass sends: Exporter._pending and _send. *)

\* Main threads are sent before their subagents.
IsSentNext(t) ==
  /\ t \in left
  /\ \A u \in left : (IsMain(u) => IsMain(t)) /\ ((IsMain(u) <=> IsMain(t)) => Place(t) <= Place(u))

\* The turns of a subagent's parent that started no later than its n-th turn.
Spawners(turns, t, n) ==
  {k \in DOMAIN turns[Parent[t]] : turns[Parent[t]][k].started <= turns[t][n].started}

IsTraced(turns, t, n) == IsMain(t) \/ Spawners(turns, t, n) # {}

\* The trace of a turn: its own, or for a subagent that of its parent's latest turn before it.
Trace(turns, t, n) ==
  IF IsMain(t) THEN <<t, turns[t][n].id>>
  ELSE LET last == CHOOSE k \in Spawners(turns, t, n) : \A j \in Spawners(turns, t, n) : j <= k
       IN  <<Parent[t], turns[Parent[t]][last].id>>

\* A span: an observation of the n-th turn, placed in a trace.  The last field remembers
\* whether its turn was ended for a process that was only just gone.
Span(t, turn, n, trace, piece, cut) ==
  [id |-> <<t, turn.id, piece.kind, piece.n>>, turn |-> n, trace |-> trace, says |-> piece.says, cut |-> cut]

Spans(turns, t, n, finalize) ==
  LET turn == turns[t][n]
      last == n = Len(turns[t])
      cut == finalize /\ last /\ turn.end = None /\ t \in stale
  IN  {Span(t, turn, n, Trace(turns, t, n), p, cut) :
         p \in {p \in Observations(turn, finalize /\ last) : IsTraced(turns, t, n)}}

Pending(e, t, finalize) ==
  UNION {{s \in Spans(view[e], t, n, finalize) : s.id \notin ledger[t]} : n \in DOMAIN view[e][t]}

StartThread(e, t) ==
  /\ lock = e /\ pc[e] = "thread" /\ IsSentNext(t)
  /\ batches' = Pending(e, t, e = Finalizer /\ t \notin held)
  /\ pc' = [pc EXCEPT ![e] = "send"]
  /\ UNCHANGED <<codex, lock, left, key, view, held, stale, ledger, received, doubts, faults>>

\* Turn by turn, and within a turn by kind.
Precedes(r, s) ==
  \/ r.turn < s.turn
  \/ r.turn = s.turn /\ Rank[r.id[3]] < Rank[s.id[3]]
  \/ r.turn = s.turn /\ r.id[3] = s.id[3] /\ r.id[4] < s.id[4]

NextBatch == {s \in batches : Cardinality({r \in batches : Precedes(r, s)}) < Batch}

Ids(spans) == {s.id : s \in spans}

Accepted(e) ==
  /\ lock = e /\ pc[e] = "send" /\ batches # {}
  /\ received' = Append(received, NextBatch)
  /\ pc' = [pc EXCEPT ![e] = "record"]
  /\ UNCHANGED <<codex, lock, left, key, view, held, stale, batches, ledger, doubts, faults>>

\* The ids are recorded once Langfuse has accepted the batch.
Record(e, t) ==
  /\ lock = e /\ pc[e] = "record" /\ IsSentNext(t)
  /\ ledger' = [ledger EXCEPT ![t] = @ \cup Ids(NextBatch)]
  /\ batches' = batches \ NextBatch
  /\ pc' = [pc EXCEPT ![e] = "send"]
  /\ UNCHANGED <<codex, lock, left, key, view, held, stale, received, doubts, faults>>

\* The rest of the file waits for the next pass.
NextThread(e, t) ==
  /\ IsSentNext(t) /\ left' = left \ {t} /\ batches' = {} /\ pc' = [pc EXCEPT ![e] = "thread"]
  /\ UNCHANGED <<codex, lock, key, view, held, stale, ledger, received>>

Sent(e, t) ==
  /\ lock = e /\ pc[e] = "send" /\ batches = {}
  /\ NextThread(e, t) /\ UNCHANGED <<doubts, faults>>

Refused(e, t) ==
  /\ lock = e /\ pc[e] = "send" /\ batches # {}
  /\ NextThread(e, t) /\ UNCHANGED <<doubts, faults>>

\* Langfuse took the batch, and the answer is lost.
AnswerLost(e, t) ==
  /\ lock = e /\ pc[e] = "record" /\ faults < MaxFaults
  /\ NextThread(e, t)
  /\ doubts' = doubts \cup Ids(NextBatch) /\ faults' = faults + 1

EndPass(e) ==
  /\ lock = e /\ pc[e] = "thread" /\ left = {}
  /\ lock' = None /\ pc' = [pc EXCEPT ![e] = "idle"]
  /\ held' = {} /\ stale' = {}
  /\ IF e = Finalizer THEN Forget(e) ELSE UNCHANGED <<key, view>>
  /\ UNCHANGED <<codex, left, batches, ledger, received, doubts, faults>>

\* The exporter dies in its pass; the lock and its cache die with it.
Crash(e) ==
  /\ lock = e /\ faults < MaxFaults /\ faults' = faults + 1
  /\ doubts' = doubts \cup (IF pc[e] = "record" THEN Ids(NextBatch) ELSE {})
  /\ lock' = None /\ pc' = [pc EXCEPT ![e] = "idle"]
  /\ left' = {} /\ batches' = {} /\ held' = {} /\ stale' = {}
  /\ Forget(e)
  /\ UNCHANGED <<codex, ledger, received>>

----------------------------------------------------------------------------

Read(e) == BeginPass(e) \/ Look(e) \/ \E t \in Threads : Stat(e, t) \/ ParseFile(e, t) \/ CacheFile(e, t)

Send(e) == Accepted(e) \/ EndPass(e) \/ \E t \in Threads : StartThread(e, t) \/ Record(e, t) \/ Sent(e, t)

Fails(e) == Crash(e) \/ \E t \in Threads : AnswerLost(e, t)

Rejected(e) == \E t \in Threads : Refused(e, t)

Next ==
  \/ \E t \in Threads : StartCodex(t) \/ StopCodex(t) \/ Write(t)
  \/ \E e \in Exporters : Read(e) \/ Send(e) \/ Rejected(e) \/ Fails(e)

Spec == Init /\ [][Next]_vars

\* The service runs pass after pass and the lock comes free, each file's batches are
\* accepted now and then, and a finalizing pass goes on to its end.
Fairness ==
  /\ SF_vars(BeginPass(Service))
  /\ \A e \in Exporters : WF_vars(pc[e] # "idle" /\ (Read(e) \/ Send(e) \/ Rejected(e)))
  /\ \A t \in Threads : SF_vars(IsSentNext(t) /\ Accepted(Service))

FairSpec == Spec /\ Fairness

----------------------------------------------------------------------------
(* Properties *)

\* The observations of all turns as the transcripts tell them now, were they
\* to end here.
TurnsNow == [t \in Threads |-> Turns(t)]

Truth == UNION {UNION {Spans(TurnsNow, t, n, TRUE) : n \in DOMAIN Turns(t)} : t \in Threads}

Received == UNION {received[i] : i \in DOMAIN received}

\* A turn that is cut short is stopped or, if another one follows, superseded.
Same(says, truth) ==
  \/ says = truth
  \/ /\ "end" \in DOMAIN truth /\ says.end = "stopped" /\ truth.end = "superseded"
     /\ [truth EXCEPT !.end = "stopped"] = says

\* What was sent is final: every observation in Langfuse says what the transcript
\* says of it now, although the transcript went on growing and Codex may have been
\* stopped and started; the exception is a turn --finalize ended although a
\* process that had only just gone had written more of it.
SentIsFinal ==
  LET truth == Truth
  IN  \A s \in Received : s.cut \/ \E o \in truth : o.id = s.id /\ Same(s.says, o.says)

\* An observation arrives twice only if an answer was lost or the exporter died
\* between Langfuse's acceptance and the ledger, whichever of the exporters sends.
SentOnce ==
  \A i, j \in DOMAIN received : i < j => Ids(received[i]) \cap Ids(received[j]) \subseteq doubts

\* A root is the last of its turn to arrive: whoever sees it sees a whole turn.
RootIsLast ==
  LET truth == Truth
  IN  \A i \in DOMAIN received : \A sent \in received[i] :
        sent.id[3] = "root" /\ ~sent.cut =>
          \A o \in truth : o.id[1] = sent.id[1] /\ o.id[2] = sent.id[2] => \E j \in 1..i : o.id \in Ids(received[j])

\* A subagent's first turn is wholly in the trace of the turn that spawned it,
\* although parent and child are parsed at different times.
JoinsItsSpawner ==
  \A s \in Received :
    s.id[2] = Turns(s.id[1])[1].id => s.trace = Trace(TurnsNow, s.id[1], 1)

\* In the end everything complete is recorded as sent: no pass takes for read what
\* it did not parse, and a refused batch is sent again.
EverythingArrives ==
  <>[](\A t \in Threads : \A n \in DOMAIN Turns(t) :
        Ids(Spans(TurnsNow, t, n, FALSE)) \subseteq ledger[t])

\* pipeline.py: an observation is sent once it will not change any more, and once.
SentOnceAndFinal == SentIsFinal /\ SentOnce

\* rollout.py: a turn's root comes after what it holds, and what a turn spawned is
\* told in its trace.
TracesHangTogether == RootIsLast /\ JoinsItsSpawner

\* What is sent is final and sent once, in the trace it belongs to.
TracesAreTrue == SentOnceAndFinal /\ TracesHangTogether
=============================================================================
