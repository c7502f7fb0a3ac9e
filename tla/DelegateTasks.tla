-------------------------- MODULE DelegateTasks --------------------------
(***************************************************************************)
(* Interactive delegates: DelegateTasks (crux_scaffold/delegate_tasks.py)  *)
(* runs conversations as asyncio tasks, DelegateMailboxes                  *)
(* (delegate_mailboxes.py) keeps briefs and mail in SQLite, and the runtime*)
(* (agent_runtimes/openai_agents_sdk.py) hands mail to model calls and ends*)
(* the PI's turns.  The PI is the orchestrator.                            *)
(*                                                                         *)
(* Rows of the tables, and the sessions mail is copied into, survive a     *)
(* crash; conversations, tool calls and the PI's turn do not.  A synchronous *)
(* stretch of Python is one step.                                          *)
(***************************************************************************)
EXTENDS Naturals, Sequences, FiniteSets

CONSTANTS
  Names,       \* declared delegates
  MaxTasks,    \* bound: briefs ever started
  MaxMail,     \* bound: messages ever sent
  MaxCalls,    \* tool calls of one PI response that run concurrently
  MaxRestarts  \* bound: restarts of the runtime after a crash or a close

ASSUME TasksAssumption == Names # {} /\ {MaxTasks, MaxMail, MaxCalls, MaxRestarts} \subseteq Nat

TaskIds == 1..MaxTasks   \* in order of rowid
PI == 0                  \* the recipient 'pi'; a delegate's recipient is its task
Recipients == {PI} \cup TaskIds
CallIds == 1..MaxCalls
NoTool == [op |-> "none", task |-> 0, stage |-> "none"]
Done == [NoTool EXCEPT !.stage = "done"]

VARIABLES
  created,    \* rows of the tasks table
  name,       \* name of each row
  status,     \* status of each row
  collected,  \* collected flag of each row
  mail,       \* recipient of each row of the messages table
  delivered,  \* messages marked delivered
  seen,       \* messages copied into the recipient's session or turn input
  conv,       \* the asyncio task of each row
  handed,     \* mail a model call has copied and not yet marked delivered
  call,       \* the PI's tool calls that are awaiting something
  turn,       \* the PI's turn
  closing,    \* the rows a close() waits for
  restarts

durable == <<created, name, status, collected, mail, delivered, seen>>
taskVars == <<durable, conv, handed, call, turn, closing, restarts>>

TasksInit ==
  /\ created = 0
  /\ name = [t \in TaskIds |-> CHOOSE n \in Names : TRUE]
  /\ status = [t \in TaskIds |-> "none"]
  /\ collected = [t \in TaskIds |-> FALSE]
  /\ mail = <<>> /\ delivered = {} /\ seen = {}
  /\ conv = [t \in TaskIds |-> "idle"]
  /\ handed = [r \in Recipients |-> {}]
  /\ call = [k \in CallIds |-> NoTool]
  /\ turn = "running" /\ closing = {}
  /\ restarts = 0

----------------------------------------------------------------------------
(* The mailbox store *)

Rows == 1..created
RowsOf(n) == {t \in Rows : name[t] = n}

\* Fault: a superseded brief is not refused.
Fault_IsLatest(t) == t \in Rows

\* The newest row of its name, which _current insists on.
IsLatest(t) == t \in Rows /\ \A u \in RowsOf(name[t]) : u <= t
Latest == {t \in Rows : IsLatest(t)}

\* DelegateMailboxes.pending.
Pending(r) == {m \in DOMAIN mail : mail[m] = r} \ delivered

\* DelegateMailboxes._send: a new row, addressed to the PI or to the task.
Post(r) == Len(mail) < MaxMail /\ mail' = Append(mail, r)

----------------------------------------------------------------------------
(* Conversations *)

Live(t) == conv[t] # "idle"

\* The calls that gather the asyncio task t are made runnable as it ends.
Woken(t) ==
  [k \in CallIds |-> IF call[k].task = t /\ call[k].stage = "awaiting"
                     THEN [call[k] EXCEPT !.stage = "resume"] ELSE call[k]]

\* task.cancel(): one that has not run yet will never run its handlers.
Cancelled(t) == IF conv[t] \in {"scheduled", "dropping"} THEN "dropping" ELSE "cancelling"

\* _launch: the row is running and uncollected, the coroutine is scheduled.
Launch(t) ==
  /\ status' = [status EXCEPT ![t] = "running"]
  /\ collected' = [collected EXCEPT ![t] = FALSE]
  /\ conv' = [conv EXCEPT ![t] = "scheduled"]

Begin(t) ==
  /\ conv[t] = "scheduled"
  /\ conv' = [conv EXCEPT ![t] = "executing"]
  /\ UNCHANGED <<durable, handed, call, turn, closing, restarts>>

\* The end of run() in _launch, with the row's new status.
End(t, s) ==
  /\ status' = [status EXCEPT ![t] = s]
  /\ conv' = [conv EXCEPT ![t] = "idle"]
  /\ handed' = [handed EXCEPT ![t] = {}]
  /\ call' = Woken(t)
  /\ UNCHANGED <<created, name, collected, mail, delivered, seen, turn, closing, restarts>>

\* Fault: mail that arrived during the last model call is not looked for.
Fault_Complete(t) == conv[t] = "executing" /\ handed[t] = {} /\ End(t, "completed")

\* execute returns and no PI message is waiting; otherwise the loop goes round
\* and the conversation keeps executing, which changes nothing here.
Complete(t) == conv[t] = "executing" /\ handed[t] = {} /\ Pending(t) = {} /\ End(t, "completed")

\* execute raises, also while it is being cancelled.
Fail(t) == conv[t] \in {"executing", "cancelling"} /\ End(t, "failed")

Interrupt(t) == conv[t] = "cancelling" /\ End(t, "interrupted")

\* A coroutine cancelled before it started leaves its row as it is.
Drop(t) == conv[t] = "dropping" /\ End(t, status[t])

\* ask_pi or report_progress; a Codex worker's own process also sends while the
\* conversation is being cancelled.
Ask(t) ==
  /\ conv[t] \in {"executing", "cancelling"} /\ Post(PI)
  /\ UNCHANGED <<created, name, status, collected, delivered, seen, conv, handed, call, turn, closing, restarts>>

----------------------------------------------------------------------------
(* Handing mail to a model call: _select_input, and turn start and steer for Codex *)

ReadsMail(r) ==
  IF r = PI THEN turn = "running" /\ \A k \in CallIds : call[k] = NoTool
            ELSE conv[r] = "executing"

\* A model input takes all pending mail; steer_turn takes the oldest message.
Batches(r) ==
  LET oldest == {m \in Pending(r) : \A n \in Pending(r) : m <= n}
  IN  {Pending(r)} \cup (IF r = PI THEN {} ELSE {oldest})

\* Pending messages are added to the recipient's session ...
CopyMail(r, batch) ==
  /\ ReadsMail(r) /\ handed[r] = {} /\ batch # {}
  /\ handed' = [handed EXCEPT ![r] = batch]
  /\ seen' = seen \cup batch
  /\ UNCHANGED <<created, name, status, collected, mail, delivered, conv, call, turn, closing, restarts>>

\* ... and marked delivered once that returned.
MarkDelivered(r) ==
  /\ handed[r] # {}
  /\ delivered' = delivered \cup handed[r]
  /\ handed' = [handed EXCEPT ![r] = {}]
  /\ UNCHANGED <<created, name, status, collected, mail, seen, conv, call, turn, closing, restarts>>

\* steer_turn is cancelled, or its request fails, after Codex took the message.
LoseReceipt(t) ==
  /\ handed[t] # {}
  /\ handed' = [handed EXCEPT ![t] = {}]
  /\ UNCHANGED <<durable, conv, call, turn, closing, restarts>>

----------------------------------------------------------------------------
(* The PI's tools *)

\* The calls of one response start together, before any that waits goes on.
Calling(k) ==
  /\ turn = "running" /\ handed[PI] = {} /\ call[k] = NoTool
  /\ \A j \in CallIds : call[j].stage \notin {"resume", "done"}

\* The last call to return lets the PI's next model call happen.
Returns(k) ==
  call' = IF \A j \in CallIds \ {k} : call[j] \in {NoTool, Done}
          THEN [j \in CallIds |-> NoTool] ELSE [call EXCEPT ![k] = Done]

\* DelegateMailboxes.start refuses a name whose latest row is uncollected.
MayStart(n) == \A t \in RowsOf(n) : IsLatest(t) => collected[t]

Start(k, n) ==
  LET t == created + 1
  IN  /\ Calling(k) /\ created < MaxTasks /\ MayStart(n)
      /\ created' = t
      /\ name' = [name EXCEPT ![t] = n]
      /\ Launch(t)
      /\ UNCHANGED <<mail, delivered, seen, handed, call, turn, closing, restarts>>

Await(k, op, t, stage) == call' = [call EXCEPT ![k] = [op |-> op, task |-> t, stage |-> stage]]

\* send: mail for the latest brief of a name; an ended conversation is resumed.
\* With interrupt=true this is also all that happens to an ended one.
Send(k, t) ==
  /\ Calling(k) /\ IsLatest(t) /\ Post(t)
  /\ IF Live(t) THEN UNCHANGED <<status, collected, conv>> ELSE Launch(t)
  /\ UNCHANGED <<created, name, delivered, seen, handed, call, turn, closing, restarts>>

\* send with interrupt=true to an active conversation first stops it.
SendInterrupting(k, t) ==
  /\ Calling(k) /\ IsLatest(t) /\ Post(t) /\ Live(t)
  /\ conv' = [conv EXCEPT ![t] = Cancelled(t)]
  /\ Await(k, "send", t, "awaiting")
  /\ UNCHANGED <<created, name, status, collected, delivered, seen, handed, turn, closing, restarts>>

\* The tail of stop, after the gather: a row that still says running was
\* cancelled before it started.
Settled(t) == [status EXCEPT ![t] = IF @ = "running" THEN "interrupted" ELSE @]

\* stop returns inside send, which resumes whatever is not active now.
SendResumes(k) ==
  LET t == call[k].task
  IN  /\ call[k].op = "send" /\ call[k].stage = "resume"
      /\ Returns(k)
      /\ IF Live(t) THEN status' = Settled(t) /\ UNCHANGED <<collected, conv>> ELSE Launch(t)
      /\ UNCHANGED <<created, name, mail, delivered, seen, handed, turn, closing, restarts>>

\* stop (interrupt_delegate) of an active conversation.
Stop(k, t) ==
  /\ Calling(k) /\ IsLatest(t) /\ Live(t)
  /\ conv' = [conv EXCEPT ![t] = Cancelled(t)]
  /\ Await(k, "stop", t, "awaiting")
  /\ UNCHANGED <<durable, handed, turn, closing, restarts>>

\* Fault: stop trusts the cancelled coroutine to have recorded its end.
Fault_StopReturns(k) ==
  /\ call[k].op = "stop" /\ call[k].stage = "resume"
  /\ Returns(k)
  /\ UNCHANGED <<durable, conv, handed, turn, closing, restarts>>

StopReturns(k) ==
  /\ call[k].op = "stop" /\ call[k].stage = "resume"
  /\ status' = Settled(call[k].task)
  /\ Returns(k)
  /\ UNCHANGED <<created, name, collected, mail, delivered, seen, conv, handed, turn, closing, restarts>>

RequestProgress(k, t) ==
  /\ Calling(k) /\ IsLatest(t) /\ status[t] = "running" /\ Post(t)
  /\ UNCHANGED <<created, name, status, collected, delivered, seen, conv, handed, call, turn, closing, restarts>>

\* Fault: a result is collected without looking at the status.
Fault_Collect(t) == collected' = [collected EXCEPT ![t] = TRUE]

\* The end of result: only finished work is collected.
Collect(t) == collected' = [collected EXCEPT ![t] = @ \/ status[t] # "running"]

\* result for the latest brief of a name, which is polled while it runs.
Result(k, t) ==
  /\ Calling(k) /\ IsLatest(t) /\ Collect(t)
  /\ UNCHANGED <<created, name, status, mail, delivered, seen, conv, handed, call, turn, closing, restarts>>

ResultWaits(k, t) ==
  /\ Calling(k) /\ IsLatest(t) /\ status[t] = "running"
  /\ Await(k, "result", t, "polling")
  /\ UNCHANGED <<durable, conv, handed, turn, closing, restarts>>

\* A poll finds the work ended ...
ResultEnds(k) ==
  LET t == call[k].task
  IN  /\ call[k].op = "result" /\ status[t] # "running"
      /\ Collect(t)
      /\ Returns(k)
      /\ UNCHANGED <<created, name, status, mail, delivered, seen, conv, handed, turn, closing, restarts>>

\* ... or an open question or the deadline lets the PI go on.
ResultLetsGo(k) ==
  /\ call[k].op = "result" /\ status[call[k].task] = "running"
  /\ Returns(k)
  /\ UNCHANGED <<durable, conv, handed, turn, closing, restarts>>

----------------------------------------------------------------------------
(* Turns, shutdown, crash and restart *)

\* What run() lists before it returns.
Outstanding == {t \in Latest : ~collected[t]}

\* A turn that ran out of model calls is incomplete whatever is outstanding.
EndTurn ==
  /\ turn = "running" /\ handed[PI] = {} /\ \A k \in CallIds : call[k] = NoTool
  /\ turn' \in IF Outstanding = {} THEN {"completed", "incomplete"} ELSE {"incomplete"}
  /\ UNCHANGED <<durable, conv, handed, call, closing, restarts>>

BeginTurn ==
  /\ turn \in {"completed", "incomplete"}
  /\ turn' = "running"
  /\ UNCHANGED <<durable, conv, handed, call, closing, restarts>>

\* run() raises or is cancelled, or the runtime is left: the PI's calls end with
\* its turn, and close() stops every conversation.  A superseded one would make
\* stop, and with it close, raise; the event loop then cancels what is left.
Close ==
  /\ turn \in {"running", "completed", "incomplete"} /\ restarts < MaxRestarts
  /\ turn' = "closing"
  /\ LET live == {t \in TaskIds : Live(t)}
     IN  /\ conv' = [t \in TaskIds |-> IF t \in live THEN Cancelled(t) ELSE "idle"]
         /\ closing' = IF live \subseteq Latest THEN live ELSE {}
  /\ call' = [k \in CallIds |-> NoTool]
  /\ handed' = [handed EXCEPT ![PI] = {}]
  /\ UNCHANGED <<durable, restarts>>

CloseEnds ==
  /\ turn = "closing" /\ \A t \in TaskIds : ~Live(t)
  /\ turn' = "down" /\ closing' = {}
  /\ status' = [t \in TaskIds |-> IF t \in closing /\ status[t] = "running" THEN "interrupted" ELSE status[t]]
  /\ UNCHANGED <<created, name, collected, mail, delivered, seen, conv, handed, call, restarts>>

Crash ==
  /\ turn # "down" /\ restarts < MaxRestarts
  /\ turn' = "down" /\ closing' = {}
  /\ conv' = [t \in TaskIds |-> "idle"]
  /\ call' = [k \in CallIds |-> NoTool]
  /\ handed' = [r \in Recipients |-> {}]
  /\ UNCHANGED <<durable, restarts>>

\* recover(): only the latest row of each name is looked at.
Recovered == [t \in TaskIds |-> IF t \in Latest /\ status[t] = "running" THEN "interrupted" ELSE status[t]]

Restart ==
  /\ turn = "down"
  /\ turn' = "running"
  /\ restarts' = restarts + 1
  /\ status' = Recovered
  /\ UNCHANGED <<created, name, collected, mail, delivered, seen, conv, handed, call, closing>>

----------------------------------------------------------------------------

Conversation(t) ==
  Begin(t) \/ Complete(t) \/ Fail(t) \/ Interrupt(t) \/ Drop(t)

Reader(r) == (\E batch \in Batches(r) : CopyMail(r, batch)) \/ MarkDelivered(r)

ToolStarts(k) ==
  \/ \E n \in Names : Start(k, n)
  \/ \E t \in Rows : \/ Send(k, t) \/ SendInterrupting(k, t) \/ Stop(k, t)
                     \/ RequestProgress(k, t) \/ Result(k, t) \/ ResultWaits(k, t)

ToolReturns(k) == SendResumes(k) \/ StopReturns(k) \/ ResultEnds(k)

TasksNext ==
  \/ \E t \in Rows : Conversation(t) \/ Ask(t) \/ LoseReceipt(t)
  \/ \E r \in Recipients : Reader(r)
  \/ \E k \in CallIds : ToolStarts(k) \/ ToolReturns(k) \/ ResultLetsGo(k)
  \/ EndTurn \/ BeginTurn \/ Close \/ CloseEnds \/ Crash \/ Restart

TasksSpec == TasksInit /\ [][TasksNext]_taskVars

\* The event loop runs what can run; every execute ends, by its turn limit or
\* the model's own decision.  What the PI decides is not fair, nor are crashes.
TasksFairness ==
  /\ \A t \in TaskIds : WF_taskVars(t \in Rows /\ Conversation(t)) /\ WF_taskVars(Reader(t))
  /\ \A k \in CallIds : WF_taskVars(ToolReturns(k))

FairTasksSpec == TasksSpec /\ TasksFairness

----------------------------------------------------------------------------
(* Properties *)

\* Every variable keeps its type, rows are used in order, and a copy of mail is
\* only on its way while the conversation or turn that asked for it lasts.
TasksTypeOK ==
  /\ created \in 0..MaxTasks /\ restarts \in 0..MaxRestarts
  /\ name \in [TaskIds -> Names]
  /\ status \in [TaskIds -> {"none", "running", "completed", "failed", "interrupted"}]
  /\ \A t \in TaskIds : (status[t] = "none") = (t > created)
  /\ collected \in [TaskIds -> BOOLEAN]
  /\ mail \in Seq(Recipients) /\ Len(mail) <= MaxMail
  /\ delivered \subseteq DOMAIN mail /\ seen \subseteq DOMAIN mail
  /\ conv \in [TaskIds -> {"idle", "scheduled", "executing", "cancelling", "dropping"}]
  /\ handed \in [Recipients -> SUBSET DOMAIN mail]
  /\ \A t \in TaskIds : handed[t] # {} => Live(t)
  /\ handed[PI] # {} => turn = "running"
  /\ \A k \in CallIds : call[k] \in {NoTool, Done} \/
       /\ call[k].task \in Rows
       /\ <<call[k].op, call[k].stage>> \in
            ({"send", "stop"} \X {"awaiting", "resume"}) \cup {<<"result", "polling">>}
  /\ turn \in {"running", "completed", "incomplete", "closing", "down"}
  /\ closing \subseteq Rows /\ (closing # {} => turn = "closing")

\* A declared delegate never has two conversations at a time, whatever mix of
\* resuming, interrupting, collecting and restarting the PI goes through.
OneConversation ==
  \A t, u \in TaskIds : Live(t) /\ Live(u) /\ name[t] = name[u] => t = u

\* A result is never lost under a newer brief: superseded rows were collected.
SupersededCollected == \A t \in Rows \ Latest : collected[t]

\* A turn that lets the loop's gates run leaves no work behind it: nothing is
\* executing and every result has been collected.
GatesSeeNoWork ==
  turn = "completed" => \A t \in Rows : ~Live(t) /\ collected[t]

\* The status the PI is shown is the truth: a row runs exactly while it has a
\* conversation, but for the instant a stop needs to notice that it ended.
StatusTruthful ==
  turn \in {"running", "completed", "incomplete"} =>
    \A t \in Rows :
      /\ Live(t) => status[t] = "running"
      /\ status[t] = "running" =>
           Live(t) \/ \E k \in CallIds : call[k].task = t /\ call[k].stage = "resume"

\* A message marked delivered is in its reader's session, across any crash.
DeliveredIsInSession == delivered \subseteq seen

\* A conversation that completes has been handed all mail sent to it.
CompletedReadAllMail ==
  [][\A t \in TaskIds :
       status[t] # "completed" /\ status'[t] = "completed" =>
         {m \in DOMAIN mail : mail[m] = t} \subseteq delivered]_taskVars

\* delegate_tasks.py, one tool call at a time: a name has one conversation, statuses
\* are the truth, no result is lost under a newer brief, and gates see no work.
ConversationsAreTrue == TasksTypeOK /\ OneConversation /\ SupersededCollected /\ GatesSeeNoWork /\ StatusTruthful

\* delegate_mailboxes.py: receipts follow the session, and a conversation completes
\* once it was handed all its mail, also when tool calls overlap.
MailIsRead == []DeliveredIsInSession /\ CompletedReadAllMail

\* No call hangs: a stop, an interrupting send, and a result that waits without
\* a deadline return (or the process goes down).
CallsReturn == \A k \in CallIds : call[k] # NoTool ~> call[k] \in {NoTool, Done}

----------------------------------------------------------------------------
(* Refinement of DelegateBoard *)

Phase(n) ==
  LET current == {t \in RowsOf(n) : IsLatest(t)}
  IN  IF \E t \in current : Live(t) THEN "working"
      ELSE IF \E t \in current : ~collected[t] THEN "ended" ELSE "free"

Board == INSTANCE DelegateBoard
           WITH phase <- [n \in Names |-> Phase(n)], gates <- turn = "completed"

\* The conversations implement the board the PI is promised.
BoardSpec == Board!Spec
=============================================================================
