# Verification of CRUX: the SDK research scaffold, its monitoring and its machines

TLA+ modules, TLC runs and TLAPS proofs for the parts of this repository in which
several actors, failures and restarts meet: the scaffold that lets an orchestrating
agent (the PI) delegate work, be steered and be restarted
(`src/scaffolds/sdk/crux_scaffold`), the service that collects, assesses and
reports what such runs do (`src/monitoring/service`), the exporters of their transcripts
(`src/monitoring/tracing`) and the scripts that make their machines (`src/devops`). `PROJECT.json` lists the
components, runs, mutants, findings, hazards and theorems, and maps every definition
to the lines it models. Paths below are relative to `src/`.

## 1. Inventory

### The scaffold (`scaffolds/sdk/crux_scaffold`)

One process, one asyncio event loop. State that outlives it is in a state directory: `state.json`
(loop position, history, usage), `steering.json` (inbox, outbox, cursor), SQLite files (sessions, delegate
mailboxes), checkpoints of compaction and the inventory of pods. Workers may be processes of
their own (Codex, its MCP server, shell commands).

| Part | State | Operations | Talks to | What is hard | What makes it correct |
|---|---|---|---|---|---|
| Delegation slots (`agent_runtimes/base.py`) | `_active_delegates`, a Condition, a `_DelegateCall` per call | `delegation_slot`, `delegation_wait`, `_suspend_delegate` | every delegate tool | nesting, cancellation at each await, lost wake-ups, deadlock with one slot | the counter is true, the limit holds, every call ends |
| Interactive delegates (`delegate_tasks.py`, `delegate_mailboxes.py`, parts of `openai_agents_sdk.py`, `coding_agents.py`) | rows of tasks and messages, asyncio tasks | start, send (interrupt), stop, progress, result, close, recover; delivery of mail at model calls | PI's tools, sessions, Codex turns | parallel tool calls, cancelled tasks, mail that arrives as a turn ends, crashes | one conversation per name, true statuses, no result and no mail lost |
| Research loop (`loop.py`, `scaffold.py`, `usage.py`, `cli.py`) | `RunState`, usage ledger | iterate, gate, advance, continue, stop, restart | runtime, gates, budget | stops and kills anywhere, exhausted limits, what the next prompt says | the history reads as one run, failures reach the next prompt, costs are booked |
| Steering (`steering.py`, `_select_input`, `tools.py`) | inbox, outbox, cursor, status | poll, deliver, escalate | Slack through MCP, sessions | lock shared by parallel tools, paging, ambiguous posts, crashes between two writes | each message once and in order, each escalation posted at most once |
| Workspace tools (`workspace.py`, `tools.py`) | processes, rest budget | run_shell, run_background, fixed commands, rest | processes, event loop | forks that keep the pipe, timeouts, cancellation, parallel rests | a command answers with all it printed, leaves nothing behind, and calls are answered |
| Background coding, Codex turns (`openai_agents_sdk.py`, `coding_agents.py`) | task per agent, cancelled briefs, usage increments | start, collect, cancel; turn, retry, interrupt | slots, mailboxes, app-server | cancellation against completion, retries, cumulative usage | one brief per agent, every outcome told, usage booked once, cancelled briefs end |
| Context strategies (`context_strategies.py`) | checkpoint of a summary | select, compact | sessions | boundaries of exchanges, a conversation changed behind a checkpoint | nothing pinned is forgotten, no exchange is cut |
| Resources (`resources.py`, `external_resources.py`) | snapshots, inventory of pods | refresh, exhausted, carry | providers | one refresh at a time, metrics that go missing, readings that outlive their caller | the last good reading limits the run |
| Assembly (`config.py`, `drop_in.py`, `scaffold.py`, `gates.py`) | the drop-in's files, the workspace under review | check, build, run with gates and judges | operators' files, MCP servers, agents that write | names that are generated, files that are read late, reviews of what changes | what is accepted runs, as its agents are told; a blind review reads one version |
| Process and telemetry (`cli.py`, `telemetry.py`) | exit code, observations | run, check, probes, stop signals | systemd, Langfuse | two signals, cancellation, exporters that fail | a stop ends the process and is told |

### The monitoring service (`monitoring/service`)

A worker (one by an advisory lock) and a website, over PostgreSQL and S3.

| Part | State | Operations | Talks to | What is hard | What makes it correct |
|---|---|---|---|---|---|
| Worker passes (`worker.py`, `collection.py`) | collections, assessments, S3 checkpoints | tick, run_target, assess, retry of saved passes | EC2, SSM, S3, models | failure after every call, retries for a day, paid inference | one evidence per window, inference paid once, every noted window finished |
| Incidents (`store.py`, `web.py`, `fleet.py`) | incidents, observations, events, Slack cursor | ingest, transition, transition_many, notify_incidents | operators, Slack | row locks, stale pages, windows out of order, lost answers | rows tell the observations, decisions are informed, notices lose nothing |
| Assessments (`collection.py`, `review.py`, `status_review.py`, `Budget`) | a window's evidence, its views, reservations | view, select reviewer, reserve, call | models | bounded views, families of reviewers, budget | reviewers are independent, what is left out is told, calls are paid for first |
| Workload notices (`fleet.py`) | workloads, cursors of notices | sync, notify, notice, acknowledge | EC2, Slack | lost answers, closure against delayed statuses | Slack reads as the story of each workload |
| Sign-in (`web_auth.py`) | sessions, login requests | login, acs, logout, prune | identity provider, browsers | replayed and late answers, expiry between two reads | one session per login, for the browser that began it and an answer in time; no request accepted for an expired one |
| Pages (`web.py`) | none: each page reads again | list incidents page by page | store | incidents that come and go between pages | every incident that stays is shown once |
| Workspace copies (`workspace_copy.py`, `collection.py`) | versions of an object | stream, upload, report, verify | SSM, S3 | copies that outlive their collector, streams cut short | the recorded version is the archive it claims |

### Tracing (`monitoring/tracing`) and the estate (`devops`)

| Part | State | Operations | Talks to | What is hard | What makes it correct |
|---|---|---|---|---|---|
| Live exporter (`codex/live_trace`) | ledger, parse cache | pass, finalize | growing rollouts, `/proc`, Langfuse | files that grow while read, two exporters, lost answers | what is sent is final, whole, in its trace and sent once |
| Flush (`codex-flush-turns.py`), Claude hook (`langfuse_hook.py`) | the plugin's sidecar; an offset file | flush around restarts; Stop hook | systemd, Codex, Claude, client | late lines, half-written rows, a shared file | no turn is skipped, none sent twice |
| Run boxes (`ec2-workspaces`) | EC2 by tags; receipt, units, hooks on the box | provision, tear down, manage addresses; set up a box again | EC2, systemd, operators | cuts after any call, two slugs at once, an agent that runs | a slug's scripts touch its own, a set-up box is as declared |
| Controller box (`ec2-control`) | resources by name, a volume | make, configure, again | EC2, systemd, docker | cuts, stale host keys, a boot without its volume | the state stays on the volume, a re-run gets it ready |
| Releases (`monitoring/service/ci`, workflows) | a report per run, statuses and a comment, retired AWS resources | plan a pull request, deploy, reset | GitHub, Terraform, Batch, S3 | newer heads, re-runs, jobs that still write | a commit is told of its own plan; nothing retired is deleted under a writer |
| Verifier calibration (`verifier-calibration`) | data set, PDFs, caches of uploads, results | build, fetch, redact, upload, review, resume | PeerRead, models | scripts in any order, kills while they write | a redacted paper does not tell its decision, and a paper has one verdict in a file |

`monitoring/costs`, the timeline of `analysis` and `utilities` are single-shot scripts;
`scaffolds/*/run-harness` is content for agents and vendored research code.

## 2. Modules and how they correspond to the code

Conventions: an action is what the code does between two points at which something else
may happen. In asyncio code that is from one `await` that really waits to the next; in the
worker and in shell scripts it is one call that may fail or be the last; in the store it is one row lock or one
commit; on a file it is one read or one write. A definition `Fault_X` right before `X` is a plausible bug
in `X`; it is used by no specification, only by the mutation of `X` that shows the properties can fail.

Components that share no variables are checked together in the `MC` modules: `part` is chosen
in the initial state and kept, a behaviour is one of the chosen part, and the states of the parts add up
instead of multiplying. Where a property joins several parts or several invariants its name says what they
are about, and its conjuncts are named definitions.

### The scaffold

**DelegationSlots** - `pc` is where each call's task is (`acquiring` and `resuming` are the two
`wait_for`s), `active`, `children` and `activeDelegates` are the fields of the same names,
`woken` the tasks `notify_all` reached, `cancelling` is `Task.cancelling()`. Actions:
CallDelegate, WaitForWorker, Acquire, Finish/Abort, Resume, Sleep (predicate still false),
Cancel, CancelAcquire, CancelResume. A child's release and its parent's regaining of the
slot are one step because the critical sections between them never wait. With
`max_concurrent` unset every one of these functions is a no-op, so `Limit` is a number.

**DelegateTasks** - rows (`created`, `name`, `status`, `collected`), messages (`mail`,
`delivered`), what reached a session (`seen`), asyncio tasks (`conv`), PI calls that await
something (`call`), the PI's `turn`. Each tool is an action that starts a call and one that
continues it after its await. `handed` is mail between the two writes of a delivery.
Left out: the text of briefs and results, questions (a question is a choice of
ResultLetsGo), the inbox's wait, the trace events. **DelegateBoard** is what this promises:
each name free, working, or holding an uncollected result, and gates only while all are free.

**PhasedLoop** - `mem` and `disk` are `RunState` in the process and in the file, `pc` the place
in `PhasedLoop.run`. The prompt is the number of the record that made it, 0 for the phase's
own prompt. A turn's result and the gates' verdicts are choices; a spend may happen in any
turn. Stops (`until_stopped`), failures and kills may happen at every place; a launch reads
the file again.

**Steering** - the channel (`sent`, `steering`), the file (`cursor`, `inbox`, `delivered`,
`status`, `outbox`), the lock, the scan in progress and the session. The users of the lock are
the model boundary, resting tools and escalating tools; each awaited call of Slack is a step,
may fail, may be cancelled with its tool and may be the last before a crash.
A channel's pages are newest first and a thread's oldest first, as `threaded` says.
**SteeringChannel** is the promise: every operator's message once and in order.

**Workbench** - of each tool call its stage, which of its processes are alive (bash, a child
with the pipe, one without, one that left the process group), what they printed and what the answer holds.
A fixed command blocks the event loop (`blocking`); a rest is granted an amount before its await and
booked after it.

**CodingBriefs** - `task` and `stopped` are `_coding_tasks` and `_coding_cancelled`; `waiting` the callers of
result tools. The end of a turn collects, an interrupted one stops what runs. **CodexTurns** is one
such brief: turns with their retries, the reader task (`reader`), the way out (`Stopped`, `StopTimeout`,
`Close`), cumulative usage snapshots. **Compaction** selects what a model call is shown: items are
numbered, sizes counted in items. **ResourceMonitor** keeps the last measurement of each metric;
**RunpodInventory** is one provider whose readings run in threads that outlive their callers.

**Assembly** - a drop-in is a record of what it declares beyond `Plain`; names are tuples, so that the name of a tool
the runtime generates can be that of a declared one. Load and CheckReferences, Assemble, Build and Enter are the places at
which it can be refused, each with its checks in the order of the code; between the first two, `delegation_order` visits one agent
a step (`path` are the active ones, `order` the done ones) and Measure finds the depth of one agent a step. Then the loop with its
gates runs beside agents that write (`draft`, `summary`), and a blind review takes its snapshot file by file.
**ScaffoldProcess** - one process from its command line to its exit code: `obs` what its observations came to, `sent` those
the exporter has handed over, `task` the briefs of the iteration, `received` the signals, `cancelling` a cancellation that the main
task has not met yet, `point` and `raised` where that task is and what it raises.

### The monitoring service

**MonitoringPass** - `rows`/`evidence` and `assessment` are the tables, `checkpoint` and
`artifact` the S3 objects, `applied` what reached the incidents; `pc` runs through
`tick`, `run_target` and `assess`. What evidence and results say is reduced to which
collection and which inference they come from. Both error boundaries (per target, per kind)
and the crash of the worker are actions; a call that fails after taking effect is the
call followed by a failure at the next.

**IncidentStore** - the rows of one workload with their locks, transactions of the worker and of
operators, and the Slack cursor as a position in `created` (ids are time-ordered, and only
the worker inserts). PostgreSQL is external: rows are locked one by one, a commit is one step,
any transaction may be aborted. What an operator was shown is kept in its request, so
that a property can speak about it.

**Assessments** - `input` is what a window holds, `sources` what was collected of it, `view` what the models see in full and
`starts` where the chunks of the view begin. A loop of the code that keeps what still fits is given by what it has kept
(`Fitting`, `Viewing`, `Packing`: each source is kept if it fits with the kept ones before it), gaps tell what the bounds leave out. **WorkloadNotices** - the inventory, the fleet's rows, and what
Slack took, with lost answers. **OperatorSessions** - browsers with their cookies, login requests,
sessions with expiry; the two transactions of the callback are steps. **Pages** - one page reads the fleet and then
one workload after another; a page that the database fails is asked for again (Unavailable). **WorkspaceCopy** - commands on the instance, versions of the object and
the collector.

### Tracing and the estate

**Releases** - the plan of a pull request through its three jobs (`run`, `storedReport`, `statuses`, `comments`) while people push,
close and rerun; and the deployment (`step`) whose reset disables, drains and deletes the retired pipelines (`scheduled`,
`accepting`, `batch`, `tables`, `artifacts`). **Calibration** - the scripts' files (`rows`, `redacted`, `cache`, `results`) under any order of
scripts, with kills in the middle of a write (`broken`, `torn`).

**Rollout** parses a transcript line by line into turns and their observations; **LiveTrace** extends it with the
two exporters, their caches, the file lock and the ledger; what is pending is a set whose order (`Precedes`) decides what is in a
batch, and `received` is the batches. **FlushTurns** and **ClaudeHook** are the
two hooks; what `build_turns` makes of the rows it reads is a set of turns, each with the latest rows of its messages and
results, and rows are read half written too. **Provisioning** - boxes, addresses, tags and the scripts of two slugs, one call a step.
**RunBox** - the second half of provisioning as steps on one box that may be running its agent, with what was
declared (`want`), what is installed and what systemd runs. **ControlBox** - the script as a list of
steps by name over what exists in AWS, on the box and on the volume.

### How they fit together

What one module leaves as a choice another one decides: a turn of PhasedLoop is a turn of
DelegateTasks and CodingBriefs (whose `turn = "idle"` is where gates run), each of whose calls
holds a slot of DelegationSlots; the brief of a CodingBriefs worker is CodexTurns; the boundaries at which
Steering delivers are the ends of Compaction's selections. The review MonitoringPass applies is what
IncidentStore ingests, in any order and repeatedly, which MonitoringPass shows can happen; the evidence
it collects holds the copy of WorkspaceCopy and is what Assessments shows to models. A box of Provisioning is
the one RunBox sets up, and its agent writes the rollouts of LiveTrace and FlushTurns.

## 3. Runs

| Run | What it checks | Bounds, and why they suffice |
|---|---|---|
| delegates | `SlotsAreKept`; `ConversationsAreTrue`, `BoardSpec`, `MailIsRead`; `CallsEnd` (`EveryCallEnds`, `CallsReturn`, and `MailIsRead` of overlapping calls) | slots: 4 calls, limit 1: a parent with two children and a competitor, or four levels, and nesting deadlocks first with one slot. One call at a time: 2 names, 2 briefs, 2 messages, one restart. Two overlapping calls: 1 name, 2 briefs, 2 messages |
| tasks_overlapping | *violation* of `OneConversation`: two interrupting calls of one response | 1 name, 2 briefs, 2 messages, 2 calls |
| run | `StateIsTrue` (with `HistoryIsOneRun`), `ReportedFailureIsPrompted`; `ToolsAreTrue`; `ChannelSpec`; `StopsAreTold`; `NothingWaitsForEver` (`RunEnds`, `MessagesArrive`, `CallsAreAnswered`, `StopEnds`) | loop: 2 phases (limits 2 and 1), the first with prompt files that may be missing, 3 process starts, 8 records. Delivery: 3 messages on pages of one with two pages a poll: one more than a scan can read; one crash. Tools: 2 calls. Process: one iteration with 2 briefs, 2 stop signals, of which the second meets the unwinding |
| phased_loop_exhausted | *violation* of `FailureIsPrompted`: the prompt after an exhausted run is started again | 2 starts |
| monitoring_stopped | *violation* of `StoppedNotCollected`: a stopped instance is collected again | 1 target, one failure, one stop |
| operators | `IncidentsAreTrue`, `OperatorsDoNotDeadlock`, `DecisionsAreInformed`; `SteeringIsTrue`; `SignInsMakeOneSession`; `PagesShowEveryIncident`; `AcceptedRuns` (with `ToldIsTrue`, `ReviewsAreBlind`) | 2 incidents, 2 windows in either order of which one finds both and the other one, 2 operators with one decision each at a time, one lost answer; one rester, two escalating calls with one request id, 2 messages, one crash; 2 browsers, 2 logins, time up to 3; 3 workloads, 6 incidents on pages of 2, 2 changes; every graph of delegates of three agents, every mode against tools and servers, every missing file, 2 tries, 2 writes (one before and one during a review), one restart |
| assembly_errors | *violation* of `ErrorsComeFirst`: a missing continuation prompt is found after model calls | as in operators |
| tracing | `TracesAreTrue`, `EverythingArrives`; `FlushIsSafe`; `TurnsAreEmitted` | scripts of a main thread with a subagent or a second main thread, batches of 2, one stop of Codex, one crash or lost answer; 2 rollouts around one restart; 2 transcripts of one offset file with half rows and a prompt that is never answered |
| work | `BriefsAreAccountedFor` (`NobodyWorksUnseen`, `NoOutcomeIsLost`, `ReportsAreTrue`); `TurnsAreAccountedFor`, `CancelledBriefsEnd`; `NothingIsForgotten`; `LastKnownIsKept`, `FoundPodsAreCounted` | 2 agents, 2 callers, 2 briefs, 2 cancellations; 2 Codex briefs in turn, one retry, 2 cancellations; a limit of 5 over 8 items, one change behind the checkpoint; 2 metrics and 4 readings; 2 pods, 3 readings, one late |
| service | `PassesAreSound`, `PassesFinish`; `NoticesTellAStory`, `ChangesAreTold`; `AssessmentsAreSound`; `CopiesAreVerified`; `PlansAreTold`, `RetiredDataIsGone` | 2 targets, 2 windows, one failure or crash, one instance change, one target whose status can never be published; a workload that starts and stops twice, one fault; windows with twelve inputs, a budget of 4; 3 commands and 3 states of the disk; 2 commits, 3 runs of 3 plans; 2 deployments over 2 jobs |
| estate | `RunBoxesAreTheirs`; `BoxIsAsDeclared`; `ControllerGetsReady` (with `StateIsSafe`); `FairScores` | 2 slugs, 3 boxes, 2 own addresses, 3 runs; 2 tools, 4 scripts, one reboot; 2 boxes in turn, one cut, 2 stops, 2 environments; 4 papers, 2 builds, one kill |
| control_box_rerun | *violation* of `Idempotent`: a script that was cut off is run again | one box, one cut |

The bounds on briefs, messages, windows, faults and restarts (`Max...`) are guards of the actions
that would grow without them; they are given in the `.cfg` for the module the MC module extends, and in the
`INSTANCE ... WITH` of the MC module for the other parts. `TypeOK` of each module also relates variables
(for example: mail is only on its way while its reader lasts). Deadlock is checked in `delegates`,
`tasks_overlapping` and `monitoring_stopped`; in the other runs a part may stop because its bounded
starts, scripts, messages or readings run out (`CHECK_DEADLOCK FALSE`), and that operators' requests
never wait in a circle is the invariant `OperatorsDoNotDeadlock`.

What the runs do not reach: a fault budget of two with two targets, and a window ageing
out of the retry horizon in `service` (both were tried with one target and hold); more than one page
beyond `max_pages`; Codex with `Parallel` briefs of one agent, where two briefs may book the same
increment of usage (`coding_agents.py:112-117`, a limit of the code that `TurnsAreAccountedFor` is not stated for).

### What the properties leave open

Some properties name an exception because the code has it:

* `SentIsFinal`: a turn that `--finalize` ended for a process that had only just gone
  (`observations.py:149-153`), and `FlushIsSafe` likewise for a process that starts after the look at
  `/proc` (`codex-flush-turns.py:150`). Only a subagent's first turn is kept in one trace. Transcripts are only
  appended to; an entry of the Claude hook's file that is older than thirty days is dropped and
  its session emitted again; the last row may be half written. A turn whose emission fails in the Claude hook is logged
  and counted, and the saved offset passes it (`langfuse_hook.py:784-794`): no hook emits it again (`missed`).
* `NoOutcomeIsLost`: reports that the end of a turn had collected when it was interrupted are dropped, although
  `configuration.md:188` and `docs/extending.md:335` call finished results collectable. `NobodyWorksUnseen`:
  a second cancellation lets the run raise with workers still stopping.
* `FoundPodsAreCounted`: a reading that its caller gave up on may save over a later one (`overlap`).
* `Pages`: a workload that starts or stops between two pages moves its incidents.
* `Workbench`: a call outlasts its timeout when a process left the group with the pipe; a cancelled rest is not
  booked; parallel rests may together take more than what is left (`scaffold.py:253` documents it).
* `RunBoxesAreTheirs`: the shared address is looked at (197-218) and associated later (467), and two scripts that
  overlap in between are excepted (`overlapped`; the comment at :200 knows).
* `GetsReady`: what a cut leaves for good (`Wedged`): a profile without its role; a key pair without its file; a key file
  that was not made private (`make-control-box.sh:199-200`; under the usual umask ssh ignores it, and no re-run changes it);
  and, until the box is replaced, Caddy's keyring without Caddy (`configure-control.sh:148-153`: a re-run without a terminal cannot
  overwrite it). The first is also in `provision-workspace-aws-resources.sh:274-283`. A call of apt, of the AWS CLI's installer or
  of `mkfs` is made as a whole or not at all; what one that is cut off leaves half done is not modelled.
* `FairScores`: results and caches are kept by paper, so nothing is said of which version of a redacted document was
  reviewed, nor of results from before the split was dealt anew.

### Disagreements met

* `tasks_overlapping`: `DelegateTasks.stop` looks at the row after its await; of two
  overlapping interrupting calls the second marks the conversation the first relaunched as
  interrupted. From there the name takes a new brief beside a live conversation.
  `delegates` shows that one call at a time never gets there.
* `phased_loop_exhausted`: the exit at `max_iterations` saves the state without the
  continuation; a new start of that run repeats the phase's prompt, not the failure.
  There is one more such case, below the limit: `continuation` reads the phase's `continue_prompt` after the
  failure is recorded and outside the `try` (`loop.py:130,138,151`). If the file is missing the process fails,
  `Scaffold.run` saves the record with the old `next_prompt`, and the next process goes on without the failure
  (`ContinuationMissing`; the run here leaves it out, `Unreadable = {}`, to show the exhausted one).
  `ReportedFailureIsPrompted` shows, and its theorem proves, that there are no others.
* `monitoring_stopped`: the retry of saved passes does not look at the instance's present
  state, while `design.md` says stopped instances receive no new collections.
* `assembly_errors`: a phase's prompt, the continuation, a rubric and the agents' own files are read
  when they are needed; `check` accepts a drop-in without them, and its run fails after model calls, while
  `docs/extending.md:46` has `InvalidDropInError` raised before any. `AcceptedRuns` shows that nothing else is found late.
* `control_box_rerun`: the role is added to the instance profile only right after the profile was made; a run that was
  cut between the two calls is not repaired by running the script again, which `operations.md:10` calls idempotent.

### Fairness

* DelegationSlots: weak fairness of each call's own steps. asyncio runs every ready
  task, delegated bodies end (turn limits, provider time-outs), and a cancellation that was
  requested is delivered. Making calls and cancelling them is not fair.
* DelegateTasks: weak fairness of each conversation, each delivery and each continuation of a
  call. What the PI does, closes and crashes are not fair.
* PhasedLoop: weak fairness of the loop's own steps; stops and starts are not fair.
* Steering: boundaries recur and awaited calls return (weak). `asyncio.Lock` is first come,
  first served, so a boundary that asks again and again gets it (strong), and a page that is
  asked for again and again is read at some time (strong): without it Slack may be down for ever.
* Workbench: weak fairness of timers, of the kill that follows and of reading the pipe; what processes do is not fair.
* CodexTurns: weak fairness of the five-second timer and of closing the client, whatever the app-server does.
* MonitoringPass: `run` starts a pass every minute and every call has a time-out (weak, on
  the pass as a whole), and time passes. Faults are bounded by MaxFaults, except for
  the permanently unpublishable status. WorkloadNotices: the same of its passes.
* LiveTrace: the service polls, so the lock is free again and again when it asks (strong); batches are accepted at
  some time (strong, per transcript); a pass that began goes on (weak).
* ControlBox: the script goes on, EC2 and systemd do their work, and the operator runs the script again and
  uploads the environment it asks for (weak); cuts, stops and reboots are not fair and are bounded.
* ScaffoldProcess: weak fairness of what goes on once a stop signal arrived: tasks that were cancelled end, exporters
  return by their time-outs. Signals are not fair.
* The other modules: safety only.

## 4. Proofs

Eight modules hold theorems, each about components that a run checks on a small instance. DelegationSlots, DelegateTasks,
Steering, MonitoringPass, PhasedLoop, IncidentStore, CodingBriefs, RunpodInventory, Releases, FlushTurns, ClaudeHook, LiveTrace,
Compaction, ScaffoldProcess, Assessments, Pages, Provisioning and Calibration assume in the module what their constants must be. The theorems of
Workbench, OperatorSessions and Assembly have it as a hypothesis, and the MC module that checks them assumes it
(`ToolsAssumption` in MCRun, `SignInAssumption` and `AssembledAssumption` in MCOperators), so that TLC evaluates it too.

| Module | Component | Theorems | For every | Assumptions |
|---|---|---|---|---|
| DelegationProofs | DelegationSlots | `SlotsAreKeptHolds` and its parts (`TypeCorrect`, `CapacityHolds`, `HoldersRun`, `ChildrenCountedHolds`, `WorkingBoundedHolds`, `NoLostWakeupHolds`) | finite set of calls, limit | `SlotAssumption` |
| | DelegateTasks | `MailIsReadHolds` | delegates, briefs, messages, overlapping calls, restarts | `TasksAssumption` |
| | | `ConversationsAreTrueHolds`, `BoardIsImplemented` | the same, under one call at a time | and `MaxCalls = 1` |
| RunProofs | PhasedLoop | `StateIsTrueHolds`, `HistoryIsOneRunHolds`, `ReportedFailureIsPromptedHolds` | phases, limits, starts, missing prompts | `LoopAssumption` |
| | Workbench | `ToolsAreTrueHolds` | set of calls, rest policy | `RestAssumption` |
| | ScaffoldProcess | `StopsAreToldHolds` | briefs, iterations, stop signals | `ProcessAssumption` |
| ServiceProofs | MonitoringPass | `PassesAreSoundHolds` | instances, windows, faults, changes | `PassAssumption` |
| | OperatorSessions | `SignInsMakeOneSessionHolds` | browsers, logins, lifetimes | `SessionAssumption` |
| | WorkspaceCopy | `CopiesAreVerifiedHolds` | commands, changes of the disk | none |
| | WorkloadNotices | `NoticesTellAStoryHolds` | workloads, windows, changes, lost answers and deaths | none |
| | Assessments | `AssessmentsAreSoundHolds` | evidence, reviewers, bounds of the views, budget, failures and deaths | `ViewAssumption` |
| OperatorProofs | IncidentStore | `IncidentsAreTrueHolds`, `DecisionsAreInformedHolds`, `OperatorsDoNotDeadlockHolds` | findings, windows, operators | `StoreAssumption` |
| | Steering | `SteeringIsTrueHolds`, `ChannelIsImplemented` | messages, page size, pages a poll reads, resting and escalating calls, request ids, crashes | `SteeringAssumption` |
| | Pages | `PagesShowEveryIncidentHolds` | fleet, incidents, size of a page, changes | `PagesAssumption` |
| DeploymentProofs | Releases | `PlansAreToldHolds`, `RetiredDataIsGoneHolds` | plans, jobs, commits, runs, deployments | `ReleaseAssumption` |
| | ControlBox | `StateIsSafeHolds`, `ReadyIsReadyHolds` | boxes, commands run again, cuts, stops and reboots, environments | none |
| | Assembly | `AcceptedRunsHolds` | agents, drop-ins, tries, writes, starts | `AssemblyAssumption` |
| WorkProofs | CodingBriefs | `BriefsAreAccountedForHolds` | agents, callers, briefs, errors and cancellations | `BriefAssumption` |
| | CodexTurns | `TurnsAreAccountedForHolds` | briefs, retries, usage, cancellations | `~Parallel` |
| | Compaction | `NothingIsForgottenHolds` | conversation, limits, stops, changes of what is stored | `ContextAssumption` |
| | ResourceMonitor | `LastKnownIsKeptHolds` | metrics, limits, readings | none |
| | RunpodInventory | `FoundPodsAreCountedHolds` | pods, readings, late ones | `InventoryAssumption` |
| EstateProofs | RunBox | `BoxIsAsDeclaredHolds` | tools, scripts, reboots | none |
| | Provisioning | `RunBoxesAreTheirsHolds` | slugs, instances, addresses, scripts and where they are cut off | `ProvisioningAssumption` |
| | Calibration | `FairScoresHolds` | papers, reviews, bands, scripts in any order and cut off | `CalibrationAssumption` |
| TracingProofs | FlushTurns | `FlushIsSafeHolds` | rollouts, turns, restarts, failed uploads | `FlushAssumption` |
| | ClaudeHook | `TurnsAreEmittedHolds` | sessions, transcripts, faults | `RowsAssumption` |
| | LiveTrace | `TracesAreTrueHolds` | threads, scripts of Codex, batches, stops, crashes, lost answers | `LiveTraceAssumption`, `ScriptAssumption` |

Why each invariant is needed:

* **DelegationSlots** - the limit is not inductive by itself. That a release lowers the counter by exactly one
  needs to know that the releasing call holds a slot exactly if its flag says so; that a parent
  may take its slot back needs `children` to be the number of its open nested calls;
  and that in turn needs the nesting to be a tree in which a parent outlives the wait of its
  children. Hence `IInv == TypeOK /\ Capacity /\ OnlyRunningHolds /\ ChildrenCounted /\ CallTree`.
  Everything that ends a call goes through `LeaveStep`; the counting is in `EnterCounts`,
  `LeaveCounts` and `CountsUnchanged`.
* **DelegateTasks** - `Types` holds for any number of calls, and with it that a receipt follows the session: what is marked
  delivered was handed, and what is handed is in the session (`Handed`). For the statuses the argument is about the one call that
  may be waiting: a row says running while its conversation lasts, or until that call looks at it (`Told`); such a row is the
  latest of its name and not collected, every older one is (`Held`); while the PI's turn lasts nothing but that call ends its
  conversation, and it waits until this has happened (`Asked`). `MaxCalls = 1` is needed: `tasks_overlapping` shows that two
  calls break `Asked` and then `OneConversation`. The board follows step by step: `OnePhase` reduces the phase of a name to
  the one latest row it has, so a step of one row is a step of one name (`OtherPhase`).
* **Steering** - a message is not skipped because a scan that may move the cursor has read without a gap: of a thread all
  messages up to its next page, of a channel all from there to the newest it has seen (`Scanned`); the cursor is then
  what the inbox goes up to (`Received`). An escalation is posted once because only the holder of the lock posts, what it
  posts is in the outbox as being sent, and what is in the outbox is not sent again (`Places`, `Sending`). For the refinement, the
  session has what is marked delivered and at most one more, the first of what is pending (`Delivering`), so that
  what it has is a beginning of what was written (`Beginning`) and what `AddEnvelope` adds is the next. The sequences come from a
  recursive function, `Kept`; what it yields for every input is proved by the least counterexample (`LeastOne`, by `WFMin`)
  instead of induction (`KeptIsComputed`, `KeptFacts`).
* **Workbench** - an answer holds all that was printed because nothing is left that could print on
  (`Silent`); the total of the rests is bounded by what each that rests may still add (`Bounded`).
* **ScaffoldProcess** - an observation is open exactly while what it observes goes on, in the iteration that goes on
  (`OpenIsUnderway`), and where the main task is tells what its briefs may be at (`TasksHavePlaces`): after the unwinding waited for
  the cancelled ones nothing is open, so all that was begun has ended when the process flushes. What is marked as stopped has a
  cancellation behind it, and that a signal; the main task raises from then on (`StopsHaveReasons`), so it exits neither well
  nor exhausted.
* **MonitoringPass** - the checkpoints are ordered (`Saved`), what the worker holds at each step is what it saved last
  (`Held`), and each inference is accounted for by a result that was saved or lost (`Paid`).
* **OperatorSessions** - the login request's row is there only between its beginning and its use
  (`UsedUp`), and sessions belong to browsers (`Owned`): a second answer that was checked in time finds nothing to use.
  When a request and a session were to expire is kept after their rows are gone (`due`, `until`), and so is when a post
  looked at the clock and when a request was last accepted (`read`, `accepted`), so that what was in time stays
  comparable (`Timely`). The request is judged by the clock of the check: verification may take longer than it lasts,
  and the session, which is counted from the check too, is then made after the request has expired.
* **WorkloadNotices** - the number of repetitions is not inductive: for each workload, a message that was shown and that the
  database does not know (`Ahead` of the cursor, `Apart` from the notice) may be repeated, so it is counted too, unless it is on
  its way to be acknowledged (`Lossy`). A report is told late but never before an earlier one, because what is told is no later
  than the last report, which a pass that tells has read (`InTime`).
* **Assessments** - a reviewer is of another family than what the view tells (`OfAnother`); the view tells every model that was
  collected because the first source of a model is in it, whole or by its stand-in (`ModelsAreKnown`, by the least place,
  `OneIsLeast`). A status report that tells of no omission packed all of the evidence (`WithoutGaps`: as many files as are kept, so
  each of them, and no stand-in) into no more chunks than it sweeps, and each piece is in one of them because the first begins
  one (`PiecesAreInChunks`); what was swept is the chunks before the cursor (`Sweeping`). The budget needs the call that is
  reserved and not yet made (`Paying`).
* **RunBox** - the step a script is at tells what it has set up (`Done`), a script that ended well leaves what
  a reboot brings back (`Settled`), and whoever passed the guard saw no run that may be active (`Guarded`).
* **Provisioning** - a slug has one instance because a script that makes one knows of no other (`OneOfEach`), and what it
  remembers of the slug is what EC2 says as long as no other slug's script can touch it (`WorksOnItsOwn`); an address that is not
  the slug's own leads to the box of who holds it (`LeadsHome`), and without an overlap one script at a time is between its look
  at the shared address and its association (`SharedByOne`).
* **Calibration** - what a split has come to are rows dealt in the order of their scores, one more of a decision at most by what
  has been matched (`RowsDealt`); for "no better candidate left out" the candidates are in a strict order (score, then number), so that
  the ones taken are told by how many they are. A verdict of the redacted arm was given on a file that was redacted before it
  was uploaded, wherever scripts were cut off (`Redacted`, `Verdicts`).
* **Pages** - what the reader has been shown is all that is older than where he is, but for what opened or closed since
  (`SeenSoFar`); while a page is read, the same of the workloads it has been to (`ReadSoFar`).
* **ClaudeHook** - the entry that counts for a session is the one of the hook that has the lock, and the file's otherwise
  (`Entry`, `LockIsHeld`). What was processed, emitted or not, is behind it (`EmittedBehind`), which gives new numbers and new user rows; what it
  has passed was processed (`Passed`). A turn is whole because the hook reads at the end of a turn (`TurnIsOver`): all rows
  of the turns it finds are there, but for half of the last.
* **LiveTrace** - turns only grow, and what of them is complete stays (`Earlier`, `TurnGrows`); what an exporter has of a file is an
  earlier state of it, and all of it if the sizes agree, because the size is taken before the file is parsed (`ViewsAreOfFiles`).
  A turn is final once it has ended, or once no process is there to write on: the open turn that `--finalize` ends gets nothing but
  "superseded" (`EndedTurnsRest`), which needs that a process that starts again begins with a turn of its own (`AtTurnEnd`).
  So a span says what will always be true (`SpansAreTrue`). A subagent is in the right trace because an exporter
  that has listed it or read of it has of its parent all that may have spawned it, or has the parent yet to read (`ParentsAreRead`). That a
  prompt is not written twice is what the rollout says of settings and answers (`PromptIsOnce`). Spans that are pending are not
  in the ledger (`BatchesAreNew`), and what Langfuse has is in the ledger, doubted or under way (`ReceivedIsKnown`): so nothing
  arrives twice. A root's batch or those before it hold all of its turn, because a batch is closed under what comes before
  (`BatchIsDown`), which gives `RootsAreLast`.
  `ScriptAssumption` is what Codex keeps to and the exporter relies on: ids of turns differ, one prompt between a turn's settings
  and its first answer (with two, the prompt would have been sent before it changes), and a subagent's file begins with a turn (the
  `session_meta` line before it is left out: a file without turns has nothing to send). Parents are main threads, so placement
  goes up one step.
* **FlushTurns** - while the flush runs the gateway does not, so no process writes its rollouts and none of them is in use; a
  rollout that is open and was not when the flush looked is `late` (`GatewayRests`). Which last turns have been seen to follows
  from where the flush is (`SeenTo`), and that a recorded turn is in Langfuse as it is (`RecordedAreUploaded`) needs that
  what runs is not recorded.
* **PhasedLoop** - the file and the process agree but for an iteration that has begun and costs not yet
  saved (`Agree`, `Begun`), the history is one run up to the place the process is at (`OneRun`), and the prompt is
  the last continuation written in this phase (`Prompts`): no record is of a later phase, and what could not be
  read was recorded (`Behind`).
* **IncidentStore** - a row that still has the version an operator was shown has neither an observation nor a decision that he was
  not shown (`Shown`, for every open request); rows are explained by their chain of decisions (`Chain`);
  how often an incident was told, by where the cursor is and whether a message is on its way (`Told`). No lock is needed
  in that argument: what a commit writes is computed when it commits, which is what the locks are for. That requests do not wait in a
  circle is about the locks alone: each asks in the order of creation, so of a set of requests the one that waits for the
  latest row waits for nobody of the set; that such a one exists is well-foundedness (`WFMin`).
* **WorkspaceCopy** - a version is never changed once it was uploaded, and the version the collector took exists
  (`Arrived`, `Taken`); the comparison of sizes is not needed.

* **Releases** - the run under way has a report that a plan of its commit explains, and a commit later than its own of which
  nothing is said yet (`Underway`, `NotYet`). For the reset the invariant says how far a wait has come: the jobs it has
  passed cannot be where it looked for them, because jobs only advance and none is submitted once schedules and queues are off.
* **ControlBox** - AgentRQ only starts with an environment file, which is only on the mounted volume (`StateIsOnTheVolume`), and of
  all steps only `Disk` could lose what is there, which looks for a file system first (`StateStays`). For `ReadyIsReady`, a script works on
  the one box that lives (`OneLives`), which the address leads to (`TargetIsReached`), with the volume mounted (`VolumeIsMounted`); the file
  is the one it wrote last, and what runs after the restart has read it (`EnvironmentIsWritten`).
* **Assembly** - that delegation is bounded is about every graph: agents that are active form a path of delegates (`OnPath`), so an active agent met again closes a circle, in which there are paths of any length (`PathsGoRound`); agents that are
  done come after those they delegate to (`Ordered`), so a path starting at the n-th agent has at most n steps (`PathsGoDown`), by
  the least counterexample (`LeastOne`). The depths are those of the longest paths (`Measured`), and the greatest of them is that of
  a path through anyone (`GreatestDepth`). With `Done = SdkAgents` that order also lets every agent be built. The other half says
  what each list of checks leaves behind if none of them fails (`FirstOfChecks`): what agents are told (`Assembled`), the tools they
  have, under names that nobody took (`Built`, `Offered`). A blind review reads one version because its snapshot is whole before the
  judge is asked, and what the judge has seen is in it (`Snapshots`).

* **CodingBriefs** - what an agent is at runs or has ended and was not stopped since, so that at most one of `task` and `stopped`
  holds a brief of it, and what runs is what an agent is at (`AtWork`); what is being stopped is waited for unless a second
  cancellation came (`Stopping`), which is why nobody is told of a stop that is not over; the end of a turn still has to
  collect from every agent that is at a brief (`Ending`), which is why nobody works when it returns. `Begun` says that a new
  brief is new. `NoOutcomeIsLost` is inductive given these.
* **CodexTurns** - with one brief of the agent at a time, the agent's reported usage is the largest snapshot its brief has read
  (`Booked`), so that a stale one adds nothing and neither does the summary. `Accounted` follows the way out: as long as a turn
  is held it is read, and only a turn that was read to its end, or is excused, leads to closing. That briefs of
  one agent do not overlap (`~Parallel`) is what `NobodyWorksUnseen` says of background ones.
* **Compaction** - a summary tells the items up to a place where no call waits: that holds of the file for the items it was made of
  (`CheckpointIsTrue`), so of the conversation if they are the same, and of the summary that is being extended (`SummaryIsTrue`),
  for which there is a cut. A boundary is such a place (`BoundariesAreClosed`), because the two items of a call are the call and
  its output, and a user's message is one too (`FirstKeptIsClosed`), because no user speaks between them (`CallsAreWhole`).
* **ResourceMonitor, RunpodInventory** - a metric of the snapshot is its last measurement, dated by the snapshot only while it is
  not marked as old (`Measurements`). Without an overlap, the one reading that goes on is the last, knows what the file has, and
  every reading knew what the ones before it knew (`Known`).

Only model-checked: liveness (neither fairness nor ENABLED is in the prover's reach). The prover knows neither folds nor `SelectSeq`. Two ways
lead around it, and a module takes the one that reads as the code does: a recursive function and its least counterexample
(Steering), or the outcome of a loop as a set (Pages, Calibration, ClaudeHook, where `BuildTurns` is the set of the turns that
`build_turns` has at its end, LiveTrace, where `Observations` is the set of a turn's observations, and Assessments). In Assembly a recursive function of the code is steps over its stack (`Visit`).

## 5. Plan

Done, in this order: delegation slots with their proofs, delegates, loop, steering, passes, incidents; background
coding and Codex turns; live trace, flush and hook; resources, compaction; notices, assessments, copies, sign-in, pages; provisioning,
run box, control box; workspace tools; the proofs of section 4.

Open, in the order of what they would add:

1. Upward mail of delegates (`ask_pi`, `report_progress`, `inbox` with its wait) as part of DelegateTasks.
2. Two provisioning scripts of one slug at once.

## 6. Not modelled, and why

* Text: prompts, briefs, reviews, notices, CSV and JSON parsing (a failed parse is a failed read), the cut of outputs at
  `MAX_OUTPUT_CHARS`, the estimate of tokens and the filter of standing context in Compaction; `trim_recent` may leave out
  the task once a turn's tool calls fill the window. In Assessments, evidence beyond `MAX_EVIDENCE_BYTES`, and
  families of subjects other than those of completed status reports.
* Live trace: subagents of subagents, whose turns are placed by the same rule one step further up (`pipeline.py:71-79`).
* The loss of the advisory lock's connection (`worker.py:235`): visible to PostgreSQL alone; passes are
  taken to exclude each other.
* `DelegateTasks.close` stops at the first superseded conversation whose gather raises (`delegate_tasks.py:133`), and
  `flush_events` sends rows again after a crash between export and mark (`:138`): the events are telemetry.
* SIGKILL's loss of unsaved usage is in PhasedLoop as `lost`, not as a violation: the code does not
  claim otherwise.
* Run boxes: two scripts of one slug at once; changes of ephemeral addresses; secrets left on a box
  when configuring it fails early (the comment at 617-619 knows); a new gateway configuration that is only used after the next
  restart; the switch between live exporter and stop hook when cut, which may trace twice or not at all until it is
  run again; a change of a box's scaffold; staging against systemd's restart of the SDK unit (`provision-workspace-aws-resources.sh:535-539`).
* Controller box: a new volume that is not yet available when a re-run looks (353-369); a failed
  `get-parameter` leaves an empty environment file (in the model, and repaired by the next run); the timeout of the health check is a `Cut`.
* What ScaffoldProcess and Assembly leave out: in interactive mode a superseded live conversation makes `close` raise
  (`delegate_tasks.py:133`), so that the trace is not marked as stopped; an interrupted brief's generation is marked as stopped by the
  scaffold although that goes on; a client that fails to close marks its observation as failed; an agent that writes
  `{{X}}` into a context file makes the next start refuse the drop-in (`drop_in.py:103-125`; in Assembly, as a choice of `WriteFile`).
* Calibration: a kill while `dataset.jsonl` is rewritten cuts its rows, and one while a PDF is redacted leaves half a file; the analysis of results.
* Laptop scripts that run once (`bootstrap-workspace.sh`, `make-new-workspace.sh`), Terraform's resources, migrations, cost
  attribution and the timeline of `analysis`: sequences of I/O whose state is elsewhere.
* Vendored experiment code and run content.
