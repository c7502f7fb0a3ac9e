------------------------------ MODULE Assembly ------------------------------
(***************************************************************************)
(* From a drop-in directory to a running scaffold: what config.py and      *)
(* drop_in.py check, what Scaffold builds and tells its agents             *)
(* (scaffold.py), what the OpenAI Agents runtime builds of it, and a run   *)
(* of two phases with their gates (gates.py).                              *)
(*                                                                         *)
(* Names are tuples, so that a tool the runtime generates for a delegate   *)
(* can have the name of a declared one.  Files are missing or not, and of  *)
(* the wording of instructions only the tools are kept that they promise,  *)
(* and whether a tool runs to its end or starts work in the background.    *)
(***************************************************************************)
EXTENDS Naturals, Sequences, FiniteSets, SequencesExt

CONSTANTS
  Sdk,        \* the agents, in their order in scaffold.toml
  DropIns,    \* of each drop-in that is run, what it declares beyond Plain
  MaxTries,   \* bound: iterations of a phase
  MaxWrites,  \* bound: changes of the workspace
  MaxStarts   \* bound: process starts

Orchestrator == <<"pi">>
SdkAgents == ToSet(Sdk)
Coder == <<"c">>                           \* the coding agent
Phases == 2
Artifacts == <<"paper", "code">>           \* the submission, in the order of its aliases
Submission == ToSet(Artifacts)
Unlimited == 9
Void == "none"

Readers == {<<"read_file">>, <<"list_files">>}
Result(n) == <<"result", n[1]>>
PiTools == {<<"send_message">>, <<"interrupt_delegate">>, <<"request_progress">>, <<"delegate_inbox">>}
DelegateTools == {<<"ask_pi">>, <<"report_progress">>}

\* The types of tools: the built-in ones, and one that an extension may register.
BuiltIn == Readers \cup {<<"rest">>, <<"escalate">>, <<"run_shell">>, <<"command">>}
TypeOf(t) == IF t \in BuiltIn \cup {<<"custom">>} THEN t ELSE <<"command">>

\* A drop-in that declares nothing but its agents.
Plain ==
  [delegates |-> [n \in SdkAgents |-> {}],
   depth |-> Unlimited,                      \* delegation.max_depth
   mode |-> "blocking",                      \* or "background", "interactive", "both"
   preamble |-> TRUE,
   tools |-> [n \in SdkAgents |-> {}],
   servers |-> [n \in SdkAgents |-> {}],     \* the MCP servers an agent uses
   offered |-> [s \in {} |-> {}],            \* the tools of each server that is defined
   steering |-> Void,                        \* the server of runtime.steering
   extension |-> Void,                       \* "adds" a type of tool, or "conflicts"
   gates |-> [p \in 1..Phases |-> <<>>],     \* of "command", "judge", and "other", which is not defined
   blind |-> FALSE, reviewing |-> Readers,   \* the judge's review and tools
   capped |-> FALSE, metered |-> FALSE,      \* max_cost_usd is set; its resource is declared
   summarised |-> FALSE,                     \* the orchestrator has a workspace_context file
   missing |-> {}]                           \* files and settings that are missing

\* Agents and coding agents have different names, and limits are not negative.
AssemblyAssumption ==
  /\ Sdk \in Seq(SdkAgents) /\ Orchestrator \in SdkAgents /\ Coder \notin SdkAgents
  /\ \A d \in DropIns : (d @@ Plain).depth \in Nat

VARIABLES
  dropIn, command,
  point,
  path, order,  \* of the visits of agents: those that are active, and those that are done
  depths,    \* of the agents in that order, the length of the longest path of delegates
  error,     \* why InvalidDropInError was raised
  called,    \* whether a model was called by this process
  told,      \* the tools the instructions of each agent promise
  tools,     \* the tools built for each agent
  phase, tries, left, failed, rewritten,  \* the loop and its gates
  summary,   \* the file of the workspace context
  draft,     \* the version of each artifact under review, 0 if it is absent
  snapshot,  \* what a blind review took of them
  seen,      \* the versions the judge has read of them
  writes, starts

files == <<summary, draft, writes>>
review == <<snapshot, seen>>
loop == <<phase, tries, left, failed, rewritten>>
prepared == <<told, tools>>
config == <<dropIn, path, order, depths>>
assemblyVars == <<config, command, point, error, called, prepared, loop, files, review, starts>>

Started ==
  /\ path = <<>> /\ order = <<>> /\ depths = <<>>
  /\ point = "load" /\ error = Void /\ called = FALSE
  /\ told = [n \in SdkAgents |-> {}] /\ tools = told
  /\ phase = 1 /\ tries = 0 /\ left = <<>> /\ failed = "no" /\ rewritten = FALSE
  /\ summary = "absent" /\ draft = [f \in Submission |-> 0] /\ snapshot = <<>> /\ seen = {} /\ writes = 0 /\ starts = 1

AssemblyInit == dropIn \in {d @@ Plain : d \in DropIns} /\ command \in {"check", "run"} /\ Started

\* The first of some checks that fails.
First(checks) ==
  LET failing == {i \in DOMAIN checks : checks[i][1]}
  IN  IF failing = {} THEN Void ELSE checks[CHOOSE i \in failing : \A j \in failing : i <= j][2]

Passes(checks, next) ==
  /\ error' = First(checks)
  /\ point' = IF error' = Void THEN next ELSE "exited"

Lacks(f) == f \in dropIn.missing

\* DropInDirectory.research_context: an agent's own file is read for every call, but it may be absent.
Unreadable == dropIn.summarised /\ summary = "binary"

----------------------------------------------------------------------------
(* config.py: the delegates of the agents *)

Delegated == UNION {dropIn.delegates[n] : n \in SdkAgents}

\* ScaffoldConfig._check_references, before delegation_order
Load ==
  /\ point = "load" /\ Passes(<<<<~(Delegated \subseteq SdkAgents \cup {Coder}), "unknown delegate">>>>, "visit")
  /\ UNCHANGED <<config, command, called, prepared, loop, files, review, starts>>

\* delegation_order, a visit at a time: agents are active, on the path, while those they
\* delegate to are visited, and done, in the order, after them.
Done == ToSet(order)
Unvisited == {i \in DOMAIN Sdk : Sdk[i] \notin Done}
Below(n) == dropIn.delegates[n] \cap SdkAgents

Visiting(next) ==
  /\ point = "visit" /\ next
  /\ UNCHANGED <<dropIn, depths, command, called, prepared, loop, files, review, starts>>

VisitAgent ==
  /\ path = <<>> /\ Unvisited # {}
  /\ path' = <<Sdk[CHOOSE i \in Unvisited : \A j \in Unvisited : i <= j]>>
  /\ UNCHANGED <<point, error, order>>

\* The delegates of an agent are listed in any order.
VisitDelegate ==
  /\ path # <<>>
  /\ \E x \in Below(Last(path)) \ Done :
       IF x \in ToSet(path) THEN error' = "cycle" /\ point' = "exited" /\ UNCHANGED path
       ELSE path' = Append(path, x) /\ UNCHANGED <<point, error>>
  /\ UNCHANGED order

Return ==
  /\ path # <<>> /\ Below(Last(path)) \subseteq Done
  /\ order' = Append(order, Last(path)) /\ path' = Front(path)
  /\ UNCHANGED <<point, error>>

Visited ==
  /\ path = <<>> /\ Unvisited = {}
  /\ point' = IF dropIn.depth = Unlimited THEN "references" ELSE "measure"
  /\ UNCHANGED <<error, path, order>>

Visit == Visiting(VisitAgent) \/ Visiting(VisitDelegate) \/ Visiting(Return) \/ Visiting(Visited)

\* The longest path of delegates from each agent, in that order: one longer than from
\* some delegate, and none from a coding agent.
DepthOf(x) == IF \E i \in DOMAIN depths : order[i] = x THEN depths[CHOOSE i \in DOMAIN depths : order[i] = x] ELSE 0

Measure ==
  /\ point = "measure"
  /\ IF Len(depths) < Len(order)
     THEN /\ depths' = Append(depths, Max({0} \cup {1 + DepthOf(x) : x \in dropIn.delegates[order[Len(depths) + 1]]}))
          /\ UNCHANGED <<point, error>>
     ELSE Passes(<<<<Max(ToSet(depths)) > dropIn.depth, "depth">>>>, "references") /\ UNCHANGED depths
  /\ UNCHANGED <<dropIn, path, order, command, called, prepared, loop, files, review, starts>>

UnknownServers == \E n \in SdkAgents : ~(dropIn.servers[n] \subseteq DOMAIN dropIn.offered)

ReferenceChecks ==
  <<<<Lacks("description") /\ Delegated \cap SdkAgents # {}, "description">>,
    <<UnknownServers, "unknown server">>>>

\* DropInDirectory.check_placeholders reads the operator's files and the agents' ones; then
\* extensions are imported.
DirectoryChecks ==
  <<<<Lacks("value") \/ (dropIn.summarised /\ summary = "placeholder"), "placeholder">>,
    <<Unreadable, "summary">>,
    <<Lacks("workspace"), "workspace">>,
    <<dropIn.extension = "conflicts" \/ Lacks("extension"), "extension">>>>

CheckReferences ==
  /\ point = "references" /\ Passes(ReferenceChecks \o DirectoryChecks, "assemble")
  /\ UNCHANGED <<config, command, called, prepared, loop, files, review, starts>>

----------------------------------------------------------------------------
(* scaffold.py: the components and the instructions *)

Used == UNION {dropIn.tools[n] : n \in SdkAgents} \cup dropIn.reviewing
Registered == BuiltIn \cup (IF dropIn.extension = "adds" THEN {<<"custom">>} ELSE {})
Gates == UNION {ToSet(dropIn.gates[p]) : p \in 1..Phases}

\* PhasedLoop: the gates of a phase are defined.
UnknownGates == "other" \in Gates

UnknownTypes == \E t \in Used : TypeOf(t) \notin Registered
Escalates == \E t \in Used : TypeOf(t) = <<"escalate">>

\* LlmJudgeGate.validate_tools
ReviewIsAllowed == dropIn.blind => \A t \in dropIn.reviewing : TypeOf(t) \in Readers

\* Fault: the tools of gates are not validated.
Fault_ReviewChecks == <<>>

\* Gate.validate_tools of every gate, when the tools are built.
ReviewChecks == <<<<~ReviewIsAllowed, "review">>>>

\* OpenAIAgentsOptions
RuntimeChecks == <<<<Lacks("runtime options"), "runtime options">>>>

\* The server of the operator's messages is defined, and who can escalate has one.
SteeringChecks ==
  <<<<dropIn.steering \notin {Void} \cup DOMAIN dropIn.offered, "steering">>,
    <<dropIn.steering = Void /\ Escalates, "escalate">>>>

AssembleChecks ==
  <<<<Lacks("provider settings"), "settings">>,
    <<dropIn.capped /\ ~dropIn.metered, "model resource">>,
    <<UnknownGates, "unknown gate">>,
    <<UnknownTypes, "unknown type">>>>
  \o ReviewChecks \o <<<<Lacks("persona") \/ Lacks("context"), "instructions">>>> \o RuntimeChecks \o SteeringChecks

Interactive == dropIn.mode \in {"interactive", "both"}
Background == dropIn.mode \in {"background", "both"}
Runs(names) == {<<n, "runs">> : n \in names}
Starts(names) == {<<n, "starts">> : n \in names}

\* Scaffold._delegate_instructions: what callers are told of their delegates.
ToldOfDelegates(n) ==
  LET names == dropIn.delegates[n]
      coding == names \cap {Coder}
  IN  IF names = {} THEN {}
      ELSE IF Interactive THEN Starts(names) \cup Runs({Result(x) : x \in names} \cup PiTools)
      ELSE IF Background THEN Runs(names \ coding) \cup Starts(coding) \cup Runs({Result(x) : x \in coding})
      ELSE Runs(names)

\* Scaffold._compose_instructions, _preamble, _steering_instructions
Told(n) ==
  IF ~dropIn.preamble THEN {}
  ELSE Runs(dropIn.tools[n]) \cup ToldOfDelegates(n)
       \cup (IF Interactive /\ n # Orchestrator THEN Runs(DelegateTools) ELSE {})

Assemble ==
  /\ point = "assemble" /\ Passes(AssembleChecks, "build")
  /\ told' = IF error' = Void THEN [n \in SdkAgents |-> Told(n)] ELSE told
  /\ UNCHANGED <<config, command, called, tools, loop, files, review, starts>>

----------------------------------------------------------------------------
(* openai_agents_sdk.py: the agents and their tools *)

\* OpenAIAgentsRuntime._check_result_names
Generated ==
  {Result(x) : x \in Delegated \cap {Coder}}
  \cup IF Interactive THEN PiTools \cup DelegateTools \cup {Result(x) : x \in SdkAgents \ {Orchestrator}} ELSE {}

NamesAreTaken(names) == (Interactive \/ Background) /\ Generated \cap names # {}

\* Fault: only the orchestrator can collect.
Fault_ResultTools(n) ==
  IF Background /\ ~Interactive /\ n = Orchestrator THEN Runs({Result(x) : x \in dropIn.delegates[n] \cap {Coder}}) ELSE {}

\* The tool that collects the result of a coding agent.
ResultTools(n) ==
  IF Background /\ ~Interactive THEN Runs({Result(x) : x \in dropIn.delegates[n] \cap {Coder}}) ELSE {}

\* OpenAIAgentsRuntime._delegate, _coding_tool, _interactive_tool
DelegateTool(x) == <<x, IF Interactive \/ (Background /\ x = Coder) THEN "starts" ELSE "runs">>

\* OpenAIAgentsRuntime._communication_tools
CommunicationTools(n) ==
  IF ~Interactive THEN {}
  ELSE IF n # Orchestrator THEN Runs(DelegateTools)
  ELSE Runs(PiTools \cup {Result(x) : x \in dropIn.delegates[n]})

Servers == UNION {dropIn.servers[n] : n \in SdkAgents} \cup ({dropIn.steering} \ {Void})

NestedDelegates == Interactive /\ \E n \in SdkAgents \ {Orchestrator} : dropIn.delegates[n] # {}

BuildChecks ==
  <<<<Lacks("key"), "key">>,
    <<NestedDelegates, "nested delegates">>,
    <<NamesAreTaken(Used \cup SdkAgents \cup {Coder}), "name">>,
    <<Lacks("server settings") /\ Servers # {}, "server settings">>,
    <<Lacks("model"), "model">>>>

\* Agents are built in their order: the tool of an SDK agent needs the agent it calls.
CanBuild ==
  LET Place(n) == CHOOSE i \in DOMAIN order : order[i] = n
  IN  Interactive \/ \A n \in SdkAgents : \A x \in dropIn.delegates[n] \cap SdkAgents : Place(x) < Place(n)

\* Both check, through describe, and run build the agents.
Build ==
  /\ point = "build"
  /\ error' = First(BuildChecks)
  /\ point' = IF error' # Void \/ (command = "check" /\ CanBuild) THEN "exited" ELSE IF CanBuild THEN "enter" ELSE "crashed"
  /\ tools' =
       IF error' # Void THEN tools
       ELSE [n \in SdkAgents |-> Runs(dropIn.tools[n]) \cup {DelegateTool(x) : x \in dropIn.delegates[n]}
                                 \cup ResultTools(n) \cup CommunicationTools(n)]
  /\ UNCHANGED <<config, command, called, told, loop, files, review, starts>>

\* OpenAIAgentsRuntime.__aenter__: the servers start and list their tools.
OffersTaken == \E s \in Servers : NamesAreTaken(dropIn.offered[s])

SteeringLacksTools ==
  /\ dropIn.steering # Void
  /\ ~({<<"conversations_history">>} \cup (IF Escalates THEN {<<"conversations_add_message">>} ELSE {})
       \subseteq dropIn.offered[dropIn.steering])

EnterChecks == <<<<OffersTaken, "name">>, <<SteeringLacksTools, "steering tools">>>>

Enter ==
  /\ point = "enter" /\ Passes(EnterChecks, "prompt")
  /\ UNCHANGED <<config, command, called, prepared, loop, files, review, starts>>

----------------------------------------------------------------------------
(* loop.py, gates.py: a run, whose agents write to the workspace *)

Exits(why) == error' = why /\ point' = "exited"

\* PhasedLoop.run: the prompt of the phase, unless a failure wrote the next one.
Prompt ==
  /\ point = "prompt"
  /\ IF phase > Phases THEN point' = "exited" /\ UNCHANGED <<error, tries>>
     ELSE IF ~rewritten /\ Lacks(<<"first prompt", "second prompt">>[phase]) THEN Exits("prompt") /\ UNCHANGED tries
     ELSE point' = "call" /\ tries' = tries + 1 /\ UNCHANGED error
  /\ UNCHANGED <<config, command, called, prepared, phase, left, failed, rewritten, files, review, starts>>

\* Scaffold._research_context is read for every model call; an iteration that raises
\* is not counted.
Call ==
  /\ point = "call"
  /\ IF Unreadable THEN Exits("summary") /\ tries' = tries - 1 /\ UNCHANGED called
     ELSE point' = "working" /\ called' = TRUE /\ UNCHANGED <<error, tries>>
  /\ UNCHANGED <<config, command, prepared, phase, left, failed, rewritten, files, review, starts>>

\* A turn goes on, is completed, or runs out of model calls.
Work ==
  /\ point = "working"
  /\ \/ point' = "call" /\ UNCHANGED <<left, failed>>
     \/ point' = "gates" /\ left' = dropIn.gates[phase] /\ failed' = "no"
     \/ point' = "gates" /\ left' = <<>> /\ failed' = "yes"
  /\ UNCHANGED <<config, command, error, called, prepared, phase, tries, rewritten, files, review, starts>>

\* An agent or one of its jobs writes to the workspace.
WriteFile ==
  /\ point \in {"working", "gates", "snapshot", "judging"} /\ writes < MaxWrites /\ writes' = writes + 1
  /\ \/ dropIn.summarised /\ summary' \in {"text", "placeholder", "binary"} /\ UNCHANGED draft
     \/ \E f \in Submission : "judge" \in Gates /\ draft' = [draft EXCEPT ![f] = writes'] /\ UNCHANGED summary
  /\ UNCHANGED <<config, command, point, error, called, prepared, loop, review, starts>>

AfterGate(verdict) ==
  /\ left' = Tail(left) /\ point' = "gates"
  /\ failed' = IF failed = "no" \/ verdict = "rewritten" THEN verdict ELSE failed

\* CommandGate.evaluate
RunCommand ==
  /\ point = "gates" /\ left # <<>> /\ Head(left) = "command"
  /\ \E verdict \in {"no", "yes"} : AfterGate(verdict)
  /\ UNCHANGED <<config, command, error, called, prepared, phase, tries, rewritten, files, review, starts>>

\* LlmJudgeGate.evaluate: a blind review starts from a snapshot.
StartReview ==
  /\ point = "gates" /\ left # <<>> /\ Head(left) = "judge"
  /\ point' = IF dropIn.blind THEN "snapshot" ELSE "asking"
  /\ snapshot' = <<>> /\ seen' = {}
  /\ UNCHANGED <<config, command, error, called, prepared, loop, files, starts>>

\* ReviewWorkspace.snapshot reads one artifact after another, and fails the gate if one is absent.
TakeArtifact ==
  LET f == Artifacts[Cardinality(DOMAIN snapshot) + 1]
  IN  /\ point = "snapshot"
      /\ IF draft[f] = 0 THEN AfterGate("yes") /\ snapshot' = <<>>
         ELSE /\ snapshot' = [g \in DOMAIN snapshot \cup {f} |-> IF g = f THEN draft[f] ELSE snapshot[g]]
              /\ point' = IF DOMAIN snapshot' = Submission THEN "asking" ELSE point
              /\ UNCHANGED <<left, failed>>
      /\ UNCHANGED <<config, command, error, called, prepared, phase, tries, rewritten, files, seen, starts>>

\* The rubric is read and a judge is asked; what fails the run is not counted.
AskJudge ==
  /\ point = "asking"
  /\ IF Lacks("rubric") THEN Exits("rubric") /\ tries' = tries - 1
     ELSE IF ~ReviewIsAllowed THEN Exits("review") /\ tries' = tries - 1
     ELSE point' = "judging" /\ UNCHANGED <<error, tries>>
  /\ UNCHANGED <<config, command, called, prepared, phase, left, failed, rewritten, files, review, starts>>

\* OpenAIAgentsRuntime.judge binds the tools to the snapshot of a blind review.
Reviewed(f) == IF dropIn.blind THEN snapshot[f] ELSE draft[f]

JudgeReads ==
  /\ point = "judging" /\ dropIn.reviewing # {}
  /\ \E f \in Submission : seen' = seen \cup {<<f, Reviewed(f)>>}
  /\ UNCHANGED <<config, command, point, error, called, prepared, loop, files, snapshot, starts>>

\* A judge that runs out of turns fails the gate; one that fails it may write the next prompt.
Verdict ==
  /\ point = "judging"
  /\ \E verdict \in {"no", "yes", "rewritten"} : AfterGate(verdict)
  /\ snapshot' = <<>> /\ seen' = {}
  /\ UNCHANGED <<config, command, error, called, prepared, phase, tries, rewritten, files, starts>>

\* PhasedLoop.run, continuation
Conclude ==
  /\ point = "gates" /\ left = <<>>
  /\ IF failed = "no" THEN phase' = phase + 1 /\ tries' = 0 /\ rewritten' = FALSE /\ point' = "prompt" /\ UNCHANGED error
     ELSE /\ IF tries >= MaxTries THEN point' = "exited" /\ UNCHANGED <<error, rewritten>>
             ELSE IF failed = "yes" /\ Lacks("continue") THEN Exits("continue") /\ UNCHANGED rewritten
             ELSE point' = "prompt" /\ rewritten' = TRUE /\ UNCHANGED error
          /\ UNCHANGED <<phase, tries>>
  /\ UNCHANGED <<config, command, called, prepared, left, failed, files, review, starts>>

\* The process is stopped or ended, and started again with its state directory.
Restart ==
  /\ command = "run" /\ point # "crashed" /\ starts < MaxStarts /\ starts' = starts + 1
  /\ point' = "load" /\ error' = Void /\ called' = FALSE
  /\ told' = [n \in SdkAgents |-> {}] /\ tools' = told'
  /\ tries' = IF point \in {"call", "working", "gates", "snapshot", "asking", "judging"} THEN tries - 1 ELSE tries
  /\ left' = <<>> /\ failed' = "no" /\ snapshot' = <<>> /\ seen' = {}
  /\ path' = <<>> /\ order' = <<>> /\ depths' = <<>>
  /\ UNCHANGED <<dropIn, command, phase, rewritten, files>>

AssemblyNext ==
  \/ Load \/ Visit \/ Measure \/ CheckReferences \/ Assemble \/ Build \/ Enter
  \/ Prompt \/ Call \/ Work \/ WriteFile \/ RunCommand \/ Conclude
  \/ StartReview \/ TakeArtifact \/ AskJudge \/ JudgeReads \/ Verdict
  \/ Restart

AssemblySpec == AssemblyInit /\ [][AssemblyNext]_assemblyVars

----------------------------------------------------------------------------
(* Properties *)

\* Whether delegates form a path of some length: a path as long as there are names
\* has a cycle.
HasPath(length) ==
  \E p \in [1..(length + 1) -> SdkAgents \cup {Coder}] :
    \A i \in 1..length : p[i] \in SdkAgents /\ p[i + 1] \in dropIn.delegates[p[i]]

\* config.py: delegation is rejected exactly if it has a cycle or a path that is too long.
DelegationIsBounded ==
  /\ point = "assemble" => ~HasPath(Len(Sdk) + 1) /\ (dropIn.depth # Unlimited => ~HasPath(dropIn.depth + 1))
  /\ point = "exited" /\ error = "cycle" => HasPath(Len(Sdk) + 1)
  /\ point = "exited" /\ error = "depth" => HasPath(dropIn.depth + 1)

\* What is wrong with a drop-in is found before a model is called, but for prompts, rubrics
\* and the agents' own files, which are read when they are needed.
LateErrorsAreOfFiles == called => error \in {Void, "prompt", "continue", "rubric", "summary"}

\* config.py, drop_in.py, scaffold.py: an accepted drop-in runs: its delegation is bounded,
\* its agents can be built, and only files can be found missing later.
DropInsAreChecked == point # "crashed" /\ DelegationIsBounded /\ LateErrorsAreOfFiles

Entered == point \notin {"load", "visit", "measure", "references", "assemble", "build", "enter", "exited", "crashed"}
GeneratedFor(n) == {t[1] : t \in ResultTools(n) \cup CommunicationTools(n)}

\* scaffold.py against openai_agents_sdk.py: what an agent's instructions promise is what was
\* built for it: the tools it can call, whether a delegate's tool waits for the work, under
\* names that no other of its tools has; and who can escalate reaches the operator.
ToldIsTrue ==
  Entered =>
    /\ \A n \in SdkAgents :
         /\ told[n] \subseteq tools[n]
         /\ GeneratedFor(n) \cap (dropIn.tools[n] \cup dropIn.delegates[n]
                                  \cup UNION {dropIn.offered[s] : s \in dropIn.servers[n]}) = {}
    /\ Escalates => /\ dropIn.steering # Void
                    /\ <<"conversations_add_message">> \in dropIn.offered[dropIn.steering]

\* gates.py: whatever the agents go on writing, a blind review reads one version of each
\* artifact, present when the review began, with nothing but readers.
ReviewsAreBlind ==
  point = "judging" /\ dropIn.blind =>
    /\ \A f \in Submission : {r[2] : r \in {q \in seen : q[1] = f}} \subseteq {snapshot[f]} \ {0}
    /\ \A t \in dropIn.reviewing : TypeOf(t) \in Readers

\* An accepted drop-in runs, as its agents are told, and its reviews are blind.
AcceptedRuns == DropInsAreChecked /\ ToldIsTrue /\ ReviewsAreBlind

\* docs/extending.md: what is wrong with a drop-in is raised before any model call.
ErrorsComeFirst == called => error = Void
=============================================================================
