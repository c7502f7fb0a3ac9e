---------------------------- MODULE MCOperators ----------------------------
(***************************************************************************)
(* What operators do and are told, on small instances: they check a drop-in *)
(* and run it, sign in to the website, page through its incidents and      *)
(* decide on them, and a run escalates to them in Slack.  The parts share  *)
(* no state, and a behaviour is one of them.  Incidents are told apart by  *)
(* the order in which they are created and operators by what they request, *)
(* so that both may be permuted; windows are ordered and may not.          *)
(***************************************************************************)
EXTENDS IncidentStore, OperatorSessions, Steering, Pages, Assembly, TLC

Symmetry == Permutations(Findings) \cup Permutations(Operators)

VARIABLE part

MCWorkloads == 1..3
MCWhere == <<2, 1, 2, 3, 2, 1>>

Pi == <<"pi">>
A == <<"a">>
B == <<"b">>
C == <<"c">>
Delegates(pi, a, b) == (Pi :> pi) @@ (A :> a) @@ (B :> b)
History == <<"conversations_history">>
AddMessage == <<"conversations_add_message">>

\* Any delegates of two agents below the orchestrator, with cycles and paths of any length.
\* What these drop-ins and those of Wirings differ in is over when their runs find that the
\* first prompt is missing.
Graphs ==
  {[delegates |-> Delegates(pi, a, b), depth |-> d, missing |-> {"first prompt"}] :
     pi \in SUBSET {A, B, C}, a \in SUBSET {A, B, C}, b \in SUBSET {Pi, A, C}, d \in {0, 1, 2, 9}}

\* Modes against tools and servers: some have the names of generated tools, some are not defined.
Wirings ==
  {[delegates |-> Delegates({A, C}, a, {}), mode |-> mode, tools |-> Delegates(pi, {}, {}), preamble |-> p, steering |-> s,
    missing |-> {"first prompt"}, servers |-> Delegates({"docs"}, {}, {}),
    offered |-> [slack |-> {History} \cup adds, docs |-> {docs}]] :
     a \in {{}, {C}, {B}}, mode \in {"blocking", "background", "interactive", "both"},
     pi \in {{<<"rest">>}, {<<"escalate">>}, {<<"result", "c">>}, {<<"send_message">>}, {<<"custom">>}},
     p \in BOOLEAN, s \in {"none", "slack", "mail"}, adds \in {{}, {AddMessage}},
     docs \in {<<"search">>, <<"result", "a">>}}

\* One file or setting is missing, with extensions and budgets.
Incomplete ==
  {[delegates |-> Delegates({A}, {}, {}), gates |-> <<<<"command", "judge">>, <<>>>>, missing |-> {f}, extension |-> e,
    capped |-> capped, metered |-> metered, servers |-> Delegates(s, {}, {}), offered |-> [docs |-> {<<"search">>}]] :
     f \in {"description", "value", "workspace", "extension", "provider settings", "runtime options", "persona", "context", "key",
            "server settings", "model", "rubric", "continue", "first prompt", "second prompt"},
     e \in {"none", "adds", "conflicts"}, capped \in BOOLEAN, metered \in BOOLEAN, s \in {{}, {"docs"}}}

\* Gates and reviews of any kind, blind ones with any tools and others with a file that is read for every call.
Reviews ==
  {[gates |-> <<first, second>>, blind |-> blind, reviewing |-> r, summarised |-> ~blind] :
     first \in {<<>>, <<"command", "judge">>}, second \in {<<"judge">>, <<"other">>, <<"command">>},
     <<blind, r>> \in {<<FALSE, {<<"read_file">>}>>, <<TRUE, {}>>, <<TRUE, {<<"read_file">>}>>,
                       <<TRUE, {<<"read_file">>, <<"run_shell">>}>>}}

MCSdk == <<Pi, A, B>>
MCDropIns == Graphs \cup Wirings \cup Incomplete \cup Reviews

ASSUME SignInAssumption == SessionAssumption
ASSUME AssembledAssumption == AssemblyAssumption

MCInit ==
  /\ part \in {"incidents", "escalation", "signin", "pages", "assembly"}
  /\ Init /\ SteeringInit /\ SignInInit /\ PagesInit
  /\ part # "escalation" => threaded = FALSE
  /\ IF part = "incidents" THEN \E f \in Findings : {report[w] : w \in Windows} = {Findings, {f}}
     ELSE report = [w \in Windows |-> {}]
  /\ part # "pages" => open = {}
  /\ IF part = "assembly" THEN AssemblyInit
     ELSE dropIn = Plain /\ command = "check" /\ Started

MCNext ==
  \/ part = "incidents" /\ Next /\ UNCHANGED <<part, steeringVars, signInVars, pagesVars, assemblyVars>>
  \/ part = "escalation" /\ SteeringNext /\ UNCHANGED <<part, vars, signInVars, pagesVars, assemblyVars>>
  \/ part = "signin" /\ SignInNext /\ UNCHANGED <<part, vars, steeringVars, pagesVars, assemblyVars>>
  \/ part = "pages" /\ PagesNext /\ UNCHANGED <<part, vars, steeringVars, signInVars, assemblyVars>>
  \/ part = "assembly" /\ AssemblyNext /\ UNCHANGED <<part, vars, steeringVars, signInVars, pagesVars>>

MCSpec == MCInit /\ [][MCNext]_<<part, vars, steeringVars, signInVars, pagesVars, assemblyVars>>
=============================================================================
