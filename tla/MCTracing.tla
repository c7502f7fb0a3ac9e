------------------------------ MODULE MCTracing ------------------------------
(* What is traced, on small instances.  The programs share no state: a behaviour *)
(* is one of the live exporter, of the flush script or of the Claude hook.       *)
EXTENDS LiveTrace, FlushTurns, ClaudeHook, TLC

CONSTANTS m, s, g, o

VARIABLE part

L(kind, id) == [kind |-> kind, id |-> id]
MCFiles == <<m, s>>
MCParent == (m :> None) @@ (s :> m)
Calling == <<L("started", 1), L("settings", 0), L("user", 0), L("request", "a"), L("usage", 0), L("return", "a"),
             L("completed", 0)>>
Operating == <<L("started", 1), L("assistant", 0), L("instant", "a"), L("completed", 0)>>
Spawning == <<L("started", 1), L("aborted", 0), L("started", 2)>>
Spawned == <<L("started", 1), L("item", 0)>>
MCScripts ==
  {[lines |-> (m :> Calling) @@ (s :> <<>>), gateway |-> {m}],
   [lines |-> (m :> Operating) @@ (s :> <<>>), gateway |-> {}],
   [lines |-> (m :> Spawning) @@ (s :> Spawned), gateway |-> {m}]}

MCRollouts == <<g, o>>
MCOperated == {o}
MCMaxTurns == (g :> 2) @@ (o :> 1)

MCRows ==
  [one |-> <<L("user", 0), L("assistant", 1), L("result", 1), L("assistant", 1), L("user", 0), L("assistant", 1)>>,
   two |-> <<L("user", 0), L("user", 0), L("assistant", 1)>>]

MCInit ==
  /\ part \in {"live", "flush", "hook"} /\ Init /\ FlushInit /\ HookInit
  /\ part # "live" => script = CHOOSE x \in Scripts : TRUE

Live(step) == part = "live" /\ step /\ UNCHANGED <<part, flushVars, hookVars>>

MCNext ==
  \/ Live(Next)
  \/ part = "flush" /\ FlushNext /\ UNCHANGED <<part, vars, hookVars>>
  \/ part = "hook" /\ HookNext /\ UNCHANGED <<part, vars, flushVars>>

MCvars == <<part, vars, flushVars, hookVars>>

\* Only the exporter promises anything in time: the fairness of its module.
MCSpec ==
  /\ MCInit /\ [][MCNext]_MCvars
  /\ SF_MCvars(Live(BeginPass(Service)))
  /\ \A e \in Exporters : WF_MCvars(Live(pc[e] # "idle" /\ (Read(e) \/ Send(e) \/ Rejected(e))))
  /\ \A t \in Threads : SF_MCvars(Live(IsSentNext(t) /\ Accepted(Service)))
=============================================================================
