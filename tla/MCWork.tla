------------------------------- MODULE MCWork -------------------------------
(* What an agent's turn is made of, on small instances.  The components share no *)
(* state: a behaviour is one of background briefs, of a brief on Codex, of the   *)
(* selection of a conversation, of a resource monitor or of the Runpod provider. *)
EXTENDS CodexTurns, CodingBriefs, Compaction, ResourceMonitor, RunpodInventory, TLC

CONSTANTS x, y

VARIABLE part

\* The limit of one metric; the other one has none.
MCLimits == x :> 1

MCInit ==
  /\ part \in {"codex", "briefs", "context", "monitor", "runpod"}
  /\ Init /\ BriefInit /\ ContextInit /\ MonitorInit /\ InventoryInit
  /\ part # "context" => strategy = "persistent"

MCNext ==
  \/ part = "codex" /\ Next /\ UNCHANGED <<part, briefVars, contextVars, monitorVars, inventoryVars>>
  \/ part = "briefs" /\ BriefNext /\ UNCHANGED <<part, vars, contextVars, monitorVars, inventoryVars>>
  \/ part = "context" /\ ContextNext /\ UNCHANGED <<part, vars, briefVars, monitorVars, inventoryVars>>
  \/ part = "monitor" /\ MonitorNext /\ UNCHANGED <<part, vars, briefVars, contextVars, inventoryVars>>
  \/ part = "runpod" /\ InventoryNext /\ UNCHANGED <<part, vars, briefVars, contextVars, monitorVars>>

\* Only the way out of a Codex brief promises anything in time.
MCSpec ==
  /\ MCInit /\ [][MCNext]_<<part, vars, briefVars, contextVars, monitorVars, inventoryVars>>
  /\ part = "codex" => Fairness
=============================================================================
