-------------------------------- MODULE RunBox --------------------------------
(***************************************************************************)
(* What provisioning does to a run box over ssh (the second half of        *)
(* provision-workspace-aws-resources.sh, install-run.sh, run_provision.py, *)
(* configure-run.sh and the scaffold modules acp.sh and sdk.sh), as often  *)
(* as the operator runs it again with an edited configuration.  Any call   *)
(* may be the last one, and the box may reboot.  systemd is external.      *)
(***************************************************************************)
EXTENDS Naturals, FiniteSets

CONSTANTS
  Tools,        \* the digests that provision.json may pin for its tool
  MaxScripts,   \* bound: scripts run
  MaxReboots    \* bound: reboots, and crashes of services

NoTool == "no tool"
Codex == {"live", "stop-hook"}     \* AGENT_PLATFORM=codex by its CODEX_TRACE_MODE
Acp == Codex \cup {"claude"}
Sdk == {"openai-agents"}

VARIABLES
  scaffold,   \* the platforms of this box's scaffold module
  want,       \* the platform and tool digest the script at work is to install
  step,       \* what the script does next
  secrets,    \* whether the per-run secrets lie in /tmp
  binary, receipt,     \* of the tool: what is installed, what is recorded
  env,        \* the platform that /etc/crux-run.env is for
  hook,       \* of Codex's tracing plugin: [there, enabled]; of Claude's hook: [claude]
  units,      \* of the unit files: the gateway's platform, and what it ends a killed turn by; a live trace's
  enabled,    \* the services systemd starts at boot
  gateway,    \* the platform the gateway runs for, or off
  live,       \* the live trace service: off, waiting, up
  run,        \* crux-sdk-run: absent, off, active, waiting (to be restarted)
  settled,    \* the platform of the last script, when it ended well
  disturbed,  \* whether files were changed under an active SDK run
  unsure,     \* whether a script passed an SDK run that was about to restart
  scripts, reboots

files == <<secrets, binary, receipt, env, hook, units>>
services == <<enabled, gateway, live, run>>
ghosts == <<disturbed, unsure>>
vars == <<scaffold, want, step, files, services, settled, ghosts, scripts, reboots>>

Nothing == [platform |-> "none", tool |-> NoTool]

Init ==
  /\ scaffold \in {Acp, Sdk} /\ want = Nothing /\ step = "idle"
  /\ secrets = FALSE /\ binary = NoTool /\ receipt = [source |-> NoTool, binary |-> NoTool]
  /\ env = "none" /\ hook = [there |-> FALSE, enabled |-> FALSE, claude |-> FALSE]
  /\ units = [gateway |-> "off", flush |-> "no", live |-> FALSE]
  /\ enabled = {} /\ gateway = "off" /\ live = "off" /\ run = "absent"
  /\ settled = "none" /\ disturbed = FALSE /\ unsure = FALSE /\ scripts = 0 /\ reboots = 0

----------------------------------------------------------------------------
(* systemd, the operator *)

Quiet == UNCHANGED <<scaffold, want, settled, scripts>>

\* ssh drops, and the box starts what is enabled.
Reboot ==
  /\ reboots < MaxReboots /\ reboots' = reboots + 1 /\ step' = "idle"
  /\ gateway' = IF "gateway" \in enabled THEN units.gateway ELSE "off"
  /\ live' = IF "live" \in enabled /\ units.live THEN "waiting" ELSE "off"
  /\ run' = IF run = "absent" THEN run ELSE "off"
  /\ UNCHANGED <<files, enabled, ghosts>> /\ Quiet

LiveService ==
  /\ \/ live = "waiting" /\ live' = "up" /\ UNCHANGED reboots
     \/ live = "up" /\ live' = "waiting" /\ reboots < MaxReboots /\ reboots' = reboots + 1
  /\ UNCHANGED <<step, files, enabled, gateway, run, ghosts>> /\ Quiet

\* The operator starts the run when no script is at work; a crash restarts it after 30 s,
\* an end, a configuration error and a loop that stopped early do not.
SdkRun ==
  /\ \/ run = "off" /\ step = "idle" /\ settled # "none" /\ run' = "active" /\ UNCHANGED reboots
     \/ run = "active" /\ run' = "waiting" /\ reboots < MaxReboots /\ reboots' = reboots + 1
     \/ run = "waiting" /\ run' = "active" /\ UNCHANGED reboots
     \/ run \in {"active", "waiting"} /\ run' = "off" /\ UNCHANGED reboots
  /\ UNCHANGED <<step, files, enabled, gateway, live, ghosts>> /\ Quiet

----------------------------------------------------------------------------
(* provision-workspace-aws-resources.sh, from ssh on *)

Begin(platform, tool) ==
  /\ step = "idle" /\ scripts < MaxScripts /\ scripts' = scripts + 1
  /\ platform \in scaffold /\ want' = [platform |-> platform, tool |-> tool]
  /\ step' = "guard" /\ settled' = "none"
  /\ UNCHANGED <<scaffold, files, services, ghosts, reboots>>

Cut ==
  /\ step # "idle" /\ step' = "idle"
  /\ UNCHANGED <<scaffold, want, files, services, settled, ghosts, scripts, reboots>>

Frame == UNCHANGED <<scaffold, want, scripts, reboots>>

\* Files that an active run uses.
Touch == disturbed' = (disturbed \/ run = "active") /\ UNCHANGED unsure

\* systemctl is-active: not so for a run that waits to be restarted.
MayStage == run # "active"

Guard ==
  /\ step = "guard" /\ step' = (IF want.platform \in Sdk => MayStage THEN "harness" ELSE "idle")
  /\ unsure' = (unsure \/ run = "waiting")
  /\ UNCHANGED <<files, services, settled, disturbed>> /\ Frame

Harness ==
  /\ step = "harness" /\ step' = "tool" /\ Touch
  /\ UNCHANGED <<files, services, settled>> /\ Frame

CopySecrets ==
  /\ step = "secrets" /\ step' = "read" /\ secrets' = TRUE
  /\ UNCHANGED <<binary, receipt, env, hook, units, services, settled, ghosts>> /\ Frame

----------------------------------------------------------------------------
(* install-run.sh, run_provision.py *)

\* Fault: the binary itself is not looked at.
Fault_Installed == receipt.source = want.tool

\* The receipt names the digest wanted, and the binary is the one it was written for.
Installed == receipt.source = want.tool /\ receipt.binary = binary

InstallTool ==
  /\ \/ step = "tool" /\ step' = (IF Installed THEN "secrets" ELSE "binary") /\ UNCHANGED <<binary, receipt, ghosts>>
     \/ step = "binary" /\ step' = "receipt" /\ binary' = want.tool /\ Touch /\ UNCHANGED receipt
     \/ step = "receipt" /\ step' = "secrets" /\ receipt' = [source |-> want.tool, binary |-> want.tool]
        /\ UNCHANGED <<binary, ghosts>>
  /\ UNCHANGED <<secrets, env, hook, units, services, settled>> /\ Frame

----------------------------------------------------------------------------
(* configure-run.sh *)

\* Deleted as soon as it is read; a script run by hand may find none.
ReadSecrets ==
  /\ step = "read" /\ step' = (IF secrets THEN "environment" ELSE "idle") /\ secrets' = FALSE
  /\ UNCHANGED <<binary, receipt, env, hook, units, services, settled, ghosts>> /\ Frame

Environment ==
  /\ step = "environment" /\ env' = want.platform /\ Touch
  /\ step' = CASE want.platform \in Codex -> "config" [] want.platform = "claude" -> "claude" [] OTHER -> "sdk probe"
  /\ UNCHANGED <<secrets, binary, receipt, hook, units, services, settled>> /\ Frame

----------------------------------------------------------------------------
(* acp.sh *)

Configure(step1, step2, h) ==
  /\ step = step1 /\ step' = step2 /\ hook' = h
  /\ UNCHANGED <<secrets, binary, receipt, env, units, services, settled, ghosts>> /\ Frame

\* .mcp.json and config.toml: live mode goes without the plugin.
Config == Configure("config", "plugin", [hook EXCEPT !.enabled = want.platform = "stop-hook"])

\* `codex plugin add` enables the plugin, so that live mode does not come to it.
Plugin ==
  Configure("plugin", "probe",
            IF want.platform = "live" THEN hook ELSE [hook EXCEPT !.there = TRUE, !.enabled = @ \/ ~hook.there])

\* One turn is run, and must be traced the way it is to be.
Probe ==
  /\ step = "probe"
  /\ step' = (IF (want.platform = "stop-hook") = (hook.there /\ hook.enabled) THEN "unit" ELSE "idle")
  /\ UNCHANGED <<files, services, settled, ghosts>> /\ Frame

Claude == Configure("claude", "unit", [hook EXCEPT !.claude = TRUE])

\* What ends the turns that a killed gateway left: Claude's hook needs no such thing.
Flush == CASE want.platform = "live" -> "live" [] want.platform = "stop-hook" -> "plugin" [] OTHER -> "no"

\* ExecStartPre and ExecStopPost of the gateway.
Unit ==
  /\ step = "unit" /\ step' = "live unit" /\ units' = [units EXCEPT !.gateway = want.platform, !.flush = Flush]
  /\ UNCHANGED <<secrets, binary, receipt, env, hook, services, settled, ghosts>> /\ Frame

\* systemctl disable --now, and the unit file goes.
Disable == units' = [units EXCEPT !.live = FALSE] /\ enabled' = enabled \ {"live"} /\ live' = "off"

LiveUnit ==
  /\ step = "live unit" /\ step' = "restart"
  /\ IF want.platform = "live" THEN units' = [units EXCEPT !.live = TRUE] /\ UNCHANGED <<enabled, live>> ELSE Disable
  /\ UNCHANGED <<secrets, binary, receipt, env, hook, gateway, run, settled, ghosts>> /\ Frame

Restart ==
  /\ \/ /\ step = "restart" /\ step' = "restart live"
        /\ enabled' = enabled \cup {"gateway"} /\ gateway' = units.gateway /\ UNCHANGED live
     \/ /\ step = "restart live" /\ step' = "health" /\ UNCHANGED gateway
        /\ IF units.live THEN enabled' = enabled \cup {"live"} /\ live' = "up" ELSE UNCHANGED <<enabled, live>>
  /\ UNCHANGED <<files, run, settled, ghosts>> /\ Frame

Health ==
  /\ step = "health" /\ step' = "idle"
  /\ settled' = IF gateway # "off" /\ (units.live => live = "up") THEN want.platform ELSE settled
  /\ UNCHANGED <<files, services, ghosts>> /\ Frame

----------------------------------------------------------------------------
(* sdk.sh *)

SdkProbe ==
  /\ step = "sdk probe" /\ step' = "sdk unit"
  /\ UNCHANGED <<files, services, settled, ghosts>> /\ Frame

\* Installed, not started.
SdkConfigure ==
  /\ step = "sdk unit" /\ step' = "idle" /\ settled' = want.platform
  /\ run' = IF run = "absent" THEN "off" ELSE run
  /\ UNCHANGED <<files, enabled, gateway, live, ghosts>> /\ Frame

Next ==
  \/ Reboot \/ LiveService \/ SdkRun \/ Cut
  \/ \E platform \in Acp \cup Sdk, tool \in Tools : Begin(platform, tool)
  \/ Guard \/ Harness \/ CopySecrets \/ InstallTool \/ ReadSecrets \/ Environment
  \/ Config \/ Plugin \/ Probe \/ Claude \/ Unit \/ LiveUnit \/ Restart \/ Health \/ SdkProbe \/ SdkConfigure

Spec == Init /\ [][Next]_vars

----------------------------------------------------------------------------
(* Properties *)

\* What sends the turns of the gateway to Langfuse.
Tracers ==
  IF gateway = "claude" THEN {t \in {"claude hook"} : hook.claude}
  ELSE {t \in {"plugin"} : hook.there /\ hook.enabled} \cup {t \in {"live"} : live # "off"}

TracerOf(p) == CASE p = "live" -> "live" [] p = "claude" -> "claude hook" [] OTHER -> "plugin"

\* acp.sh: once a script ended well, and until the next one begins, every turn is
\* traced one way, whichever way the box was set up before, what was cut off and what
\* reboots; the gateway and its environment are of that platform, and killed turns are
\* ended by the exporter that traces the others.
TracedOneWay ==
  settled \in Acp =>
    /\ gateway = settled /\ env = settled /\ Tracers = {TracerOf(settled)}
    /\ settled \in Codex => Tracers = {units.flush}

\* run_provision.py, configure-run.sh: a run that was set up well has the tool its
\* manifest pins, and its secrets do not lie in /tmp.
SetUpAsDeclared == settled # "none" => binary = want.tool /\ ~secrets

\* provision-workspace-aws-resources.sh:536: nothing changes under an active SDK run,
\* unless the script came by while the run was waiting to be restarted.
RunIsUndisturbed == disturbed => unsure

\* acp.sh, run_provision.py, configure-run.sh, provision-workspace-aws-resources.sh: a box
\* whose script ended well is as it was declared, and no script disturbs an active run.
BoxIsAsDeclared == TracedOneWay /\ SetUpAsDeclared /\ RunIsUndisturbed
=============================================================================
