----------------------------- MODULE EstateProofs -----------------------------
(***************************************************************************)
(* Proofs about RunBox for any tools and any number of scripts, cut off    *)
(* anywhere, and of reboots.  What a script has set up is told by the step *)
(* it is at (Done); what it leaves when it ends well is what a reboot      *)
(* brings back (Settled); and whoever passed the guard has seen no run     *)
(* that may be active, or is known to be unsure of it (Guarded).           *)
(* Then about Provisioning, for any slugs, instances and addresses, and    *)
(* scripts cut off anywhere: a script works on what is its slug's          *)
(* (WorksOnItsOwn), which has one of each at most (OneOfEach), and an      *)
(* address leads to an instance of the slug that has it (LeadsHome).  The  *)
(* shared address is nobody's, so it takes that one script at most works   *)
(* on it to tell who it is free for (SharedByOne).                         *)
(* Then about Calibration, for any papers, reviews and bands apart, and    *)
(* scripts run in any order: the rows of a band were dealt from candidates *)
(* among which there are all that are left (RowsDealt), their order being  *)
(* strict; and no document tells its decision once the paths are recorded  *)
(* (Redacted).                                                             *)
(***************************************************************************)
EXTENDS RunBox, Provisioning, Calibration, SequenceTheorems, FiniteSetTheorems, TLAPS

\* The steps at which each part of the set-up is done.
GatewayRuns == {"restart live", "health"}
LiveUnitSet == {"restart"} \cup GatewayRuns
UnitWritten == {"live unit"} \cup LiveUnitSet
HookSet == {"unit"} \cup UnitWritten
EnvWritten == {"config", "plugin", "probe", "claude", "sdk probe", "sdk unit"} \cup HookSet
SecretsRead == {"environment"} \cup EnvWritten
ToolInstalled == {"secrets", "read"} \cup SecretsRead
GuardPassed == {"harness", "tool", "binary", "receipt"} \cup ToolInstalled

BoxTypeOK ==
  /\ scaffold \in {Acp, Sdk}
  /\ hook \in [there : BOOLEAN, enabled : BOOLEAN, claude : BOOLEAN]
  /\ units \in [gateway : Acp \cup {"off"}, flush : {"no", "live", "plugin"}, live : BOOLEAN]
  /\ enabled \subseteq {"gateway", "live"} /\ live \in {"off", "waiting", "up"}
  /\ run \in {"absent", "off", "active", "waiting"}

\* The tracing of a platform, in Codex's plugin or Claude's hook.
HookIsOf(p) ==
  IF p = "claude" THEN hook.claude ELSE (hook.there /\ hook.enabled <=> p = "stop-hook")

UnitIsOf(p) ==
  /\ units.gateway = p
  /\ units.flush = CASE p = "live" -> "live" [] p = "stop-hook" -> "plugin" [] OTHER -> "no"

LiveIsOf(p) ==
  /\ units.live <=> p = "live"
  /\ p # "live" => live = "off" /\ "live" \notin enabled

\* What is done at a step is so of the platform that is wanted.
Done ==
  /\ receipt.source = receipt.binary
  /\ step # "idle" => want.platform \in scaffold /\ settled = "none"
  /\ step = "receipt" => binary = want.tool
  /\ step \in ToolInstalled => binary = want.tool
  /\ step \in SecretsRead => ~secrets
  /\ step \in EnvWritten => env = want.platform
  /\ step \in {"config", "plugin", "probe"} => want.platform \in Codex
  /\ step = "claude" => want.platform = "claude"
  /\ step \in {"sdk probe", "sdk unit"} => want.platform \in Sdk
  /\ step \in {"plugin", "probe"} => (hook.enabled <=> want.platform = "stop-hook")
  /\ step = "probe" /\ want.platform = "stop-hook" => hook.there
  /\ step \in HookSet => want.platform \in Acp /\ HookIsOf(want.platform)
  /\ step \in UnitWritten => UnitIsOf(want.platform)
  /\ step \in LiveUnitSet => LiveIsOf(want.platform)
  /\ step \in GatewayRuns => gateway = want.platform /\ "gateway" \in enabled
  /\ step = "health" /\ want.platform = "live" => live # "off" /\ "live" \in enabled

\* What a script that ended well left, and a reboot brings back.
Settled ==
  settled # "none" =>
    /\ step = "idle" /\ settled = want.platform /\ settled \in scaffold
    /\ binary = want.tool /\ ~secrets
    /\ settled \in Acp =>
         /\ env = settled /\ HookIsOf(settled) /\ UnitIsOf(settled) /\ LiveIsOf(settled)
         /\ gateway = settled /\ "gateway" \in enabled
         /\ settled = "live" => live # "off" /\ "live" \in enabled

\* Past the guard no SDK run is, or may become, active without a note of it.
Guarded ==
  /\ scaffold = Acp => run = "absent"
  /\ step \in GuardPassed /\ run \in {"active", "waiting"} => unsure
  /\ disturbed => unsure

IInv == BoxTypeOK /\ Done /\ Settled /\ Guarded

\* A box before its first script.
LEMMA InitIInv == Init => IInv
<1> SUFFICES ASSUME Init PROVE IInv  OBVIOUS
<1> USE DEF Init
<1>1. BoxTypeOK  BY DEF BoxTypeOK
<1>2. Done /\ Settled /\ Guarded
  BY DEF Done, Settled, Guarded, GuardPassed, ToolInstalled, SecretsRead, EnvWritten, HookSet, UnitWritten,
         LiveUnitSet, GatewayRuns
<1> QED  BY <1>1, <1>2 DEF IInv

\* A reboot, a restart or the end of a service changes no file.
LEMMA SystemStep == ASSUME IInv, Reboot \/ LiveService \/ SdkRun \/ Cut PROVE IInv'
<1> USE DEF IInv
<1>1. CASE Reboot
  <2>0. UNCHANGED <<scaffold, want, secrets, binary, receipt, env, hook, units, enabled, settled, disturbed,
                    unsure>>
    BY <1>1 DEF Reboot, files, services, ghosts, Frame, Quiet
  <2>1. /\ step' = "idle"
        /\ gateway' = IF "gateway" \in enabled THEN units.gateway ELSE "off"
        /\ live' = IF "live" \in enabled /\ units.live THEN "waiting" ELSE "off"
        /\ run' = IF run = "absent" THEN run ELSE "off"
    BY <1>1, <2>0 DEF Reboot, BoxTypeOK, Done, HookIsOf, UnitIsOf, LiveIsOf, Acp, Codex, Sdk,
           GuardPassed, ToolInstalled, SecretsRead, EnvWritten, HookSet,
           UnitWritten, LiveUnitSet, GatewayRuns
  <2>2. BoxTypeOK'  BY <2>0, <2>1 DEF BoxTypeOK
  <2>3. Done'
    BY <2>0, <2>1 DEF BoxTypeOK, Done, Settled, HookIsOf, UnitIsOf, LiveIsOf, Acp, Codex, Sdk,
           GuardPassed, ToolInstalled, SecretsRead, EnvWritten, HookSet,
           UnitWritten, LiveUnitSet, GatewayRuns
  <2>4. Settled'
    BY <2>0, <2>1 DEF BoxTypeOK, Done, Settled, HookIsOf, UnitIsOf, LiveIsOf, Acp, Codex, Sdk,
           GuardPassed, ToolInstalled, SecretsRead, EnvWritten, HookSet,
           UnitWritten, LiveUnitSet, GatewayRuns
  <2>5. Guarded'
    BY <2>0, <2>1 DEF BoxTypeOK, Done, Guarded, Acp, Codex, Sdk,
           GuardPassed, ToolInstalled, SecretsRead, EnvWritten, HookSet,
           UnitWritten, LiveUnitSet, GatewayRuns
  <2> QED  BY <2>2, <2>3, <2>4, <2>5
<1>2. CASE LiveService
  <2>0. UNCHANGED <<scaffold, want, step, secrets, binary, receipt, env, hook, units, enabled, gateway, run,
                    settled, disturbed, unsure>>
    BY <1>2 DEF LiveService, files, services, ghosts, Frame, Quiet
  <2>1. live # "off" /\ live' \in {"waiting", "up"}
    BY <1>2, <2>0 DEF LiveService, BoxTypeOK, Done, HookIsOf, UnitIsOf, LiveIsOf, Acp, Codex, Sdk,
           GuardPassed, ToolInstalled, SecretsRead, EnvWritten, HookSet,
           UnitWritten, LiveUnitSet, GatewayRuns
  <2>2. BoxTypeOK'  BY <2>0, <2>1 DEF BoxTypeOK
  <2>3. Done'
    BY <2>0, <2>1 DEF BoxTypeOK, Done, Settled, HookIsOf, UnitIsOf, LiveIsOf, Acp, Codex, Sdk,
           GuardPassed, ToolInstalled, SecretsRead, EnvWritten, HookSet,
           UnitWritten, LiveUnitSet, GatewayRuns
  <2>4. Settled'
    BY <2>0, <2>1 DEF BoxTypeOK, Done, Settled, HookIsOf, UnitIsOf, LiveIsOf, Acp, Codex, Sdk,
           GuardPassed, ToolInstalled, SecretsRead, EnvWritten, HookSet,
           UnitWritten, LiveUnitSet, GatewayRuns
  <2>5. Guarded'
    BY <2>0, <2>1 DEF BoxTypeOK, Done, Guarded, Acp, Codex, Sdk,
           GuardPassed, ToolInstalled, SecretsRead, EnvWritten, HookSet,
           UnitWritten, LiveUnitSet, GatewayRuns
  <2> QED  BY <2>2, <2>3, <2>4, <2>5
<1>3. CASE SdkRun
  <2>0. UNCHANGED <<scaffold, want, step, secrets, binary, receipt, env, hook, units, enabled, gateway, live,
                    settled, disturbed, unsure>>
    BY <1>3 DEF SdkRun, files, services, ghosts, Frame, Quiet
  <2>1. /\ run # "absent" /\ run' \in {"off", "active", "waiting"}
        /\ run' # "off" /\ run \notin {"active", "waiting"} => step = "idle"
    BY <1>3, <2>0 DEF SdkRun, BoxTypeOK, Done, HookIsOf, UnitIsOf, LiveIsOf, Acp, Codex, Sdk,
           GuardPassed, ToolInstalled, SecretsRead, EnvWritten, HookSet,
           UnitWritten, LiveUnitSet, GatewayRuns
  <2>2. BoxTypeOK'  BY <2>0, <2>1 DEF BoxTypeOK
  <2>3. Done'
    BY <2>0, <2>1 DEF BoxTypeOK, Done, Settled, HookIsOf, UnitIsOf, LiveIsOf, Acp, Codex, Sdk,
           GuardPassed, ToolInstalled, SecretsRead, EnvWritten, HookSet,
           UnitWritten, LiveUnitSet, GatewayRuns
  <2>4. Settled'
    BY <2>0, <2>1 DEF BoxTypeOK, Done, Settled, HookIsOf, UnitIsOf, LiveIsOf, Acp, Codex, Sdk,
           GuardPassed, ToolInstalled, SecretsRead, EnvWritten, HookSet,
           UnitWritten, LiveUnitSet, GatewayRuns
  <2>5. Guarded'
    BY <2>0, <2>1 DEF BoxTypeOK, Done, Guarded, Acp, Codex, Sdk,
           GuardPassed, ToolInstalled, SecretsRead, EnvWritten, HookSet,
           UnitWritten, LiveUnitSet, GatewayRuns
  <2> QED  BY <2>2, <2>3, <2>4, <2>5
<1>4. CASE Cut
  <2>0. UNCHANGED <<scaffold, want, secrets, binary, receipt, env, hook, units, enabled, gateway, live, run,
                    settled, disturbed, unsure>>
    BY <1>4 DEF Cut, files, services, ghosts, Frame, Quiet
  <2>1. step' = "idle"
    BY <1>4, <2>0 DEF Cut, BoxTypeOK, Done, HookIsOf, UnitIsOf, LiveIsOf, Acp, Codex, Sdk,
           GuardPassed, ToolInstalled, SecretsRead, EnvWritten, HookSet,
           UnitWritten, LiveUnitSet, GatewayRuns
  <2>2. BoxTypeOK'  BY <2>0, <2>1 DEF BoxTypeOK
  <2>3. Done'
    BY <2>0, <2>1 DEF BoxTypeOK, Done, Settled, HookIsOf, UnitIsOf, LiveIsOf, Acp, Codex, Sdk,
           GuardPassed, ToolInstalled, SecretsRead, EnvWritten, HookSet,
           UnitWritten, LiveUnitSet, GatewayRuns
  <2>4. Settled'
    BY <2>0, <2>1 DEF BoxTypeOK, Done, Settled, HookIsOf, UnitIsOf, LiveIsOf, Acp, Codex, Sdk,
           GuardPassed, ToolInstalled, SecretsRead, EnvWritten, HookSet,
           UnitWritten, LiveUnitSet, GatewayRuns
  <2>5. Guarded'
    BY <2>0, <2>1 DEF BoxTypeOK, Done, Guarded, Acp, Codex, Sdk,
           GuardPassed, ToolInstalled, SecretsRead, EnvWritten, HookSet,
           UnitWritten, LiveUnitSet, GatewayRuns
  <2> QED  BY <2>2, <2>3, <2>4, <2>5
<1> QED  BY <1>1, <1>2, <1>3, <1>4

\* A script begins with nothing settled.
LEMMA BeginStep ==
  ASSUME IInv, NEW platform, NEW tool, Begin(platform, tool)
  PROVE  IInv'
<1> USE DEF IInv, files, services, ghosts, Begin, GuardPassed, ToolInstalled, SecretsRead, EnvWritten, HookSet,
           UnitWritten, LiveUnitSet, GatewayRuns
<1>1. BoxTypeOK'  BY DEF BoxTypeOK
<1>2. Done' /\ Settled'  BY DEF Done, Settled
<1>3. Guarded'  BY DEF Guarded
<1> QED  BY <1>1, <1>2, <1>3

\* Up to the environment file: the run is looked at, the tool is the one wanted.
LEMMA InstallStep == ASSUME IInv,
    Guard \/ Harness \/ CopySecrets \/ InstallTool \/ ReadSecrets \/ Environment PROVE IInv'
<1> USE DEF IInv
<1>1. CASE Guard
  <2>0. UNCHANGED <<scaffold, want, secrets, binary, receipt, env, hook, units, enabled, gateway, live, run,
                    settled, disturbed>>
    BY <1>1 DEF Guard, files, services, ghosts, Frame, Quiet, MayStage, Touch, Installed
  <2>1. /\ step = "guard" /\ step' \in {"harness", "idle"}
        /\ step' # "idle" /\ want.platform \in Sdk => run # "active"
        /\ unsure \/ run = "waiting" => unsure'
    BY <1>1, <2>0 DEF Guard, MayStage, Touch, Installed, ghosts, BoxTypeOK, Done, HookIsOf, UnitIsOf, LiveIsOf,
       Acp, Codex, Sdk,
           GuardPassed, ToolInstalled, SecretsRead, EnvWritten, HookSet,
           UnitWritten, LiveUnitSet, GatewayRuns
  <2>2. BoxTypeOK'  BY <2>0, <2>1 DEF BoxTypeOK
  <2>3. Done'
    BY <2>0, <2>1 DEF BoxTypeOK, Done, Settled, HookIsOf, UnitIsOf, LiveIsOf, Acp, Codex, Sdk,
           GuardPassed, ToolInstalled, SecretsRead, EnvWritten, HookSet,
           UnitWritten, LiveUnitSet, GatewayRuns
  <2>4. Settled'
    BY <2>0, <2>1 DEF BoxTypeOK, Done, Settled, HookIsOf, UnitIsOf, LiveIsOf, Acp, Codex, Sdk,
           GuardPassed, ToolInstalled, SecretsRead, EnvWritten, HookSet,
           UnitWritten, LiveUnitSet, GatewayRuns
  <2>5. Guarded'
    BY <2>0, <2>1 DEF BoxTypeOK, Done, Guarded, Acp, Codex, Sdk,
           GuardPassed, ToolInstalled, SecretsRead, EnvWritten, HookSet,
           UnitWritten, LiveUnitSet, GatewayRuns
  <2> QED  BY <2>2, <2>3, <2>4, <2>5
<1>2. CASE Harness
  <2>0. UNCHANGED <<scaffold, want, secrets, binary, receipt, env, hook, units, enabled, gateway, live, run,
                    settled, unsure>>
    BY <1>2 DEF Harness, files, services, ghosts, Frame, Quiet, MayStage, Touch, Installed
  <2>1. /\ step = "harness" /\ step' = "tool"
        /\ disturbed' => disturbed \/ run = "active"
    BY <1>2, <2>0 DEF Harness, MayStage, Touch, Installed, ghosts, BoxTypeOK, Done, HookIsOf, UnitIsOf,
       LiveIsOf, Acp, Codex, Sdk,
           GuardPassed, ToolInstalled, SecretsRead, EnvWritten, HookSet,
           UnitWritten, LiveUnitSet, GatewayRuns
  <2>2. BoxTypeOK'  BY <2>0, <2>1 DEF BoxTypeOK
  <2>3. Done'
    BY <2>0, <2>1 DEF BoxTypeOK, Done, Settled, HookIsOf, UnitIsOf, LiveIsOf, Acp, Codex, Sdk,
           GuardPassed, ToolInstalled, SecretsRead, EnvWritten, HookSet,
           UnitWritten, LiveUnitSet, GatewayRuns
  <2>4. Settled'
    BY <2>0, <2>1 DEF BoxTypeOK, Done, Settled, HookIsOf, UnitIsOf, LiveIsOf, Acp, Codex, Sdk,
           GuardPassed, ToolInstalled, SecretsRead, EnvWritten, HookSet,
           UnitWritten, LiveUnitSet, GatewayRuns
  <2>5. Guarded'
    BY <2>0, <2>1 DEF BoxTypeOK, Done, Guarded, Acp, Codex, Sdk,
           GuardPassed, ToolInstalled, SecretsRead, EnvWritten, HookSet,
           UnitWritten, LiveUnitSet, GatewayRuns
  <2> QED  BY <2>2, <2>3, <2>4, <2>5
<1>3. CASE CopySecrets
  <2>0. UNCHANGED <<scaffold, want, binary, receipt, env, hook, units, enabled, gateway, live, run, settled,
                    disturbed, unsure>>
    BY <1>3 DEF CopySecrets, files, services, ghosts, Frame, Quiet, MayStage, Touch, Installed
  <2> USE DEF CopySecrets, MayStage, Touch, Installed, ghosts
  <2>2. BoxTypeOK'  BY <1>3, <2>0 DEF BoxTypeOK
  <2>3. Done'
    BY <1>3, <2>0 DEF BoxTypeOK, Done, Settled, HookIsOf, UnitIsOf, LiveIsOf, Acp, Codex, Sdk,
           GuardPassed, ToolInstalled, SecretsRead, EnvWritten, HookSet,
           UnitWritten, LiveUnitSet, GatewayRuns
  <2>4. Settled'
    BY <1>3, <2>0 DEF BoxTypeOK, Done, Settled, HookIsOf, UnitIsOf, LiveIsOf, Acp, Codex, Sdk,
           GuardPassed, ToolInstalled, SecretsRead, EnvWritten, HookSet,
           UnitWritten, LiveUnitSet, GatewayRuns
  <2>5. Guarded'
    BY <1>3, <2>0 DEF BoxTypeOK, Done, Guarded, Acp, Codex, Sdk,
           GuardPassed, ToolInstalled, SecretsRead, EnvWritten, HookSet,
           UnitWritten, LiveUnitSet, GatewayRuns
  <2> QED  BY <2>2, <2>3, <2>4, <2>5
<1>4. CASE InstallTool
  <2>0. UNCHANGED <<scaffold, want, secrets, env, hook, units, enabled, gateway, live, run, settled, unsure>>
    BY <1>4 DEF InstallTool, files, services, ghosts, Frame, Quiet, MayStage, Touch, Installed
  <2>1. /\ \/ step = "tool" /\ step' = "binary" /\ UNCHANGED <<binary, receipt>>
           \/ step = "tool" /\ step' = "secrets" /\ binary = want.tool /\ UNCHANGED <<binary, receipt>>
           \/ step = "binary" /\ step' = "receipt" /\ binary' = want.tool /\ UNCHANGED receipt
           \/ /\ step = "receipt" /\ step' = "secrets" /\ UNCHANGED binary
              /\ receipt'.source = want.tool /\ receipt'.binary = want.tool
        /\ disturbed' => disturbed \/ run = "active"
    <3>1. CASE step = "tool"
      <4>1. UNCHANGED <<binary, receipt, disturbed>> /\ step' = IF Installed THEN "secrets" ELSE "binary"
        BY <1>4, <3>1 DEF InstallTool, ghosts
      <4> QED  BY <3>1, <4>1 DEF Installed, Done
    <3>2. CASE step = "binary"
      <4>1. step' = "receipt" /\ binary' = want.tool /\ UNCHANGED receipt /\ Touch
        BY <1>4, <3>2 DEF InstallTool
      <4>2. disturbed' => disturbed \/ run = "active"  BY <4>1 DEF Touch
      <4> QED  BY <3>2, <4>1, <4>2
    <3>3. CASE step = "receipt"
      <4>1. /\ step' = "secrets" /\ UNCHANGED <<binary, disturbed>>
            /\ receipt' = [source |-> want.tool, binary |-> want.tool]
        BY <1>4, <3>3 DEF InstallTool, ghosts
      <4> QED  BY <3>3, <4>1
    <3> QED  BY <1>4, <3>1, <3>2, <3>3 DEF InstallTool
  <2>2. BoxTypeOK'  BY <2>0, <2>1 DEF BoxTypeOK
  <2>3. Done'
    BY <2>0, <2>1 DEF BoxTypeOK, Done, Settled, HookIsOf, UnitIsOf, LiveIsOf, Acp, Codex, Sdk,
           GuardPassed, ToolInstalled, SecretsRead, EnvWritten, HookSet,
           UnitWritten, LiveUnitSet, GatewayRuns
  <2>4. Settled'
    BY <2>0, <2>1 DEF BoxTypeOK, Done, Settled, HookIsOf, UnitIsOf, LiveIsOf, Acp, Codex, Sdk,
           GuardPassed, ToolInstalled, SecretsRead, EnvWritten, HookSet,
           UnitWritten, LiveUnitSet, GatewayRuns
  <2>5. Guarded'
    BY <2>0, <2>1 DEF BoxTypeOK, Done, Guarded, Acp, Codex, Sdk,
           GuardPassed, ToolInstalled, SecretsRead, EnvWritten, HookSet,
           UnitWritten, LiveUnitSet, GatewayRuns
  <2> QED  BY <2>2, <2>3, <2>4, <2>5
<1>5. CASE ReadSecrets
  <2>0. UNCHANGED <<scaffold, want, binary, receipt, env, hook, units, enabled, gateway, live, run, settled,
                    disturbed, unsure>>
    BY <1>5 DEF ReadSecrets, files, services, ghosts, Frame, Quiet, MayStage, Touch, Installed
  <2> USE DEF ReadSecrets, MayStage, Touch, Installed, ghosts
  <2>2. BoxTypeOK'  BY <1>5, <2>0 DEF BoxTypeOK
  <2>3. Done'
    BY <1>5, <2>0 DEF BoxTypeOK, Done, Settled, HookIsOf, UnitIsOf, LiveIsOf, Acp, Codex, Sdk,
           GuardPassed, ToolInstalled, SecretsRead, EnvWritten, HookSet,
           UnitWritten, LiveUnitSet, GatewayRuns
  <2>4. Settled'
    BY <1>5, <2>0 DEF BoxTypeOK, Done, Settled, HookIsOf, UnitIsOf, LiveIsOf, Acp, Codex, Sdk,
           GuardPassed, ToolInstalled, SecretsRead, EnvWritten, HookSet,
           UnitWritten, LiveUnitSet, GatewayRuns
  <2>5. Guarded'
    BY <1>5, <2>0 DEF BoxTypeOK, Done, Guarded, Acp, Codex, Sdk,
           GuardPassed, ToolInstalled, SecretsRead, EnvWritten, HookSet,
           UnitWritten, LiveUnitSet, GatewayRuns
  <2> QED  BY <2>2, <2>3, <2>4, <2>5
<1>6. CASE Environment
  <2>0. UNCHANGED <<scaffold, want, secrets, binary, receipt, hook, units, enabled, gateway, live, run,
                    settled, unsure>>
    BY <1>6 DEF Environment, files, services, ghosts, Frame, Quiet, MayStage, Touch, Installed
  <2>1. /\ step = "environment" /\ env' = want.platform
        /\ disturbed' => disturbed \/ run = "active"
        /\ \/ want.platform \in Codex /\ step' = "config"
           \/ want.platform = "claude" /\ step' = "claude"
           \/ want.platform \in Sdk /\ step' = "sdk probe"
    BY <1>6, <2>0 DEF Environment, MayStage, Touch, Installed, ghosts, BoxTypeOK, Done, HookIsOf, UnitIsOf,
       LiveIsOf, Acp, Codex, Sdk,
           GuardPassed, ToolInstalled, SecretsRead, EnvWritten, HookSet,
           UnitWritten, LiveUnitSet, GatewayRuns
  <2>2. BoxTypeOK'  BY <2>0, <2>1 DEF BoxTypeOK
  <2>3. Done'
    BY <2>0, <2>1 DEF BoxTypeOK, Done, Settled, HookIsOf, UnitIsOf, LiveIsOf, Acp, Codex, Sdk,
           GuardPassed, ToolInstalled, SecretsRead, EnvWritten, HookSet,
           UnitWritten, LiveUnitSet, GatewayRuns
  <2>4. Settled'
    BY <2>0, <2>1 DEF BoxTypeOK, Done, Settled, HookIsOf, UnitIsOf, LiveIsOf, Acp, Codex, Sdk,
           GuardPassed, ToolInstalled, SecretsRead, EnvWritten, HookSet,
           UnitWritten, LiveUnitSet, GatewayRuns
  <2>5. Guarded'
    BY <2>0, <2>1 DEF BoxTypeOK, Done, Guarded, Acp, Codex, Sdk,
           GuardPassed, ToolInstalled, SecretsRead, EnvWritten, HookSet,
           UnitWritten, LiveUnitSet, GatewayRuns
  <2> QED  BY <2>2, <2>3, <2>4, <2>5
<1> QED  BY <1>1, <1>2, <1>3, <1>4, <1>5, <1>6

\* Codex and Claude are set to be traced one way.
LEMMA CodexStep == ASSUME IInv, Config \/ Plugin \/ Probe \/ Claude PROVE IInv'
<1> USE DEF IInv
<1>1. CASE Config
  <2>0. UNCHANGED <<scaffold, want, secrets, binary, receipt, env, units, enabled, gateway, live, run,
                    settled, disturbed, unsure>>
    BY <1>1 DEF Config, files, services, ghosts, Frame, Quiet, Configure
  <2>1. /\ step = "config" /\ step' = "plugin" /\ (hook'.enabled <=> want.platform = "stop-hook")
        /\ hook' \in [there : BOOLEAN, enabled : BOOLEAN, claude : BOOLEAN]
    BY <1>1, <2>0 DEF Config, Configure, BoxTypeOK, Done, HookIsOf, UnitIsOf, LiveIsOf, Acp, Codex, Sdk,
           GuardPassed, ToolInstalled, SecretsRead, EnvWritten, HookSet,
           UnitWritten, LiveUnitSet, GatewayRuns
  <2>2. BoxTypeOK'  BY <2>0, <2>1 DEF BoxTypeOK
  <2>3. Done'
    BY <2>0, <2>1 DEF BoxTypeOK, Done, Settled, HookIsOf, UnitIsOf, LiveIsOf, Acp, Codex, Sdk,
           GuardPassed, ToolInstalled, SecretsRead, EnvWritten, HookSet,
           UnitWritten, LiveUnitSet, GatewayRuns
  <2>4. Settled'
    BY <2>0, <2>1 DEF BoxTypeOK, Done, Settled, HookIsOf, UnitIsOf, LiveIsOf, Acp, Codex, Sdk,
           GuardPassed, ToolInstalled, SecretsRead, EnvWritten, HookSet,
           UnitWritten, LiveUnitSet, GatewayRuns
  <2>5. Guarded'
    BY <2>0, <2>1 DEF BoxTypeOK, Done, Guarded, Acp, Codex, Sdk,
           GuardPassed, ToolInstalled, SecretsRead, EnvWritten, HookSet,
           UnitWritten, LiveUnitSet, GatewayRuns
  <2> QED  BY <2>2, <2>3, <2>4, <2>5
<1>2. CASE Plugin
  <2>0. UNCHANGED <<scaffold, want, secrets, binary, receipt, env, units, enabled, gateway, live, run,
                    settled, disturbed, unsure>>
    BY <1>2 DEF Plugin, files, services, ghosts, Frame, Quiet, Configure
  <2> USE DEF Plugin, Configure
  <2>2. BoxTypeOK'  BY <1>2, <2>0 DEF BoxTypeOK
  <2>3. Done'
    BY <1>2, <2>0 DEF BoxTypeOK, Done, Settled, HookIsOf, UnitIsOf, LiveIsOf, Acp, Codex, Sdk,
           GuardPassed, ToolInstalled, SecretsRead, EnvWritten, HookSet,
           UnitWritten, LiveUnitSet, GatewayRuns
  <2>4. Settled'
    BY <1>2, <2>0 DEF BoxTypeOK, Done, Settled, HookIsOf, UnitIsOf, LiveIsOf, Acp, Codex, Sdk,
           GuardPassed, ToolInstalled, SecretsRead, EnvWritten, HookSet,
           UnitWritten, LiveUnitSet, GatewayRuns
  <2>5. Guarded'
    BY <1>2, <2>0 DEF BoxTypeOK, Done, Guarded, Acp, Codex, Sdk,
           GuardPassed, ToolInstalled, SecretsRead, EnvWritten, HookSet,
           UnitWritten, LiveUnitSet, GatewayRuns
  <2> QED  BY <2>2, <2>3, <2>4, <2>5
<1>3. CASE Probe
  <2>0. UNCHANGED <<scaffold, want, secrets, binary, receipt, env, hook, units, enabled, gateway, live, run,
                    settled, disturbed, unsure>>
    BY <1>3 DEF Probe, files, services, ghosts, Frame, Quiet, Configure
  <2> USE DEF Probe, Configure
  <2>2. BoxTypeOK'  BY <1>3, <2>0 DEF BoxTypeOK
  <2>3. Done'
    BY <1>3, <2>0 DEF BoxTypeOK, Done, Settled, HookIsOf, UnitIsOf, LiveIsOf, Acp, Codex, Sdk,
           GuardPassed, ToolInstalled, SecretsRead, EnvWritten, HookSet,
           UnitWritten, LiveUnitSet, GatewayRuns
  <2>4. Settled'
    BY <1>3, <2>0 DEF BoxTypeOK, Done, Settled, HookIsOf, UnitIsOf, LiveIsOf, Acp, Codex, Sdk,
           GuardPassed, ToolInstalled, SecretsRead, EnvWritten, HookSet,
           UnitWritten, LiveUnitSet, GatewayRuns
  <2>5. Guarded'
    BY <1>3, <2>0 DEF BoxTypeOK, Done, Guarded, Acp, Codex, Sdk,
           GuardPassed, ToolInstalled, SecretsRead, EnvWritten, HookSet,
           UnitWritten, LiveUnitSet, GatewayRuns
  <2> QED  BY <2>2, <2>3, <2>4, <2>5
<1>4. CASE Claude
  <2>0. UNCHANGED <<scaffold, want, secrets, binary, receipt, env, units, enabled, gateway, live, run,
                    settled, disturbed, unsure>>
    BY <1>4 DEF Claude, files, services, ghosts, Frame, Quiet, Configure
  <2> USE DEF Claude, Configure
  <2>2. BoxTypeOK'  BY <1>4, <2>0 DEF BoxTypeOK
  <2>3. Done'
    BY <1>4, <2>0 DEF BoxTypeOK, Done, Settled, HookIsOf, UnitIsOf, LiveIsOf, Acp, Codex, Sdk,
           GuardPassed, ToolInstalled, SecretsRead, EnvWritten, HookSet,
           UnitWritten, LiveUnitSet, GatewayRuns
  <2>4. Settled'
    BY <1>4, <2>0 DEF BoxTypeOK, Done, Settled, HookIsOf, UnitIsOf, LiveIsOf, Acp, Codex, Sdk,
           GuardPassed, ToolInstalled, SecretsRead, EnvWritten, HookSet,
           UnitWritten, LiveUnitSet, GatewayRuns
  <2>5. Guarded'
    BY <1>4, <2>0 DEF BoxTypeOK, Done, Guarded, Acp, Codex, Sdk,
           GuardPassed, ToolInstalled, SecretsRead, EnvWritten, HookSet,
           UnitWritten, LiveUnitSet, GatewayRuns
  <2> QED  BY <2>2, <2>3, <2>4, <2>5
<1> QED  BY <1>1, <1>2, <1>3, <1>4

\* The unit files are of the platform, and what runs is what they say.
LEMMA GatewayStep == ASSUME IInv, Unit \/ LiveUnit \/ Restart \/ Health PROVE IInv'
<1> USE DEF IInv
<1>1. CASE Unit
  <2>0. UNCHANGED <<scaffold, want, secrets, binary, receipt, env, hook, enabled, gateway, live, run,
                    settled, disturbed, unsure>>
    BY <1>1 DEF Unit, files, services, ghosts, Frame, Quiet, Flush, Disable
  <2>1. /\ step = "unit" /\ step' = "live unit" /\ UnitIsOf(want.platform)'
        /\ units' \in [gateway : Acp \cup {"off"}, flush : {"no", "live", "plugin"}, live : BOOLEAN]
    BY <1>1, <2>0 DEF Unit, Flush, Disable, BoxTypeOK, Done, HookIsOf, UnitIsOf, LiveIsOf, Acp, Codex, Sdk,
           GuardPassed, ToolInstalled, SecretsRead, EnvWritten, HookSet,
           UnitWritten, LiveUnitSet, GatewayRuns
  <2>2. BoxTypeOK'  BY <2>0, <2>1 DEF BoxTypeOK
  <2>3. Done'
    BY <2>0, <2>1 DEF BoxTypeOK, Done, Settled, HookIsOf, UnitIsOf, LiveIsOf, Acp, Codex, Sdk,
           GuardPassed, ToolInstalled, SecretsRead, EnvWritten, HookSet,
           UnitWritten, LiveUnitSet, GatewayRuns
  <2>4. Settled'
    BY <2>0, <2>1 DEF BoxTypeOK, Done, Settled, HookIsOf, UnitIsOf, LiveIsOf, Acp, Codex, Sdk,
           GuardPassed, ToolInstalled, SecretsRead, EnvWritten, HookSet,
           UnitWritten, LiveUnitSet, GatewayRuns
  <2>5. Guarded'
    BY <2>0, <2>1 DEF BoxTypeOK, Done, Guarded, Acp, Codex, Sdk,
           GuardPassed, ToolInstalled, SecretsRead, EnvWritten, HookSet,
           UnitWritten, LiveUnitSet, GatewayRuns
  <2> QED  BY <2>2, <2>3, <2>4, <2>5
<1>2. CASE LiveUnit
  <2>0. UNCHANGED <<scaffold, want, secrets, binary, receipt, env, hook, gateway, run, settled, disturbed,
                    unsure>>
    BY <1>2 DEF LiveUnit, files, services, ghosts, Frame, Quiet, Flush, Disable
  <2>1. /\ step = "live unit" /\ step' = "restart" /\ LiveIsOf(want.platform)' /\ UnitIsOf(want.platform)'
        /\ units' \in [gateway : Acp \cup {"off"}, flush : {"no", "live", "plugin"}, live : BOOLEAN]
        /\ enabled' \subseteq enabled /\ live' \in {live, "off"}
    <3>1. /\ step = "live unit" /\ step' = "restart" /\ UnitIsOf(want.platform)
          /\ units \in [gateway : Acp \cup {"off"}, flush : {"no", "live", "plugin"}, live : BOOLEAN]
      BY <1>2 DEF LiveUnit, BoxTypeOK, Done, UnitWritten
    <3>2. CASE want.platform = "live"
      <4>1. units' = [units EXCEPT !.live = TRUE] /\ enabled' = enabled /\ live' = live
        BY <1>2, <3>2 DEF LiveUnit
      <4> QED BY <2>0, <3>1, <3>2, <4>1 DEF UnitIsOf, LiveIsOf
    <3>3. CASE want.platform # "live"
      <4>1. units' = [units EXCEPT !.live = FALSE] /\ enabled' = enabled \ {"live"} /\ live' = "off"
        BY <1>2, <3>3 DEF LiveUnit, Disable
      <4> QED BY <2>0, <3>1, <3>3, <4>1 DEF UnitIsOf, LiveIsOf
    <3> QED BY <3>2, <3>3
  <2>2. BoxTypeOK'  BY <2>0, <2>1 DEF BoxTypeOK
  <2>3. Done'
    BY <2>0, <2>1 DEF BoxTypeOK, Done, Settled, HookIsOf, UnitIsOf, LiveIsOf, Acp, Codex, Sdk,
           GuardPassed, ToolInstalled, SecretsRead, EnvWritten, HookSet,
           UnitWritten, LiveUnitSet, GatewayRuns
  <2>4. Settled'
    BY <2>0, <2>1 DEF BoxTypeOK, Done, Settled, HookIsOf, UnitIsOf, LiveIsOf, Acp, Codex, Sdk,
           GuardPassed, ToolInstalled, SecretsRead, EnvWritten, HookSet,
           UnitWritten, LiveUnitSet, GatewayRuns
  <2>5. Guarded'
    BY <2>0, <2>1 DEF BoxTypeOK, Done, Guarded, Acp, Codex, Sdk,
           GuardPassed, ToolInstalled, SecretsRead, EnvWritten, HookSet,
           UnitWritten, LiveUnitSet, GatewayRuns
  <2> QED  BY <2>2, <2>3, <2>4, <2>5
<1>3. CASE Restart
  <2>0. UNCHANGED <<scaffold, want, secrets, binary, receipt, env, hook, units, run, settled, disturbed,
                    unsure>>
    BY <1>3 DEF Restart, files, services, ghosts, Frame, Quiet, Flush, Disable
  <2>1. \/ /\ step = "restart" /\ step' = "restart live" /\ live' = live
           /\ enabled' = enabled \cup {"gateway"} /\ gateway' = units.gateway
        \/ /\ step = "restart live" /\ step' = "health" /\ gateway' = gateway
           /\ \/ ~units.live /\ UNCHANGED <<enabled, live>>
              \/ units.live /\ enabled' = enabled \cup {"live"} /\ live' = "up"
    BY <1>3, <2>0 DEF Restart, Flush, Disable, BoxTypeOK, Done, HookIsOf, UnitIsOf, LiveIsOf, Acp, Codex, Sdk,
           GuardPassed, ToolInstalled, SecretsRead, EnvWritten, HookSet,
           UnitWritten, LiveUnitSet, GatewayRuns
  <2>2. BoxTypeOK'  BY <2>0, <2>1 DEF BoxTypeOK
  <2>3. Done'
    BY <2>0, <2>1 DEF BoxTypeOK, Done, Settled, HookIsOf, UnitIsOf, LiveIsOf, Acp, Codex, Sdk,
           GuardPassed, ToolInstalled, SecretsRead, EnvWritten, HookSet,
           UnitWritten, LiveUnitSet, GatewayRuns
  <2>4. Settled'
    BY <2>0, <2>1 DEF BoxTypeOK, Done, Settled, HookIsOf, UnitIsOf, LiveIsOf, Acp, Codex, Sdk,
           GuardPassed, ToolInstalled, SecretsRead, EnvWritten, HookSet,
           UnitWritten, LiveUnitSet, GatewayRuns
  <2>5. Guarded'
    BY <2>0, <2>1 DEF BoxTypeOK, Done, Guarded, Acp, Codex, Sdk,
           GuardPassed, ToolInstalled, SecretsRead, EnvWritten, HookSet,
           UnitWritten, LiveUnitSet, GatewayRuns
  <2> QED  BY <2>2, <2>3, <2>4, <2>5
<1>4. CASE Health
  <2>0. UNCHANGED <<scaffold, want, secrets, binary, receipt, env, hook, units, enabled, gateway, live, run,
                    disturbed, unsure>>
    BY <1>4 DEF Health, files, services, ghosts, Frame, Quiet, Flush, Disable
  <2>1. step = "health" /\ step' = "idle" /\ settled' \in {settled, want.platform}
    BY <1>4, <2>0 DEF Health, Flush, Disable, BoxTypeOK, Done, HookIsOf, UnitIsOf, LiveIsOf, Acp, Codex, Sdk,
           GuardPassed, ToolInstalled, SecretsRead, EnvWritten, HookSet,
           UnitWritten, LiveUnitSet, GatewayRuns
  <2>2. BoxTypeOK'  BY <2>0, <2>1 DEF BoxTypeOK
  <2>3. Done'
    BY <2>0, <2>1 DEF BoxTypeOK, Done, Settled, HookIsOf, UnitIsOf, LiveIsOf, Acp, Codex, Sdk,
           GuardPassed, ToolInstalled, SecretsRead, EnvWritten, HookSet,
           UnitWritten, LiveUnitSet, GatewayRuns
  <2>4. Settled'
    BY <2>0, <2>1 DEF BoxTypeOK, Done, Settled, HookIsOf, UnitIsOf, LiveIsOf, Acp, Codex, Sdk,
           GuardPassed, ToolInstalled, SecretsRead, EnvWritten, HookSet,
           UnitWritten, LiveUnitSet, GatewayRuns
  <2>5. Guarded'
    BY <2>0, <2>1 DEF BoxTypeOK, Done, Guarded, Acp, Codex, Sdk,
           GuardPassed, ToolInstalled, SecretsRead, EnvWritten, HookSet,
           UnitWritten, LiveUnitSet, GatewayRuns
  <2> QED  BY <2>2, <2>3, <2>4, <2>5
<1> QED  BY <1>1, <1>2, <1>3, <1>4

\* An SDK run is installed.
LEMMA SdkStep == ASSUME IInv, SdkProbe \/ SdkConfigure PROVE IInv'
<1> USE DEF IInv
<1>1. CASE SdkProbe
  <2>0. UNCHANGED <<scaffold, want, secrets, binary, receipt, env, hook, units, enabled, gateway, live, run,
                    settled, disturbed, unsure>>
    BY <1>1 DEF SdkProbe, files, services, ghosts, Frame, Quiet
  <2> USE DEF SdkProbe
  <2>2. BoxTypeOK'  BY <1>1, <2>0 DEF BoxTypeOK
  <2>3. Done'
    BY <1>1, <2>0 DEF BoxTypeOK, Done, Settled, HookIsOf, UnitIsOf, LiveIsOf, Acp, Codex, Sdk,
           GuardPassed, ToolInstalled, SecretsRead, EnvWritten, HookSet,
           UnitWritten, LiveUnitSet, GatewayRuns
  <2>4. Settled'
    BY <1>1, <2>0 DEF BoxTypeOK, Done, Settled, HookIsOf, UnitIsOf, LiveIsOf, Acp, Codex, Sdk,
           GuardPassed, ToolInstalled, SecretsRead, EnvWritten, HookSet,
           UnitWritten, LiveUnitSet, GatewayRuns
  <2>5. Guarded'
    BY <1>1, <2>0 DEF BoxTypeOK, Done, Guarded, Acp, Codex, Sdk,
           GuardPassed, ToolInstalled, SecretsRead, EnvWritten, HookSet,
           UnitWritten, LiveUnitSet, GatewayRuns
  <2> QED  BY <2>2, <2>3, <2>4, <2>5
<1>2. CASE SdkConfigure
  <2>0. UNCHANGED <<scaffold, want, secrets, binary, receipt, env, hook, units, enabled, gateway, live,
                    disturbed, unsure>>
    BY <1>2 DEF SdkConfigure, files, services, ghosts, Frame, Quiet
  <2>1. step = "sdk unit" /\ step' = "idle" /\ settled' = want.platform /\ run' \in {run, "off"}
    BY <1>2, <2>0 DEF SdkConfigure, BoxTypeOK, Done, HookIsOf, UnitIsOf, LiveIsOf, Acp, Codex, Sdk,
           GuardPassed, ToolInstalled, SecretsRead, EnvWritten, HookSet,
           UnitWritten, LiveUnitSet, GatewayRuns
  <2>2. BoxTypeOK'  BY <2>0, <2>1 DEF BoxTypeOK
  <2>3. Done'
    BY <2>0, <2>1 DEF BoxTypeOK, Done, Settled, HookIsOf, UnitIsOf, LiveIsOf, Acp, Codex, Sdk,
           GuardPassed, ToolInstalled, SecretsRead, EnvWritten, HookSet,
           UnitWritten, LiveUnitSet, GatewayRuns
  <2>4. Settled'
    BY <2>0, <2>1 DEF BoxTypeOK, Done, Settled, HookIsOf, UnitIsOf, LiveIsOf, Acp, Codex, Sdk,
           GuardPassed, ToolInstalled, SecretsRead, EnvWritten, HookSet,
           UnitWritten, LiveUnitSet, GatewayRuns
  <2>5. Guarded'
    BY <2>0, <2>1 DEF BoxTypeOK, Done, Guarded, Acp, Codex, Sdk,
           GuardPassed, ToolInstalled, SecretsRead, EnvWritten, HookSet,
           UnitWritten, LiveUnitSet, GatewayRuns
  <2> QED  BY <2>2, <2>3, <2>4, <2>5
<1> QED  BY <1>1, <1>2

----------------------------------------------------------------------------
\* Every step of the scripts, of systemd and of the operator keeps the invariant.
LEMMA NextIInv == ASSUME IInv, [Next]_vars PROVE IInv'
<1>1. CASE UNCHANGED vars
  <2>1. UNCHANGED <<scaffold, want, step, secrets, binary, receipt, env, hook, units, enabled, gateway, live,
                    run,
                    settled, disturbed, unsure>>
    BY <1>1 DEF vars, files, services, ghosts
  <2>2. BoxTypeOK' /\ Guarded'  BY <2>1 DEF IInv, BoxTypeOK, Guarded
  <2>3. Done'
    BY <2>1 DEF IInv, BoxTypeOK, Done, HookIsOf, UnitIsOf, LiveIsOf, Acp, Codex, Sdk, GuardPassed, ToolInstalled,
                SecretsRead, EnvWritten, HookSet, UnitWritten, LiveUnitSet, GatewayRuns
  <2>4. Settled'  BY <2>1 DEF IInv, Settled, HookIsOf, UnitIsOf, LiveIsOf
  <2> QED  BY <2>2, <2>3, <2>4 DEF IInv
<1> QED  BY <1>1, SystemStep, BeginStep, InstallStep, CodexStep, GatewayStep, SdkStep DEF Next

\* acp.sh, run_provision.py, configure-run.sh, for any number of scripts cut off anywhere
\* and of reboots: a box whose script ended well is traced one way, runs the platform and
\* the tool that were wanted and keeps no secrets in /tmp; no active SDK run is disturbed.
THEOREM BoxIsAsDeclaredHolds == Spec => []BoxIsAsDeclared
<1>1. Init => IInv  BY InitIInv
<1>2. IInv /\ [Next]_vars => IInv'  BY NextIInv
<1>3. IInv => BoxIsAsDeclared
  <2> SUFFICES ASSUME IInv PROVE BoxIsAsDeclared  OBVIOUS
  <2> USE DEF IInv
  <2>1. TracedOneWay
    <3> SUFFICES ASSUME settled \in Acp
                 PROVE  /\ gateway = settled /\ env = settled /\ Tracers = {TracerOf(settled)}
                        /\ settled \in Codex => Tracers = {units.flush}
      BY DEF TracedOneWay
    <3>1. settled # "none"  BY DEF Acp, Codex
    <3>2. /\ env = settled /\ HookIsOf(settled) /\ UnitIsOf(settled) /\ LiveIsOf(settled)
          /\ gateway = settled
          /\ settled = "live" => live # "off"
      BY <3>1 DEF Settled
    <3>3. settled \in {"live", "stop-hook", "claude"}  BY DEF Acp, Codex
    <3>4. CASE settled = "claude"
      <4>1. Tracers = {"claude hook"}  BY <3>2, <3>4 DEF Tracers, HookIsOf
      <4> QED  BY <3>2, <3>4, <4>1 DEF TracerOf, Codex
    <3>5. CASE settled = "live"
      <4>1. Tracers = {"live"}  BY <3>2, <3>5 DEF Tracers, HookIsOf, BoxTypeOK
      <4> QED  BY <3>2, <3>5, <4>1 DEF TracerOf, UnitIsOf
    <3>6. CASE settled = "stop-hook"
      <4>1. Tracers = {"plugin"}  BY <3>2, <3>6 DEF Tracers, HookIsOf, LiveIsOf, BoxTypeOK
      <4> QED  BY <3>2, <3>6, <4>1 DEF TracerOf, UnitIsOf
    <3> QED  BY <3>3, <3>4, <3>5, <3>6
  <2>2. SetUpAsDeclared  BY DEF Settled, SetUpAsDeclared
  <2>3. RunIsUndisturbed  BY DEF Guarded, RunIsUndisturbed
  <2> QED  BY <2>1, <2>2, <2>3 DEF BoxIsAsDeclared
<1> QED  BY <1>1, <1>2, <1>3, PTL DEF Spec

----------------------------------------------------------------------------
(* Provisioning *)

Places == Addresses \cup {None}
Instances == Boxes \cup {None}
AllSteps ==
  {"idle", "check", "find", "launch", "reuse", "wait", "address", "allocate", "associate", "alias", "stage",
   "look", "terminate", "ending", "release", "unalias", "done"}

ProvisioningTypeOK ==
  /\ address \in [Slugs -> {"own", "shared", "none"}]
  /\ box \in [Boxes -> [slug : Slugs \cup {Free}, state : Live \cup {"shutting-down", "terminated", "none"}]]
  /\ \A b \in Boxes : box[b].slug = Free <=> box[b].state = "none"
  /\ tagged \in [Addresses -> Slugs \cup {Free, Released, "shared"}]
  /\ \A a \in Own : tagged[a] \in Slugs \cup {Free, Released}
  /\ at \in [Addresses -> Instances]
  /\ alias \in [Slugs -> [kind : {"none", "address", "box"}, to : Places \cup Instances]]
  /\ script \in [Slugs -> [do : {"nothing", "provision", "teardown"}, step : AllSteps]]
  /\ found \in [Slugs -> Instances] /\ using \in [Slugs -> Places]
  /\ overlapped \in BOOLEAN

\* A script is at one of some steps.
AtAny(s, do, steps) == script[s].do = do /\ script[s].step \in steps

\* What a script works on is its slug's.
WorksOnItsOwn(s) ==
  /\ AtAny(s, "provision", {"reuse", "wait", "address", "allocate", "associate", "alias", "stage"}) =>
       found[s] \in Boxes /\ box[found[s]].slug = s
  /\ AtAny(s, "provision", {"address", "allocate"}) => address[s] = "own"
  /\ At(s, "provision", "associate") => address[s] # "none"
  /\ AtAny(s, "provision", {"associate", "alias", "stage"}) /\ address[s] = "own" => using[s] \in AddressesOf(s)
  /\ AtAny(s, "provision", AllSteps \ {"idle", "check", "done"}) /\ address[s] = "shared" => using[s] = Shared
  /\ At(s, "provision", "stage") =>
       alias[s] = IF address[s] = "none" THEN [kind |-> "box", to |-> found[s]] ELSE [kind |-> "address", to |-> using[s]]
  /\ AtAny(s, "teardown", {"look", "terminate"}) => found[s] = None \/ (found[s] \in Boxes /\ box[found[s]].slug = s)
  /\ AtAny(s, "teardown", {"terminate", "ending", "release"}) => using[s] \in {None, Shared} \cup AddressesOf(s)

\* There is one instance and one address at most, none when one is about to be made, and
\* what teardown has seen to is gone.
OneOfEach(s) ==
  /\ \A b, c \in BoxesOf(s) : b = c
  /\ \A a, c \in AddressesOf(s) : a = c
  /\ address[s] # "own" => AddressesOf(s) = {}
  /\ At(s, "provision", "launch") => BoxesOf(s) = {}
  /\ At(s, "provision", "allocate") => AddressesOf(s) = {}
  /\ AtAny(s, "teardown", {"look", "terminate"}) => BoxesOf(s) \subseteq {found[s]}
  /\ AtAny(s, "teardown", {"ending", "release", "unalias", "done"}) => BoxesOf(s) = {}
  /\ AtAny(s, "teardown", {"terminate", "ending", "release"}) => AddressesOf(s) \subseteq {using[s]}
  /\ AtAny(s, "teardown", {"unalias", "done"}) => AddressesOf(s) = {}

\* An address leads to an instance of the slug that has it.
LeadsHome ==
  /\ \A a \in Addresses : at[a] # None => box[at[a]].slug # Free
  /\ \A a \in Own : at[a] # None => tagged[a] = box[at[a]].slug

\* One script works on the shared address, which is free for it once it was checked.
SharedIsFree(s) ==
  Shares(s) /\ AtAny(s, "provision", AllSteps \ {"idle", "check", "done"}) => at[Shared] = None \/ box[at[Shared]].slug = s

SharedByOne ==
  ~overlapped =>
    /\ \A s, t \in Slugs : Shares(s) /\ Shares(t) /\ s # t => script[s].step = "idle" \/ script[t].step = "idle"
    /\ \A s \in Slugs : SharedIsFree(s)

ProvisioningInv ==
  /\ ProvisioningTypeOK /\ LeadsHome /\ SharedByOne
  /\ \A s \in Slugs : WorksOnItsOwn(s) /\ OneOfEach(s)

LEMMA NoneIsApart == None \notin Boxes /\ None \notin Addresses /\ Shared \notin Own /\ Shared \in Addresses /\ Own \subseteq Addresses
BY ProvisioningAssumption DEF None, Boxes, Addresses, Own, Shared

LEMMA StepMoves ==
  ASSUME ProvisioningTypeOK, NEW o \in Slugs, NEW x \in AllSteps, Step(o, x)
  PROVE  /\ script' \in [Slugs -> [do : {"nothing", "provision", "teardown"}, step : AllSteps]]
         /\ script'[o].do = script[o].do /\ script'[o].step = x
         /\ \A p \in Slugs \ {o} : script'[p] = script[p]
<1>1. script[o] \in [do : {"nothing", "provision", "teardown"}, step : AllSteps]
  BY DEF ProvisioningTypeOK
<1>2. script' = [script EXCEPT ![o] = [script[o] EXCEPT !.step = x]]
  BY DEF Step
<1>3. [script[o] EXCEPT !.step = x] \in [do : {"nothing", "provision", "teardown"}, step : AllSteps]
  BY <1>1
<1> QED BY <1>1, <1>2, <1>3 DEF ProvisioningTypeOK

LEMMA EndIsIdle ==
  ASSUME ProvisioningTypeOK, NEW o \in Slugs, End(o)
  PROVE  /\ script' \in [Slugs -> [do : {"nothing", "provision", "teardown"}, step : AllSteps]]
         /\ found' \in [Slugs -> Instances] /\ using' \in [Slugs -> Places]
         /\ script'[o] = Idle
         /\ \A p \in Slugs \ {o} : script'[p] = script[p] /\ found'[p] = found[p] /\ using'[p] = using[p]
<1>1. Idle \in [do : {"nothing", "provision", "teardown"}, step : AllSteps]
  BY DEF Idle, AllSteps
<1> QED BY <1>1 DEF End, ProvisioningTypeOK, Instances, Places

\* What another slug's script does does not matter while instances and addresses stay.
LEMMA OthersStay ==
  ASSUME ProvisioningInv, NEW o \in Slugs, UNCHANGED <<address, box, tagged, at, overlapped>>,
         \A p \in Slugs \ {o} : /\ script'[p] = script[p] /\ found'[p] = found[p]
                                /\ using'[p] = using[p] /\ alias'[p] = alias[p],
         ProvisioningTypeOK', script[o].step # "idle",
         WorksOnItsOwn(o)', OneOfEach(o)', ~overlapped => SharedIsFree(o)'
  PROVE  ProvisioningInv'
<1>1. LeadsHome'
  BY DEF ProvisioningInv, LeadsHome
<1>2. ASSUME NEW p \in Slugs, p # o PROVE WorksOnItsOwn(p)' /\ OneOfEach(p)' /\ (SharedIsFree(p) => SharedIsFree(p)')
  <2>1. script'[p] = script[p] /\ found'[p] = found[p] /\ using'[p] = using[p] /\ alias'[p] = alias[p]
    BY <1>2
  <2>2. BoxesOf(p)' = BoxesOf(p) /\ AddressesOf(p)' = AddressesOf(p)
    BY DEF BoxesOf, AddressesOf
  <2>3. WorksOnItsOwn(p) /\ OneOfEach(p)
    BY DEF ProvisioningInv
  <2>4. WorksOnItsOwn(p)'
    BY <2>1, <2>2, <2>3 DEF WorksOnItsOwn, At, AtAny
  <2>5. OneOfEach(p)'
    BY <2>1, <2>2, <2>3 DEF OneOfEach, At, AtAny
  <2>6. SharedIsFree(p) => SharedIsFree(p)'
    BY <2>1 DEF SharedIsFree, AtAny, Shares
  <2> QED BY <2>4, <2>5, <2>6
<1>3. SharedByOne'
  BY <1>2 DEF ProvisioningInv, SharedByOne, Shares
<1> QED BY <1>1, <1>2, <1>3 DEF ProvisioningInv

\* A script that has ended or was cut off has nothing.
LEMMA EndKeeps ==
  ASSUME ProvisioningInv, NEW o \in Slugs, End(o), script[o].step # "idle",
         UNCHANGED <<address, box, tagged, at, alias, overlapped>>
  PROVE  ProvisioningInv'
<1>1. ProvisioningTypeOK /\ OneOfEach(o)
  BY DEF ProvisioningInv
<1>2. /\ script' \in [Slugs -> [do : {"nothing", "provision", "teardown"}, step : AllSteps]]
      /\ found' \in [Slugs -> Instances] /\ using' \in [Slugs -> Places]
      /\ script'[o].do = "nothing"
      /\ \A p \in Slugs \ {o} : script'[p] = script[p] /\ found'[p] = found[p] /\ using'[p] = using[p]
  BY <1>1, EndIsIdle DEF Idle
<1>3. ProvisioningTypeOK'
  BY <1>1, <1>2 DEF ProvisioningTypeOK
<1>4. WorksOnItsOwn(o)' /\ SharedIsFree(o)'
  BY <1>2 DEF WorksOnItsOwn, SharedIsFree, At, AtAny
<1>5. BoxesOf(o)' = BoxesOf(o) /\ AddressesOf(o)' = AddressesOf(o)
  BY DEF BoxesOf, AddressesOf
<1>6. OneOfEach(o)'
  BY <1>1, <1>2, <1>5 DEF OneOfEach, At, AtAny
<1> QED BY <1>2, <1>3, <1>4, <1>6, OthersStay

\* A script goes on to its next step, and may have found what it works on.
LEMMA StepKeeps ==
  ASSUME ProvisioningInv, NEW o \in Slugs, NEW x \in AllSteps, Step(o, x), script[o].step # "idle",
         UNCHANGED <<address, box, tagged, at, overlapped>>,
         found' \in [Slugs -> Instances], using' \in [Slugs -> Places],
         alias' \in [Slugs -> [kind : {"none", "address", "box"}, to : Places \cup Instances]],
         \A p \in Slugs \ {o} : found'[p] = found[p] /\ using'[p] = using[p] /\ alias'[p] = alias[p],
         WorksOnItsOwn(o)', OneOfEach(o)', ~overlapped => SharedIsFree(o)'
  PROVE  ProvisioningInv'
<1>1. ProvisioningTypeOK
  BY DEF ProvisioningInv
<1>2. /\ script' \in [Slugs -> [do : {"nothing", "provision", "teardown"}, step : AllSteps]]
      /\ \A p \in Slugs \ {o} : script'[p] = script[p]
  BY <1>1, StepMoves
<1>3. ProvisioningTypeOK'
  BY <1>1, <1>2 DEF ProvisioningTypeOK
<1> QED BY <1>2, <1>3, OthersStay

LEMMA CheckKeeps == ASSUME ProvisioningInv, NEW o \in Slugs, Check(o) PROVE ProvisioningInv'
<1> USE DEF Check, At
<1>1. ProvisioningTypeOK /\ WorksOnItsOwn(o) /\ OneOfEach(o) /\ (~overlapped => SharedIsFree(o))
  BY DEF ProvisioningInv, SharedByOne
<1>2. CASE End(o)
  BY <1>2, EndKeeps
<1>3. CASE ~End(o)
  <2>1. /\ Step(o, "find") /\ found' = found
        /\ address[o] = "shared" => Available(o) /\ using' = [using EXCEPT ![o] = Shared]
        /\ address[o] # "shared" => using' = using
    BY <1>3
  <2>2. "find" \in AllSteps /\ script'[o].do = "provision" /\ script'[o].step = "find"
    BY <1>1, <2>1, StepMoves DEF AllSteps
  <2>3. BoxesOf(o)' = BoxesOf(o) /\ AddressesOf(o)' = AddressesOf(o)
    BY DEF BoxesOf, AddressesOf
  <2>4. /\ found' \in [Slugs -> Instances] /\ using' \in [Slugs -> Places]
        /\ \A p \in Slugs \ {o} : found'[p] = found[p] /\ using'[p] = using[p]
        /\ address[o] = "shared" => using'[o] = Shared
    BY <1>1, <2>1, NoneIsApart DEF ProvisioningTypeOK, Places
  <2>5. WorksOnItsOwn(o)'
    BY <2>2, <2>4 DEF WorksOnItsOwn, AtAny, AllSteps
  <2>6. OneOfEach(o)'
    BY <1>1, <2>2, <2>3 DEF OneOfEach, AtAny
  <2>7. SharedIsFree(o)'
    BY <2>1, <2>2 DEF SharedIsFree, Available, Shares
  <2> QED BY <1>1, <2>1, <2>2, <2>4, <2>5, <2>6, <2>7, StepKeeps DEF ProvisioningTypeOK
<1> QED BY <1>2, <1>3

LEMMA FindKeeps == ASSUME ProvisioningInv, NEW o \in Slugs, Find(o) PROVE ProvisioningInv'
<1> USE DEF Find, At
<1>1. ProvisioningTypeOK /\ WorksOnItsOwn(o) /\ OneOfEach(o) /\ (~overlapped => SharedIsFree(o))
  BY DEF ProvisioningInv, SharedByOne
<1>2. PICK x \in {"launch", "reuse"} :
        /\ Step(o, x)
        /\ x = "launch" => BoxesOf(o) = {}
        /\ x = "launch" => found' = found
        /\ x = "reuse" => \E b \in BoxesOf(o) : found' = [found EXCEPT ![o] = b]
  OBVIOUS
<1>3. x \in AllSteps /\ script'[o].do = "provision" /\ script'[o].step = x
  BY <1>1, <1>2, StepMoves DEF AllSteps
<1>4. BoxesOf(o)' = BoxesOf(o) /\ AddressesOf(o)' = AddressesOf(o) /\ BoxesOf(o) \subseteq Boxes
  BY DEF BoxesOf, AddressesOf
<1>5. /\ found' \in [Slugs -> Instances] /\ \A p \in Slugs \ {o} : found'[p] = found[p]
      /\ x = "reuse" => found'[o] \in BoxesOf(o)
  BY <1>1, <1>2, <1>4 DEF ProvisioningTypeOK, Instances
<1>6. WorksOnItsOwn(o)'
  BY <1>1, <1>3, <1>5 DEF WorksOnItsOwn, AtAny, AllSteps, BoxesOf
<1>7. OneOfEach(o)'
  BY <1>1, <1>2, <1>3, <1>4 DEF OneOfEach, AtAny
<1>8. ~overlapped => SharedIsFree(o)'
  BY <1>1, <1>3 DEF SharedIsFree, AtAny, AllSteps, Shares
<1> QED BY <1>1, <1>2, <1>3, <1>5, <1>6, <1>7, <1>8, StepKeeps DEF ProvisioningTypeOK

LEMMA WaitKeeps == ASSUME ProvisioningInv, NEW o \in Slugs, Wait(o) PROVE ProvisioningInv'
<1> USE DEF Wait, At
<1>1. ProvisioningTypeOK /\ WorksOnItsOwn(o) /\ OneOfEach(o) /\ (~overlapped => SharedIsFree(o))
  BY DEF ProvisioningInv, SharedByOne
<1>2. CASE End(o)
  BY <1>2, EndKeeps
<1>3. CASE ~End(o)
  <2> DEFINE x == IF address[o] = "own" THEN "address" ELSE IF address[o] = "shared" THEN "associate" ELSE "alias"
  <2>1. Step(o, x) /\ found' = found /\ using' = using
    BY <1>3
  <2>2. x \in AllSteps /\ script'[o].do = "provision" /\ script'[o].step = x
    BY <1>1, <2>1, StepMoves DEF AllSteps
  <2>3. BoxesOf(o)' = BoxesOf(o) /\ AddressesOf(o)' = AddressesOf(o)
    BY DEF BoxesOf, AddressesOf
  <2>4. WorksOnItsOwn(o)'
    BY <1>1, <2>1, <2>2 DEF WorksOnItsOwn, AtAny, AllSteps
  <2>5. OneOfEach(o)'
    BY <1>1, <2>2, <2>3 DEF OneOfEach, AtAny
  <2>6. ~overlapped => SharedIsFree(o)'
    BY <1>1, <2>2 DEF SharedIsFree, AtAny, AllSteps, Shares
  <2> HIDE DEF x
  <2> QED BY <1>1, <2>1, <2>2, <2>4, <2>5, <2>6, StepKeeps DEF ProvisioningTypeOK
<1> QED BY <1>2, <1>3

LEMMA FindAddressKeeps == ASSUME ProvisioningInv, NEW o \in Slugs, FindAddress(o) PROVE ProvisioningInv'
<1> USE DEF FindAddress, At
<1>1. ProvisioningTypeOK /\ WorksOnItsOwn(o) /\ OneOfEach(o) /\ (~overlapped => SharedIsFree(o))
  BY DEF ProvisioningInv, SharedByOne
<1>2. PICK x \in {"allocate", "associate"} :
        /\ Step(o, x)
        /\ x = "allocate" => AddressesOf(o) = {}
        /\ x = "allocate" => using' = using
        /\ x = "associate" => \E a \in AddressesOf(o) : using' = [using EXCEPT ![o] = a]
  OBVIOUS
<1>3. x \in AllSteps /\ script'[o].do = "provision" /\ script'[o].step = x
  BY <1>1, <1>2, StepMoves DEF AllSteps
<1>4. BoxesOf(o)' = BoxesOf(o) /\ AddressesOf(o)' = AddressesOf(o) /\ AddressesOf(o) \subseteq Addresses
  BY NoneIsApart DEF BoxesOf, AddressesOf
<1>5. /\ using' \in [Slugs -> Places] /\ \A p \in Slugs \ {o} : using'[p] = using[p]
      /\ x = "associate" => using'[o] \in AddressesOf(o)
  BY <1>1, <1>2, <1>4 DEF ProvisioningTypeOK, Places
<1>6. WorksOnItsOwn(o)'
  BY <1>1, <1>3, <1>4, <1>5 DEF WorksOnItsOwn, AtAny, AllSteps
<1>7. OneOfEach(o)'
  BY <1>1, <1>2, <1>3, <1>4 DEF OneOfEach, AtAny
<1>8. ~overlapped => SharedIsFree(o)'
  BY <1>1, <1>3 DEF SharedIsFree, AtAny, AllSteps, Shares
<1> QED BY <1>1, <1>2, <1>3, <1>5, <1>6, <1>7, <1>8, StepKeeps DEF ProvisioningTypeOK

LEMMA WriteAliasKeeps == ASSUME ProvisioningInv, NEW o \in Slugs, WriteAlias(o) PROVE ProvisioningInv'
<1> USE DEF WriteAlias, At
<1>1. ProvisioningTypeOK /\ WorksOnItsOwn(o) /\ OneOfEach(o) /\ (~overlapped => SharedIsFree(o))
  BY DEF ProvisioningInv, SharedByOne
<1>2. "stage" \in AllSteps /\ script'[o].do = "provision" /\ script'[o].step = "stage"
  BY <1>1, StepMoves DEF AllSteps
<1>3. BoxesOf(o)' = BoxesOf(o) /\ AddressesOf(o)' = AddressesOf(o)
  BY DEF BoxesOf, AddressesOf
<1>4. /\ alias' \in [Slugs -> [kind : {"none", "address", "box"}, to : Places \cup Instances]]
      /\ \A p \in Slugs \ {o} : alias'[p] = alias[p]
      /\ alias'[o] = IF address[o] = "none" THEN [kind |-> "box", to |-> found[o]] ELSE [kind |-> "address", to |-> using[o]]
  BY <1>1 DEF ProvisioningTypeOK
<1>5. WorksOnItsOwn(o)'
  BY <1>1, <1>2, <1>3, <1>4 DEF WorksOnItsOwn, AtAny, AllSteps
<1>6. OneOfEach(o)'
  BY <1>1, <1>2, <1>3 DEF OneOfEach, AtAny
<1>7. ~overlapped => SharedIsFree(o)'
  BY <1>1, <1>2 DEF SharedIsFree, AtAny, AllSteps, Shares
<1> QED BY <1>1, <1>2, <1>4, <1>5, <1>6, <1>7, StepKeeps DEF ProvisioningTypeOK

LEMMA StageKeeps == ASSUME ProvisioningInv, NEW o \in Slugs, Stage(o) PROVE ProvisioningInv'
<1> USE DEF Stage, At
<1>1. ProvisioningTypeOK /\ WorksOnItsOwn(o) /\ OneOfEach(o) /\ (~overlapped => SharedIsFree(o))
  BY DEF ProvisioningInv, SharedByOne
<1>2. CASE End(o)
  BY <1>2, EndKeeps
<1>3. CASE ~End(o)
  <2>1. Step(o, "done") /\ found' = found /\ using' = using
    BY <1>3
  <2>2. "done" \in AllSteps /\ script'[o].do = "provision" /\ script'[o].step = "done"
    BY <1>1, <2>1, StepMoves DEF AllSteps
  <2>3. BoxesOf(o)' = BoxesOf(o) /\ AddressesOf(o)' = AddressesOf(o)
    BY DEF BoxesOf, AddressesOf
  <2>4. WorksOnItsOwn(o)' /\ SharedIsFree(o)'
    BY <2>2 DEF WorksOnItsOwn, SharedIsFree, AtAny
  <2>5. OneOfEach(o)'
    BY <1>1, <2>2, <2>3 DEF OneOfEach, AtAny
  <2> QED BY <1>1, <2>1, <2>2, <2>4, <2>5, StepKeeps DEF ProvisioningTypeOK
<1> QED BY <1>2, <1>3

LEMMA LookupKeeps == ASSUME ProvisioningInv, NEW o \in Slugs, Lookup(o) PROVE ProvisioningInv'
<1> USE DEF Lookup, At
<1>1. ProvisioningTypeOK /\ OneOfEach(o)
  BY DEF ProvisioningInv
<1>2. "look" \in AllSteps /\ script'[o].do = "teardown" /\ script'[o].step = "look"
  BY <1>1, StepMoves DEF AllSteps
<1>3. BoxesOf(o)' = BoxesOf(o) /\ AddressesOf(o)' = AddressesOf(o) /\ BoxesOf(o) \subseteq Boxes
  BY DEF BoxesOf, AddressesOf
<1>4. PICK b \in IF BoxesOf(o) = {} THEN {None} ELSE BoxesOf(o) : found' = [found EXCEPT ![o] = b]
  OBVIOUS
<1>5. /\ found' \in [Slugs -> Instances] /\ \A p \in Slugs \ {o} : found'[p] = found[p]
      /\ found'[o] = b /\ (b = None \/ b \in BoxesOf(o))
  BY <1>1, <1>3, <1>4 DEF ProvisioningTypeOK, Instances
<1>6. WorksOnItsOwn(o)' /\ SharedIsFree(o)'
  BY <1>2, <1>5 DEF WorksOnItsOwn, SharedIsFree, AtAny, BoxesOf
<1>7. BoxesOf(o) \subseteq {found'[o]}
  BY <1>1, <1>4, <1>5 DEF OneOfEach
<1>8. OneOfEach(o)'
  BY <1>1, <1>2, <1>3, <1>7 DEF OneOfEach, AtAny
<1> QED BY <1>1, <1>2, <1>5, <1>6, <1>8, StepKeeps DEF ProvisioningTypeOK

LEMMA LookupAddressKeeps == ASSUME ProvisioningInv, NEW o \in Slugs, LookupAddress(o) PROVE ProvisioningInv'
<1> USE DEF LookupAddress, At
<1>1. ProvisioningTypeOK /\ WorksOnItsOwn(o) /\ OneOfEach(o)
  BY DEF ProvisioningInv
<1>2. "terminate" \in AllSteps /\ script'[o].do = "teardown" /\ script'[o].step = "terminate"
  BY <1>1, StepMoves DEF AllSteps
<1>3. BoxesOf(o)' = BoxesOf(o) /\ AddressesOf(o)' = AddressesOf(o) /\ AddressesOf(o) \subseteq Addresses
  BY NoneIsApart DEF BoxesOf, AddressesOf
<1>4. PICK a \in IF address[o] = "shared" THEN {Shared} ELSE IF AddressesOf(o) = {} THEN {None} ELSE AddressesOf(o) :
        using' = [using EXCEPT ![o] = a]
  OBVIOUS
<1>5. /\ using' \in [Slugs -> Places] /\ \A p \in Slugs \ {o} : using'[p] = using[p]
      /\ using'[o] = a /\ a \in {None, Shared} \cup AddressesOf(o)
  BY <1>1, <1>3, <1>4, NoneIsApart DEF ProvisioningTypeOK, Places
<1>6. WorksOnItsOwn(o)' /\ SharedIsFree(o)'
  BY <1>1, <1>2, <1>3, <1>5 DEF WorksOnItsOwn, SharedIsFree, AtAny
<1>7. AddressesOf(o) \subseteq {using'[o]}
  BY <1>1, <1>4, <1>5 DEF OneOfEach
<1>8. OneOfEach(o)'
  BY <1>1, <1>2, <1>3, <1>7 DEF OneOfEach, AtAny
<1> QED BY <1>1, <1>2, <1>5, <1>6, <1>8, StepKeeps DEF ProvisioningTypeOK

LEMMA WaitTerminatedKeeps == ASSUME ProvisioningInv, NEW o \in Slugs, WaitTerminated(o) \/ Unalias(o) PROVE ProvisioningInv'
<1> USE DEF WaitTerminated, Unalias, At
<1>1. ProvisioningTypeOK /\ WorksOnItsOwn(o) /\ OneOfEach(o)
  BY DEF ProvisioningInv
<1>2. PICK x \in {"release", "done"} : Step(o, x) /\ script[o].do = "teardown" /\ script[o].step = IF x = "done" THEN "unalias" ELSE "ending"
  OBVIOUS
<1>3. x \in AllSteps /\ script'[o].do = "teardown" /\ script'[o].step = x
  BY <1>1, <1>2, StepMoves DEF AllSteps
<1>4. BoxesOf(o)' = BoxesOf(o) /\ AddressesOf(o)' = AddressesOf(o)
  BY DEF BoxesOf, AddressesOf
<1>5. /\ alias' \in [Slugs -> [kind : {"none", "address", "box"}, to : Places \cup Instances]]
      /\ \A p \in Slugs \ {o} : alias'[p] = alias[p]
  BY <1>1 DEF ProvisioningTypeOK, NoAlias, Places
<1>6. WorksOnItsOwn(o)' /\ SharedIsFree(o)'
  BY <1>1, <1>2, <1>3, <1>4 DEF WorksOnItsOwn, SharedIsFree, AtAny
<1>7. OneOfEach(o)'
  BY <1>1, <1>2, <1>3, <1>4 DEF OneOfEach, AtAny
<1> QED BY <1>1, <1>2, <1>3, <1>5, <1>6, <1>7, StepKeeps DEF ProvisioningTypeOK

LEMMA BeginKeeps == ASSUME ProvisioningInv, NEW o \in Slugs, NEW do \in {"provision", "teardown"}, BeginScript(o, do)
                    PROVE ProvisioningInv'
<1> USE DEF BeginScript
<1>1. ProvisioningTypeOK /\ OneOfEach(o)
  BY DEF ProvisioningInv
<1> DEFINE first == [do |-> do, step |-> IF do = "provision" THEN "check" ELSE "find"]
<1>2. first \in [do : {"nothing", "provision", "teardown"}, step : AllSteps] /\ script' = [script EXCEPT ![o] = first]
  BY DEF AllSteps
<1>3. /\ script' \in [Slugs -> [do : {"nothing", "provision", "teardown"}, step : AllSteps]]
      /\ script'[o].do = do /\ script'[o].step \in {"check", "find"}
      /\ do = "provision" => script'[o].step = "check"
      /\ \A p \in Slugs \ {o} : script'[p] = script[p]
  BY <1>1, <1>2 DEF ProvisioningTypeOK
<1>4. ProvisioningTypeOK' /\ LeadsHome'
  BY <1>1, <1>3 DEF ProvisioningTypeOK, ProvisioningInv, LeadsHome
<1>5. ASSUME NEW p \in Slugs PROVE WorksOnItsOwn(p)' /\ OneOfEach(p)'
  <2>1. BoxesOf(p)' = BoxesOf(p) /\ AddressesOf(p)' = AddressesOf(p) /\ WorksOnItsOwn(p) /\ OneOfEach(p)
    BY DEF BoxesOf, AddressesOf, ProvisioningInv
  <2>2. CASE p = o
    BY <1>3, <2>1, <2>2 DEF WorksOnItsOwn, OneOfEach, At, AtAny
  <2>3. CASE p # o
    <3>1. script'[p] = script[p]
      BY <1>3, <2>3
    <3>2. WorksOnItsOwn(p)'
      BY <2>1, <3>1 DEF WorksOnItsOwn, At, AtAny
    <3>3. OneOfEach(p)'
      BY <2>1, <3>1 DEF OneOfEach, At, AtAny
    <3> QED BY <3>2, <3>3
  <2> QED BY <2>2, <2>3
<1>6. SharedByOne'
  <2> SUFFICES ASSUME ~overlapped' PROVE
        /\ \A s, t \in Slugs : Shares(s) /\ Shares(t) /\ s # t => script'[s].step = "idle" \/ script'[t].step = "idle"
        /\ \A s \in Slugs : SharedIsFree(s)'
    BY DEF SharedByOne, Shares
  <2>1. ~overlapped /\ (Shares(o) => \A p \in Slugs \ {o} : Shares(p) => script[p].step = "idle") /\ SharedByOne
    BY <1>1 DEF ProvisioningTypeOK, ProvisioningInv
  <2>2. \A p \in Slugs : SharedIsFree(p)'
    BY <1>3, <2>1 DEF SharedByOne, SharedIsFree, Shares, AtAny
  <2>3. \A s, t \in Slugs : Shares(s) /\ Shares(t) /\ s # t => script'[s].step = "idle" \/ script'[t].step = "idle"
    BY <1>3, <2>1 DEF SharedByOne
  <2> QED BY <2>2, <2>3
<1> QED BY <1>4, <1>5, <1>6 DEF ProvisioningInv

\* An instance only changes its state: whose it is, and what leads to it, stays, but for
\* an address that it leaves when it is gone.
LEMMA BoxesChange ==
  ASSUME ProvisioningInv, NEW o \in Slugs, UNCHANGED <<address, tagged, alias, overlapped>>,
         \A p \in Slugs \ {o} : script'[p] = script[p] /\ found'[p] = found[p] /\ using'[p] = using[p],
         \A a \in Addresses : at'[a] \in {at[a], None},
         \A b \in Boxes : box'[b].slug = box[b].slug,
         \A p \in Slugs : BoxesOf(p)' \subseteq BoxesOf(p),
         ProvisioningTypeOK', script'[o] # script[o] => script[o].step # "idle",
         WorksOnItsOwn(o)', OneOfEach(o)', ~overlapped => SharedIsFree(o)'
  PROVE  ProvisioningInv'
<1>0. ProvisioningTypeOK
  BY DEF ProvisioningInv
<1>1. LeadsHome'
  BY <1>0, NoneIsApart DEF ProvisioningInv, LeadsHome, ProvisioningTypeOK, Instances
<1>2. ASSUME NEW p \in Slugs, p # o PROVE WorksOnItsOwn(p)' /\ OneOfEach(p)' /\ (SharedIsFree(p) => SharedIsFree(p)')
  <2>1. script'[p] = script[p] /\ found'[p] = found[p] /\ using'[p] = using[p]
    BY <1>2
  <2>2. BoxesOf(p)' \subseteq BoxesOf(p) /\ AddressesOf(p)' = AddressesOf(p)
    BY DEF AddressesOf
  <2>3. WorksOnItsOwn(p) /\ OneOfEach(p)
    BY DEF ProvisioningInv
  <2>4. WorksOnItsOwn(p)'
    BY <2>1, <2>2, <2>3 DEF WorksOnItsOwn, At, AtAny
  <2>5. OneOfEach(p)'
    BY <2>1, <2>2, <2>3 DEF OneOfEach, At, AtAny
  <2>6. SharedIsFree(p) => SharedIsFree(p)'
    BY <2>1, <1>0, NoneIsApart DEF SharedIsFree, AtAny, Shares, ProvisioningTypeOK, Instances
  <2> QED BY <2>4, <2>5, <2>6
<1>3. SharedByOne'
  BY <1>2 DEF ProvisioningInv, SharedByOne, Shares
<1> QED BY <1>1, <1>2, <1>3 DEF ProvisioningInv

LEMMA BecomeKeeps ==
  ASSUME ProvisioningInv, NEW b \in Boxes, NEW state \in Live \cup {"terminated"}, Become(b, state),
         state = "terminated" <=> box[b].state \notin Live, box[b].state # "none"
  PROVE  ProvisioningInv'
<1> USE DEF Become
<1>1. ProvisioningTypeOK
  BY DEF ProvisioningInv
<1>2. /\ box' = [box EXCEPT ![b] = [box[b] EXCEPT !.state = state]]
      /\ box[b] \in [slug : Slugs \cup {Free}, state : Live \cup {"shutting-down", "terminated", "none"}]
  BY <1>1 DEF ProvisioningTypeOK
<1>3. [box[b] EXCEPT !.state = state] \in [slug : Slugs \cup {Free}, state : Live \cup {"shutting-down", "terminated", "none"}]
  BY <1>2
<1>4. /\ box' \in [Boxes -> [slug : Slugs \cup {Free}, state : Live \cup {"shutting-down", "terminated", "none"}]]
      /\ \A c \in Boxes : box'[c].slug = box[c].slug
      /\ \A c \in Boxes : box'[c].state = IF c = b THEN state ELSE box[c].state
  BY <1>1, <1>2, <1>3 DEF ProvisioningTypeOK
<1>5. at' \in [Addresses -> Instances] /\ \A a \in Addresses : at'[a] \in {at[a], None}
  BY <1>1 DEF ProvisioningTypeOK, Instances
<1>6. \A c \in Boxes : box'[c].slug = Free <=> box'[c].state = "none"
  BY <1>1, <1>4 DEF ProvisioningTypeOK, Live
<1>7. ProvisioningTypeOK'
  BY <1>1, <1>4, <1>5, <1>6 DEF ProvisioningTypeOK
<1>8. \A p \in Slugs : BoxesOf(p)' \subseteq BoxesOf(p)
  BY <1>4 DEF BoxesOf, Live
<1>9. CASE Slugs = {}
  BY <1>7, <1>9, <1>4, <1>5, NoneIsApart DEF ProvisioningInv, LeadsHome, SharedByOne, ProvisioningTypeOK, Instances
<1>10. ASSUME NEW o \in Slugs PROVE ProvisioningInv'
  <2>1. WorksOnItsOwn(o) /\ OneOfEach(o) /\ (~overlapped => SharedIsFree(o)) /\ AddressesOf(o)' = AddressesOf(o)
        /\ BoxesOf(o)' \subseteq BoxesOf(o)
    BY <1>8 DEF ProvisioningInv, SharedByOne, AddressesOf
  <2>2. WorksOnItsOwn(o)'
    BY <1>4, <2>1 DEF WorksOnItsOwn, At, AtAny
  <2>3. OneOfEach(o)'
    BY <2>1 DEF OneOfEach, At, AtAny
  <2>4. ~overlapped => SharedIsFree(o)'
    BY <1>1, <1>4, <1>5, <2>1, NoneIsApart DEF SharedIsFree, AtAny, Shares, ProvisioningTypeOK, Instances
  <2> QED BY <1>4, <1>5, <1>7, <1>8, <2>2, <2>3, <2>4, BoxesChange
<1> QED BY <1>9, <1>10

LEMMA Ec2Keeps == ASSUME ProvisioningInv, Ec2 PROVE ProvisioningInv'
<1>1. PICK b \in Boxes :
        \/ box[b].state = "pending" /\ Become(b, "running")
        \/ box[b].state = "running" /\ Become(b, "stopping")
        \/ box[b].state = "stopping" /\ Become(b, "stopped")
        \/ box[b].state = "shutting-down" /\ Become(b, "terminated")
  BY DEF Ec2
<1>2. CASE box[b].state = "pending" /\ Become(b, "running")
  BY <1>2, BecomeKeeps DEF Live
<1>3. CASE box[b].state = "running" /\ Become(b, "stopping")
  BY <1>3, BecomeKeeps DEF Live
<1>4. CASE box[b].state = "stopping" /\ Become(b, "stopped")
  BY <1>4, BecomeKeeps DEF Live
<1>5. CASE box[b].state = "shutting-down" /\ Become(b, "terminated")
  BY <1>5, BecomeKeeps DEF Live
<1> QED BY <1>1, <1>2, <1>3, <1>4, <1>5

\* The state of a script's own instance changes, and the script goes on.
LEMMA OwnBoxChanges ==
  ASSUME ProvisioningInv, NEW o \in Slugs, NEW x \in AllSteps, Step(o, x), script[o].step # "idle", found[o] \in Boxes,
         box[found[o]].state # "none", NEW state \in Live \cup {"shutting-down"},
         box' = [box EXCEPT ![found[o]].state = state], state \in Live => box[found[o]].state \in Live,
         UNCHANGED <<address, tagged, at, alias, found, using, overlapped>>
  PROVE  /\ ProvisioningTypeOK' /\ \A b \in Boxes : box'[b].slug = box[b].slug
         /\ \A p \in Slugs : BoxesOf(p)' \subseteq BoxesOf(p)
         /\ script'[o].do = script[o].do /\ script'[o].step = x
         /\ \A p \in Slugs \ {o} : script'[p] = script[p]
         /\ state \notin Live => found[o] \notin BoxesOf(o)'
         /\ WorksOnItsOwn(o)' /\ OneOfEach(o)' /\ (~overlapped => SharedIsFree(o)') => ProvisioningInv'
<1>1. ProvisioningTypeOK
  BY DEF ProvisioningInv
<1> DEFINE b == found[o]
<1>2. /\ box' = [box EXCEPT ![b] = [box[b] EXCEPT !.state = state]]
      /\ box[b] \in [slug : Slugs \cup {Free}, state : Live \cup {"shutting-down", "terminated", "none"}]
  BY <1>1 DEF ProvisioningTypeOK
<1>3. [box[b] EXCEPT !.state = state] \in [slug : Slugs \cup {Free}, state : Live \cup {"shutting-down", "terminated", "none"}]
  BY <1>2
<1>4. /\ box' \in [Boxes -> [slug : Slugs \cup {Free}, state : Live \cup {"shutting-down", "terminated", "none"}]]
      /\ \A c \in Boxes : box'[c].slug = box[c].slug
      /\ \A c \in Boxes : box'[c].state = IF c = b THEN state ELSE box[c].state
  BY <1>1, <1>2, <1>3 DEF ProvisioningTypeOK
<1>5. /\ script' \in [Slugs -> [do : {"nothing", "provision", "teardown"}, step : AllSteps]]
      /\ script'[o].do = script[o].do /\ script'[o].step = x
      /\ \A p \in Slugs \ {o} : script'[p] = script[p]
  BY <1>1, StepMoves
<1>6. \A c \in Boxes : box'[c].slug = Free <=> box'[c].state = "none"
  BY <1>1, <1>4 DEF ProvisioningTypeOK, Live
<1>7. ProvisioningTypeOK'
  BY <1>1, <1>4, <1>5, <1>6 DEF ProvisioningTypeOK
<1>8. \A p \in Slugs : BoxesOf(p)' \subseteq BoxesOf(p)
  BY <1>4 DEF BoxesOf
<1>9. state \notin Live => b \notin BoxesOf(o)'
  BY <1>4 DEF BoxesOf
<1>10. WorksOnItsOwn(o)' /\ OneOfEach(o)' /\ (~overlapped => SharedIsFree(o)') => ProvisioningInv'
  BY <1>4, <1>5, <1>7, <1>8, BoxesChange
<1> QED BY <1>4, <1>5, <1>7, <1>8, <1>9, <1>10

LEMMA ReuseKeeps == ASSUME ProvisioningInv, NEW o \in Slugs, Reuse(o) PROVE ProvisioningInv'
<1> USE DEF Reuse, At
<1>1. ProvisioningTypeOK /\ WorksOnItsOwn(o) /\ OneOfEach(o) /\ (~overlapped => SharedIsFree(o))
  BY DEF ProvisioningInv, SharedByOne
<1>2. found[o] \in Boxes /\ box[found[o]].slug = o /\ "wait" \in AllSteps
  BY <1>1 DEF WorksOnItsOwn, AtAny, AllSteps
<1>3. script'[o].do = "provision" /\ script'[o].step = "wait"
  BY <1>1, <1>2, StepMoves
<1>4. ASSUME \A b \in Boxes : box'[b].slug = box[b].slug, \A p \in Slugs : BoxesOf(p)' \subseteq BoxesOf(p)
      PROVE WorksOnItsOwn(o)' /\ OneOfEach(o)' /\ (~overlapped => SharedIsFree(o)')
  <2>1. AddressesOf(o)' = AddressesOf(o) /\ BoxesOf(o)' \subseteq BoxesOf(o)
    BY <1>4 DEF AddressesOf
  <2>2. WorksOnItsOwn(o)'
    BY <1>1, <1>2, <1>3, <1>4, <2>1 DEF WorksOnItsOwn, AtAny, AllSteps
  <2>3. OneOfEach(o)'
    BY <1>1, <1>3, <2>1 DEF OneOfEach, AtAny
  <2>4. ~overlapped => SharedIsFree(o)'
    <3>1. ASSUME ~overlapped, Shares(o)' PROVE at[Shared] = None \/ box[at[Shared]].slug = o
      BY <1>1, <3>1 DEF SharedIsFree, AtAny, AllSteps, Shares
    <3>2. at[Shared] \in Instances
      BY <1>1, NoneIsApart DEF ProvisioningTypeOK
    <3> QED BY <1>4, <3>1, <3>2 DEF SharedIsFree, Instances
  <2> QED BY <2>2, <2>3, <2>4
<1>5. CASE box[found[o]].state = "stopped"
  <2>1. box' = [box EXCEPT ![found[o]].state = "pending"]
    BY <1>5
  <2> QED BY <1>2, <1>3, <1>4, <1>5, <2>1, OwnBoxChanges DEF Live
<1>6. CASE box[found[o]].state # "stopped"
  <2>1. box' = [box EXCEPT ![found[o]].state = box[found[o]].state]
    BY <1>6
  <2>2. box' = box
    BY <1>1, <1>2, <2>1 DEF ProvisioningTypeOK
  <2>3. \A p \in Slugs : BoxesOf(p)' \subseteq BoxesOf(p)
    BY <2>2 DEF BoxesOf
  <2> QED BY <1>1, <1>2, <1>4, <2>2, <2>3, StepKeeps DEF ProvisioningTypeOK
<1> QED BY <1>5, <1>6

LEMMA TerminateKeeps == ASSUME ProvisioningInv, NEW o \in Slugs, Terminate(o) PROVE ProvisioningInv'
<1> USE DEF Terminate, At
<1>1. ProvisioningTypeOK /\ WorksOnItsOwn(o) /\ OneOfEach(o)
  BY DEF ProvisioningInv
<1>2. /\ found[o] = None \/ (found[o] \in Boxes /\ box[found[o]].slug = o)
      /\ using[o] \in {None, Shared} \cup AddressesOf(o)
      /\ BoxesOf(o) \subseteq {found[o]} /\ AddressesOf(o) \subseteq {using[o]}
      /\ "ending" \in AllSteps
  BY <1>1 DEF WorksOnItsOwn, OneOfEach, AtAny, AllSteps
<1>3. script'[o].do = "teardown" /\ script'[o].step = "ending"
  BY <1>1, <1>2, StepMoves
<1>4. AddressesOf(o)' = AddressesOf(o)
  BY DEF AddressesOf
<1>5. WorksOnItsOwn(o)' /\ SharedIsFree(o)'
  BY <1>2, <1>3, <1>4 DEF WorksOnItsOwn, SharedIsFree, AtAny
<1>6. ASSUME BoxesOf(o)' = {} PROVE OneOfEach(o)'
  BY <1>1, <1>2, <1>3, <1>4, <1>6 DEF OneOfEach, AtAny
<1>7. CASE found[o] = None \/ box[found[o]].state = "terminated"
  <2>1. box' = box
    BY <1>7
  <2>2. BoxesOf(o)' = {}
    BY <1>2, <1>7, <2>1, NoneIsApart DEF BoxesOf, Live
  <2> QED BY <1>1, <1>2, <1>5, <1>6, <2>1, <2>2, StepKeeps DEF ProvisioningTypeOK
<1>8. CASE ~(found[o] = None \/ box[found[o]].state = "terminated")
  <2>1. found[o] \in Boxes /\ box' = [box EXCEPT ![found[o]].state = "shutting-down"] /\ box[found[o]].state # "none"
    <3>1. o # Free
      BY ProvisioningAssumption
    <3> QED BY <1>1, <1>2, <1>8, <3>1 DEF ProvisioningTypeOK
  <2>2. /\ \A p \in Slugs : BoxesOf(p)' \subseteq BoxesOf(p)
        /\ found[o] \notin BoxesOf(o)'
        /\ WorksOnItsOwn(o)' /\ OneOfEach(o)' /\ (~overlapped => SharedIsFree(o)') => ProvisioningInv'
    <3>1. "shutting-down" \notin Live /\ "shutting-down" \in Live \cup {"shutting-down"}
      BY DEF Live
    <3> QED BY <1>2, <2>1, <3>1, OwnBoxChanges
  <2>3. BoxesOf(o)' = {}
    BY <1>2, <2>2
  <2> QED BY <1>5, <1>6, <2>2, <2>3
<1> QED BY <1>7, <1>8

LEMMA LaunchKeeps == ASSUME ProvisioningInv, NEW o \in Slugs, Launch(o) PROVE ProvisioningInv'
<1> USE DEF Launch, At
<1>1. ProvisioningTypeOK /\ WorksOnItsOwn(o) /\ OneOfEach(o) /\ (~overlapped => SharedIsFree(o)) /\ LeadsHome /\ SharedByOne
  BY DEF ProvisioningInv, SharedByOne
<1>2. PICK b \in Boxes :
        /\ box[b] = NoBox /\ box' = [box EXCEPT ![b] = [slug |-> o, state |-> "pending"]]
        /\ found' = [found EXCEPT ![o] = b]
  OBVIOUS
<1>3. /\ box' \in [Boxes -> [slug : Slugs \cup {Free}, state : Live \cup {"shutting-down", "terminated", "none"}]]
      /\ box'[b].slug = o /\ box'[b].state = "pending"
      /\ \A c \in Boxes \ {b} : box'[c] = box[c]
  BY <1>1, <1>2 DEF ProvisioningTypeOK, Live
<1>4. /\ found' \in [Slugs -> Instances] /\ found'[o] = b /\ \A p \in Slugs \ {o} : found'[p] = found[p]
  BY <1>1, <1>2 DEF ProvisioningTypeOK, Instances
<1>5. "wait" \in AllSteps
  BY DEF AllSteps
<1>6. /\ script' \in [Slugs -> [do : {"nothing", "provision", "teardown"}, step : AllSteps]]
      /\ script'[o].do = "provision" /\ script'[o].step = "wait"
      /\ \A p \in Slugs \ {o} : script'[p] = script[p]
  BY <1>1, <1>5, StepMoves
<1>7. o # Free
  BY ProvisioningAssumption
<1>8. ProvisioningTypeOK'
  <2>1. \A c \in Boxes : box'[c].slug = Free <=> box'[c].state = "none"
    BY <1>1, <1>3, <1>7 DEF ProvisioningTypeOK
  <2> QED BY <1>1, <1>3, <1>4, <1>6, <2>1 DEF ProvisioningTypeOK
\* The new instance was nobody's: nothing led to it and no script had it.
<1>9. box[b].slug = Free /\ box[b].state = "none"
  BY <1>2 DEF NoBox
<1>10. \A a \in Addresses : at[a] # b /\ (at[a] # None => at[a] \in Boxes /\ box'[at[a]] = box[at[a]])
  BY <1>1, <1>3, <1>9, NoneIsApart DEF LeadsHome, ProvisioningTypeOK, Instances
<1>11. LeadsHome'
  BY <1>1, <1>10, NoneIsApart DEF LeadsHome
<1>12. \A p \in Slugs : (SharedIsFree(p) /\ p # o => SharedIsFree(p)') /\ AddressesOf(p)' = AddressesOf(p)
  BY <1>6, <1>10, NoneIsApart DEF SharedIsFree, AtAny, Shares, AddressesOf
<1>13. ~overlapped => SharedIsFree(o)'
  BY <1>1, <1>6, <1>10, NoneIsApart DEF SharedIsFree, AtAny, AllSteps, Shares
<1>14. SharedByOne'
  BY <1>1, <1>6, <1>12, <1>13 DEF SharedByOne, Shares
<1>15. BoxesOf(o)' = {b} /\ \A p \in Slugs \ {o} : BoxesOf(p)' = BoxesOf(p)
  <2>1. BoxesOf(o) = {}
    BY <1>1 DEF OneOfEach
  <2>2. "pending" \in Live /\ "none" \notin Live
    BY DEF Live
  <2>3. \A p \in Slugs \ {o} : p # Free
    BY ProvisioningAssumption
  <2> QED BY <1>3, <1>9, <2>1, <2>2, <2>3 DEF BoxesOf
<1>16. WorksOnItsOwn(o)'
  BY <1>1, <1>3, <1>4, <1>6 DEF WorksOnItsOwn, AtAny, AllSteps
<1>17. OneOfEach(o)'
  BY <1>1, <1>6, <1>12, <1>15 DEF OneOfEach, AtAny
<1>18. ASSUME NEW p \in Slugs, p # o PROVE WorksOnItsOwn(p)' /\ OneOfEach(p)'
  <2>1. script'[p] = script[p] /\ found'[p] = found[p] /\ p # Free /\ WorksOnItsOwn(p) /\ OneOfEach(p)
        /\ AddressesOf(p)' = AddressesOf(p) /\ BoxesOf(p)' = BoxesOf(p)
    BY <1>4, <1>6, <1>12, <1>15, <1>18, ProvisioningAssumption DEF ProvisioningInv
  <2>2. ASSUME found[p] \in Boxes, box[found[p]].slug = p PROVE box'[found[p]].slug = p
    BY <1>3, <1>9, <2>1, <2>2
  <2>3. WorksOnItsOwn(p)'
    BY <2>1, <2>2 DEF WorksOnItsOwn, At, AtAny
  <2>4. OneOfEach(p)'
    BY <2>1 DEF OneOfEach, At, AtAny
  <2> QED BY <2>3, <2>4
<1> QED BY <1>8, <1>11, <1>14, <1>16, <1>17, <1>18 DEF ProvisioningInv

\* What a script does to an address leaves the instances and the other slugs' addresses.
LEMMA AddressesChange ==
  ASSUME ProvisioningInv, NEW o \in Slugs, UNCHANGED <<address, box, alias, found, overlapped>>,
         script[o].step # "idle", \A p \in Slugs \ {o} : script'[p] = script[p] /\ using'[p] = using[p],
         \A p \in Slugs \ {o} : AddressesOf(p)' = AddressesOf(p),
         ~overlapped => \A p \in Slugs \ {o} : SharedIsFree(p) => SharedIsFree(p)',
         ProvisioningTypeOK', LeadsHome', WorksOnItsOwn(o)', OneOfEach(o)', ~overlapped => SharedIsFree(o)'
  PROVE  ProvisioningInv'
<1>1. ASSUME NEW p \in Slugs, p # o PROVE WorksOnItsOwn(p)' /\ OneOfEach(p)'
  <2>1. script'[p] = script[p] /\ using'[p] = using[p] /\ AddressesOf(p)' = AddressesOf(p)
    BY <1>1
  <2>2. WorksOnItsOwn(p) /\ OneOfEach(p) /\ BoxesOf(p)' = BoxesOf(p)
    BY DEF ProvisioningInv, BoxesOf
  <2>3. WorksOnItsOwn(p)'
    BY <2>1, <2>2 DEF WorksOnItsOwn, At, AtAny
  <2>4. OneOfEach(p)'
    BY <2>1, <2>2 DEF OneOfEach, At, AtAny
  <2> QED BY <2>3, <2>4
<1>2. SharedByOne'
  BY DEF ProvisioningInv, SharedByOne, Shares
<1> QED BY <1>1, <1>2 DEF ProvisioningInv

LEMMA AllocateKeeps == ASSUME ProvisioningInv, NEW o \in Slugs, Allocate(o) PROVE ProvisioningInv'
<1> USE DEF Allocate, At
<1>1. ProvisioningTypeOK /\ WorksOnItsOwn(o) /\ OneOfEach(o) /\ (~overlapped => SharedIsFree(o)) /\ LeadsHome
  BY DEF ProvisioningInv, SharedByOne
<1>2. PICK a \in Own : tagged[a] = Free /\ tagged' = [tagged EXCEPT ![a] = o] /\ using' = [using EXCEPT ![o] = a]
  OBVIOUS
<1>3. a \in Addresses /\ a # Shared /\ a # None /\ o # Free
  BY NoneIsApart, ProvisioningAssumption
<1>4. /\ tagged' \in [Addresses -> Slugs \cup {Free, Released, "shared"}]
      /\ tagged'[a] = o /\ \A c \in Addresses \ {a} : tagged'[c] = tagged[c]
  BY <1>1, <1>2, <1>3 DEF ProvisioningTypeOK
<1>5. using' \in [Slugs -> Places] /\ using'[o] = a /\ \A p \in Slugs \ {o} : using'[p] = using[p]
  BY <1>1, <1>2, <1>3 DEF ProvisioningTypeOK, Places
<1>6. "associate" \in AllSteps
  BY DEF AllSteps
<1>7. /\ script' \in [Slugs -> [do : {"nothing", "provision", "teardown"}, step : AllSteps]]
      /\ script'[o].do = "provision" /\ script'[o].step = "associate"
      /\ \A p \in Slugs \ {o} : script'[p] = script[p]
  BY <1>1, <1>6, StepMoves
<1>8. ProvisioningTypeOK'
  BY <1>1, <1>4, <1>5, <1>7 DEF ProvisioningTypeOK
<1>9. LeadsHome'
  <2>1. at[a] = None
    <3>1. at[a] # None => box[at[a]].slug # Free /\ tagged[a] = box[at[a]].slug
      BY <1>1, <1>3 DEF LeadsHome
    <3> QED BY <1>2, <3>1
  <2> QED BY <1>1, <1>4, <2>1, NoneIsApart DEF LeadsHome
<1>10. AddressesOf(o)' = {a} /\ BoxesOf(o)' = BoxesOf(o)
  <2>1. AddressesOf(o) = {}
    BY <1>1 DEF OneOfEach
  <2> QED BY <1>4, <2>1, NoneIsApart DEF AddressesOf, BoxesOf
<1>11. \A p \in Slugs \ {o} : AddressesOf(p)' = AddressesOf(p)
  BY <1>2, <1>4, NoneIsApart, ProvisioningAssumption DEF AddressesOf
<1>12. WorksOnItsOwn(o)'
  BY <1>1, <1>5, <1>7, <1>10 DEF WorksOnItsOwn, AtAny, AllSteps
<1>13. address[o] = "own"
  BY <1>1 DEF WorksOnItsOwn, AtAny
<1>14. OneOfEach(o)'
  BY <1>1, <1>7, <1>10, <1>13 DEF OneOfEach, AtAny
<1>15. SharedIsFree(o)'
  BY <1>13 DEF SharedIsFree, Shares
<1>16. \A p \in Slugs \ {o} : SharedIsFree(p) => SharedIsFree(p)'
  BY <1>7 DEF SharedIsFree, AtAny, Shares
<1> QED BY <1>5, <1>7, <1>8, <1>9, <1>11, <1>12, <1>14, <1>15, <1>16, AddressesChange

LEMMA AssociateKeeps == ASSUME ProvisioningInv, NEW o \in Slugs, Associate(o) PROVE ProvisioningInv'
<1> USE DEF Associate, At
<1>1. ProvisioningTypeOK /\ WorksOnItsOwn(o) /\ OneOfEach(o) /\ (~overlapped => SharedIsFree(o)) /\ LeadsHome /\ SharedByOne
  BY DEF ProvisioningInv, SharedByOne
<1>2. CASE End(o)
  <2>1. ~Step(o, "alias")
    <3>1. ASSUME Step(o, "alias") PROVE FALSE
      BY <1>1, <1>2, <3>1, StepMoves, EndIsIdle DEF Idle, AllSteps
    <3> QED BY <3>1
  <2> QED BY <1>2, <2>1, EndKeeps
<1>3. CASE ~End(o)
  <2>1. /\ Step(o, "alias") /\ found' = found /\ using' = using
        /\ at' = [a \in Addresses |-> IF a = using[o] THEN found[o] ELSE IF at[a] = found[o] THEN None ELSE at[a]]
    BY <1>3
  <2>2. /\ found[o] \in Boxes /\ box[found[o]].slug = o /\ address[o] \in {"own", "shared"}
        /\ address[o] = "own" => using[o] \in AddressesOf(o)
        /\ address[o] = "shared" => using[o] = Shared
        /\ "alias" \in AllSteps /\ o # Free
    BY <1>1, ProvisioningAssumption DEF WorksOnItsOwn, AtAny, AllSteps, ProvisioningTypeOK
  <2>3. /\ script' \in [Slugs -> [do : {"nothing", "provision", "teardown"}, step : AllSteps]]
        /\ script'[o].do = "provision" /\ script'[o].step = "alias"
        /\ \A p \in Slugs \ {o} : script'[p] = script[p]
    BY <1>1, <2>1, <2>2, StepMoves
  <2>4. /\ at' \in [Addresses -> Instances]
        /\ \A a \in Addresses : at'[a] \in {at[a], None} \/ (a = using[o] /\ at'[a] = found[o])
    BY <1>1, <2>1, <2>2 DEF ProvisioningTypeOK, Instances
  <2>5. ProvisioningTypeOK'
    BY <1>1, <2>1, <2>3, <2>4 DEF ProvisioningTypeOK
  <2>6. LeadsHome'
    <3>1. \A a \in Addresses : a = using[o] => a = Shared \/ tagged[a] = o
      BY <2>2 DEF AddressesOf
    <3>2. \A a \in Addresses : at'[a] # None => box[at'[a]].slug # Free
      BY <1>1, <2>2, <2>4 DEF LeadsHome
    <3>3. ASSUME NEW a \in Own, at'[a] # None PROVE tagged[a] = box[at'[a]].slug
      BY <1>1, <2>2, <2>4, <3>1, <3>3, NoneIsApart DEF LeadsHome
    <3> QED BY <3>2, <3>3 DEF LeadsHome
  <2>7. BoxesOf(o)' = BoxesOf(o) /\ \A p \in Slugs : AddressesOf(p)' = AddressesOf(p)
    BY DEF BoxesOf, AddressesOf
  <2>8. WorksOnItsOwn(o)'
    BY <1>1, <2>1, <2>2, <2>3, <2>7 DEF WorksOnItsOwn, AtAny, AllSteps
  <2>9. OneOfEach(o)'
    BY <1>1, <2>3, <2>7 DEF OneOfEach, AtAny
  <2>10. ~overlapped => SharedIsFree(o)'
    <3>1. ~overlapped /\ Shares(o) => at'[Shared] = found[o]
      BY <2>1, <2>2, NoneIsApart DEF Shares
    <3> QED BY <2>2, <3>1 DEF SharedIsFree, Shares
  <2>11. ASSUME ~overlapped, NEW p \in Slugs \ {o}, SharedIsFree(p) PROVE SharedIsFree(p)'
    <3>1. CASE using[o] = Shared
      <4>1. Shares(o)
        BY <2>2, <3>1, NoneIsApart DEF Shares, AddressesOf
      <4>2. ~Shares(p) \/ script[p].step = "idle"
        BY <1>1, <2>11, <4>1 DEF SharedByOne
      <4> QED BY <2>3, <2>11, <4>2 DEF SharedIsFree, AtAny, AllSteps, Shares
    <3>2. CASE using[o] # Shared
      <4>1. at'[Shared] \in {at[Shared], None}
        BY <2>4, <3>2, NoneIsApart
      <4> QED BY <2>3, <2>11, <4>1 DEF SharedIsFree, AtAny, Shares
    <3> QED BY <3>1, <3>2
  <2> QED BY <2>1, <2>3, <2>5, <2>6, <2>7, <2>8, <2>9, <2>10, <2>11, AddressesChange
<1> QED BY <1>2, <1>3

LEMMA ReleaseKeeps == ASSUME ProvisioningInv, NEW o \in Slugs, Release(o) PROVE ProvisioningInv'
<1> USE DEF Release, At
<1>1. ProvisioningTypeOK /\ WorksOnItsOwn(o) /\ OneOfEach(o) /\ LeadsHome
  BY DEF ProvisioningInv
<1>2. /\ using[o] \in {None, Shared} \cup AddressesOf(o) /\ AddressesOf(o) \subseteq {using[o]}
      /\ BoxesOf(o) = {} /\ "unalias" \in AllSteps
  BY <1>1 DEF WorksOnItsOwn, OneOfEach, AtAny, AllSteps
<1>3. BoxesOf(o)' = BoxesOf(o)
  BY DEF BoxesOf
<1>4. CASE End(o) /\ UNCHANGED tagged
  BY <1>4, EndKeeps
<1>5. ASSUME Step(o, "unalias"), AddressesOf(o)' = {}
      PROVE /\ script' \in [Slugs -> [do : {"nothing", "provision", "teardown"}, step : AllSteps]]
            /\ \A p \in Slugs \ {o} : script'[p] = script[p]
            /\ WorksOnItsOwn(o)' /\ OneOfEach(o)' /\ SharedIsFree(o)'
  <2>1. /\ script' \in [Slugs -> [do : {"nothing", "provision", "teardown"}, step : AllSteps]]
        /\ script'[o].do = "teardown" /\ script'[o].step = "unalias"
        /\ \A p \in Slugs \ {o} : script'[p] = script[p]
    BY <1>1, <1>2, <1>5, StepMoves
  <2>2. WorksOnItsOwn(o)' /\ SharedIsFree(o)'
    BY <2>1 DEF WorksOnItsOwn, SharedIsFree, AtAny
  <2>3. OneOfEach(o)'
    BY <1>1, <1>2, <1>3, <1>5, <2>1 DEF OneOfEach, AtAny
  <2> QED BY <2>1, <2>2, <2>3
<1>6. CASE using[o] \in {None, Shared}
  <2>1. Step(o, "unalias") /\ UNCHANGED <<tagged, found, using>>
    BY <1>6
  <2>2. AddressesOf(o) = {} /\ AddressesOf(o)' = {}
    BY <1>2, <1>6, <2>1, NoneIsApart DEF AddressesOf
  <2> QED BY <1>1, <1>2, <1>5, <2>1, <2>2, StepKeeps DEF ProvisioningTypeOK
<1>7. CASE using[o] \notin {None, Shared} /\ ~(End(o) /\ UNCHANGED tagged)
  <2>1. /\ at[using[o]] = None /\ Step(o, "unalias") /\ UNCHANGED <<found, using>>
        /\ tagged' = [tagged EXCEPT ![using[o]] = Released]
    BY <1>7
  <2>2. using[o] \in Own /\ tagged[using[o]] = o /\ using[o] \in Addresses /\ o # Released
    BY <1>2, <1>7, NoneIsApart, ProvisioningAssumption DEF AddressesOf
  <2>3. /\ tagged' \in [Addresses -> Slugs \cup {Free, Released, "shared"}]
        /\ tagged'[using[o]] = Released /\ \A c \in Addresses \ {using[o]} : tagged'[c] = tagged[c]
    BY <1>1, <2>1, <2>2 DEF ProvisioningTypeOK
  <2>4. AddressesOf(o)' = {} /\ \A p \in Slugs \ {o} : AddressesOf(p)' = AddressesOf(p)
    BY <1>2, <2>2, <2>3, NoneIsApart, ProvisioningAssumption DEF AddressesOf
  <2>5. LeadsHome'
    BY <1>1, <2>1, <2>3, NoneIsApart DEF LeadsHome
  <2>6. /\ script' \in [Slugs -> [do : {"nothing", "provision", "teardown"}, step : AllSteps]]
        /\ \A p \in Slugs \ {o} : script'[p] = script[p]
        /\ WorksOnItsOwn(o)' /\ OneOfEach(o)' /\ SharedIsFree(o)'
    BY <1>5, <2>1, <2>4
  <2>7. ProvisioningTypeOK'
    BY <1>1, <2>1, <2>3, <2>6 DEF ProvisioningTypeOK
  <2>8. \A p \in Slugs \ {o} : SharedIsFree(p) => SharedIsFree(p)'
    BY <2>6 DEF SharedIsFree, AtAny, Shares
  <2> QED BY <2>1, <2>4, <2>5, <2>6, <2>7, <2>8, AddressesChange
<1> QED BY <1>4, <1>6, <1>7

LEMMA DeleteKeeps == ASSUME ProvisioningInv, Delete PROVE ProvisioningInv'
<1> USE DEF Delete
<1>1. ProvisioningTypeOK /\ LeadsHome /\ SharedByOne
  BY DEF ProvisioningInv
<1>2. /\ tagged' \in [Addresses -> Slugs \cup {Free, Released, "shared"}]
      /\ \A a \in Own : tagged'[a] = tagged[a]
  BY <1>1, NoneIsApart DEF ProvisioningTypeOK
<1>3. ProvisioningTypeOK'
  BY <1>1, <1>2 DEF ProvisioningTypeOK
<1>4. LeadsHome'
  BY <1>1, <1>2 DEF LeadsHome
<1>5. SharedByOne'
  BY <1>1 DEF SharedByOne, SharedIsFree, AtAny, Shares
<1>6. ASSUME NEW p \in Slugs PROVE WorksOnItsOwn(p)' /\ OneOfEach(p)'
  <2>1. WorksOnItsOwn(p) /\ OneOfEach(p) /\ AddressesOf(p)' = AddressesOf(p) /\ BoxesOf(p)' = BoxesOf(p)
    BY <1>2 DEF ProvisioningInv, AddressesOf, BoxesOf
  <2>2. WorksOnItsOwn(p)'
    BY <2>1 DEF WorksOnItsOwn, At, AtAny
  <2>3. OneOfEach(p)'
    BY <2>1 DEF OneOfEach, At, AtAny
  <2> QED BY <2>2, <2>3
<1> QED BY <1>3, <1>4, <1>5, <1>6 DEF ProvisioningInv

LEMMA ProvisioningBegins == ProvisioningInit => ProvisioningInv
<1> SUFFICES ASSUME ProvisioningInit PROVE ProvisioningInv
  OBVIOUS
<1> USE DEF ProvisioningInit
<1>1. ProvisioningTypeOK
  BY NoneIsApart DEF ProvisioningTypeOK, NoBox, Idle, NoAlias, AllSteps, Live, Places, Instances
<1>2. LeadsHome
  BY NoneIsApart DEF LeadsHome
<1>3. \A s \in Slugs : script[s].do = "nothing" /\ script[s].step = "idle"
  BY DEF Idle
<1>4. \A s \in Slugs : BoxesOf(s) = {} /\ AddressesOf(s) = {}
  BY NoneIsApart, ProvisioningAssumption DEF BoxesOf, AddressesOf, NoBox, Live
<1>5. SharedByOne
  BY <1>3 DEF SharedByOne, SharedIsFree, AtAny
<1>6. \A s \in Slugs : WorksOnItsOwn(s) /\ OneOfEach(s)
  BY <1>3, <1>4 DEF WorksOnItsOwn, OneOfEach, At, AtAny
<1> QED BY <1>1, <1>2, <1>5, <1>6 DEF ProvisioningInv

LEMMA ProvisioningStays == ProvisioningInv /\ UNCHANGED provisioningVars => ProvisioningInv'
BY DEF ProvisioningInv, provisioningVars, ProvisioningTypeOK, LeadsHome, SharedByOne, SharedIsFree, WorksOnItsOwn, OneOfEach,
       BoxesOf, AddressesOf, At, AtAny, Shares

LEMMA ProvisioningKeeps == ASSUME ProvisioningInv, [ProvisioningNext]_provisioningVars PROVE ProvisioningInv'
<1>1. CASE UNCHANGED provisioningVars
  BY <1>1, ProvisioningStays
<1>2. CASE Ec2 \/ Delete
  BY <1>2, Ec2Keeps, DeleteKeeps
<1>3. ASSUME NEW o \in Slugs,
             \/ \E do \in {"provision", "teardown"} : BeginScript(o, do)
             \/ CutOff(o) \/ Forget(o)
      PROVE  ProvisioningInv'
  <2>1. CASE CutOff(o) \/ Forget(o)
    BY <2>1, EndKeeps DEF CutOff, Forget
  <2> QED BY <1>3, <2>1, BeginKeeps
<1>4. ASSUME NEW o \in Slugs,
             \/ Check(o) \/ Find(o) \/ Launch(o) \/ Reuse(o) \/ Wait(o) \/ FindAddress(o)
             \/ Allocate(o) \/ Associate(o) \/ WriteAlias(o) \/ Stage(o)
      PROVE  ProvisioningInv'
  BY <1>4, CheckKeeps, FindKeeps, LaunchKeeps, ReuseKeeps, WaitKeeps, FindAddressKeeps, AllocateKeeps, AssociateKeeps,
     WriteAliasKeeps, StageKeeps
<1>5. ASSUME NEW o \in Slugs,
             Lookup(o) \/ LookupAddress(o) \/ Terminate(o) \/ WaitTerminated(o) \/ Release(o) \/ Unalias(o)
      PROVE  ProvisioningInv'
  BY <1>5, LookupKeeps, LookupAddressKeeps, TerminateKeeps, WaitTerminatedKeeps, ReleaseKeeps
<1> QED BY <1>1, <1>2, <1>3, <1>4, <1>5 DEF ProvisioningNext

LEMMA AtMostOne ==
  ASSUME NEW n \in Nat, NEW S \in SUBSET (1..n), \A a, b \in S : a = b
  PROVE  Cardinality(S) <= 1
<1>1. CASE S = {}
  BY <1>1, FS_EmptySet
<1>2. CASE S # {}
  <2>1. PICK a \in S : S = {a}
    BY <1>2
  <2>2. Cardinality({a}) = 1
    BY FS_Singleton, Zenon
  <2>3. Cardinality(S) = 1
    BY <2>1, <2>2
  <2> QED BY <2>3
<1> QED BY <1>1, <1>2

LEMMA NothingIsLeft == ASSUME ProvisioningInv PROVE NothingIsLeftBilling
<1> SUFFICES ASSUME NEW s \in Slugs
             PROVE  /\ Cardinality(BoxesOf(s)) <= 1 /\ Cardinality(AddressesOf(s)) <= 1
                    /\ At(s, "teardown", "done") =>
                         /\ \A b \in Boxes : box[b].slug = s => box[b].state \in {"shutting-down", "terminated"}
                         /\ \A a \in Own : tagged[a] \in {Free, Released} \cup (Slugs \ {s})
  BY DEF NothingIsLeftBilling
<1>1. ProvisioningTypeOK /\ OneOfEach(s) /\ s # Free
  BY ProvisioningAssumption DEF ProvisioningInv
<1>2. Cardinality(BoxesOf(s)) <= 1
  <2>1. BoxesOf(s) \in SUBSET (1..MaxBoxes) /\ \A b, c \in BoxesOf(s) : b = c
    BY <1>1 DEF BoxesOf, Boxes, OneOfEach
  <2> QED BY <2>1, AtMostOne, ProvisioningAssumption
<1>3. Cardinality(AddressesOf(s)) <= 1
  <2>1. AddressesOf(s) \in SUBSET (1..MaxOwn) /\ \A b, c \in AddressesOf(s) : b = c
    BY <1>1 DEF AddressesOf, Own, OneOfEach
  <2> QED BY <2>1, AtMostOne, ProvisioningAssumption
<1>4. ASSUME At(s, "teardown", "done")
      PROVE  /\ \A b \in Boxes : box[b].slug = s => box[b].state \in {"shutting-down", "terminated"}
             /\ \A a \in Own : tagged[a] \in {Free, Released} \cup (Slugs \ {s})
  <2>1. BoxesOf(s) = {} /\ AddressesOf(s) = {}
    BY <1>1, <1>4 DEF OneOfEach, At, AtAny
  <2>2. ASSUME NEW b \in Boxes, box[b].slug = s PROVE box[b].state \in {"shutting-down", "terminated"}
    <3>1. box[b].state \notin Live /\ box[b].state # "none"
      BY <1>1, <2>1, <2>2 DEF BoxesOf, ProvisioningTypeOK
    <3>2. box[b].state \in Live \cup {"shutting-down", "terminated", "none"}
      BY <1>1 DEF ProvisioningTypeOK
    <3> QED BY <3>1, <3>2
  <2>3. \A a \in Own : tagged[a] \in {Free, Released} \cup (Slugs \ {s})
    BY <1>1, <2>1 DEF AddressesOf, ProvisioningTypeOK
  <2> QED BY <2>2, <2>3
<1> QED BY <1>2, <1>3, <1>4

\* Only Associate leads an address elsewhere: its own, or the shared one that was free for it.
LEMMA AddressesMove ==
  ASSUME ProvisioningInv, [ProvisioningNext]_provisioningVars, ~overlapped',
         NEW a \in Addresses, at[a] # None, at'[a] \notin {None, at[a]}
  PROVE  box[at'[a]].slug = box[at[a]].slug
<1>1. ProvisioningTypeOK /\ LeadsHome /\ SharedByOne
  BY DEF ProvisioningInv
<1>2. at' # at
  BY <1>1
<1>3. ~Ec2
  <2>1. ASSUME NEW b \in Boxes, NEW x, Become(b, x) PROVE FALSE
    BY <1>1, <2>1 DEF Become
  <2> QED BY <2>1 DEF Ec2
<1>4. PICK o \in Slugs : Associate(o)
  <2>1. ProvisioningNext /\ ~Ec2 /\ ~Delete
    BY <1>2, <1>3 DEF provisioningVars, Delete
  <2>2. ASSUME NEW o \in Slugs,
               \/ \E do \in {"provision", "teardown"} : BeginScript(o, do)
               \/ CutOff(o) \/ Forget(o) \/ Check(o) \/ Find(o) \/ Launch(o) \/ Reuse(o) \/ Wait(o) \/ FindAddress(o)
               \/ Allocate(o) \/ WriteAlias(o) \/ Stage(o)
        PROVE  FALSE
    BY <1>2, <2>2 DEF BeginScript, CutOff, Forget, Check, Find, Launch, Reuse, Wait, FindAddress, Allocate, WriteAlias, Stage
  <2>3. ASSUME NEW o \in Slugs,
               Lookup(o) \/ LookupAddress(o) \/ Terminate(o) \/ WaitTerminated(o) \/ Release(o) \/ Unalias(o)
        PROVE  FALSE
    BY <1>2, <2>3 DEF Lookup, LookupAddress, Terminate, WaitTerminated, Release, Unalias
  <2> QED BY <2>1, <2>2, <2>3 DEF ProvisioningNext
<1>5. /\ At(o, "provision", "associate") /\ ~overlapped
      /\ at' = [c \in Addresses |-> IF c = using[o] THEN found[o] ELSE IF at[c] = found[o] THEN None ELSE at[c]]
  BY <1>2, <1>4 DEF Associate
<1>6. a = using[o] /\ at'[a] = found[o]
  BY <1>1, <1>5
<1>7. /\ box[found[o]].slug = o /\ address[o] \in {"own", "shared"}
      /\ address[o] = "own" => using[o] \in AddressesOf(o)
      /\ address[o] = "shared" => using[o] = Shared
  BY <1>1, <1>5 DEF ProvisioningInv, WorksOnItsOwn, At, AtAny, AllSteps, ProvisioningTypeOK
<1>8. CASE address[o] = "own"
  <2>1. a \in Own /\ tagged[a] = o
    BY <1>6, <1>7, <1>8 DEF AddressesOf
  <2> QED BY <1>1, <1>6, <1>7, <2>1 DEF LeadsHome
<1>9. CASE address[o] = "shared"
  <2>1. SharedIsFree(o) /\ Shares(o) /\ a = Shared
    BY <1>1, <1>5, <1>6, <1>7, <1>9 DEF SharedByOne, Shares
  <2> QED BY <1>5, <1>6, <1>7, <2>1 DEF SharedIsFree, AtAny, At, AllSteps
<1> QED BY <1>7, <1>8, <1>9

\* What answers by the alias is the slug's own box.
LEMMA StagedIsOwn ==
  ASSUME ProvisioningInv, [ProvisioningNext]_provisioningVars, ~overlapped',
         NEW s \in Slugs, At(s, "provision", "stage"), script'[s].step = "done"
  PROVE  box[Reached(s)].slug = s
<1>1. ProvisioningTypeOK /\ LeadsHome /\ SharedByOne /\ WorksOnItsOwn(s) /\ s # Free
  BY ProvisioningAssumption DEF ProvisioningInv
<1>2. script'[s] # script[s] /\ script[s].do = "provision" /\ script[s].step = "stage"
  BY DEF At
<1>3. /\ found[s] \in Boxes /\ box[found[s]].slug = s /\ address[s] \in {"own", "shared", "none"}
      /\ address[s] = "own" => using[s] \in AddressesOf(s)
      /\ address[s] = "shared" => using[s] = Shared
      /\ alias[s] = IF address[s] = "none" THEN [kind |-> "box", to |-> found[s]] ELSE [kind |-> "address", to |-> using[s]]
  BY <1>1, <1>2 DEF WorksOnItsOwn, At, AtAny, AllSteps, ProvisioningTypeOK
<1>4. Stage(s) /\ ~End(s)
  <2>1. ProvisioningNext /\ script' # script
    BY <1>2 DEF provisioningVars
  <2>2. ~Ec2 /\ ~Delete
    BY <2>1 DEF Ec2, Become, Delete
  <2>3. PICK o \in Slugs :
          \/ \E do \in {"provision", "teardown"} : BeginScript(o, do)
          \/ CutOff(o) \/ Forget(o) \/ Check(o) \/ Find(o) \/ Launch(o) \/ Reuse(o) \/ Wait(o) \/ FindAddress(o)
          \/ Allocate(o) \/ Associate(o) \/ WriteAlias(o) \/ Stage(o)
          \/ Lookup(o) \/ LookupAddress(o) \/ Terminate(o) \/ WaitTerminated(o) \/ Release(o) \/ Unalias(o)
    BY <2>1, <2>2 DEF ProvisioningNext
  <2>4. ASSUME NEW x PROVE script' = [script EXCEPT ![o] = x] \/ script' = [script EXCEPT ![o].step = x] => o = s
    BY <1>1, <1>2 DEF ProvisioningTypeOK
  <2>5. ~End(s)
    BY <1>1, EndIsIdle DEF Idle
  <2>6. o = s
    BY <2>3, <2>4 DEF BeginScript, CutOff, Forget, Check, Find, Launch, Reuse, Wait, FindAddress, Allocate, Associate, WriteAlias,
      Stage, Lookup, LookupAddress, Terminate, WaitTerminated, Release, Unalias, End, Step
  <2>7. Stage(s)
    BY <1>2, <2>3, <2>5, <2>6 DEF BeginScript, CutOff, Forget, Check, Find, Launch, Reuse, Wait, FindAddress, Allocate, Associate,
      WriteAlias, Lookup, LookupAddress, Terminate, WaitTerminated, Release, Unalias, At
  <2> QED BY <2>5, <2>7
<1>5. Reached(s) # None /\ ~overlapped
  BY <1>4 DEF Stage
<1>6. CASE address[s] = "none"
  BY <1>3, <1>6 DEF Reached
<1>7. CASE address[s] = "own"
  <2>1. Reached(s) = at[using[s]] /\ using[s] \in Own /\ tagged[using[s]] = s
    BY <1>3, <1>7 DEF Reached, AddressesOf
  <2> QED BY <1>1, <1>5, <2>1 DEF LeadsHome
<1>8. CASE address[s] = "shared"
  <2>1. Reached(s) = at[Shared]
    BY <1>3, <1>8 DEF Reached
  <2>2. SharedIsFree(s) /\ Shares(s)
    BY <1>1, <1>5, <1>8 DEF SharedByOne, Shares
  <2> QED BY <1>2, <1>5, <2>1, <2>2 DEF SharedIsFree, AtAny, AllSteps
<1> QED BY <1>3, <1>6, <1>7, <1>8

THEOREM ProvisioningInvHolds == ProvisioningSpec => []ProvisioningInv
BY ProvisioningBegins, ProvisioningKeeps, PTL DEF ProvisioningSpec

THEOREM RunBoxesAreTheirsHolds == ProvisioningSpec => RunBoxesAreTheirs
<1>1. ProvisioningInv => NothingIsLeftBilling
  BY NothingIsLeft
<1> DEFINE Kept ==
  ~overlapped' =>
    /\ \A a \in Addresses :
         at[a] # None /\ at'[a] \notin {None, at[a]} => box[at'[a]].slug = box[at[a]].slug
    /\ \A s \in Slugs : At(s, "provision", "stage") /\ script'[s].step = "done" => box[Reached(s)].slug = s
<1>2. ProvisioningInv /\ [ProvisioningNext]_provisioningVars => [Kept]_provisioningVars
  BY AddressesMove, StagedIsOwn
<1>3. AddressesAreKept <=> [][Kept]_provisioningVars
  BY DEF AddressesAreKept
<1> HIDE DEF Kept
<1> QED BY <1>1, <1>2, <1>3, ProvisioningInvHolds, PTL DEF ProvisioningSpec, RunBoxesAreTheirs

----------------------------------------------------------------------------
(* Calibration: the ranking *)

Fractions == [num : Int, den : Nat \ {0}]

LEMMA Monotone == \A a, b \in Int, n \in Nat : a <= b => a * n <= b * n
OBVIOUS

LEMMA StrictlyMonotone == \A a, b \in Int, n \in Nat \ {0} : a < b => a * n < b * n
OBVIOUS

\* Of fractions: what is less than one is less than any third, or that one is.
LEMMA LessIsAnOrder ==
  ASSUME NEW a \in Fractions, NEW b \in Fractions, NEW c \in Fractions
  PROVE  /\ ~(Less(a, b) /\ Less(b, a))
         /\ Less(a, c) => Less(a, b) \/ Less(b, c)
<1> DEFINE x == a.num y == b.num z == c.num u == a.den v == b.den w == c.den
<1>1. {x, y, z} \subseteq Int /\ {u, v, w} \subseteq Nat \ {0}
  BY DEF Fractions
<1> HIDE DEF x, y, z, u, v, w
<1>2. ~(x * v < y * u /\ y * u < x * v)
  BY <1>1
<1>3. ASSUME x * w < z * u, y * u <= x * v, z * v <= y * w PROVE FALSE
  <2>1. (x * w) * v < (z * u) * v
    BY <1>1, <1>3, StrictlyMonotone
  <2>2. (y * u) * w <= (x * v) * w
    BY <1>1, <1>3, Monotone
  <2>3. (z * v) * u <= (y * w) * u
    BY <1>1, <1>3, Monotone
  <2>4. (x * w) * v = (x * v) * w /\ (z * u) * v = (z * v) * u /\ (y * u) * w = (y * w) * u
    BY <1>1
  <2>5. (x * w) * v \in Int /\ (z * u) * v \in Int /\ (y * u) * w \in Int
    BY <1>1
  <2> QED BY <2>1, <2>2, <2>3, <2>4, <2>5
<1>4. ASSUME x * w < z * u, ~(x * v < y * u), ~(y * w < z * v) PROVE FALSE
  <2>1. x * v \in Int /\ y * u \in Int /\ y * w \in Int /\ z * v \in Int
    BY <1>1
  <2> QED BY <1>3, <1>4, <2>1
<1> QED BY <1>2, <1>4 DEF Less, x, y, z, u, v, w

LEMMA UnitsAreFinite ==
  ASSUME NEW S, IsFiniteSet(S), NEW f, \A i \in S : IsFiniteSet(f[i])
  PROVE  IsFiniteSet(UNION {f[i] : i \in S})
<1> DEFINE T == {f[i] : i \in S}
<1>1. [i \in S |-> f[i]] \in Surjection(S, T)
  BY DEF Surjection
<1>2. IsFiniteSet(T)
  BY <1>1, FS_Surjection
<1> QED BY <1>2, FS_UNION

LEMMA TotalIsNat ==
  ASSUME NEW S, IsFiniteSet(S), NEW f \in [S -> Nat]
  PROVE  Total(f) \in Nat /\ Spread(f) \in Nat
<1>1. Total(f) \in Nat
  <2> DEFINE g == [i \in S |-> {i} \X (1..f[i])]
  <2>1. \A i \in S : IsFiniteSet(g[i])
    <3> SUFFICES ASSUME NEW i \in S PROVE IsFiniteSet({i} \X (1..f[i]))
      OBVIOUS
    <3>1. IsFiniteSet(1..f[i])
      BY FS_Interval
    <3> QED BY <3>1, FS_Singleton, FS_Product
  <2>2. IsFiniteSet(UNION {g[i] : i \in S})
    <3> HIDE DEF g
    <3> QED BY <2>1, UnitsAreFinite
  <2>3. UNION {{i} \X (1..f[i]) : i \in DOMAIN f} = UNION {g[i] : i \in S}
    OBVIOUS
  <2> QED BY <2>2, <2>3, FS_CardinalityType DEF Total
<1>2. Spread(f) \in Nat
  <2> DEFINE g == [x \in S \X S |-> (f[x[1]] + 1)..f[x[2]]]
  <2>1. \A x \in S \X S : IsFiniteSet(g[x])
    <3> SUFFICES ASSUME NEW x \in S \X S PROVE IsFiniteSet((f[x[1]] + 1)..f[x[2]])
      OBVIOUS
    <3>1. f[x[1]] + 1 \in Int /\ f[x[2]] \in Int
      OBVIOUS
    <3> QED BY <3>1, FS_Interval
  <2>2. IsFiniteSet(UNION {g[x] : x \in S \X S})
    <3>1. IsFiniteSet(S \X S)
      BY FS_Product
    <3> HIDE DEF g
    <3> QED BY <2>1, <3>1, UnitsAreFinite
  <2>3. UNION {(f[x[1]] + 1)..f[x[2]] : x \in (DOMAIN f) \X (DOMAIN f)} = UNION {g[x] : x \in S \X S}
    OBVIOUS
  <2> QED BY <2>2, <2>3, FS_CardinalityType DEF Spread
<1> QED BY <1>1, <1>2

LEMMA OfficialIsFinite ==
  ASSUME NEW p \in Papers
  PROVE  /\ p \in Nat /\ IsFiniteSet(Official[p])
         /\ \A i \in Official[p] : Corpus[p].reviews[i] \in Review
<1>1. p \in Nat /\ Corpus[p].reviews \in Seq(Review)
  <2>1. Corpus \in Seq([reviews : Seq(Review), accepted : {"yes", "no", "undecided"},
                     blob : {"pdf", "oversize", "missing"}, redacts : BOOLEAN])
    BY CalibrationAssumption
  <2>2. p \in 1..Len(Corpus) /\ Len(Corpus) \in Nat
    BY <2>1 DEF Papers
  <2>3. Corpus[p] \in [reviews : Seq(Review), accepted : {"yes", "no", "undecided"},
                     blob : {"pdf", "oversize", "missing"}, redacts : BOOLEAN]
    BY <2>1, <2>2, ElementOfSeq
  <2> QED BY <2>2, <2>3
<1> DEFINE r == Corpus[p].reviews
<1>2. Len(r) \in Nat /\ DOMAIN r = 1..Len(r) /\ \A i \in 1..Len(r) : r[i] \in Review
  BY <1>1
<1>3. Dedupe(r) \subseteq 1..Len(r)
  <2>1. (Len(r) \div 2) <= Len(r) /\ (Len(r) \div 2) \in Nat
    <3>1. \A n \in Nat : (n \div 2) <= n /\ (n \div 2) \in Nat
      OBVIOUS
    <3> QED BY <1>2, <3>1
  <2>2. DOMAIN r = 1..Len(r) /\ 1..(Len(r) \div 2) \subseteq 1..Len(r)
    <3>1. \A m, n \in Nat : m <= n => 1..m \subseteq 1..n
      OBVIOUS
    <3> HIDE DEF r
    <3> QED BY <1>2, <2>1, <3>1
  <2>3. Dedupe(r) \in {DOMAIN r, 1..(Len(r) \div 2)}
    BY DEF Dedupe
  <2> QED BY <2>2, <2>3
<1>4. Official[p] \subseteq 1..Len(r)
  BY <1>3 DEF Official
<1>5. IsFiniteSet(1..Len(r))
  BY <1>2, FS_Interval
<1> QED BY <1>1, <1>2, <1>4, <1>5, FS_Subset

LEMMA MeansTyped ==
  ASSUME NEW p \in Reviewed
  PROVE  Means[p] \in Fractions /\ Spread(Scores(p)) \in Nat /\ Sureness(p) \in Fractions /\ p \in Nat
<1>1. p \in Papers /\ Official[p] # {}
  BY DEF Reviewed
<1>2. /\ p \in Nat /\ IsFiniteSet(Official[p])
      /\ \A i \in Official[p] : Corpus[p].reviews[i].score \in Nat /\ Corpus[p].reviews[i].confidence \in Nat
  BY <1>1, OfficialIsFinite DEF Review
<1>3. Scores(p) \in [Official[p] -> Nat] /\ DOMAIN Scores(p) = Official[p]
  BY <1>2 DEF Scores
<1>4. Total(Scores(p)) \in Nat /\ Spread(Scores(p)) \in Nat
  BY <1>2, <1>3, TotalIsNat
<1>5. Cardinality(Official[p]) \in Nat \ {0}
  BY <1>1, <1>2, FS_CardinalityType, FS_EmptySet
<1>6. Means[p] = [num |-> Total(Scores(p)), den |-> Cardinality(Official[p])]
  BY <1>3 DEF Means, Mean
<1>7. Means[p] \in Fractions
  BY <1>4, <1>5, <1>6 DEF Fractions
<1>8. Confident(p) \subseteq Official[p]
  BY DEF Confident
<1>9. IsFiniteSet(Confident(p))
  BY <1>2, <1>8, FS_Subset
<1>10. Confidences(p) \in [Confident(p) -> Nat]
  BY <1>2, <1>8 DEF Confidences
<1>11. Total(Confidences(p)) \in Nat
  BY <1>9, <1>10, TotalIsNat
<1>12. Sureness(p) \in Fractions
  <2>1. CASE Confident(p) = {}
    BY <2>1 DEF Sureness, Fraction, Fractions
  <2>2. CASE Confident(p) # {}
    <3>1. Cardinality(Confident(p)) \in Nat \ {0}
      BY <1>9, <2>2, FS_CardinalityType, FS_EmptySet
    <3> QED BY <1>11, <2>2, <3>1 DEF Sureness, Fraction, Fractions
  <2> QED BY <2>1, <2>2
<1> QED BY <1>2, <1>4, <1>7, <1>12

LEMMA KeysTyped ==
  ASSUME NEW p \in Reviewed, NEW s \in Strata
  PROVE  /\ \A k \in 1..4 : Keys[s][p][k] \in Fractions
         /\ Keys[s][p][4] = Fraction(p, 1)
<1>1. /\ Means[p] \in Fractions /\ Spread(Scores(p)) \in Nat /\ Sureness(p) \in Fractions /\ p \in Nat
  BY MeansTyped
<1>2. s.lo \in Int /\ s.hi \in Int
  BY CalibrationAssumption
<1>3. Extremity(Means[p], s) \in Fractions
  <2>1. /\ Means[p].num \in Int /\ Means[p].den \in Nat \ {0} /\ -Means[p].num \in Int
        /\ 4 * Means[p].num - (s.lo + s.hi) * Means[p].den \in Int
    BY <1>1, <1>2 DEF Fractions
  <2> DEFINE off == 4 * Means[p].num - (s.lo + s.hi) * Means[p].den
  <2>2. off \in Int /\ -off \in Int
    BY <2>1
  <2>3. Extremity(Means[p], s) \in {Means[p], Fraction(-Means[p].num, Means[p].den), Fraction(off, Means[p].den),
                                    Fraction(-off, Means[p].den)}
    BY DEF Extremity
  <2> HIDE DEF off
  <2> QED BY <1>1, <2>1, <2>2, <2>3 DEF Fractions, Fraction
<1>4. Fraction(Spread(Scores(p)), 1) \in Fractions /\ Fraction(p, 1) \in Fractions
  BY <1>1 DEF Fractions, Fraction
<1>5. Keys[s][p] = << Extremity(Means[p], s), Fraction(Spread(Scores(p)), 1), Sureness(p), Fraction(p, 1) >>
  BY DEF Keys, RankKey
<1> QED BY <1>1, <1>3, <1>4, <1>5

\* Less in the k-th part of the key.
Before(k, p, q, s) == Less(Keys[s][p][k], Keys[s][q][k])

LEMMA BetterInOrder ==
  ASSUME NEW p \in Reviewed, NEW q \in Reviewed, NEW s \in Strata
  PROVE  Better(p, q, s) <=>
           \/ Before(1, p, q, s)
           \/ /\ ~Before(1, q, p, s)
              /\ \/ Before(2, p, q, s)
                 \/ /\ ~Before(2, q, p, s)
                    /\ \/ Before(3, p, q, s)
                       \/ ~Before(3, q, p, s) /\ Before(4, p, q, s)
<1>1. Better(p, q, s) <=> \E k \in 1..4 : Before(k, p, q, s) /\ \A j \in 1..(k - 1) : ~Before(j, q, p, s)
  BY DEF Better, Before
<1>2. 1..4 = {1, 2, 3, 4} /\ 1..(1 - 1) = {} /\ 1..(2 - 1) = {1} /\ 1..(3 - 1) = {1, 2} /\ 1..(4 - 1) = {1, 2, 3}
  OBVIOUS
<1> QED BY <1>1, <1>2

LEMMA BeforeIsAnOrder ==
  ASSUME NEW p \in Reviewed, NEW q \in Reviewed, NEW r \in Reviewed, NEW s \in Strata, NEW k \in 1..4
  PROVE  /\ ~(Before(k, p, q, s) /\ Before(k, q, p, s))
         /\ Before(k, p, r, s) => Before(k, p, q, s) \/ Before(k, q, r, s)
BY KeysTyped, LessIsAnOrder DEF Before

\* Of two papers one is better, and better than what the other is better than.
LEMMA BetterIsAnOrder ==
  ASSUME NEW s \in Strata
  PROVE  /\ \A p, q \in Reviewed : ~(Better(p, q, s) /\ Better(q, p, s))
         /\ \A p, q, r \in Reviewed : Better(p, r, s) => Better(p, q, s) \/ Better(q, r, s)
         /\ \A p, q \in Reviewed : p # q => Better(p, q, s) \/ Better(q, p, s)
<1>1. \A p, q, r \in Reviewed : \A k \in {1, 2, 3, 4} :
        /\ ~(Before(k, p, q, s) /\ Before(k, q, p, s))
        /\ Before(k, p, r, s) => Before(k, p, q, s) \/ Before(k, q, r, s)
  <2>1. \A k \in {1, 2, 3, 4} : k \in 1..4
    OBVIOUS
  <2> QED BY <2>1, BeforeIsAnOrder
<1>2. ASSUME NEW p \in Reviewed, NEW q \in Reviewed PROVE ~(Better(p, q, s) /\ Better(q, p, s))
  BY <1>1, BetterInOrder
<1>3. ASSUME NEW p \in Reviewed, NEW q \in Reviewed, NEW r \in Reviewed
      PROVE  Better(p, r, s) => Better(p, q, s) \/ Better(q, r, s)
  BY <1>1, BetterInOrder
<1>4. ASSUME NEW p \in Reviewed, NEW q \in Reviewed, p # q PROVE Better(p, q, s) \/ Better(q, p, s)
  <2>1. p \in Nat /\ q \in Nat
    BY MeansTyped
  <2>2. Before(4, p, q, s) \/ Before(4, q, p, s)
    <3>1. Keys[s][p][4] = Fraction(p, 1) /\ Keys[s][q][4] = Fraction(q, 1)
      BY KeysTyped
    <3>2. p * 1 < q * 1 \/ q * 1 < p * 1
      BY <1>4, <2>1
    <3> QED BY <3>1, <3>2 DEF Before, Less, Fraction
  <2> QED BY <1>1, <2>2, BetterInOrder
<1> QED BY <1>2, <1>3, <1>4

LEMMA PapersAreFinite == IsFiniteSet(Papers) /\ IsFiniteSet(Reviewed)
<1>1. Papers = 1..Len(Corpus) /\ Len(Corpus) \in Nat
  BY CalibrationAssumption DEF Papers
<1>2. IsFiniteSet(Papers)
  BY <1>1, FS_Interval
<1>3. Reviewed \in SUBSET Papers
  BY DEF Reviewed
<1> QED BY <1>2, <1>3, FS_Subset

\* Papers have places in the order in which they are better, one for each from the first on.
LEMMA PlacesInOrder ==
  ASSUME NEW s \in Strata, NEW band \in SUBSET Reviewed
  PROVE  /\ Cardinality(band) \in Nat
         /\ \A p \in band : Place(p, s, band) \in 0..(Cardinality(band) - 1)
         /\ \A p, q \in band : Better(p, q, s) <=> Place(p, s, band) < Place(q, s, band)
         /\ \A n \in 0..(Cardinality(band) - 1) : \E p \in band : Place(p, s, band) = n
<1> DEFINE before(p) == {q \in band : Better(q, p, s)}
<1>1. IsFiniteSet(band)
  BY PapersAreFinite, FS_Subset
<1>2. Cardinality(band) \in Nat
  BY <1>1, FS_CardinalityType
<1>3. \A p \in band : IsFiniteSet(before(p)) /\ Cardinality(before(p)) \in Nat /\ Place(p, s, band) = Cardinality(before(p))
  BY <1>1, FS_Subset, FS_CardinalityType DEF Place
<1>4. ASSUME NEW p \in band PROVE Place(p, s, band) \in 0..(Cardinality(band) - 1)
  <2>1. p \notin before(p)
    BY BetterIsAnOrder
  <2>2. before(p) \in SUBSET band /\ before(p) # band
    BY <2>1
  <2>3. Cardinality(before(p)) <= Cardinality(band) /\ Cardinality(before(p)) # Cardinality(band)
    BY <1>1, <2>2, FS_Subset
  <2> QED BY <1>2, <1>3, <2>3
<1>5. ASSUME NEW p \in band, NEW q \in band, Better(p, q, s) PROVE Place(p, s, band) < Place(q, s, band)
  <2>1. before(p) \in SUBSET before(q)
    BY <1>5, BetterIsAnOrder
  <2>2. p \in before(q) /\ p \notin before(p)
    BY <1>5, BetterIsAnOrder
  <2>3. Cardinality(before(p)) <= Cardinality(before(q)) /\ Cardinality(before(p)) # Cardinality(before(q))
    BY <1>3, <2>1, <2>2, FS_Subset
  <2> QED BY <1>3, <2>3
<1>6. \A p, q \in band : Better(p, q, s) <=> Place(p, s, band) < Place(q, s, band)
  <2> SUFFICES ASSUME NEW p \in band, NEW q \in band, Place(p, s, band) < Place(q, s, band) PROVE Better(p, q, s)
    BY <1>5
  <2>1. Place(p, s, band) \in Nat /\ Place(q, s, band) \in Nat
    BY <1>3
  <2>2. p # q /\ ~Better(q, p, s)
    BY <1>5, <2>1
  <2> QED BY <2>2, BetterIsAnOrder
<1>7. ASSUME NEW n \in 0..(Cardinality(band) - 1) PROVE \E p \in band : Place(p, s, band) = n
  <2> DEFINE places == 0..(Cardinality(band) - 1)
             place == [p \in band |-> Place(p, s, band)]
  <2>1. place \in [band -> places]
    BY <1>4
  <2>2. \A p, q \in band : place[p] = place[q] => p = q
    BY <1>3, <1>6, BetterIsAnOrder
  <2>3. place \in Injection(band, places)
    <3> HIDE DEF place, places
    <3>1. DOMAIN place = band
      BY <2>1
    <3> QED BY <2>1, <2>2, <3>1 DEF Injection, IsInjective
  <2>4. IsFiniteSet(places) /\ Cardinality(places) = Cardinality(band)
    BY <1>2, FS_Interval
  <2>5. place \in Surjection(band, places)
    BY <2>3, <2>4, FS_Injection
  <2> QED BY <2>5 DEF Surjection
<1> QED BY <1>2, <1>4, <1>6, <1>7

----------------------------------------------------------------------------
(* Calibration: what was dealt from a band *)

\* The papers of a split that were dealt from a band.
From(band, s, split) == {p \in band : /\ Place(p, s, band) < 2 * s.per
                                      /\ split = IF Place(p, s, band) % 2 = 0 THEN "train" ELSE "test"}

LEMMA HalfThePlaces ==
  \A n \in Nat : n % 2 \in {0, 1} /\ n \div 2 \in Nat /\ n = 2 * (n \div 2) + (n % 2)
OBVIOUS

LEMMA OneEachMore ==
  ASSUME NEW S, NEW T, IsFiniteSet(S), IsFiniteSet(T), NEW f \in Injection(T, S), NEW x \in S,
         NEW g \in Injection(S \ {x}, T)
  PROVE  Cardinality(S) - Cardinality(T) \in {0, 1}
<1>1. Cardinality(S) \in Nat /\ Cardinality(T) \in Nat /\ Cardinality(S \ {x}) = Cardinality(S) - 1
  BY FS_CardinalityType, FS_RemoveElement
<1>2. Cardinality(T) <= Cardinality(S)
  BY FS_Injection
<1>3. Cardinality(S \ {x}) <= Cardinality(T)
  BY FS_Injection
<1> QED BY <1>1, <1>2, <1>3

\* The splits have the same number of papers, or train one more.
LEMMA SplitsAreEven ==
  ASSUME NEW s \in Strata, NEW band \in SUBSET Reviewed
  PROVE  Cardinality(From(band, s, "train")) - Cardinality(From(band, s, "test")) \in {0, 1}
<1> DEFINE S == From(band, s, "train")
           T == From(band, s, "test")
           place(p) == Place(p, s, band)
<1>1. /\ Cardinality(band) \in Nat /\ \A p \in band : place(p) \in 0..(Cardinality(band) - 1)
      /\ \A n \in 0..(Cardinality(band) - 1) : \E p \in band : place(p) = n
      /\ \A p, q \in band : place(p) = place(q) => p = q
  <2>1. \A p, q \in band : place(p) = place(q) => p = q
    <3> SUFFICES ASSUME NEW p \in band, NEW q \in band, place(p) = place(q), p # q PROVE FALSE
      OBVIOUS
    <3>1. place(p) < place(q) \/ place(q) < place(p)
      BY PlacesInOrder, BetterIsAnOrder
    <3>2. place(p) \in Int
      BY PlacesInOrder
    <3> QED BY <3>1, <3>2
  <2> QED BY <2>1, PlacesInOrder
<1>2. s.per \in Nat
  BY CalibrationAssumption
<1> HIDE DEF place
<1>3. /\ \A p : p \in S <=> p \in band /\ place(p) < 2 * s.per /\ place(p) % 2 = 0
      /\ \A p : p \in T <=> p \in band /\ place(p) < 2 * s.per /\ place(p) % 2 # 0
  BY DEF From, place
<1>4. IsFiniteSet(S) /\ IsFiniteSet(T)
  <2>1. S \in SUBSET Reviewed /\ T \in SUBSET Reviewed
    BY DEF From
  <2> QED BY <2>1, PapersAreFinite, FS_Subset
<1> HIDE DEF S, T
<1>5. CASE S = {}
  <2>1. T = {}
    <3> SUFFICES ASSUME NEW q \in T PROVE FALSE
      OBVIOUS
    <3>1. place(q) \in Nat /\ place(q) % 2 = 1 /\ place(q) <= Cardinality(band) - 1
      BY <1>1, <1>3, HalfThePlaces
    <3>2. place(q) - 1 \in 0..(Cardinality(band) - 1) /\ (place(q) - 1) % 2 = 0 /\ place(q) - 1 < 2 * s.per
      BY <1>1, <1>2, <1>3, <3>1
    <3> QED BY <1>1, <1>3, <1>5, <3>2
  <2>2. Cardinality(S) - Cardinality(T) \in {0, 1}
    BY <1>5, <2>1, FS_EmptySet
  <2> QED BY <2>2 DEF S, T
<1>6. CASE S # {}
  <2>1. PICK x \in band : place(x) = 0
    <3>1. PICK p \in S : TRUE
      BY <1>6
    <3> QED BY <1>1, <1>3, <3>1
  <2>2. x \in S
    <3>1. PICK p \in S : p \in band /\ place(p) \in Nat /\ place(p) < 2 * s.per
      BY <1>1, <1>3, <1>6
    <3> QED BY <1>2, <1>3, <2>1, <3>1
  \* The paper at the place before.
  <2>3. ASSUME NEW p \in S \cup T, p # x
        PROVE  \E q \in band : place(q) = place(p) - 1 /\ place(q) < 2 * s.per /\ place(p) \in Nat \ {0}
    <3>1. p \in band /\ place(p) \in Nat \ {0} /\ place(p) < 2 * s.per /\ place(p) <= Cardinality(band) - 1
      BY <1>1, <1>3, <2>1, <2>3
    <3>2. place(p) - 1 \in 0..(Cardinality(band) - 1) /\ place(p) - 1 < 2 * s.per
      BY <1>1, <1>2, <3>1
    <3> QED BY <1>1, <3>1, <3>2
  <2> DEFINE last(p) == CHOOSE q \in band : place(q) = place(p) - 1
  <2>4. \A p \in S \cup T : p # x => /\ last(p) \in band /\ place(last(p)) = place(p) - 1 /\ place(last(p)) < 2 * s.per
                                     /\ place(p) \in Nat \ {0}
    BY <2>3
  <2> HIDE DEF last
  <2>5. \A n \in Nat \ {0} : (n % 2 = 0) <=> ((n - 1) % 2 # 0)
    OBVIOUS
  <2>6. x \notin T
    BY <1>3, <2>1
  <2>7. [p \in T |-> last(p)] \in Injection(T, S)
    <3>1. \A p \in T : last(p) \in S
      BY <1>3, <2>4, <2>5, <2>6
    <3>2. \A p, q \in T : last(p) = last(q) => p = q
      BY <1>1, <1>3, <2>4, <2>6
    <3> QED BY <3>1, <3>2 DEF Injection, IsInjective
  <2>8. [p \in S \ {x} |-> last(p)] \in Injection(S \ {x}, T)
    <3>1. \A p \in S \ {x} : last(p) \in T
      BY <1>3, <2>4, <2>5
    <3>2. \A p, q \in S \ {x} : last(p) = last(q) => p = q
      BY <1>1, <1>3, <2>4
    <3> QED BY <3>1, <3>2 DEF Injection, IsInjective
  <2>9. Cardinality(S) - Cardinality(T) \in {0, 1}
    BY <1>4, <2>2, <2>7, <2>8, OneEachMore
  <2> QED BY <2>9 DEF S, T
<1> QED BY <1>5, <1>6 DEF S, T

\* The rows of a stratum were dealt from a band that has only lost papers since.
DealtFrom(s, band) ==
  /\ band \in SUBSET Reviewed /\ Band(s) \subseteq band
  /\ {p \in DOMAIN rows : rows[p].stratum = s} = DOMAIN Dealt(s, band)
  /\ \A p \in DOMAIN Dealt(s, band) : rows[p] = Dealt(s, band)[p]

RowsDealt ==
  /\ builds \in Nat
  /\ builds = 0 => DOMAIN rows = {}
  /\ builds > 0 => \A s \in Strata : \E band \in SUBSET Reviewed : DealtFrom(s, band)

\* Once the paths are recorded, no document of the data set will tell its decision.
Redacted ==
  /\ cache \in [Variants -> [Papers -> {"none", "banner", "blind"}]]
  /\ recorded => \A p \in DOMAIN rows : disk[p] # "absent" /\ Rewritten(p) = "blind" /\ redacted[p] = "blind"
  /\ \A p \in Papers : cache["redacted"][p] \in {"none", "blind"}

\* A verdict is of a document of its arm, and the run has none of what it is to do.
Verdicts ==
  /\ DOMAIN results = Files
  /\ \A f \in Files : \A r \in results[f] : r.id \in Papers /\ (f[3] = "redacted" => r.seen = "blind")
  /\ \A f \in Files : \A r, q \in results[f] : r.id = q.id => r = q
  /\ reviewing # NoRun =>
       /\ reviewing \in [file : Files, todo : SUBSET Papers, ids : [Papers -> {"none", "banner", "blind"}]]
       /\ reviewing.file[3] = "redacted" => \A p \in Papers : reviewing.ids[p] \in {"none", "blind"}
       /\ \A r \in results[reviewing.file] : r.id \notin reviewing.todo

CalibrationInv == TypeOK /\ RowsDealt /\ Redacted /\ Verdicts

LEMMA BandsAreApart ==
  ASSUME NEW s \in Strata, NEW t \in Strata, s # t
  PROVE  Within[s] \cap Within[t] = {}
<1> SUFFICES ASSUME NEW p \in Reviewed, p \in Within[s], p \in Within[t] PROVE FALSE
  BY DEF Within
<1> DEFINE n == Means[p].num d == Means[p].den
<1>1. n \in Int /\ d \in Nat
  BY MeansTyped DEF Fractions
<1>2. s.lo * d <= 2 * n /\ 2 * n < s.hi * d /\ t.lo * d <= 2 * n /\ 2 * n < t.hi * d
  BY DEF Within
<1>3. /\ s.lo \in Int /\ s.hi \in Int /\ t.lo \in Int /\ t.hi \in Int
      /\ s.hi <= t.lo \/ t.hi <= s.lo
  BY CalibrationAssumption
<1> HIDE DEF n, d
<1>4. s.hi * d <= t.lo * d \/ t.hi * d <= s.lo * d
  BY <1>1, <1>3, Monotone
<1>5. s.hi * d \in Int /\ t.hi * d \in Int /\ s.lo * d \in Int /\ t.lo * d \in Int
  BY <1>1, <1>3
<1> QED BY <1>1, <1>2, <1>4, <1>5

LEMMA RowsAreMatched == ASSUME TypeOK, RowsDealt PROVE Matched
<1> SUFFICES ASSUME NEW s \in Strata
             PROVE  LET of(split) == {p \in DOMAIN rows : rows[p].stratum = s /\ rows[p].split = split}
                        taken == of("train") \cup of("test")
                    IN  /\ Cardinality(of("train")) - Cardinality(of("test")) \in {0, 1}
                        /\ \A p \in of("train"), q \in of("test") : Better(p, q, s) <=> rows[p].rank <= rows[q].rank
                        /\ builds > 0 => \A q \in Band(s) \ taken :
                             Cardinality(taken) = 2 * s.per /\ \A p \in taken : Better(p, q, s)
  BY DEF Matched
<1> DEFINE of(split) == {p \in DOMAIN rows : rows[p].stratum = s /\ rows[p].split = split}
           taken == of("train") \cup of("test")
<1>1. CASE builds = 0
  <2>1. of("train") = {} /\ of("test") = {}
    BY <1>1 DEF RowsDealt
  <2> HIDE DEF of
  <2>2. Cardinality(of("train")) - Cardinality(of("test")) = 0
    <3>1. Cardinality({}) = 0
      BY FS_EmptySet
    <3> QED BY <2>1, <3>1
  <2> QED BY <1>1, <2>1, <2>2 DEF of
<1>2. CASE builds # 0
  <2>1. PICK band \in SUBSET Reviewed : DealtFrom(s, band)
    BY <1>2 DEF RowsDealt
  <2> DEFINE place(p) == Place(p, s, band)
  <2>2. /\ Cardinality(band) \in Nat /\ \A p \in band : place(p) \in 0..(Cardinality(band) - 1)
        /\ \A p, q \in band : Better(p, q, s) <=> place(p) < place(q)
        /\ \A n \in 0..(Cardinality(band) - 1) : \E p \in band : place(p) = n
    BY PlacesInOrder
  <2>3. s.per \in Nat
    BY CalibrationAssumption
  <2>4. \A p : p \in DOMAIN rows /\ rows[p].stratum = s <=> p \in band /\ place(p) < 2 * s.per
    <3>1. DOMAIN Dealt(s, band) = {p \in band : place(p) < 2 * s.per}
      BY DEF Dealt
    <3> QED BY <2>1, <3>1 DEF DealtFrom
  <2>5. \A p \in DOMAIN rows : rows[p].stratum = s =>
          rows[p].split = (IF place(p) % 2 = 0 THEN "train" ELSE "test") /\ rows[p].rank = place(p) \div 2
    <3> SUFFICES ASSUME NEW p \in DOMAIN rows, rows[p].stratum = s
                 PROVE  rows[p].split = (IF place(p) % 2 = 0 THEN "train" ELSE "test") /\ rows[p].rank = place(p) \div 2
      OBVIOUS
    <3>1. p \in {q \in band : place(q) < 2 * s.per}
      BY <2>4
    <3>2. Dealt(s, band)[p] = [stratum |-> s, split |-> IF place(p) % 2 = 0 THEN "train" ELSE "test", rank |-> place(p) \div 2]
      BY <3>1 DEF Dealt
    <3>3. rows[p] = Dealt(s, band)[p]
      BY <2>1 DEF DealtFrom
    <3> QED BY <3>2, <3>3
  <2>6. of("train") = From(band, s, "train") /\ of("test") = From(band, s, "test")
    BY <2>4, <2>5 DEF From
  <2> HIDE DEF place
  <2>7. taken = {p \in band : place(p) < 2 * s.per}
    BY <2>4, <2>5
  <2>8. Cardinality(of("train")) - Cardinality(of("test")) \in {0, 1}
    BY <2>6, SplitsAreEven
  <2>9. ASSUME NEW p \in of("train"), NEW q \in of("test")
        PROVE  Better(p, q, s) <=> rows[p].rank <= rows[q].rank
    <3>1. /\ p \in band /\ place(p) \in Nat /\ place(p) % 2 = 0 /\ rows[p].rank = place(p) \div 2
          /\ q \in band /\ place(q) \in Nat /\ place(q) % 2 = 1 /\ rows[q].rank = place(q) \div 2
      BY <2>2, <2>4, <2>5, HalfThePlaces
    <3>2. \A a, b \in Nat : a % 2 = 0 /\ b % 2 = 1 => (a < b <=> a \div 2 <= b \div 2)
      OBVIOUS
    <3> QED BY <2>2, <3>1, <3>2
  <2>10. ASSUME NEW q \in Band(s) \ taken
         PROVE  Cardinality(taken) = 2 * s.per /\ \A p \in taken : Better(p, q, s)
    <3>1. q \in band /\ place(q) \in 0..(Cardinality(band) - 1) /\ ~(place(q) < 2 * s.per)
      BY <2>1, <2>2, <2>7, <2>10 DEF DealtFrom
    <3>2. \A p \in taken : Better(p, q, s)
      BY <2>2, <2>3, <2>7, <3>1
    <3>3. Cardinality(taken) = 2 * s.per
      <4> DEFINE places == 0..(2 * s.per - 1)
      <4>1. 2 * s.per <= Cardinality(band) - 1
        BY <2>2, <2>3, <3>1
      <4>2. \A p \in taken : place(p) \in places
        BY <2>2, <2>3, <2>7
      <4>3. \A n \in places : \E p \in taken : place(p) = n
        BY <2>2, <2>3, <2>7, <4>1
      <4>4. \A p, r \in taken : place(p) = place(r) => p = r
        <5> SUFFICES ASSUME NEW p \in taken, NEW r \in taken, place(p) = place(r), p # r PROVE FALSE
          OBVIOUS
        <5>1. place(p) < place(r) \/ place(r) < place(p)
          BY <2>2, <2>7, BetterIsAnOrder
        <5>2. place(p) \in Int
          BY <2>2, <2>7
        <5> QED BY <5>1, <5>2
      <4> DEFINE f == [p \in taken |-> place(p)]
      <4> HIDE DEF taken, places
      <4>5. f \in Surjection(taken, places) /\ f \in Injection(taken, places)
        BY <4>2, <4>3, <4>4 DEF Surjection, Injection, IsInjective
      <4>6. IsFiniteSet(places) /\ Cardinality(places) = 2 * s.per
        <5>1. 0 \in Int /\ 2 * s.per - 1 \in Int /\ (0 > 2 * s.per - 1 => 2 * s.per = 0)
              /\ (2 * s.per - 1) - 0 + 1 = 2 * s.per
          BY <2>3
        <5>2. IsFiniteSet(0..(2 * s.per - 1))
              /\ Cardinality(0..(2 * s.per - 1)) = IF 0 > 2 * s.per - 1 THEN 0 ELSE (2 * s.per - 1) - 0 + 1
          BY <5>1, FS_Interval
        <5> QED BY <5>1, <5>2 DEF places
      <4>7. Cardinality(taken) = Cardinality(places)
        BY <4>5, <4>6, FS_Injection
      <4> QED BY <4>6, <4>7
    <3> QED BY <3>2, <3>3
  <2> QED BY <2>8, <2>9, <2>10
<1> QED BY <1>1, <1>2

LEMMA RowsAreFair == ASSUME CalibrationInv PROVE FairScores
<1>1. Matched
  BY RowsAreMatched DEF CalibrationInv
<1>2. ASSUME NEW f \in Files PROVE Cardinality(results[f]) = Cardinality(Ids(f))
  <2>1. Ids(f) \in SUBSET Papers
    BY DEF Ids, CalibrationInv, Verdicts
  <2>2. IsFiniteSet(Ids(f))
    BY <2>1, PapersAreFinite, FS_Subset
  <2> DEFINE id == [r \in results[f] |-> r.id]
  <2>3. id \in Injection(results[f], Ids(f)) /\ id \in Surjection(results[f], Ids(f))
    BY DEF Injection, IsInjective, Surjection, Ids, CalibrationInv, Verdicts
  <2> QED BY <2>2, <2>3, FS_Injection
<1> QED BY <1>1, <1>2 DEF FairScores, CalibrationInv, Verdicts

----------------------------------------------------------------------------
(* Calibration: the steps *)

LEMMA InitCalibration == CalibrationInit => CalibrationInv
<1> SUFFICES ASSUME CalibrationInit PROVE CalibrationInv
  OBVIOUS
<1>1. DOMAIN rows = {} /\ builds = 0 /\ recorded = FALSE
  BY DEF CalibrationInit
<1>2. TypeOK
  <2>1. disk \in [Papers -> {"absent", "whole", "torn"}]
    BY DEF CalibrationInit
  <2>2. redacted \in [Papers -> {"none", "banner", "blind"}] /\ broken \subseteq Variants /\ torn \subseteq Files
    BY DEF CalibrationInit
  <2> QED BY <1>1, <2>1, <2>2 DEF TypeOK
<1>3. RowsDealt
  BY <1>1 DEF RowsDealt
<1>4. Redacted
  <2>1. cache = [v \in Variants |-> [p \in Papers |-> "none"]]
    BY DEF CalibrationInit
  <2> QED BY <1>1, <2>1 DEF Redacted, Variants
<1>5. Verdicts
  <2>1. results = [f \in Files |-> {}] /\ reviewing = NoRun
    BY DEF CalibrationInit
  <2> QED BY <2>1 DEF Verdicts
<1> QED BY <1>2, <1>3, <1>4, <1>5 DEF CalibrationInv

\* What is dealt stands while the PDFs known to be too large only get more.
LEMMA RowsStay ==
  ASSUME RowsDealt, UNCHANGED <<rows, builds>>, \A p \in Reviewed : Oversize(p) => Oversize(p)'
  PROVE  RowsDealt'
<1>1. builds' \in Nat /\ (builds' = 0 => DOMAIN rows' = {})
  BY DEF RowsDealt
<1>2. ASSUME builds' > 0, NEW s \in Strata PROVE \E band \in SUBSET Reviewed : DealtFrom(s, band)'
  <2>1. PICK band \in SUBSET Reviewed : DealtFrom(s, band)
    BY <1>2 DEF RowsDealt
  <2>2. Band(s)' \subseteq Band(s)
    BY DEF Band, Within
  <2>3. DealtFrom(s, band)'
    BY <2>1, <2>2 DEF DealtFrom
  <2> QED BY <2>3
<1> QED BY <1>1, <1>2 DEF RowsDealt

LEMMA BuildDeals == ASSUME CalibrationInv, Build PROVE CalibrationInv'
<1> DEFINE dealt == {Dealt(s, Band(s)) : s \in Strata}
<1>1. /\ rows' = [p \in UNION {DOMAIN d : d \in dealt} |-> (CHOOSE d \in dealt : p \in DOMAIN d)[p]]
      /\ builds' = builds + 1 /\ recorded' = FALSE
      /\ UNCHANGED <<disk, redacted, cache, broken, reviewing, results, torn>>
  BY DEF Build, uploads, reviews
<1>2. \A s \in Strata : /\ Band(s) \in SUBSET Reviewed /\ Band(s) \subseteq Within[s]
                        /\ Band(s)' = Band(s)
  BY <1>1 DEF Band, Within, Oversize
<1>3. \A s \in Strata : DOMAIN Dealt(s, Band(s)) \subseteq Band(s)
  BY DEF Dealt
<1>4. \A s \in Strata : \A p \in DOMAIN Dealt(s, Band(s)) : Dealt(s, Band(s))[p].stratum = s
  BY DEF Dealt
<1>5. ASSUME NEW s \in Strata, NEW p \in DOMAIN Dealt(s, Band(s))
      PROVE  p \in DOMAIN rows' /\ rows'[p] = Dealt(s, Band(s))[p]
  <2>1. Dealt(s, Band(s)) \in dealt
    OBVIOUS
  <2>2. ASSUME NEW d \in dealt, p \in DOMAIN d PROVE d = Dealt(s, Band(s))
    <3>1. PICK t \in Strata : d = Dealt(t, Band(t))
      OBVIOUS
    <3>2. p \in Within[t] /\ p \in Within[s]
      BY <1>2, <1>3, <1>5, <2>2, <3>1
    <3> QED BY <3>1, <3>2, BandsAreApart
  <2> HIDE DEF dealt
  <2>3. (CHOOSE d \in dealt : p \in DOMAIN d) = Dealt(s, Band(s))
    BY <1>5, <2>1, <2>2
  <2> QED BY <1>1, <1>5, <2>1, <2>3
<1>6. \A p \in DOMAIN rows' : \E s \in Strata : p \in DOMAIN Dealt(s, Band(s))
  BY <1>1
<1>7. DOMAIN rows' \subseteq Papers
  BY <1>2, <1>3, <1>6 DEF Reviewed
<1>8. TypeOK'
  BY <1>1, <1>7 DEF CalibrationInv, TypeOK
<1>9. RowsDealt'
  <2>1. builds' \in Nat /\ builds' # 0
    BY <1>1 DEF CalibrationInv, RowsDealt
  <2>2. ASSUME NEW s \in Strata PROVE \E band \in SUBSET Reviewed : DealtFrom(s, band)'
    <3>1. PICK band : band = Band(s)
      OBVIOUS
    <3>2. {p \in DOMAIN rows' : rows'[p].stratum = s} = DOMAIN Dealt(s, band)
      <4>1. \A p \in DOMAIN Dealt(s, band) : p \in DOMAIN rows' /\ rows'[p].stratum = s
        BY <1>4, <1>5, <3>1
      <4>2. ASSUME NEW p \in DOMAIN rows', rows'[p].stratum = s PROVE p \in DOMAIN Dealt(s, band)
        <5>1. PICK t \in Strata : p \in DOMAIN Dealt(t, Band(t))
          BY <1>6, <4>2
        <5>2. rows'[p].stratum = t
          BY <1>4, <1>5, <5>1
        <5> QED BY <3>1, <4>2, <5>1, <5>2
      <4> QED BY <4>1, <4>2
    <3>3. \A p \in DOMAIN Dealt(s, band) : rows'[p] = Dealt(s, band)[p]
      BY <1>5, <3>1
    <3>4. band \in SUBSET Reviewed /\ Band(s)' \subseteq band
      BY <1>2, <3>1
    <3>5. DealtFrom(s, band)'
      BY <3>2, <3>3, <3>4 DEF DealtFrom
    <3> QED BY <3>4, <3>5
  <2> QED BY <2>1, <2>2 DEF RowsDealt
<1>10. Redacted'
  BY <1>1 DEF CalibrationInv, Redacted
<1>11. Verdicts'
  BY <1>1 DEF CalibrationInv, Verdicts
<1> QED BY <1>8, <1>9, <1>10, <1>11 DEF CalibrationInv

LEMMA FetchKeepsWhatIsThere == ASSUME CalibrationInv, Fetch PROVE CalibrationInv'
<1> DEFINE todo == {p \in DOMAIN rows : disk[p] = "absent" /\ Corpus[p].blob # "missing"}
<1> DEFINE Have(whole, half) ==
             [p \in Papers |-> IF p \in whole THEN "whole" ELSE IF p \in half THEN "torn" ELSE disk[p]]
<1>1. /\ todo # {} /\ UNCHANGED <<rows, recorded, redacted, cache, broken, reviewing, results, torn, builds>>
      /\ \E whole, half \in SUBSET todo : disk' = Have(whole, half)
  <2>1. todo # {} /\ UNCHANGED <<rows, recorded, redacted, cache, broken, reviewing, results, torn, builds>>
    BY DEF Fetch, uploads, reviews
  <2>2. \/ disk' = Have(todo, {})
        \/ \E got \in SUBSET todo, cut \in todo : disk' = Have(got, {cut})
    BY DEF Fetch
  <2> HIDE DEF todo, Have
  <2>3. {} \in SUBSET todo /\ todo \in SUBSET todo /\ \A cut \in todo : {cut} \in SUBSET todo
    OBVIOUS
  <2> QED BY <2>1, <2>2, <2>3
<1>2. PICK whole \in SUBSET todo, half \in SUBSET todo :
        disk' = [p \in Papers |-> IF p \in whole THEN "whole" ELSE IF p \in half THEN "torn" ELSE disk[p]]
  BY <1>1
<1>3. ~recorded
  BY <1>1 DEF CalibrationInv, Redacted
<1>4. TypeOK'
  <2>1. disk' \in [Papers -> {"absent", "whole", "torn"}]
    BY <1>2 DEF CalibrationInv, TypeOK
  <2> QED BY <1>1, <2>1 DEF CalibrationInv, TypeOK
<1>5. RowsDealt'
  <2>1. ASSUME NEW p \in Reviewed, Oversize(p) PROVE Oversize(p)'
    <3>1. p \in Papers /\ disk[p] = "whole" /\ p \notin half
      BY <2>1 DEF Reviewed, Oversize
    <3> QED BY <1>2, <2>1, <3>1 DEF Oversize
  <2> QED BY <1>1, <2>1, RowsStay DEF CalibrationInv
<1>6. Redacted'
  BY <1>1, <1>3 DEF CalibrationInv, Redacted
<1>7. Verdicts'
  BY <1>1 DEF CalibrationInv, Verdicts
<1> QED BY <1>4, <1>5, <1>6, <1>7 DEF CalibrationInv

LEMMA RedactTellsNothing == ASSUME CalibrationInv, Redact PROVE CalibrationInv'
<1> DEFINE here == {p \in DOMAIN rows : disk[p] # "absent"}
<1>1. UNCHANGED <<disk, rows, cache, broken, reviewing, results, torn, builds>>
  BY DEF Redact, uploads, reviews
<1>2. PICK done \in SUBSET here :
        /\ redacted' = [p \in Papers |-> IF p \in done THEN Rewritten(p) ELSE redacted[p]]
        /\ recorded' = (recorded \/ (done = DOMAIN rows /\ Leaked(redacted') = {}))
  BY DEF Redact
<1>3. \A p : Rewritten(p) \in {"banner", "blind"} /\ Rewritten(p)' = Rewritten(p)
  BY <1>1 DEF Rewritten, Source
<1>4. TypeOK'
  <2>1. redacted' \in [Papers -> {"none", "banner", "blind"}]
    BY <1>2, <1>3 DEF CalibrationInv, TypeOK
  <2>2. recorded' \in BOOLEAN
    BY <1>2 DEF CalibrationInv, TypeOK
  <2> QED BY <1>1, <2>1, <2>2 DEF CalibrationInv, TypeOK
<1>5. RowsDealt'
  BY <1>1, RowsStay DEF CalibrationInv, Oversize
<1>6. Redacted'
  <2>1. ASSUME recorded', NEW p \in DOMAIN rows
        PROVE  disk[p] # "absent" /\ Rewritten(p) = "blind" /\ redacted'[p] = "blind"
    <3>1. p \in Papers
      BY DEF CalibrationInv, TypeOK
    <3>2. redacted'[p] = IF p \in done THEN Rewritten(p) ELSE redacted[p]
      BY <1>2, <3>1
    <3>3. CASE recorded
      BY <3>2, <3>3 DEF CalibrationInv, Redacted
    <3>4. CASE done = DOMAIN rows /\ Leaked(redacted') = {}
      <4>1. redacted'[p] # "banner"
        BY <3>4 DEF Leaked
      <4> QED BY <1>2, <1>3, <3>2, <3>4, <4>1
    <3> QED BY <1>2, <2>1, <3>3, <3>4
  <2> QED BY <1>1, <1>3, <2>1 DEF CalibrationInv, Redacted
<1>7. Verdicts'
  BY <1>1 DEF CalibrationInv, Verdicts
<1> QED BY <1>4, <1>5, <1>6, <1>7 DEF CalibrationInv

LEMMA UploadSendsWhatIsRecorded ==
  ASSUME CalibrationInv, NEW v \in Variants, Upload(v) PROVE CalibrationInv'
<1>1. UNCHANGED <<disk, rows, recorded, redacted, reviewing, results, torn, builds>>
  BY DEF Upload, prepared, reviews
<1>2. PICK sent \in SUBSET {p \in DOMAIN rows : Document(p, v) # "none"} :
        cache' = [cache EXCEPT ![v] = [p \in Papers |-> IF p \in sent THEN Document(p, v) ELSE cache[v][p]]]
  BY DEF Upload
<1>3. \A p \in Papers : Document(p, v) \in {"none", "banner", "blind"}
  BY DEF Document, Source, CalibrationInv, TypeOK
<1>4. cache \in [Variants -> [Papers -> {"none", "banner", "blind"}]]
  BY DEF CalibrationInv, Redacted
<1> DEFINE new == [p \in Papers |-> IF p \in sent THEN Document(p, v) ELSE cache[v][p]]
<1>5. new \in [Papers -> {"none", "banner", "blind"}]
  BY <1>3, <1>4
<1>6. cache' \in [Variants -> [Papers -> {"none", "banner", "blind"}]]
  <2> HIDE DEF new
  <2>1. cache' = [cache EXCEPT ![v] = new]
    BY <1>2 DEF new
  <2> QED BY <1>4, <1>5, <2>1
<1>7. TypeOK'
  <2>1. broken' \subseteq Variants
    BY DEF Upload, CalibrationInv, TypeOK
  <2> QED BY <1>1, <2>1 DEF CalibrationInv, TypeOK
<1>8. RowsDealt'
  BY <1>1, RowsStay DEF CalibrationInv, Oversize
<1>9. Redacted'
  <2>1. ASSUME NEW p \in Papers PROVE cache'["redacted"][p] \in {"none", "blind"}
    <3>1. CASE v = "redacted"
      <4>1. cache'["redacted"][p] = IF p \in sent THEN Document(p, v) ELSE cache[v][p]
        BY <1>2, <1>4, <3>1
      <4>2. p \in sent => Document(p, v) = "blind"
        BY <1>2, <3>1 DEF Document, CalibrationInv, Redacted
      <4> QED BY <3>1, <4>1, <4>2 DEF CalibrationInv, Redacted
    <3>2. CASE v # "redacted"
      <4>1. cache'["redacted"] = cache["redacted"]
        BY <1>2, <1>4, <3>2 DEF Variants
      <4> QED BY <4>1 DEF CalibrationInv, Redacted
    <3> QED BY <3>1, <3>2
  <2> QED BY <1>1, <1>6, <2>1 DEF CalibrationInv, Redacted, Rewritten
<1>10. Verdicts'
  BY <1>1 DEF CalibrationInv, Verdicts
<1> QED BY <1>7, <1>8, <1>9, <1>10 DEF CalibrationInv

\* The steps of a run of the verifier change nothing that it reads.
LEMMA ReviewsChangeNoRows ==
  ASSUME CalibrationInv, UNCHANGED <<prepared, cache, builds>>, broken' \subseteq Variants, torn' \subseteq Files, Verdicts'
  PROVE  CalibrationInv'
<1>1. TypeOK'
  BY DEF CalibrationInv, TypeOK, prepared
<1>2. RowsDealt'
  BY RowsStay DEF CalibrationInv, Oversize, prepared
<1>3. Redacted'
  BY DEF CalibrationInv, Redacted, Rewritten, prepared
<1> QED BY <1>1, <1>2, <1>3 DEF CalibrationInv

Runs == [file : Files, todo : SUBSET Papers, ids : [Papers -> {"none", "banner", "blind"}]]

LEMMA StartRunTakesTheRest ==
  ASSUME CalibrationInv, NEW f \in Files, StartRun(f) PROVE CalibrationInv'
<1> DEFINE todo == {p \in DOMAIN rows : rows[p].split = f[1]} \ Ids(f)
<1>1. /\ reviewing' = [file |-> f, todo |-> todo, ids |-> cache[f[3]]]
      /\ UNCHANGED <<prepared, cache, broken, results, torn, builds>>
  BY DEF StartRun, uploads
<1>2. f[3] \in Variants
  BY DEF Files
<1>3. todo \in SUBSET Papers /\ cache[f[3]] \in [Papers -> {"none", "banner", "blind"}]
  BY <1>2 DEF CalibrationInv, TypeOK, Redacted
<1>4. \A r \in results[f] : r.id \notin todo
  BY DEF Ids
<1>5. Verdicts'
  <2>1. reviewing' \in [file : Files, todo : SUBSET Papers, ids : [Papers -> {"none", "banner", "blind"}]]
    <3> HIDE DEF todo
    <3> QED BY <1>1, <1>3
  <2>2. f[3] = "redacted" => \A p \in Papers : reviewing'.ids[p] \in {"none", "blind"}
    BY <1>1 DEF CalibrationInv, Redacted
  <2> HIDE DEF todo
  <2>3. reviewing'.file = f /\ reviewing'.todo = todo
    BY <1>1
  <2> QED BY <1>1, <1>4, <2>1, <2>2, <2>3 DEF CalibrationInv, Verdicts
<1> QED BY <1>1, <1>5, ReviewsChangeNoRows DEF CalibrationInv, TypeOK

LEMMA RecordTakesOne ==
  ASSUME CalibrationInv, NEW p \in Papers, Record(p) PROVE CalibrationInv'
<1> DEFINE f == reviewing.file
           rest == reviewing.todo \ {p}
<1>1. /\ reviewing # NoRun /\ p \in reviewing.todo /\ reviewing' = [reviewing EXCEPT !.todo = rest]
      /\ UNCHANGED <<prepared, cache, broken, torn, builds>>
  BY DEF Record, uploads
<1>2. /\ reviewing \in Runs /\ \A r \in results[f] : r.id \notin reviewing.todo
      /\ f[3] = "redacted" => \A q \in Papers : reviewing.ids[q] \in {"none", "blind"}
  BY <1>1 DEF CalibrationInv, Verdicts, Runs
<1>3. f \in Files /\ DOMAIN results = Files
  BY <1>2 DEF Runs, CalibrationInv, Verdicts
<1>4. reviewing' \in Runs /\ reviewing'.file = f /\ reviewing'.todo = rest /\ reviewing'.ids = reviewing.ids
  <2>1. rest \in SUBSET Papers
    BY <1>2 DEF Runs
  <2> HIDE DEF rest
  <2> QED BY <1>1, <1>2, <2>1 DEF Runs
<1> DEFINE Of(new) ==
             /\ DOMAIN results' = Files /\ results'[f] = results[f] \cup new
             /\ \A g \in Files : g # f => results'[g] = results[g]
             /\ \A r \in new : r.id = p /\ r.seen = reviewing.ids[p] /\ r.seen # "none"
             /\ \A r, q \in new : r = q
<1>5. \E new : Of(new)
  <2>1. CASE UNCHANGED results
    <3>1. Of({})
      BY <1>3, <2>1
    <3> HIDE DEF Of
    <3> QED BY <3>1
  <2>2. CASE ~UNCHANGED results
    <3> DEFINE verdict(reply) == [id |-> p, seen |-> reviewing.ids[p], score |-> Score(reply), mismatch |-> Mismatch(reply)]
    <3>1. PICK reply \in Replies :
            reviewing.ids[p] # "none" /\ results' = [results EXCEPT ![f] = results[f] \cup {verdict(reply)}]
      BY <2>2 DEF Record
    <3>2. verdict(reply).id = p /\ verdict(reply).seen = reviewing.ids[p]
      OBVIOUS
    <3> HIDE DEF verdict
    <3>3. Of({verdict(reply)})
      BY <1>3, <3>1, <3>2
    <3> HIDE DEF Of
    <3> QED BY <3>3
  <2> QED BY <2>1, <2>2
<1>6. PICK new : Of(new)
  BY <1>5
<1> HIDE DEF f, rest
<1>7. \A g \in Files : \A r \in results'[g] : r.id \in Papers /\ (g[3] = "redacted" => r.seen = "blind")
  <2>1. \A r \in new : r.id \in Papers /\ (f[3] = "redacted" => r.seen = "blind")
    BY <1>2, <1>6
  <2> QED BY <1>3, <1>6, <2>1 DEF CalibrationInv, Verdicts
<1>8. \A g \in Files : \A r, q \in results'[g] : r.id = q.id => r = q
  <2>1. \A r \in results[f], q \in new : r.id # q.id
    BY <1>1, <1>2, <1>6
  <2> QED BY <1>3, <1>6, <2>1 DEF CalibrationInv, Verdicts
<1>9. \A r \in results'[f] : r.id \notin rest
  BY <1>2, <1>6 DEF rest
<1>10. Verdicts'
  BY <1>2, <1>4, <1>6, <1>7, <1>8, <1>9 DEF Verdicts, Runs
<1> QED BY <1>1, <1>10, ReviewsChangeNoRows DEF CalibrationInv, TypeOK

LEMMA NoRunIsLeft ==
  ASSUME CalibrationInv, EndRun \/ KillRun PROVE CalibrationInv'
<1>1. reviewing' = NoRun /\ reviewing # NoRun /\ UNCHANGED <<prepared, cache, broken, results, builds>>
  BY DEF EndRun, KillRun, uploads
<1>2. reviewing.file \in Files
  BY <1>1 DEF CalibrationInv, Verdicts
<1>3. torn' \subseteq Files
  BY <1>2 DEF EndRun, KillRun, CalibrationInv, TypeOK
<1>4. Verdicts'
  BY <1>1 DEF CalibrationInv, Verdicts
<1> QED BY <1>1, <1>3, <1>4, ReviewsChangeNoRows DEF CalibrationInv, TypeOK

LEMMA NextCalibration == CalibrationInv /\ [CalibrationNext]_calibrationVars => CalibrationInv'
<1> SUFFICES ASSUME CalibrationInv, [CalibrationNext]_calibrationVars PROVE CalibrationInv'
  OBVIOUS
<1>1. CASE Build
  BY <1>1, BuildDeals
<1>2. CASE Fetch
  BY <1>2, FetchKeepsWhatIsThere
<1>3. CASE Redact
  BY <1>3, RedactTellsNothing
<1>4. CASE \E v \in Variants : Upload(v)
  BY <1>4, UploadSendsWhatIsRecorded
<1>5. CASE \E f \in Files : StartRun(f)
  BY <1>5, StartRunTakesTheRest
<1>6. CASE \E p \in Papers : Record(p)
  BY <1>6, RecordTakesOne
<1>7. CASE EndRun \/ KillRun
  BY <1>7, NoRunIsLeft
<1>8. CASE UNCHANGED calibrationVars
  <2>1. UNCHANGED <<prepared, cache, broken, reviewing, results, torn, builds>>
    BY <1>8 DEF calibrationVars, prepared
  <2>2. Verdicts'
    BY <2>1 DEF CalibrationInv, Verdicts
  <2> QED BY <2>1, <2>2, ReviewsChangeNoRows DEF CalibrationInv, TypeOK
<1> QED BY <1>1, <1>2, <1>3, <1>4, <1>5, <1>6, <1>7, <1>8 DEF CalibrationNext

\* README.md "Train and test" and "The venue-banner leak": the splits of a stratum are
\* matched rank by rank whatever the operator runs again, no better candidate is left out,
\* and no verdict of the redacted arm was given on a paper that tells its decision.
THEOREM FairScoresHolds == CalibrationSpec => []FairScores
<1>1. CalibrationSpec => []CalibrationInv
  BY InitCalibration, NextCalibration, PTL DEF CalibrationSpec
<1>2. CalibrationInv => FairScores
  BY RowsAreFair
<1> QED BY <1>1, <1>2, PTL
=============================================================================
