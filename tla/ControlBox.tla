------------------------------ MODULE ControlBox ------------------------------
(***************************************************************************)
(* The controller box (make-control-box.sh on the operator's laptop, then  *)
(* configure-control.sh on the box): found or made one resource after      *)
(* another by name, configured over ssh, with AgentRQ's state on a volume  *)
(* that outlives the box.  A script may be cut off after any call and run  *)
(* again; boxes are rebooted, stopped and replaced.  AWS, systemd, docker  *)
(* and apt are external: a call to them has been made or has not, and what *)
(* one leaves half done is not modelled.  A new volume is ready before the *)
(* next run looks.                                                         *)
(***************************************************************************)
EXTENDS Naturals, FiniteSets

CONSTANTS
  MaxBoxes,            \* bound: instances launched
  MaxCuts, MaxStops,   \* bounds: scripts cut off; boxes stopped, rebooted, terminated
  MaxPuts              \* bound: versions of the environment put into the parameter store

Boxes == 1..MaxBoxes
Nil == 0

VARIABLES
  stage,      \* what the script does next
  parameter,  \* the version of the environment in the parameter store
  key,        \* of the key pair: whether EC2 has it, and the private key file
  present,    \* groups, role, profile, address and alias that exist
  box,        \* the state of each instance
  target,     \* the instance the script works on
  leads,      \* the instance the address leads to
  known,      \* whose host key the laptop has for the address
  volume,     \* [to, data, env]: where it is attached and what is on it
  on,         \* what is installed on the box
  mounted,    \* whether the volume is mounted there
  service,    \* of AgentRQ: off, waiting (to be restarted), up
  settings,   \* the environment AgentRQ was started with
  astray,     \* whether AgentRQ wrote to the root disk
  cuts, stops

laptop == <<stage, parameter, key, present, target, known, cuts>>
onbox == <<on, mounted, service, settings, astray>>
controlVars == <<laptop, box, leads, volume, onbox, stops>>

NoEnv == [version |-> Nil, local |-> FALSE]

ControlInit ==
  /\ stage = "idle" /\ parameter = Nil /\ key = [ec2 |-> FALSE, file |-> "none"] /\ present = {}
  /\ box = [b \in Boxes |-> "none"] /\ target = Nil /\ leads = Nil /\ known = Nil
  /\ volume = [to |-> Nil, data |-> "none", env |-> {}]
  /\ on = {} /\ mounted = FALSE /\ service = "off" /\ settings = NoEnv /\ astray = FALSE
  /\ cuts = 0 /\ stops = 0

----------------------------------------------------------------------------
(* EC2 and the operator *)

Live == {"pending", "running", "stopping", "stopped"}
Current == {b \in Boxes : box[b] \in Live}

\* configure-control.sh is over when its box goes down.
OnBox == {"packages", "disk", "mount", "truncate", "fetch", "rewrite", "unit", "health", "caddy", "install caddy",
          "caddyfile", "certificate"}

Down(b, state) ==
  /\ stops < MaxStops /\ stops' = stops + 1
  /\ box' = [box EXCEPT ![b] = state]
  /\ stage' = IF stage \in OnBox THEN "idle" ELSE stage
  /\ mounted' = FALSE /\ service' = "off"
  /\ UNCHANGED <<parameter, key, present, target, known, cuts, leads, volume, on, settings, astray>>

Stop == \E b \in Boxes : box[b] = "running" /\ Down(b, "stopped")
Terminate == \E b \in Boxes : box[b] \in {"running", "stopped"} /\ Down(b, "shutting-down")
Reboot == \E b \in Boxes : box[b] = "running" /\ Down(b, "pending")

\* systemd mounts what fstab names, or goes on without (nofail).
Boot ==
  \E b \in Boxes :
    /\ box[b] = "pending" /\ box' = [box EXCEPT ![b] = "running"]
    /\ mounted' \in {FALSE, "fstab" \in on /\ volume.to = b /\ volume.data \in {"empty", "state"}}
    /\ service' = IF "unit" \in on THEN "waiting" ELSE "off"
    /\ UNCHANGED <<laptop, leads, volume, on, settings, astray, stops>>

Gone ==
  \E b \in Boxes :
    /\ box[b] = "shutting-down" /\ box' = [box EXCEPT ![b] = "terminated"]
    /\ leads' = IF leads = b THEN Nil ELSE leads
    /\ volume' = IF volume.to = b THEN [volume EXCEPT !.to = Nil] ELSE volume
    /\ UNCHANGED <<laptop, onbox, stops>>

----------------------------------------------------------------------------
(* agentrq.service *)

\* The environment file is on the volume, and docker wants it.
HasEnv == mounted /\ volume.env # {}

Restartable == service = "waiting" /\ \E b \in Boxes : box[b] = "running"

\* Restart=always: every five seconds.
ServiceStarts ==
  /\ Restartable /\ HasEnv
  /\ service' = "up"
  /\ settings' = IF volume.env = {} THEN NoEnv ELSE CHOOSE e \in volume.env : TRUE
  /\ volume' = IF mounted THEN [volume EXCEPT !.data = "state"] ELSE volume
  /\ astray' = (astray \/ ~mounted)
  /\ UNCHANGED <<laptop, box, leads, on, mounted, stops>>

Dies ==
  /\ service = "up" /\ service' = "waiting" /\ stops < MaxStops /\ stops' = stops + 1
  /\ UNCHANGED <<laptop, box, leads, volume, on, mounted, settings, astray>>

----------------------------------------------------------------------------
(* make-control-box.sh *)

PutSecrets ==
  /\ parameter < MaxPuts /\ parameter' = parameter + 1
  /\ UNCHANGED <<stage, key, present, target, known, cuts, box, leads, volume, onbox, stops>>

BeginScript ==
  /\ stage = "idle" /\ stage' = "key"
  /\ UNCHANGED <<parameter, key, present, target, known, cuts, box, leads, volume, onbox, stops>>

Finish ==
  /\ stage = "done" /\ stage' = "idle"
  /\ UNCHANGED <<parameter, key, present, target, known, cuts, box, leads, volume, onbox, stops>>

Cut ==
  /\ stage \notin {"idle", "done"} /\ cuts < MaxCuts /\ cuts' = cuts + 1 /\ stage' = "idle"
  /\ UNCHANGED <<parameter, key, present, target, known, box, leads, volume, onbox, stops>>

\* The shell makes the file, EC2 the key, the key is written into the file, and the file
\* is made private, which only the run that made it does.
KeyPair ==
  /\ \/ /\ stage = "key" /\ key.ec2
        /\ stage' = (IF key.file = "none" THEN "idle" ELSE "run group") /\ UNCHANGED key
     \/ /\ stage = "key" /\ ~key.ec2
        /\ IF key.file # "none" THEN stage' = "idle" /\ UNCHANGED key
           ELSE stage' = "create key" /\ key' = [key EXCEPT !.file = "empty"]
     \/ stage = "create key" /\ stage' = "save key" /\ key' = [key EXCEPT !.ec2 = TRUE]
     \/ stage = "save key" /\ stage' = "protect key" /\ key' = [key EXCEPT !.file = "saved"]
     \/ stage = "protect key" /\ stage' = "run group" /\ key' = [key EXCEPT !.file = "private"]
  /\ UNCHANGED <<parameter, present, target, known, cuts, box, leads, volume, onbox, stops>>

\* What a step of this name makes unless it is there, and the step after it.
Make(thing, next) ==
  /\ stage = thing /\ stage' = next /\ present' = present \cup {thing}
  /\ UNCHANGED <<parameter, key, target, known, cuts, box, leads, volume, onbox, stops>>

Groups ==
  Make("run group", "control group") \/ Make("control group", "rules") \/ Make("rules", "role")

Role == Make("role", "policy") \/ Make("policy", "profile")

Profile ==
  \/ /\ stage = "profile"
     /\ stage' = IF "profile" \in present THEN "instance" ELSE "role in profile"
     /\ present' = present \cup {"profile"}
     /\ UNCHANGED <<parameter, key, target, known, cuts, box, leads, volume, onbox, stops>>
  \/ Make("role in profile", "instance")

\* EC2 may refuse a profile without a role.
Instance ==
  /\ stage = "instance"
  /\ \/ /\ Current # {} /\ stage' = "wait"
        /\ \E b \in Current :
             /\ target' = b
             /\ box' = [box EXCEPT ![b] = IF @ = "stopped" THEN "pending" ELSE @]
        /\ UNCHANGED onbox
     \/ /\ Current = {} /\ stage' = "wait"
        /\ \E b \in Boxes :
             /\ box[b] = "none" /\ \A c \in Boxes : box[c] = "none" => b <= c
             /\ target' = b /\ box' = [box EXCEPT ![b] = "pending"]
        /\ on' = {} /\ mounted' = FALSE /\ service' = "off" /\ settings' = NoEnv /\ UNCHANGED astray
     \/ /\ Current = {} /\ "role in profile" \notin present
        /\ stage' = "idle" /\ UNCHANGED <<target, box, onbox>>
  /\ UNCHANGED <<parameter, key, present, known, cuts, leads, volume, stops>>

WaitForBox ==
  /\ stage = "wait" /\ box[target] # "pending"
  /\ stage' = IF box[target] = "running" THEN "volume" ELSE "idle"
  /\ UNCHANGED <<parameter, key, present, target, known, cuts, box, leads, volume, onbox, stops>>

Volume ==
  /\ stage = "volume" /\ stage' = "attach"
  /\ volume' = IF volume.data = "none" THEN [volume EXCEPT !.data = "raw"] ELSE volume
  /\ UNCHANGED <<parameter, key, present, target, known, cuts, box, leads, onbox, stops>>

Attach ==
  /\ stage = "attach"
  /\ IF volume.to \in {Nil, target} /\ box[target] \in Live
     THEN stage' = "address" /\ volume' = [volume EXCEPT !.to = target]
     ELSE stage' = "idle" /\ UNCHANGED volume
  /\ UNCHANGED <<parameter, key, present, target, known, cuts, box, leads, onbox, stops>>

Address == Make("address", "associate")

Associate ==
  /\ stage = "associate"
  /\ IF box[target] \in {"running", "stopped"} THEN stage' = "alias" /\ leads' = target
     ELSE stage' = "idle" /\ UNCHANGED leads
  /\ UNCHANGED <<parameter, key, present, target, known, cuts, box, volume, onbox, stops>>

Alias == Make("alias", "ssh")

\* Fault: the host key of the box before is kept.
Fault_Cached == known

\* The host key cached for the address is removed first.
Cached == Nil

\* ssh takes no key from a file that others may read.
Ssh ==
  /\ stage = "ssh"
  /\ IF leads # Nil /\ box[leads] = "running" /\ key.file = "private" /\ Cached \in {Nil, leads}
     THEN stage' = "packages" /\ known' = leads ELSE stage' = "idle" /\ known' = Cached
  /\ UNCHANGED <<parameter, key, present, target, cuts, box, leads, volume, onbox, stops>>

----------------------------------------------------------------------------
(* configure-control.sh *)

Packages ==
  /\ stage = "packages" /\ stage' = "disk" /\ on' = on \cup {"packages"}
  /\ UNCHANGED <<parameter, key, present, target, known, cuts, box, leads, volume, mounted, service, settings, astray,
                 stops>>

\* Fault: the volume is formatted whatever is on it.
Fault_Unformatted == TRUE

\* blkid finds no file system.
Unformatted == volume.data = "raw"

Disk ==
  /\ stage = "disk"
  /\ IF volume.to = target
     THEN /\ stage' = "mount"
          /\ volume' = IF Unformatted THEN [volume EXCEPT !.data = "empty", !.env = {}] ELSE volume
     ELSE stage' = "idle" /\ UNCHANGED volume
  /\ UNCHANGED <<parameter, key, present, target, known, cuts, box, leads, onbox, stops>>

Mount ==
  /\ stage = "mount" /\ stage' = "truncate" /\ on' = on \cup {"fstab"} /\ mounted' = TRUE
  /\ UNCHANGED <<parameter, key, present, target, known, cuts, box, leads, volume, service, settings, astray, stops>>

WriteEnv(env, next) ==
  /\ stage' = next /\ volume' = [volume EXCEPT !.env = {env}]
  /\ UNCHANGED <<parameter, key, present, target, known, cuts, box, leads, onbox, stops>>

\* The shell empties the file before the parameter is read into it.
Environment ==
  \/ stage = "truncate" /\ WriteEnv(NoEnv, "fetch")
  \/ /\ stage = "fetch"
     /\ IF parameter # Nil /\ {"role", "policy", "role in profile"} \subseteq present
        THEN WriteEnv([version |-> parameter, local |-> FALSE], "rewrite") ELSE WriteEnv(NoEnv, "idle")
  \/ stage = "rewrite" /\ \E e \in volume.env : WriteEnv([e EXCEPT !.local = TRUE], "unit")

Restarted == "waiting"

Unit ==
  /\ stage = "unit" /\ stage' = "health" /\ on' = on \cup {"unit"} /\ service' = Restarted
  /\ UNCHANGED <<parameter, key, present, target, known, cuts, box, leads, volume, mounted, settings, astray, stops>>

Health ==
  /\ stage = "health" /\ service = "up" /\ stage' = "caddy"
  /\ UNCHANGED <<parameter, key, present, target, known, cuts, box, leads, volume, onbox, stops>>

\* gpg writes no keyring over one that is there, and cannot ask: the script then ends.
Keyring ==
  /\ stage = "caddy"
  /\ \/ "caddy" \in on /\ stage' = "caddyfile" /\ UNCHANGED on
     \/ "caddy" \notin on /\ "keyring" \in on /\ stage' = "idle" /\ UNCHANGED on
     \/ {"caddy", "keyring"} \cap on = {} /\ stage' = "install caddy" /\ on' = on \cup {"keyring"}
  /\ UNCHANGED <<parameter, key, present, target, known, cuts, box, leads, volume, mounted, service, settings, astray,
                 stops>>

InstallCaddy ==
  /\ stage = "install caddy" /\ stage' = "caddyfile" /\ on' = on \cup {"caddy"}
  /\ UNCHANGED <<parameter, key, present, target, known, cuts, box, leads, volume, mounted, service, settings, astray,
                 stops>>

Caddy ==
  /\ stage = "caddyfile" /\ stage' = "certificate"
  /\ UNCHANGED <<parameter, key, present, target, known, cuts, box, leads, volume, onbox, stops>>

\* HTTP-01: the name leads to the box, and port 80 is open.
Certificate ==
  /\ stage = "certificate"
  /\ IF leads = target /\ {"rules", "control group"} \subseteq present
     THEN stage' = "done" /\ on' = on \cup {"certificate"}
     ELSE stage' = "idle" /\ UNCHANGED on
  /\ UNCHANGED <<parameter, key, present, target, known, cuts, box, leads, volume, mounted, service, settings, astray,
                 stops>>

Script ==
  \/ Finish \/ KeyPair \/ Groups \/ Role \/ Profile \/ Instance \/ WaitForBox \/ Volume \/ Attach \/ Address \/ Associate
  \/ Alias \/ Ssh \/ Packages \/ Disk \/ Mount \/ Environment \/ Unit \/ Health
  \/ Keyring \/ InstallCaddy \/ Caddy \/ Certificate

ControlNext ==
  \/ Stop \/ Terminate \/ Reboot \/ Boot \/ Gone \/ ServiceStarts \/ Dies
  \/ PutSecrets \/ BeginScript \/ Cut \/ Script

\* A script goes on, EC2 and systemd do their work, and the operator runs the script
\* again and uploads the environment that it asks for.
Fairness ==
  /\ WF_controlVars(Script) /\ WF_controlVars(BeginScript) /\ WF_controlVars(PutSecrets)
  /\ WF_controlVars(Boot) /\ WF_controlVars(Gone) /\ WF_controlVars(ServiceStarts)

ControlSpec == ControlInit /\ [][ControlNext]_controlVars /\ Fairness

----------------------------------------------------------------------------
(* Properties *)

\* configure-control.sh: AgentRQ only writes to the volume that outlives the box.  A
\* boot goes on without the volume, and docker then finds no environment file.
StateIsOnTheVolume == ~astray

\* configure-control.sh: "this volume is meant to outlive the instance"; whatever is
\* cut off, rerun or replaced, state that is on it stays.
StateIsKept == [][volume.data = "state" => volume'.data = "state"]_controlVars

\* configure-control.sh: AgentRQ's state is written to the volume, and stays there.
StateIsSafe == []StateIsOnTheVolume /\ StateIsKept

\* A run that ends well leaves AgentRQ on its volume, with the environment in the file,
\* rewritten for the address that leads to the box.
ReadyIsReady ==
  [][stage = "certificate" /\ stage' = "done" =>
       /\ mounted /\ service # "off" /\ leads = target
       /\ volume.env = {[version |-> settings.version, local |-> TRUE]} /\ settings.version # Nil]_controlVars

\* What a run that was cut off leaves for good: a profile without its role; a key without
\* its file, or with a file that ssh does not take; and, as long as the box is there, the
\* keyring of Caddy's packages without Caddy.
Wedged ==
  \/ "profile" \in present /\ "role in profile" \notin present /\ stage # "role in profile"
  \/ /\ key.file # "none" /\ ~(key.ec2 /\ key.file = "private")
     /\ stage \notin {"create key", "save key", "protect key"}
  \/ "keyring" \in on /\ "caddy" \notin on /\ stage # "install caddy"

\* However often it was cut off and the box replaced, the script gets the controller
\* ready again when it is run again, unless it is wedged or EC2 has no box left.
GetsReady == []<>(stage = "done" \/ Wedged \/ (Current = {} /\ \A b \in Boxes : box[b] # "none"))

\* make-control-box.sh is "Idempotent" (devops/ec2-control/operations.md:10): a run gets
\* past the stage that makes the profile with everything that stage makes.
Idempotent == stage \in {"instance", "wait", "volume"} \cup OnBox => "role in profile" \in present
=============================================================================
