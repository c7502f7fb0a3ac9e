----------------------------- MODULE Provisioning -----------------------------
(***************************************************************************)
(* The scripts that make and remove run boxes                              *)
(* (provision-workspace-aws-resources.sh, teardown-workspace-aws-          *)
(* resources.sh, manage-elastic-ips.sh): each looks up by tag what a slug  *)
(* has in AWS and creates, reuses or removes it, one call after another,   *)
(* and any of them may be cut off after any call and run again.  EC2 is    *)
(* external.  Scripts of different slugs may run at the same time, and one   *)
(* at a time of each.                                                      *)
(***************************************************************************)
EXTENDS Naturals, FiniteSets

CONSTANTS
  Slugs,
  MaxBoxes, MaxOwn,   \* bounds: instances launched, addresses allocated
  MaxRuns             \* bound: scripts begun

Boxes == 1..MaxBoxes
Own == 1..MaxOwn
Shared == 0            \* the address that ELASTIC_IP_ADDRESS names
Addresses == {Shared} \cup Own
None == MaxBoxes + MaxOwn + 1
Free == "free"
Released == "released"

ASSUME ProvisioningAssumption == MaxBoxes \in Nat /\ MaxOwn \in Nat /\ Slugs \cap {Free, Released} = {}

VARIABLES
  address,   \* ELASTIC_IP_ADDRESS and USE_ELASTIC_IP of each slug: own, shared, none
  box,       \* of each instance: its slug and state
  tagged,    \* whose each address is: a slug, shared, free before and released after
  at,        \* the instance each address leads to
  alias,     \* where the ssh alias of each slug leads: an address or, without one, an instance
  script,    \* of each slug: [do, step]
  found,     \* the instance its script works on
  using,     \* the address its script works on
  runs,
  overlapped \* whether two scripts were at work on the shared address at once

provisioningVars == <<address, box, tagged, at, alias, script, found, using, runs, overlapped>>

NoBox == [slug |-> Free, state |-> "none"]
Idle == [do |-> "nothing", step |-> "idle"]
NoAlias == [kind |-> "none", to |-> None]

ProvisioningInit ==
  /\ address \in [Slugs -> {"own", "shared", "none"}]
  /\ box = [b \in Boxes |-> NoBox]
  /\ tagged = [a \in Addresses |-> IF a = Shared THEN "shared" ELSE Free]
  /\ at = [a \in Addresses |-> None] /\ alias = [s \in Slugs |-> NoAlias]
  /\ script = [s \in Slugs |-> Idle] /\ found = [s \in Slugs |-> None]
  /\ using = [s \in Slugs |-> None] /\ runs = 0 /\ overlapped = FALSE

----------------------------------------------------------------------------
(* EC2 *)

\* An instance that is gone has left its address; an operator may stop one.
Become(b, state) ==
  /\ box' = [box EXCEPT ![b].state = state]
  /\ at' = [a \in Addresses |-> IF state = "terminated" /\ at[a] = b THEN None ELSE at[a]]
  /\ UNCHANGED <<address, tagged, alias, script, found, using, runs, overlapped>>

Ec2 ==
  \E b \in Boxes :
    \/ box[b].state = "pending" /\ Become(b, "running")
    \/ box[b].state = "running" /\ Become(b, "stopping")
    \/ box[b].state = "stopping" /\ Become(b, "stopped")
    \/ box[b].state = "shutting-down" /\ Become(b, "terminated")

\* The states in which the scripts look for a slug's instance.
Live == {"pending", "running", "stopping", "stopped"}

BoxesOf(s) == {b \in Boxes : box[b].slug = s /\ box[b].state \in Live}
AddressesOf(s) == {a \in Own : tagged[a] = s}

----------------------------------------------------------------------------

Step(o, step) == script' = [script EXCEPT ![o].step = step]

At(o, do, step) == script[o].do = do /\ script[o].step = step

\* die, an error of a call, ^C: the script is over.
End(o) ==
  /\ script' = [script EXCEPT ![o] = Idle]
  /\ found' = [found EXCEPT ![o] = None] /\ using' = [using EXCEPT ![o] = None]

CutOff(o) ==
  /\ script[o].step \notin {"idle", "done"} /\ End(o)
  /\ UNCHANGED <<address, box, tagged, at, alias, runs, overlapped>>

Forget(o) ==
  /\ script[o].step = "done" /\ End(o)
  /\ UNCHANGED <<address, box, tagged, at, alias, runs, overlapped>>

Shares(s) == address[s] = "shared"

BeginScript(o, do) ==
  /\ script[o].step = "idle" /\ runs < MaxRuns /\ runs' = runs + 1
  /\ script' = [script EXCEPT ![o] = [do |-> do, step |-> IF do = "provision" THEN "check" ELSE "find"]]
  /\ overlapped' = (overlapped \/ (Shares(o) /\ \E p \in Slugs \ {o} : Shares(p) /\ script[p].step # "idle"))
  /\ UNCHANGED <<address, box, tagged, at, alias, found, using>>

----------------------------------------------------------------------------
(* provision-workspace-aws-resources.sh *)

\* Fault: whatever has the address loses it.
Fault_Available(o) == TRUE

\* The override leads nowhere, or to an instance of this slug.
Available(o) == at[Shared] = None \/ box[at[Shared]].slug = o

Check(o) ==
  /\ At(o, "provision", "check")
  /\ IF address[o] = "shared"
     THEN /\ IF Available(o) THEN Step(o, "find") /\ UNCHANGED found ELSE End(o)
          /\ using' = [using EXCEPT ![o] = IF Available(o) THEN Shared ELSE None]
     ELSE Step(o, "find") /\ UNCHANGED <<found, using>>
  /\ UNCHANGED <<address, box, tagged, at, alias, runs, overlapped>>

Find(o) ==
  /\ At(o, "provision", "find")
  /\ IF BoxesOf(o) = {} THEN Step(o, "launch") /\ UNCHANGED found
     ELSE Step(o, "reuse") /\ \E b \in BoxesOf(o) : found' = [found EXCEPT ![o] = b]
  /\ UNCHANGED <<address, box, tagged, at, alias, using, runs, overlapped>>

\* An instance is born with its tags.
Launch(o) ==
  /\ At(o, "provision", "launch") /\ Step(o, "wait")
  /\ \E b \in Boxes :
       /\ box[b] = NoBox /\ \A c \in Boxes : box[c] = NoBox => b <= c
       /\ box' = [box EXCEPT ![b] = [slug |-> o, state |-> "pending"]]
       /\ found' = [found EXCEPT ![o] = b]
  /\ UNCHANGED <<address, tagged, at, alias, using, runs, overlapped>>

Reuse(o) ==
  /\ At(o, "provision", "reuse") /\ Step(o, "wait")
  /\ box' = [box EXCEPT ![found[o]].state = IF @ = "stopped" THEN "pending" ELSE @]
  /\ UNCHANGED <<address, tagged, at, alias, found, using, runs, overlapped>>

\* The wait fails unless the instance comes to run.
Wait(o) ==
  /\ At(o, "provision", "wait") /\ box[found[o]].state # "pending"
  /\ IF box[found[o]].state = "running"
     THEN Step(o, IF address[o] = "own" THEN "address" ELSE IF address[o] = "shared" THEN "associate" ELSE "alias")
          /\ UNCHANGED <<found, using>>
     ELSE End(o)
  /\ UNCHANGED <<address, box, tagged, at, alias, runs, overlapped>>

FindAddress(o) ==
  /\ At(o, "provision", "address")
  /\ IF AddressesOf(o) = {} THEN Step(o, "allocate") /\ UNCHANGED using
     ELSE Step(o, "associate") /\ \E a \in AddressesOf(o) : using' = [using EXCEPT ![o] = a]
  /\ UNCHANGED <<address, box, tagged, at, alias, found, runs, overlapped>>

Allocate(o) ==
  /\ At(o, "provision", "allocate") /\ Step(o, "associate")
  /\ \E a \in Own :
       /\ tagged[a] = Free /\ \A c \in Own : tagged[c] = Free => a <= c
       /\ tagged' = [tagged EXCEPT ![a] = o] /\ using' = [using EXCEPT ![o] = a]
  /\ UNCHANGED <<address, box, at, alias, found, runs, overlapped>>

\* EC2 moves an address from the instance it led to, if the address and the instance are there.
Associate(o) ==
  /\ At(o, "provision", "associate")
  /\ IF tagged[using[o]] # Released /\ box[found[o]].state = "running"
     THEN /\ at' = [a \in Addresses |-> IF a = using[o] THEN found[o] ELSE IF at[a] = found[o] THEN None ELSE at[a]]
          /\ Step(o, "alias") /\ UNCHANGED <<found, using>>
     ELSE End(o) /\ UNCHANGED at
  /\ UNCHANGED <<address, box, tagged, alias, runs, overlapped>>

WriteAlias(o) ==
  /\ At(o, "provision", "alias") /\ Step(o, "stage")
  /\ alias' = [alias EXCEPT ![o] =
       IF address[o] = "none" THEN [kind |-> "box", to |-> found[o]] ELSE [kind |-> "address", to |-> using[o]]]
  /\ UNCHANGED <<address, box, tagged, at, found, using, runs, overlapped>>

\* Where ssh gets to by the alias.
Reached(s) == IF alias[s].kind = "address" THEN at[alias[s].to] ELSE alias[s].to

\* The box is installed and configured over ssh, if it answers.
Stage(o) ==
  /\ At(o, "provision", "stage")
  /\ IF Reached(o) # None /\ box[Reached(o)].state = "running"
     THEN Step(o, "done") /\ UNCHANGED <<found, using>> ELSE End(o)
  /\ UNCHANGED <<address, box, tagged, at, alias, runs, overlapped>>

----------------------------------------------------------------------------
(* teardown-workspace-aws-resources.sh *)

Lookup(o) ==
  /\ At(o, "teardown", "find") /\ Step(o, "look")
  /\ \E b \in IF BoxesOf(o) = {} THEN {None} ELSE BoxesOf(o) : found' = [found EXCEPT ![o] = b]
  /\ UNCHANGED <<address, box, tagged, at, alias, using, runs, overlapped>>

LookupAddress(o) ==
  /\ At(o, "teardown", "look") /\ Step(o, "terminate")
  /\ \E a \in IF address[o] = "shared" THEN {Shared}
              ELSE IF AddressesOf(o) = {} THEN {None} ELSE AddressesOf(o) :
       using' = [using EXCEPT ![o] = a]
  /\ UNCHANGED <<address, box, tagged, at, alias, found, runs, overlapped>>

Terminate(o) ==
  /\ At(o, "teardown", "terminate") /\ Step(o, "ending")
  /\ box' = IF found[o] = None \/ box[found[o]].state = "terminated" THEN box
            ELSE [box EXCEPT ![found[o]].state = "shutting-down"]
  /\ UNCHANGED <<address, tagged, at, alias, found, using, runs, overlapped>>

WaitTerminated(o) ==
  /\ At(o, "teardown", "ending") /\ Step(o, "release")
  /\ found[o] # None => box[found[o]].state = "terminated"
  /\ UNCHANGED <<address, box, tagged, at, alias, found, using, runs, overlapped>>

\* EC2 refuses to release an address that leads to an instance; an override is kept.
Release(o) ==
  /\ At(o, "teardown", "release")
  /\ IF using[o] \in {None, Shared}
     THEN Step(o, "unalias") /\ UNCHANGED <<tagged, found, using>>
     ELSE IF at[using[o]] = None /\ tagged[using[o]] # Released
     THEN tagged' = [tagged EXCEPT ![using[o]] = Released] /\ Step(o, "unalias") /\ UNCHANGED <<found, using>>
     ELSE End(o) /\ UNCHANGED tagged
  /\ UNCHANGED <<address, box, at, alias, runs, overlapped>>

Unalias(o) ==
  /\ At(o, "teardown", "unalias") /\ Step(o, "done") /\ alias' = [alias EXCEPT ![o] = NoAlias]
  /\ UNCHANGED <<address, box, tagged, at, found, using, runs, overlapped>>

----------------------------------------------------------------------------
(* manage-elastic-ips.sh delete, of the shared address, and create *)

Delete ==
  /\ tagged[Shared] = "shared" /\ at[Shared] = None /\ tagged' = [tagged EXCEPT ![Shared] = Released]
  /\ UNCHANGED <<address, box, at, alias, script, found, using, runs, overlapped>>

ProvisioningNext ==
  \/ Ec2 \/ Delete
  \/ \E o \in Slugs :
       \/ \E do \in {"provision", "teardown"} : BeginScript(o, do)
       \/ CutOff(o) \/ Forget(o) \/ Check(o) \/ Find(o) \/ Launch(o) \/ Reuse(o) \/ Wait(o) \/ FindAddress(o)
       \/ Allocate(o) \/ Associate(o) \/ WriteAlias(o) \/ Stage(o)
       \/ Lookup(o) \/ LookupAddress(o) \/ Terminate(o) \/ WaitTerminated(o) \/ Release(o) \/ Unalias(o)

ProvisioningSpec == ProvisioningInit /\ [][ProvisioningNext]_provisioningVars

----------------------------------------------------------------------------
(* Properties *)

\* However often the scripts of a slug were cut off before, they leave at most one
\* instance and one address of it, and "Nothing is still billing for it"
\* (teardown-workspace-aws-resources.sh:118) is so when it is said.
NothingIsLeftBilling ==
  \A s \in Slugs :
    /\ Cardinality(BoxesOf(s)) <= 1 /\ Cardinality(AddressesOf(s)) <= 1
    /\ At(s, "teardown", "done") =>
         /\ \A b \in Boxes : box[b].slug = s => box[b].state \in {"shutting-down", "terminated"}
         /\ \A a \in Own : tagged[a] \in {Free, Released} \cup (Slugs \ {s})

\* No box loses its address to the box of another slug, and what is installed over
\* ssh is the slug's own box, as long as the scripts of slugs that share an address
\* are not at work at once.
AddressesAreKept ==
  [][~overlapped' =>
       /\ \A a \in Addresses :
            at[a] # None /\ at'[a] \notin {None, at[a]} => box[at'[a]].slug = box[at[a]].slug
       /\ \A s \in Slugs : At(s, "provision", "stage") /\ script'[s].step = "done" => box[Reached(s)].slug = s]_provisioningVars

\* teardown, provisioning: at most one instance and address of a slug, none after
\* teardown, and no box loses its address to the box of another slug.
RunBoxesAreTheirs == []NothingIsLeftBilling /\ AddressesAreKept
=============================================================================
