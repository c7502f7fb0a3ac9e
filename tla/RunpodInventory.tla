--------------------------- MODULE RunpodInventory ---------------------------
(***************************************************************************)
(* The Runpod provider (external_resources.py) keeps the ids of every pod  *)
(* of the run in a file, so that the cost of terminated pods is counted:   *)
(* a reading loads the file, lists the live pods page by page, saves what  *)
(* it finds and asks for each pod's bills.  A reading runs in a thread,    *)
(* which goes on when its caller has given up.  Runpod is external.        *)
(***************************************************************************)
EXTENDS Naturals, FiniteSets

CONSTANTS
  Pods,
  MaxReadings, MaxLate   \* bounds: readings; those whose caller gives up

ASSUME InventoryAssumption == MaxReadings \in Nat

VARIABLES
  live, billed,   \* pods that run; pods with records of their cost
  file,           \* <state>/resources/runpod-*.json
  begun,          \* readings so far
  step,           \* of each reading: none, list, more, bill, done, failed
  ids, listed,    \* what each has found: pods of the run, and those of them that are live
  caller,         \* the reading that the monitor waits for
  costs,          \* what each told: the pods its total covers; {} when bills are pending
  late, overlap   \* readings that were given up; whether two of them ran at a time

inventoryVars == <<live, billed, file, begun, step, ids, listed, caller, costs, late, overlap>>
pods == <<live, billed>>

Readings == 1..MaxReadings
Empty == [r \in Readings |-> {}]

InventoryInit ==
  /\ live = {} /\ billed = {} /\ file = {} /\ begun = 0 /\ step = [r \in Readings |-> "none"]
  /\ ids = Empty /\ listed = Empty /\ caller = 0 /\ costs = Empty /\ late = {} /\ overlap = FALSE

Create(p) ==
  /\ p \notin live \cup billed /\ live' = live \cup {p}
  /\ UNCHANGED <<billed, file, begun, step, ids, listed, caller, costs, late, overlap>>

\* Bills follow the pods with a delay.
Bill(p) ==
  /\ p \in live \ billed /\ billed' = billed \cup {p}
  /\ UNCHANGED <<live, file, begun, step, ids, listed, caller, costs, late, overlap>>

Terminate(p) ==
  /\ p \in live \cap billed /\ live' = live \ {p}
  /\ UNCHANGED <<billed, file, begun, step, ids, listed, caller, costs, late, overlap>>

Runs(r) == step[r] \in {"list", "more", "bill"}

\* Fault: a reading starts from the pods that are live.
Fault_Loaded == {}

Loaded == file

\* The monitor starts one reading at a time.
Begin ==
  /\ caller = 0 /\ begun < MaxReadings /\ begun' = begun + 1 /\ caller' = begun + 1
  /\ step' = [step EXCEPT ![begun + 1] = "list"]
  /\ ids' = [ids EXCEPT ![begun + 1] = Loaded]
  /\ overlap' = (overlap \/ \E r \in Readings : Runs(r))
  /\ UNCHANGED <<pods, file, listed, costs, late>>

\* A page of live pods, of which new ones are saved at once.
Page(r, page, then) ==
  /\ listed' = [listed EXCEPT ![r] = @ \cup page]
  /\ ids' = [ids EXCEPT ![r] = @ \cup page]
  /\ file' = IF page \subseteq ids[r] THEN file ELSE ids'[r]
  /\ step' = [step EXCEPT ![r] = then]
  /\ UNCHANGED <<pods, begun, caller, costs, late, overlap>>

FirstPage(r) == step[r] = "list" /\ \E page \in SUBSET live : Page(r, page, "more")

LastPage(r) == step[r] = "more" /\ Page(r, live \ listed[r], "bill")

\* A total is told if every known pod has bills.
Complete(r) == ids[r] \subseteq billed

Bills(r) ==
  /\ step[r] = "bill" /\ step' = [step EXCEPT ![r] = "done"]
  /\ costs' = [costs EXCEPT ![r] = IF Complete(r) THEN ids[r] \cap billed ELSE {}]
  /\ UNCHANGED <<pods, file, begun, ids, listed, caller, late, overlap>>

\* A request fails; what was found is saved.
Fails(r) ==
  /\ Runs(r) /\ step' = [step EXCEPT ![r] = "failed"]
  /\ UNCHANGED <<pods, file, begun, ids, listed, caller, costs, late, overlap>>

Returns ==
  /\ caller # 0 /\ ~Runs(caller) /\ caller' = 0
  /\ UNCHANGED <<pods, file, begun, step, ids, listed, costs, late, overlap>>

\* wait_for gives up, and the thread goes on.
TimeOut ==
  /\ caller # 0 /\ Runs(caller) /\ Cardinality(late) < MaxLate
  /\ late' = late \cup {caller} /\ caller' = 0
  /\ UNCHANGED <<pods, file, begun, step, ids, listed, costs, overlap>>

InventoryNext ==
  \/ \E p \in Pods : Create(p) \/ Bill(p) \/ Terminate(p)
  \/ \E r \in Readings : FirstPage(r) \/ LastPage(r) \/ Bills(r) \/ Fails(r)
  \/ Begin \/ Returns \/ TimeOut

InventorySpec == InventoryInit /\ [][InventoryNext]_inventoryVars

----------------------------------------------------------------------------
(* Properties *)

\* A pod that any reading found is in the file for good, and so in every later total,
\* although the reading that found it failed or was given up and the pod is gone:
\* the told cost never falls.  The exception is a reading that was given up and
\* still ran when the next one began: the later save of the two wins.
FoundPodsAreCounted ==
  overlap \/
    /\ \A r \in Readings : listed[r] \subseteq file
    /\ \A q, r \in Readings : q < r /\ step[r] = "done" /\ costs[r] # {} => listed[q] \cup costs[q] \subseteq costs[r]
=============================================================================
