-------------------------- MODULE MonitoringPass --------------------------
(***************************************************************************)
(* The passes of the monitoring worker (src/monitoring/service/worker.py): *)
(* Runtime.tick collects each running target's evidence for the window,    *)
(* assesses it twice, publishes, ingests the incident review, and then     *)
(* retries the saved passes of the last day.  Checkpoints are in S3        *)
(* (evidence.json, result.json) and in PostgreSQL (store.py).              *)
(*                                                                         *)
(* The advisory lock makes passes exclude each other, so that there is one *)
(* worker.  A step ends at each call that can fail.  A call that fails     *)
(* after it took effect is that call followed by a failure of the next.    *)
(* Windows are numbered; what evidence and results say is left out, only   *)
(* which collection and which inference they come from is kept.            *)
(***************************************************************************)
EXTENDS Naturals, FiniteSets

CONSTANTS
  Targets,     \* EC2 instances
  MaxWindows,  \* bound: collection windows
  Horizon,     \* windows in the 86400 s a saved pass is retried
  Unreliable,  \* targets whose status may fail to be published for ever
  MaxFaults,   \* bound: other failures and crashes
  MaxChanges   \* bound: starts and stops of instances

Kinds == {"status", "incident"}

ASSUME PassAssumption ==
  /\ {MaxFaults, MaxChanges} \subseteq Nat /\ {MaxWindows, Horizon} \subseteq Nat \ {0}
  /\ Unreliable \subseteq Targets

Jobs == Targets \X (1..MaxWindows)   \* a target's window
NoJob == <<>>
NoResult == [evidence |-> 0, inference |-> 0]

VARIABLES
  window,      \* the current window
  ec2,         \* the instances that run
  state,       \* those workloads.state says run
  rows,        \* rows of collections
  evidence,    \* collections.evidence: the collection it is from, 0 for {"target"}
  checkpoint,  \* evidence.json of each job, 0 if there is none
  artifact,    \* result.json of each job and kind
  assessment,  \* rows of assessments
  ingested,    \* jobs whose incident assessment is marked ingested
  applied,     \* results that were applied to the incidents, of each job
  inferences,  \* inferences of each job and kind: each reserves budget
  unsaved,     \* inferences whose result was lost before it was saved
  pc, end, stage, todo, job, kind, held, result,  \* the worker's pass
  faults, changes

saved == <<rows, evidence, checkpoint, artifact, assessment, ingested, applied, inferences, unsaved>>
pass == <<pc, end, stage, todo, job, kind, held, result>>
world == <<window, ec2, faults, changes>>
vars == <<world, state, saved, pass>>

Init ==
  /\ window = 1 /\ ec2 = Targets /\ state = {}
  /\ rows = {} /\ ingested = {}
  /\ evidence = [j \in Jobs |-> 0] /\ checkpoint = [j \in Jobs |-> 0]
  /\ artifact = [j \in Jobs |-> [k \in Kinds |-> NoResult]] /\ assessment = artifact
  /\ applied = [j \in Jobs |-> {}]
  /\ inferences = [j \in Jobs |-> [k \in Kinds |-> 0]] /\ unsaved = inferences
  /\ pc = "idle" /\ end = 0 /\ stage = "current" /\ todo = {}
  /\ job = NoJob /\ kind = "status" /\ held = 0 /\ result = NoResult
  /\ faults = 0 /\ changes = 0

----------------------------------------------------------------------------
(* The clock and the instances *)

Clock ==
  /\ window < MaxWindows /\ window' = window + 1
  /\ UNCHANGED <<ec2, faults, changes, state, saved, pass>>

ChangeInstance(t) ==
  /\ changes < MaxChanges /\ changes' = changes + 1
  /\ ec2' = IF t \in ec2 THEN ec2 \ {t} ELSE ec2 \cup {t}
  /\ UNCHANGED <<window, faults, state, saved, pass>>

----------------------------------------------------------------------------
(* Runtime.tick *)

StartPass ==
  /\ pc = "idle" /\ pc' = "next"
  /\ state' = ec2
  /\ end' = window /\ stage' = "current"
  /\ todo' = {<<t, window>> : t \in ec2}
  /\ UNCHANGED <<world, saved, job, kind, held, result>>

NextJob ==
  /\ pc = "next"
  /\ \E j \in todo : job' = j /\ todo' = todo \ {j}
  /\ pc' = "look"
  /\ UNCHANGED <<world, state, saved, end, stage, kind, held, result>>

\* Fault: a pass that only lacks its ingestion is not retried.
Fault_Pending ==
  {j \in rows : j[2] + Horizon > window /\ \E k \in Kinds : assessment[j][k] = NoResult}

\* Store.pending: a day of passes that lack an assessment or its ingestion.
Pending ==
  {j \in rows : /\ j[2] + Horizon > window
                /\ \/ \E k \in Kinds : assessment[j][k] = NoResult
                   \/ j \notin ingested}

\* The jobs of this window are left to the next pass.
RetrySaved ==
  /\ pc = "next" /\ todo = {} /\ stage = "current"
  /\ stage' = "saved"
  /\ todo' = {j \in Pending : j[2] # end}
  /\ UNCHANGED <<world, state, saved, pc, end, job, kind, held, result>>

EndPass ==
  /\ pc = "next" /\ todo = {} /\ stage = "saved"
  /\ pc' = "idle"
  /\ UNCHANGED <<world, state, saved, end, stage, todo, job, kind, held, result>>

----------------------------------------------------------------------------
(* Runtime.run_target: the evidence *)

Noted == rows' = rows \cup {job}

\* What is saved goes on to the assessments; otherwise the target is noted, so
\* that the pass is retried whatever happens next.
Look ==
  /\ pc = "look"
  /\ IF evidence[job] # 0
     THEN held' = evidence[job] /\ pc' = "assess" /\ kind' = "status" /\ UNCHANGED rows
     ELSE Noted /\ pc' = "checkpoint" /\ UNCHANGED <<held, kind>>
  /\ UNCHANGED <<world, state, evidence, checkpoint, artifact, assessment, ingested, applied,
                 inferences, unsaved, end, stage, todo, job, result>>

ReadCheckpoint ==
  /\ pc = "checkpoint"
  /\ pc' = IF checkpoint[job] # 0 THEN "save" ELSE "collect"
  /\ held' = checkpoint[job]
  /\ UNCHANGED <<world, state, saved, end, stage, todo, job, kind, result>>

\* The workspace and the telemetry are collected and checkpointed in S3.
Collect ==
  /\ pc = "collect" /\ pc' = "save"
  /\ checkpoint' = [checkpoint EXCEPT ![job] = @ + 1]
  /\ held' = checkpoint'[job]
  /\ UNCHANGED <<world, state, rows, evidence, artifact, assessment, ingested, applied,
                 inferences, unsaved, end, stage, todo, job, kind, result>>

SaveEvidence ==
  /\ pc = "save" /\ pc' = "assess" /\ kind' = "status"
  /\ evidence' = [evidence EXCEPT ![job] = held]
  /\ UNCHANGED <<world, state, rows, checkpoint, artifact, assessment, ingested, applied,
                 inferences, unsaved, end, stage, todo, job, held, result>>

----------------------------------------------------------------------------
(* Runtime.assess, first for the status and then for the incidents *)

\* However the assessment of a kind ends, the other one has its turn.
Onward ==
  IF kind = "status" THEN kind' = "incident" /\ pc' = "assess" ELSE pc' = "next" /\ UNCHANGED kind

\* Fault: only the database is asked for a saved result.
Fault_Known == assessment[job][kind]

\* The saved result, in the database or else in S3.
Known == IF assessment[job][kind] # NoResult THEN assessment[job][kind] ELSE artifact[job][kind]

UseSaved ==
  /\ pc = "assess" /\ Known # NoResult
  /\ result' = Known /\ pc' = "publish"
  /\ UNCHANGED <<world, state, saved, end, stage, todo, job, kind, held>>

\* The budget is reserved and a model asked; a failure is a result too.
Infer ==
  /\ pc = "assess" /\ Known = NoResult
  /\ inferences' = [inferences EXCEPT ![job][kind] = @ + 1]
  /\ result' = [evidence |-> held, inference |-> inferences'[job][kind]]
  /\ pc' = "put"
  /\ UNCHANGED <<world, state, rows, evidence, checkpoint, artifact, assessment, ingested, applied,
                 unsaved, end, stage, todo, job, kind, held>>

\* The artifact survives a database publication failure.
PutResult ==
  /\ pc = "put" /\ pc' = "publish"
  /\ artifact' = [artifact EXCEPT ![job][kind] = result]
  /\ UNCHANGED <<world, state, rows, evidence, checkpoint, assessment, ingested, applied,
                 inferences, unsaved, end, stage, todo, job, kind, held, result>>

\* Store.publish never replaces a row.
Publish ==
  /\ pc = "publish"
  /\ assessment' = [assessment EXCEPT ![job][kind] = IF @ = NoResult THEN result ELSE @]
  /\ IF kind = "incident" THEN pc' = "ingest" /\ UNCHANGED kind ELSE Onward
  /\ UNCHANGED <<world, state, rows, evidence, checkpoint, artifact, ingested, applied,
                 inferences, unsaved, end, stage, todo, job, held, result>>

\* Store.ingest applies a review and marks it ingested in one transaction.
Ingest ==
  /\ pc = "ingest" /\ pc' = "next"
  /\ applied' = [applied EXCEPT ![job] = @ \cup {result}]
  /\ ingested' = ingested \cup {job}
  /\ UNCHANGED <<world, state, rows, evidence, checkpoint, artifact, assessment,
                 inferences, unsaved, end, stage, todo, job, kind, held, result>>

----------------------------------------------------------------------------
(* Failures *)

Loses == unsaved' = IF pc = "put" THEN [unsaved EXCEPT ![job][kind] = @ + 1] ELSE unsaved

\* run_target raises before there is evidence: on to the next job.
JobFails ==
  /\ pc \in {"look", "checkpoint", "collect", "save"}
  /\ faults < MaxFaults /\ faults' = faults + 1
  /\ pc' = "next"
  /\ UNCHANGED <<window, ec2, changes, state, saved, end, stage, todo, job, kind, held, result>>

\* assess raises: its result is not saved, not published or not ingested.
AssessFails ==
  /\ pc \in {"assess", "put", "publish", "ingest"}
  /\ IF pc = "publish" /\ kind = "status" /\ job[1] \in Unreliable THEN UNCHANGED faults
     ELSE faults < MaxFaults /\ faults' = faults + 1
  /\ Loses
  /\ Onward
  /\ UNCHANGED <<window, ec2, changes, state, rows, evidence, checkpoint, artifact, assessment,
                 ingested, applied, inferences, end, stage, todo, job, held, result>>

\* The worker dies, or raises outside the jobs; the next pass starts afresh.
Crash ==
  /\ pc # "idle"
  /\ faults < MaxFaults /\ faults' = faults + 1
  /\ pc' = "idle" /\ todo' = {}
  /\ Loses
  /\ UNCHANGED <<window, ec2, changes, state, rows, evidence, checkpoint, artifact, assessment,
                 ingested, applied, inferences, end, stage, job, kind, held, result>>

----------------------------------------------------------------------------

Step ==
  \/ StartPass \/ NextJob \/ RetrySaved \/ EndPass
  \/ Look \/ ReadCheckpoint \/ Collect \/ SaveEvidence
  \/ UseSaved \/ Infer \/ PutResult \/ Publish \/ Ingest

Next ==
  \/ Step \/ Clock \/ JobFails \/ AssessFails \/ Crash
  \/ \E t \in Targets : ChangeInstance(t)

Spec == Init /\ [][Next]_vars

\* Runtime.run starts a pass every minute, every call of it ends, and time passes.
Fairness == WF_vars(Step) /\ WF_vars(Clock)

----------------------------------------------------------------------------
(* Properties *)

\* Every variable keeps its type, and a result in hand is of the evidence in hand
\* unless it is a saved one.
TypeOK ==
  LET Results == [evidence : Nat, inference : Nat]
  IN  /\ window \in 1..MaxWindows /\ end \in 0..window
      /\ ec2 \subseteq Targets /\ state \subseteq Targets
      /\ rows \subseteq Jobs /\ ingested \subseteq rows /\ todo \subseteq Jobs
      /\ evidence \in [Jobs -> Nat] /\ checkpoint \in [Jobs -> Nat]
      /\ artifact \in [Jobs -> [Kinds -> Results]] /\ assessment \in [Jobs -> [Kinds -> Results]]
      /\ applied \in [Jobs -> SUBSET Results]
      /\ inferences \in [Jobs -> [Kinds -> Nat]] /\ unsaved \in [Jobs -> [Kinds -> Nat]]
      /\ pc \in {"idle", "next", "look", "checkpoint", "collect", "save", "assess", "put",
                 "publish", "ingest"}
      /\ stage \in {"current", "saved"} /\ job \in Jobs \cup {NoJob} /\ kind \in Kinds
      /\ held \in Nat /\ result \in Results
      /\ pc \in {"look", "checkpoint", "collect", "save", "assess", "put", "publish", "ingest"} => job \in Jobs
      /\ pc = "put" => result.evidence = held
      /\ faults \in 0..MaxFaults /\ changes \in 0..MaxChanges

\* Both assessments of a window judge the same evidence, the one collected for
\* it, however often the pass was interrupted and retried.
EvidenceIsShared ==
  \A j \in Jobs : \A k \in Kinds :
    assessment[j][k] # NoResult =>
      assessment[j][k].evidence = evidence[j] /\ evidence[j] = checkpoint[j]

\* A window's incidents come from one review, the published one, although a
\* retry may ingest it again.
OneReviewApplied ==
  \A j \in Jobs : applied[j] \subseteq {assessment[j]["incident"]}

\* A retry never pays for an inference again, unless its result could not be
\* saved the first time.
PaidOnce ==
  \A j \in Jobs : \A k \in Kinds : inferences[j][k] <= 1 + unsaved[j][k]

\* worker.py: however a pass is interrupted and retried, both assessments judge what
\* was collected, one review is applied, and nothing is paid twice.
PassesAreSound == TypeOK /\ EvidenceIsShared /\ OneReviewApplied /\ PaidOnce

AgedOut(j) == j[2] + Horizon <= window

\* Every noted pass is finished, unless a day goes by: what fails or crashes is
\* taken up again, and a status that cannot be published holds no review up.
PassesFinish ==
  \A j \in Jobs : j[2] < MaxWindows =>
    /\ j \in rows ~> j \in ingested \/ AgedOut(j)
    /\ j[1] \notin Unreliable =>
         (j \in rows ~> assessment[j]["status"] # NoResult \/ AgedOut(j))

\* Stopped instances receive no new collections.
StoppedNotCollected ==
  [][\A j \in Jobs : checkpoint'[j] # checkpoint[j] => j[1] \in state]_vars
=============================================================================
