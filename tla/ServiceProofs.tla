---------------------------- MODULE ServiceProofs ----------------------------
(***************************************************************************)
(* Proofs about the parts of the monitoring service, each for any targets, *)
(* windows, attempts, browsers and times.  A pass: the checkpoints are     *)
(* ordered, a result in S3 before it is in the database and its evidence   *)
(* before it (Saved); what the worker holds at each step is what it saved  *)
(* last (Held); each inference is accounted for by a result that was saved *)
(* or lost (Paid).  A copy: the size that head_object compares is of no    *)
(* use to the argument; a version that was uploaded is never changed, and  *)
(* the one recorded was read and had the digest.  A sign-in: its request   *)
(* row is there only between its beginning and its use (UsedUp), so that a *)
(* second answer that was checked in time finds nothing that is still to   *)
(* expire; when all of it was to expire is kept (Timely).                  *)
(* The notices: what was shown and the database does not know may be       *)
(* repeated, so it is counted with what was (Lossy).                       *)
(* The assessments: the first source of a model is in the view or named    *)
(* there (ModelsAreKnown), and what is swept is all of a view that leaves  *)
(* nothing out (Sweeping).                                                 *)
(***************************************************************************)
EXTENDS MonitoringPass, WorkspaceCopy, OperatorSessions, WorkloadNotices, Assessments,
  SequenceTheorems, FiniteSetTheorems, WellFoundedInduction, TLAPS

Assessing == {"assess", "put", "publish", "ingest"}
Collecting == {"checkpoint", "collect", "save"}

\* What later checkpoints tell of the earlier ones.
Saved ==
  \A j \in Jobs :
    /\ evidence[j] # 0 => evidence[j] = checkpoint[j] /\ j \in rows
    /\ applied[j] # {} => assessment[j]["incident"] # NoResult
    /\ applied[j] \subseteq {assessment[j]["incident"]}
    /\ \A k \in Kinds :
         /\ artifact[j][k] # NoResult => artifact[j][k].evidence = evidence[j] /\ evidence[j] # 0
         /\ assessment[j][k] # NoResult => assessment[j][k] = artifact[j][k]

\* What the worker holds of the job in hand, at each step.
Held ==
  /\ pc \in Collecting => job \in rows /\ evidence[job] = 0
  /\ pc = "collect" => checkpoint[job] = 0
  /\ pc = "save" => held # 0 /\ held = checkpoint[job]
  /\ pc \in Assessing => held # 0 /\ held = evidence[job]
  /\ pc = "put" => result.evidence = held /\ artifact[job][kind] = NoResult
  /\ pc = "publish" => result # NoResult /\ result = artifact[job][kind]
  /\ pc = "ingest" => /\ kind = "incident" /\ result # NoResult
                      /\ result = assessment[job]["incident"]

\* Every inference but one was lost, and that one too, unless its result is saved
\* or in hand.
Paid ==
  \A j \in Jobs : \A k \in Kinds :
    /\ inferences[j][k] <= 1 + unsaved[j][k]
    /\ artifact[j][k] = NoResult /\ ~(pc = "put" /\ job = j /\ kind = k) =>
         inferences[j][k] <= unsaved[j][k]

PassInv == TypeOK /\ Saved /\ Held /\ Paid

\* NoResult tells the results of no collection from the others.
LEMMA ResultOf ==
  ASSUME NEW e \in Nat, NEW i \in Nat, e # 0
  PROVE  [evidence |-> e, inference |-> i] # NoResult
BY DEF NoResult

\* Nothing is saved, held or paid before the first pass.
LEMMA InitPassInv == Init => PassInv
<1> SUFFICES ASSUME Init PROVE PassInv  OBVIOUS
<1> USE DEF Init
<1>1. TypeOK
  <2>1. NoResult \in [evidence : Nat, inference : Nat]  BY DEF NoResult
  <2>2. MaxWindows \in Nat /\ MaxFaults \in Nat /\ MaxChanges \in Nat  BY PassAssumption
  <2> QED  BY <2>1, <2>2, PassAssumption DEF TypeOK, Kinds
<1>2. Saved  BY DEF Saved
<1>3. Held  BY DEF Held, Collecting, Assessing
<1>4. Paid  BY DEF Paid
<1> QED  BY <1>1, <1>2, <1>3, <1>4 DEF PassInv

\* What is saved and paid stays true of a step that saves and asks nothing.
LEMMA SavedKept ==
  ASSUME Saved, Paid, UNCHANGED saved, pc # "put", pc' # "put"
  PROVE  Saved' /\ Paid'
BY DEF Saved, Paid, saved

----------------------------------------------------------------------------
(* One lemma for the steps of each part: they preserve the invariant. *)

\* The clock and the instances do not touch a pass.
LEMMA WorldStep ==
  ASSUME PassInv, Clock \/ (\E t \in Targets : ChangeInstance(t)) \/ UNCHANGED vars
  PROVE  PassInv'
<1> USE DEF PassInv
<1>1. CASE Clock
  <2>1. TypeOK'  BY <1>1, PassAssumption DEF Clock, TypeOK, saved, pass
  <2>2. UNCHANGED <<saved, pass>>  BY <1>1 DEF Clock
  <2> QED  BY <2>1, <2>2 DEF saved, pass, Saved, Held, Paid
<1>2. ASSUME NEW t \in Targets, ChangeInstance(t) PROVE PassInv'
  <2>1. TypeOK'
    BY <1>2, PassAssumption DEF ChangeInstance, TypeOK, saved, pass
  <2>2. UNCHANGED <<saved, pass>>  BY <1>2 DEF ChangeInstance
  <2> QED  BY <2>1, <2>2 DEF saved, pass, Saved, Held, Paid
<1>3. CASE UNCHANGED vars
  BY <1>3 DEF vars, world, saved, pass, TypeOK, Saved, Held, Paid
<1> QED  BY <1>1, <1>2, <1>3

\* Between jobs the worker holds nothing.
LEMMA TickStep ==
  ASSUME PassInv, StartPass \/ NextJob \/ RetrySaved \/ EndPass
  PROVE  PassInv'
<1> USE DEF PassInv
<1>1. UNCHANGED saved /\ pc # "put" /\ pc' \in {"next", "look", "idle"}
  BY DEF StartPass, NextJob, RetrySaved, EndPass, saved
<1>2. Saved' /\ Paid'  BY <1>1, SavedKept
<1>3. Held'  BY <1>1 DEF Held, Collecting, Assessing
<1>4. TypeOK'
  <2>1. CASE StartPass
    BY <2>1 DEF StartPass, TypeOK, Jobs, world, saved
  <2>2. CASE NextJob
    BY <2>2 DEF NextJob, TypeOK, world, saved
  <2>3. CASE RetrySaved
    <3>1. todo' \subseteq Jobs  BY <2>3 DEF RetrySaved, Pending, TypeOK
    <3> QED  BY <2>3, <3>1 DEF RetrySaved, TypeOK, world, saved
  <2>4. CASE EndPass  BY <2>4 DEF EndPass, TypeOK, world, saved
  <2> QED  BY <2>1, <2>2, <2>3, <2>4
<1> QED  BY <1>2, <1>3, <1>4

\* Evidence is collected once, and noted and checkpointed before it is saved.
LEMMA EvidenceStep ==
  ASSUME PassInv, Look \/ ReadCheckpoint \/ Collect \/ SaveEvidence
  PROVE  PassInv'
<1> USE DEF PassInv
<1>0. pc # "put" /\ pc' # "put" /\ job \in Jobs
  BY DEF Look, ReadCheckpoint, Collect, SaveEvidence, TypeOK
<1>1. TypeOK'
  <2>1. CASE Look  BY <1>0, <2>1 DEF Look, Noted, TypeOK, Kinds, world
  <2>2. CASE ReadCheckpoint  BY <1>0, <2>2 DEF ReadCheckpoint, TypeOK, world, saved
  <2>3. CASE Collect  BY <1>0, <2>3 DEF Collect, TypeOK, world
  <2>4. CASE SaveEvidence  BY <1>0, <2>4 DEF SaveEvidence, TypeOK, Kinds, world
  <2> QED  BY <2>1, <2>2, <2>3, <2>4
<1>2. Paid'
  BY <1>0 DEF Look, ReadCheckpoint, Collect, SaveEvidence, Paid, saved
<1>3. Saved'
  <2>1. CASE Look  BY <2>1 DEF Look, Noted, Saved
  <2>2. CASE ReadCheckpoint  BY <1>0, <2>2, SavedKept DEF ReadCheckpoint
  <2>3. CASE Collect  BY <2>3 DEF Collect, Saved, Held, Collecting, TypeOK
  <2>4. CASE SaveEvidence  BY <2>4 DEF SaveEvidence, Saved, Held, Collecting, TypeOK
  <2> QED  BY <2>1, <2>2, <2>3, <2>4
<1>4. Held'
  <2>1. CASE Look  BY <1>0, <2>1 DEF Look, Noted, Held, Collecting, Assessing
  <2>2. CASE ReadCheckpoint
    BY <1>0, <2>2 DEF ReadCheckpoint, Held, Collecting, Assessing, saved
  <2>3. CASE Collect
    BY <1>0, <2>3 DEF Collect, Held, Collecting, Assessing, TypeOK
  <2>4. CASE SaveEvidence
    BY <1>0, <2>4 DEF SaveEvidence, Held, Collecting, Assessing, TypeOK
  <2> QED  BY <2>1, <2>2, <2>3, <2>4
<1> QED  BY <1>1, <1>2, <1>3, <1>4

\* A result that is saved is used, before a model is asked.
LEMMA UseSavedStep == ASSUME PassInv, UseSaved PROVE PassInv'
<1> USE DEF PassInv
<1>0. pc = "assess" /\ pc' = "publish" /\ job \in Jobs /\ kind \in Kinds /\ UNCHANGED saved
      /\ UNCHANGED <<job, kind, held>>
  BY DEF UseSaved, TypeOK
<1>1. Known = artifact[job][kind]  BY <1>0 DEF Known, Saved
<1>2. TypeOK'  BY <1>0, <1>1 DEF UseSaved, TypeOK, world, saved
<1>3. Saved' /\ Paid'  BY <1>0, SavedKept
<1>4. Held'  BY <1>0, <1>1 DEF UseSaved, Held, Collecting, Assessing, saved
<1> QED  BY <1>2, <1>3, <1>4

\* A model is asked when nothing is saved: what was asked before was lost.
LEMMA InferStep == ASSUME PassInv, Infer PROVE PassInv'
<1> USE DEF PassInv
<1>0. /\ pc = "assess" /\ pc' = "put" /\ job \in Jobs /\ kind \in Kinds
      /\ UNCHANGED <<rows, evidence, checkpoint, artifact, assessment, ingested, applied, unsaved, job, kind, held>>
      /\ inferences' = [inferences EXCEPT ![job][kind] = @ + 1]
      /\ result' = [evidence |-> held, inference |-> inferences'[job][kind]]
  BY DEF Infer, TypeOK
<1>1. artifact[job][kind] = NoResult  BY <1>0 DEF Infer, Known, Saved
<1>2. /\ inferences' \in [Jobs -> [Kinds -> Nat]]
      /\ inferences'[job][kind] = inferences[job][kind] + 1
      /\ \A j \in Jobs : \A k \in Kinds : (j # job \/ k # kind) => inferences'[j][k] = inferences[j][k]
  BY <1>0 DEF TypeOK
<1>3. TypeOK'
  <2>1. result' \in [evidence : Nat, inference : Nat]  BY <1>0, <1>2 DEF TypeOK
  <2>2. UNCHANGED <<window, end, ec2, state, todo, stage, faults, changes>>  BY DEF Infer, world
  <2> QED  BY <1>0, <1>2, <2>1, <2>2 DEF TypeOK
<1>4. Saved'  BY <1>0 DEF Saved
<1>5. Held'  BY <1>0, <1>1 DEF Held, Collecting, Assessing
<1>6. Paid'
  <2> SUFFICES ASSUME NEW j \in Jobs, NEW k \in Kinds
               PROVE  /\ inferences'[j][k] <= 1 + unsaved[j][k]
                      /\ artifact[j][k] = NoResult /\ ~(job = j /\ kind = k) =>
                           inferences'[j][k] <= unsaved[j][k]
    BY <1>0 DEF Paid
  <2>1. inferences[j][k] \in Nat /\ unsaved[j][k] \in Nat  BY DEF TypeOK
  <2>2. CASE j = job /\ k = kind
    <3>1. inferences[j][k] <= unsaved[j][k]  BY <1>0, <1>1, <2>2 DEF Paid
    <3> QED  BY <1>2, <2>1, <2>2, <3>1
  <2>3. CASE j # job \/ k # kind  BY <1>0, <1>2, <2>3 DEF Paid
  <2> QED  BY <2>2, <2>3
<1> QED  BY <1>3, <1>4, <1>5, <1>6

\* The result in hand is saved in S3, where there was none.
LEMMA PutResultStep == ASSUME PassInv, PutResult PROVE PassInv'
<1> USE DEF PassInv
<1>0. /\ pc = "put" /\ pc' = "publish" /\ job \in Jobs /\ kind \in Kinds
      /\ UNCHANGED <<rows, evidence, checkpoint, assessment, ingested, applied, unsaved, inferences,
                     job, kind, held, result>>
      /\ artifact' = [artifact EXCEPT ![job][kind] = result]
  BY DEF PutResult, TypeOK
<1>1. /\ artifact'[job][kind] = result
      /\ \A j \in Jobs : \A k \in Kinds : (j # job \/ k # kind) => artifact'[j][k] = artifact[j][k]
      /\ artifact' \in [Jobs -> [Kinds -> [evidence : Nat, inference : Nat]]]
  BY <1>0 DEF TypeOK
<1>2. result.evidence = evidence[job] /\ evidence[job] # 0 /\ artifact[job][kind] = NoResult
  BY <1>0 DEF Held, Assessing
<1>3. result # NoResult  BY <1>2 DEF NoResult
<1>4. TypeOK'
  <2>1. UNCHANGED <<window, end, ec2, state, todo, stage, faults, changes>>  BY DEF PutResult, world
  <2> QED  BY <1>0, <1>1, <2>1 DEF TypeOK
<1>5. assessment[job][kind] = NoResult  BY <1>0, <1>2 DEF Saved
<1>6. Saved'  BY <1>0, <1>1, <1>2, <1>5 DEF Saved
<1>7. Held'  BY <1>0, <1>1, <1>3 DEF Held, Collecting, Assessing
<1>8. Paid'  BY <1>0, <1>1, <1>3 DEF Paid
<1> QED  BY <1>4, <1>6, <1>7, <1>8

\* The saved result is published, unless it was before.
LEMMA PublishStep == ASSUME PassInv, Publish PROVE PassInv'
<1> USE DEF PassInv
<1>0. /\ pc = "publish" /\ job \in Jobs /\ kind \in Kinds
      /\ UNCHANGED <<rows, evidence, checkpoint, artifact, ingested, applied, unsaved, inferences,
                     job, held, result>>
      /\ assessment' = [assessment EXCEPT ![job][kind] = IF @ = NoResult THEN result ELSE @]
  BY DEF Publish, TypeOK
<1>1. \/ kind = "incident" /\ kind' = kind /\ pc' = "ingest"
      \/ kind = "status" /\ kind' = "incident" /\ pc' = "assess"
  BY <1>0 DEF Publish, Onward, Kinds
<1>2. result # NoResult /\ result = artifact[job][kind]  BY <1>0 DEF Held
<1>3. /\ assessment'[job][kind] = result
      /\ \A j \in Jobs : \A k \in Kinds : (j # job \/ k # kind) => assessment'[j][k] = assessment[j][k]
      /\ assessment' \in [Jobs -> [Kinds -> [evidence : Nat, inference : Nat]]]
  <2>1. assessment[job][kind] # NoResult => assessment[job][kind] = result
    BY <1>0, <1>2 DEF Saved
  <2> QED  BY <1>0, <2>1 DEF TypeOK
<1>4. TypeOK'
  <2>1. UNCHANGED <<window, end, ec2, state, todo, stage, faults, changes>>  BY DEF Publish, world
  <2> QED  BY <1>0, <1>1, <1>3, <2>1 DEF TypeOK, Kinds
<1>5. assessment[job][kind] # NoResult => assessment[job][kind] = result
  BY <1>0, <1>2 DEF Saved
<1>6. Saved'
  <2> SUFFICES ASSUME NEW j \in Jobs
      PROVE /\ evidence[j] # 0 => evidence[j] = checkpoint[j] /\ j \in rows
            /\ applied[j] # {} => assessment'[j]["incident"] # NoResult
            /\ applied[j] \subseteq {assessment'[j]["incident"]}
            /\ \A k \in Kinds :
                 /\ artifact[j][k] # NoResult => artifact[j][k].evidence = evidence[j] /\ evidence[j] # 0
                 /\ assessment'[j][k] # NoResult => assessment'[j][k] = artifact[j][k]
    BY <1>0 DEF Saved
  <2>1. applied[j] # {} => assessment'[j]["incident"] = assessment[j]["incident"]
    BY <1>3, <1>5 DEF Saved, Kinds
  <2>2. ASSUME NEW k \in Kinds, assessment'[j][k] # NoResult
        PROVE  assessment'[j][k] = artifact[j][k]
    BY SMTT(30), <1>2, <1>3, <2>2 DEF Saved
  <2> QED  BY <2>1, <2>2 DEF Saved
<1>7. Held'  BY <1>0, <1>1, <1>2, <1>3 DEF Held, Collecting, Assessing
<1>8. Paid'  BY <1>0, <1>1 DEF Paid
<1> QED  BY <1>4, <1>6, <1>7, <1>8

\* What is applied to the incidents is what is published.
LEMMA IngestStep == ASSUME PassInv, Ingest PROVE PassInv'
<1> USE DEF PassInv
<1>0. /\ pc = "ingest" /\ pc' = "next" /\ job \in Jobs
      /\ UNCHANGED <<rows, evidence, checkpoint, artifact, assessment, unsaved, inferences,
                     job, kind, held, result>>
      /\ applied' = [applied EXCEPT ![job] = @ \cup {result}]
      /\ ingested' = ingested \cup {job}
  BY DEF Ingest, TypeOK
<1>1. result # NoResult /\ result = assessment[job]["incident"] /\ job \in rows
  BY <1>0 DEF Held, Saved, Assessing
<1>2. TypeOK'
  <2>1. UNCHANGED <<window, end, ec2, state, todo, stage, faults, changes>>  BY DEF Ingest, world
  <2> QED  BY <1>0, <1>1, <2>1 DEF TypeOK
<1>3. Saved'  BY <1>0, <1>1 DEF Saved, TypeOK
<1>4. Held'  BY <1>0 DEF Held, Collecting, Assessing
<1>5. Paid'  BY <1>0 DEF Paid
<1> QED  BY <1>2, <1>3, <1>4, <1>5

\* Whatever fails, what was asked and not saved is counted as lost.
LEMMA FailureStep ==
  ASSUME PassInv, JobFails \/ AssessFails \/ Crash
  PROVE  PassInv'
<1> USE DEF PassInv
<1>1. CASE JobFails
  <2>1. TypeOK'  BY <1>1, PassAssumption DEF JobFails, TypeOK, saved
  <2>2. Saved' /\ Paid'
    <3>1. UNCHANGED saved /\ pc # "put" /\ pc' # "put"  BY <1>1 DEF JobFails
    <3> QED  BY <3>1, SavedKept
  <2>3. Held'  BY <1>1 DEF JobFails, Held, Collecting, Assessing
  <2> QED  BY <2>1, <2>2, <2>3
<1>2. CASE AssessFails \/ Crash
  <2>0. /\ UNCHANGED <<rows, evidence, checkpoint, artifact, assessment, ingested, applied, inferences>>
        /\ Loses /\ pc' \in {"idle", "next", "assess"}
        /\ UNCHANGED <<window, ec2, changes, state, job, held, result>>
    BY <1>2 DEF AssessFails, Crash, Onward
  <2>1. faults' \in 0..MaxFaults
    BY <1>2, PassAssumption DEF AssessFails, Crash, TypeOK
  <2>2. /\ unsaved' \in [Jobs -> [Kinds -> Nat]]
        /\ \A j \in Jobs : \A k \in Kinds :
             unsaved'[j][k] = IF pc = "put" /\ job = j /\ kind = k THEN unsaved[j][k] + 1 ELSE unsaved[j][k]
    BY <2>0 DEF Loses, TypeOK
  <2>3. UNCHANGED <<end, stage>> /\ todo' \subseteq todo /\ kind' \in Kinds
        /\ (pc' = "assess" => pc \in Assessing)
    BY <1>2 DEF AssessFails, Crash, Onward, TypeOK, Kinds, Assessing
  <2>4. TypeOK'
    <3>1. pc \in Assessing => job \in Jobs  BY DEF TypeOK, Assessing
    <3> QED  BY <2>0, <2>1, <2>2, <2>3, <3>1 DEF TypeOK
  <2>5. Saved'  BY <2>0 DEF Saved
  <2>6. Held'  BY <2>0, <2>3 DEF Held, Collecting, Assessing
  <2>7. Paid'
    <3> SUFFICES ASSUME NEW j \in Jobs, NEW k \in Kinds
                 PROVE  /\ inferences[j][k] <= 1 + unsaved'[j][k]
                        /\ artifact[j][k] = NoResult => inferences[j][k] <= unsaved'[j][k]
      BY <2>0 DEF Paid
    <3>1. inferences[j][k] \in Nat /\ unsaved[j][k] \in Nat  BY DEF TypeOK
    <3> QED  BY <2>2, <3>1 DEF Paid
  <2> QED  BY <2>4, <2>5, <2>6, <2>7
<1> QED  BY <1>1, <1>2

----------------------------------------------------------------------------
\* Every step of the worker and its world keeps the invariant.
LEMMA NextPassInv == ASSUME PassInv, [Next]_vars PROVE PassInv'
BY WorldStep, TickStep, EvidenceStep, UseSavedStep, InferStep, PutResultStep, PublishStep, IngestStep,
   FailureStep DEF Next, Step

\* The invariant holds in every reachable state.
THEOREM Invariance == Spec => []PassInv
<1>1. Init => PassInv  BY InitPassInv
<1>2. PassInv /\ [Next]_vars => PassInv'  BY NextPassInv
<1> QED  BY <1>1, <1>2, PTL DEF Spec

\* worker.py, for any targets, windows and failures: both assessments of a window judge the
\* one collection of its evidence, one review is applied however often it is ingested,
\* and an inference is only paid for again when its result was lost.
THEOREM PassesAreSoundHolds == Spec => []PassesAreSound
<1>1. PassInv => PassesAreSound
  <2> SUFFICES ASSUME PassInv PROVE PassesAreSound  OBVIOUS
  <2>1. EvidenceIsShared  BY DEF PassInv, Saved, EvidenceIsShared
  <2>2. OneReviewApplied  BY DEF PassInv, Saved, OneReviewApplied
  <2>3. PaidOnce  BY DEF PassInv, Paid, PaidOnce
  <2> QED  BY <2>1, <2>2, <2>3 DEF PassInv, PassesAreSound
<1> QED  BY <1>1, Invariance, PTL
----------------------------------------------------------------------------

States == {"none", "pending", "streaming", "closed", "uploaded", "Success", "Failed"}
Stored == [disk : Nat, whole : BOOLEAN]

Types ==
  /\ disk \in Nat /\ command \in [Commands -> States] /\ archive \in [Commands -> Nat]
  /\ versions \in Seq(Stored) /\ collector \in {"idle", "waiting", "read", "done"}
  /\ collector \in {"waiting", "read"} => current \in Commands

\* A copy whose upload ended has left a version.
Arrived == \A c \in Commands : command[c] \in {"uploaded", "Success"} => Len(versions) >= 1

\* The version that was taken, until it is read.
Taken == collector = "read" => version \in 1..Len(versions)

Recorded ==
  copy # NoCopy =>
    /\ copy.version \in 1..Len(versions)
    /\ versions[copy.version].whole
    /\ versions[copy.version].disk = copy.disk /\ copy.seen = copy.disk

CopyInv == Types /\ Arrived /\ Taken /\ Recorded /\ (collector = "done" /\ copy = NoCopy => gap)

LEMMA InitCopyInv == CopyInit => CopyInv
  BY EmptySeq DEF CopyInit, CopyInv, Types, Arrived, Taken, Recorded, States, NoCopy

\* An object's versions are only ever added to.
LEMMA OneMore ==
  ASSUME NEW s \in Seq(Stored), NEW v \in Stored
  PROVE  /\ Append(s, v) \in Seq(Stored) /\ Len(s) \in Nat /\ Len(Append(s, v)) = Len(s) + 1
         /\ \A i \in 1..Len(s) : Append(s, v)[i] = s[i]
  BY AppendProperties, LenProperties

\* A copy goes on and leaves the versions alone.
LEMMA SameVersions ==
  ASSUME CopyInv, command' \in [Commands -> States], archive' \in [Commands -> Nat], disk' \in Nat,
         UNCHANGED <<versions, collector, current, version, copy, gap>>,
         \A c \in Commands : command'[c] \in {"uploaded", "Success"} => command[c] \in {"uploaded", "Success"}
  PROVE  CopyInv'
  BY DEF CopyInv, Types, Arrived, Taken, Recorded, NoCopy

\* A copy's stream ends, or seems to: the object has one version more.
LEMMA NewVersion ==
  ASSUME CopyInv, NEW v \in Stored, versions' = Append(versions, v), command' \in [Commands -> States],
         UNCHANGED <<disk, archive, report, collector, current, version, copy, gap>>
  PROVE  CopyInv'
<1>1. /\ versions' \in Seq(Stored) /\ Len(versions) \in Nat /\ Len(versions') = Len(versions) + 1
      /\ \A i \in 1..Len(versions) : versions'[i] = versions[i]
  BY OneMore DEF CopyInv, Types
<1>2. Types' /\ Arrived'  BY <1>1 DEF CopyInv, Types, Arrived
<1>3. Taken'  BY <1>1 DEF CopyInv, Taken
<1>4. Recorded'
  <2>1. SUFFICES ASSUME copy # NoCopy
                 PROVE  /\ copy.version \in 1..Len(versions')
                        /\ versions'[copy.version].whole
                        /\ versions'[copy.version].disk = copy.disk /\ copy.seen = copy.disk
    BY DEF Recorded, NoCopy
  <2>2. /\ copy.version \in 1..Len(versions) /\ versions[copy.version].whole
        /\ versions[copy.version].disk = copy.disk /\ copy.seen = copy.disk
    BY <2>1 DEF CopyInv, Recorded
  <2>3. versions'[copy.version] = versions[copy.version]  BY <2>2, <1>1
  <2>4. copy.version \in 1..Len(versions')  BY <2>2, <1>1
  <2> QED  BY <2>2, <2>3, <2>4
<1> QED  BY <1>2, <1>3, <1>4 DEF CopyInv, NoCopy

\* The collector says that the copy is missing.
LEMMA NoCopyMade == CopyInv /\ GiveUp => CopyInv'
  BY DEF CopyInv, Types, Arrived, Taken, Recorded, GiveUp, NoCopy

LEMMA NextCopyInv == CopyInv /\ [CopyNext]_copyVars => CopyInv'
<1> SUFFICES ASSUME CopyInv, [CopyNext]_copyVars PROVE CopyInv'  OBVIOUS
<1>1. CASE Write  BY <1>1, SameVersions DEF Write, CopyInv, Types
<1>2. CASE SendCommand
  BY <1>2 DEF SendCommand, CopyInv, Types, Arrived, Taken, Recorded, NoCopy, States
<1>3. CASE HeadObject
  <2>1. CASE GiveUp  BY <2>1, NoCopyMade
  <2>2. CASE ~GiveUp
    <3>1. /\ collector = "waiting" /\ command[current] = "Success" /\ version' = Len(versions) /\ collector' = "read"
          /\ UNCHANGED <<disk, command, archive, report, versions, current, copy, gap>>
      BY <1>3, <2>2 DEF HeadObject
    <3>2. Len(versions) \in Nat /\ Len(versions) >= 1
      BY <3>1, LenProperties DEF CopyInv, Types, Arrived
    <3> QED  BY <3>1, <3>2 DEF CopyInv, Types, Arrived, Taken, Recorded, NoCopy
  <2> QED  BY <2>1, <2>2
<1>4. CASE Read
  <2>1. CASE GiveUp  BY <2>1, NoCopyMade
  <2>2. CASE ~GiveUp
    <3>1. /\ collector = "read" /\ Matches /\ collector' = "done"
          /\ copy' = [disk |-> report[current].disk, version |-> version, seen |-> versions[version].disk]
          /\ UNCHANGED <<disk, command, archive, report, versions, current, gap>>
      BY <1>4, <2>2 DEF Read
    <3>2. /\ copy'.version = version /\ copy'.disk = report[current].disk
          /\ copy'.seen = versions[version].disk
      BY <3>1
    <3>3. version \in 1..Len(versions) /\ Len(versions) \in Nat
      BY <3>1, LenProperties DEF CopyInv, Types, Taken
    <3>4. copy' # NoCopy  BY <3>2, <3>3 DEF NoCopy
    <3>5. Recorded'  BY <3>1, <3>2, <3>3 DEF Recorded, Matches
    <3>6. Types' /\ Arrived' /\ Taken'  BY <3>1 DEF CopyInv, Types, Arrived, Taken
    <3> QED  BY <3>4, <3>5, <3>6 DEF CopyInv, NoCopy
  <2> QED  BY <2>1, <2>2
<1>5. CASE Fails  BY <1>5, NoCopyMade DEF Fails
<1>6. CASE CrashCopying  BY <1>6 DEF CrashCopying, CopyInv, Types, Arrived, Taken, Recorded, NoCopy
<1>7. ASSUME NEW c \in Commands, Stream(c) \/ CloseStream(c) \/ Report(c) \/ Break(c) PROVE CopyInv'
  <2>1. /\ command' \in [Commands -> States] /\ archive' \in [Commands -> Nat] /\ disk' \in Nat
        /\ UNCHANGED <<versions, collector, current, version, copy, gap>>
        /\ \A d \in Commands : command'[d] \in {"uploaded", "Success"} => command[d] \in {"uploaded", "Success"}
    BY <1>7 DEF Stream, CloseStream, Report, Break, CopyInv, Types, States
  <2> QED  BY <2>1, SameVersions
<1>8. ASSUME NEW c \in Commands, Upload(c) \/ Cut(c) PROVE CopyInv'
  <2>1. /\ command' \in [Commands -> States]
        /\ UNCHANGED <<disk, archive, report, collector, current, version, copy, gap>>
        /\ \E v \in Stored : versions' = Append(versions, v)
    BY <1>8 DEF Upload, Cut, CopyInv, Types, States, Stored
  <2> QED  BY <2>1, NewVersion
<1>9. CASE UNCHANGED copyVars  BY <1>9, SameVersions DEF copyVars, CopyInv, Types
<1> QED  BY <1>1, <1>2, <1>3, <1>4, <1>5, <1>6, <1>7, <1>8, <1>9 DEF CopyNext

\* workspace_copy.py, collection.py: whatever copies of earlier attempts still arrive at
\* the same object, complete or cut short, the recorded version is a whole archive of
\* the files its digest is of, for any number of copies and changes of the workspace.
THEOREM CopiesAreVerifiedHolds == CopySpec => []CopiesAreVerified
<1>1. CopyInv => CopiesAreVerified  BY DEF CopyInv, Recorded, CopiesAreVerified
<1> QED  BY <1>1, InitCopyInv, NextCopyInv, PTL DEF CopySpec
----------------------------------------------------------------------------

SignInTypeOK ==
  /\ now \in Nat
  /\ cookie \in [Browsers -> 0..MaxLogins]
  /\ begun \in [Nonces -> Browsers \cup {"nobody"}]
  /\ logins \in [Nonces -> Nat]
  /\ posted \in [Posts -> {"new", "checked", "done", "denied"}]
  /\ read \in [Posts -> Nat] /\ \A p \in Posts : read[p] <= now
  /\ sessions \in [Posts -> [browser : Browsers \cup {"nobody"}, expires : Nat]]
  /\ made \in SUBSET Posts /\ acting \in SUBSET Posts /\ ended \in SUBSET Posts
  /\ due \in [Nonces -> Nat] /\ until \in [Posts -> Nat] /\ accepted \in [Posts -> Nat]

\* The row of a sign-in is there only after it was begun and until it is used, and
\* what made a session did so once.
UsedUp ==
  /\ \A n \in Nonces : begun[n] = "nobody" => logins[n] = 0
  /\ \A p \in Posts :
       /\ begun[p[1]] = "nobody" => posted[p] = "new"
       /\ p \in made => posted[p] = "done" /\ logins[p[1]] = 0
  /\ \A p, q \in made : p[1] = q[1] => p = q

\* A session is of a post that made one, and of the browser that began the sign-in.
Owned ==
  /\ acting \subseteq made /\ ended \subseteq made
  /\ \A p \in Posts : sessions[p] # Nobody =>
       sessions[p] = [browser |-> begun[p[1]], expires |-> until[p]] /\ p \in made \ ended

\* A request that is there expires when it was to, an answer that was used came before
\* that, and so do requests before the session's end.
Timely ==
  /\ \A n \in Nonces : logins[n] # 0 => logins[n] = due[n]
  /\ \A p \in made : read[p] < due[p[1]] /\ until[p] <= read[p] + SessionTime
  /\ \A p \in Posts : accepted[p] # 0 => p \in made /\ accepted[p] < until[p]

SignInInv == SignInTypeOK /\ UsedUp /\ Owned /\ Timely

\* No one has signed in at first.
LEMMA InitSignInInv == ASSUME SessionAssumption, SignInInit PROVE SignInInv
<1> USE DEF SignInInit, SessionAssumption
<1>1. SignInTypeOK  BY DEF SignInTypeOK, Nobody, Nonces, Posts, Answers
<1>2. UsedUp  BY DEF UsedUp, Posts
<1>3. Owned  BY DEF Owned
<1>4. Timely  BY DEF Timely
<1> QED  BY <1>1, <1>2, <1>3, <1>4 DEF SignInInv

\* Time passes and old rows are deleted: no row appears.
LEMMA ClockStep ==
  ASSUME SessionAssumption, SignInInv, Tick \/ Prune \/ UNCHANGED signInVars
  PROVE  SignInInv'
<1> USE DEF SignInInv, SessionAssumption
<1>1. CASE Tick
  <2>1. SignInTypeOK'  BY <1>1 DEF Tick, times, SignInTypeOK
  <2>2. UsedUp'  BY <1>1 DEF Tick, UsedUp
  <2>3. Owned' /\ Timely'  BY <1>1 DEF Tick, times, Owned, Timely
  <2> QED  BY <2>1, <2>2, <2>3
<1>2. CASE Prune
  <2>1. SignInTypeOK'
    <3>1. Nobody \in [browser : Browsers \cup {"nobody"}, expires : Nat]  BY DEF Nobody
    <3> QED  BY <1>2, <3>1 DEF Prune, times, SignInTypeOK
  <2>2. UsedUp'
    <3>1. \A n \in Nonces : logins[n] = 0 => logins'[n] = 0  BY <1>2 DEF Prune, SignInTypeOK
    <3>2. \A p \in Posts : p[1] \in Nonces  BY DEF Posts
    <3>3. UNCHANGED <<begun, posted, made>>  BY <1>2 DEF Prune
    <3> QED  BY <3>1, <3>2, <3>3 DEF UsedUp, SignInTypeOK
  <2>3. Owned'
    <3>1. \A p \in Posts : sessions'[p] # Nobody => sessions'[p] = sessions[p]
      BY <1>2 DEF Prune
    <3> QED  BY <1>2, <3>1 DEF Prune, times, Owned
  <2>4. Timely'
    <3>1. \A n \in Nonces : logins'[n] # 0 => logins'[n] = logins[n]  BY <1>2 DEF Prune
    <3> QED  BY <1>2, <3>1 DEF Prune, times, Timely
  <2> QED  BY <2>1, <2>2, <2>3, <2>4
<1>3. CASE UNCHANGED signInVars  BY <1>3 DEF signInVars, times, SignInTypeOK, UsedUp, Owned, Timely
<1> QED  BY <1>1, <1>2, <1>3

\* A sign-in begins, of which nothing was posted.
LEMMA LoginStep ==
  ASSUME SessionAssumption, SignInInv, NEW b \in Browsers, Login(b)
  PROVE  SignInInv'
<1> USE DEF SignInInv, SessionAssumption
<1>0. PICK n \in Nonces :
        /\ begun[n] = "nobody"
        /\ begun' = [begun EXCEPT ![n] = b] /\ cookie' = [cookie EXCEPT ![b] = n]
        /\ logins' = [logins EXCEPT ![n] = now + LoginTime]
        /\ due' = [due EXCEPT ![n] = now + LoginTime]
        /\ UNCHANGED <<now, posted, read, sessions, made, acting, ended, until, accepted>>
  BY DEF Login
<1>1. SignInTypeOK'  BY <1>0 DEF SignInTypeOK, Nonces
<1>2. \A p \in Posts : p[1] = n => p \notin made
  BY <1>0 DEF UsedUp
<1>3. UsedUp'  BY <1>0, <1>2 DEF UsedUp, SignInTypeOK, Posts
<1>4. Owned'
  <2>1. \A p \in made : begun'[p[1]] = begun[p[1]]  BY <1>0, <1>2 DEF SignInTypeOK
  <2> QED  BY <1>0, <2>1 DEF Owned
<1>5. Timely'  BY <1>0, <1>2 DEF Timely, SignInTypeOK
<1> QED  BY <1>1, <1>3, <1>4, <1>5

\* An answer is looked at, and may be turned down.
LEMMA CheckStep ==
  ASSUME SessionAssumption, SignInInv, NEW p \in Posts, Check(p) \/ Deny(p)
  PROVE  SignInInv'
<1> USE DEF SignInInv, SessionAssumption
<1>1. /\ posted[p] \in {"new", "checked"} /\ begun[p[1]] # "nobody"
      /\ \E x \in {"checked", "denied"} : posted' = [posted EXCEPT ![p] = x]
      /\ \E t \in {0, now} : read' = [read EXCEPT ![p] = t]
      /\ UNCHANGED <<now, cookie, begun, logins, sessions, made, acting, ended, due, until, accepted>>
  BY DEF Check, Deny, times, UsedUp, SignInTypeOK
<1>2. p \notin made  BY <1>1 DEF UsedUp
<1>3. SignInTypeOK'  BY <1>1 DEF SignInTypeOK
<1>4. UsedUp'  BY <1>1, <1>2 DEF UsedUp, SignInTypeOK
<1>5. Owned'  BY <1>1 DEF Owned
<1>6. Timely'
  <2>1. \A q \in made : read'[q] = read[q]  BY <1>1, <1>2 DEF SignInTypeOK
  <2> QED  BY <1>1, <2>1 DEF Timely
<1> QED  BY <1>3, <1>4, <1>5, <1>6

\* The row of a sign-in is used up by the first answer that finds it.
LEMMA FinishStep ==
  ASSUME SessionAssumption, SignInInv, NEW p \in Posts, Finish(p)
  PROVE  SignInInv'
<1> USE DEF SignInInv, SessionAssumption
<1>0. posted[p] = "checked" /\ p[1] \in Nonces /\ p \notin made /\ begun[p[1]] \in Browsers
  BY SMTT(30) DEF Finish, UsedUp, SignInTypeOK, Posts
<1>1. CASE Usable(p)
  <2>1. \A q \in made : q[1] # p[1]
    BY <1>1 DEF Usable, UsedUp, SignInTypeOK
  <2>2. PICK expires \in read[p] + 1 .. read[p] + SessionTime :
          /\ sessions' = [sessions EXCEPT ![p] = [browser |-> begun[p[1]], expires |-> expires]]
          /\ until' = [until EXCEPT ![p] = expires]
    BY <1>1 DEF Finish
  <2>3. /\ read' = read /\ posted' = [posted EXCEPT ![p] = "done"]
        /\ logins' = [logins EXCEPT ![p[1]] = 0] /\ made' = made \cup {p}
        /\ cookie' = [cookie EXCEPT ![begun[p[1]]] = 0]
        /\ UNCHANGED <<now, begun, acting, ended, due, accepted>>
    BY <1>1 DEF Finish
  <2>4. expires \in Nat /\ read[p] < expires /\ expires <= read[p] + SessionTime
    BY <2>2 DEF SignInTypeOK
  <2>5. SignInTypeOK'  BY <1>0, <2>2, <2>3, <2>4 DEF SignInTypeOK
  <2>6. UsedUp'  BY <1>0, <2>1, <2>3 DEF UsedUp, SignInTypeOK, Posts
  <2>7. Owned'
    <3>1. \A q \in Posts : q # p => until'[q] = until[q] /\ sessions'[q] = sessions[q]
      BY <2>2 DEF SignInTypeOK
    <3>2. until'[p] = expires /\ sessions'[p] = [browser |-> begun[p[1]], expires |-> expires]
      BY <2>2 DEF SignInTypeOK
    <3>3. p \in made' /\ p \notin ended'  BY <1>0, <2>3 DEF Owned
    <3> QED  BY <2>3, <3>1, <3>2, <3>3 DEF Owned
  <2>8. Timely'
    <3>1. logins[p[1]] # 0 /\ read[p] < logins[p[1]]  BY <1>0, <1>1 DEF Usable, SignInTypeOK
    <3>2. read[p] < due[p[1]]  BY <1>0, <3>1 DEF Timely
    <3>3. \A n \in Nonces : logins'[n] # 0 => logins'[n] = logins[n]  BY <2>3 DEF SignInTypeOK
    <3>4. \A q \in made : until'[q] = until[q]  BY <1>0, <2>2 DEF SignInTypeOK
    <3>5. until'[p] = expires  BY <2>2 DEF SignInTypeOK
    <3> QED  BY <2>3, <2>4, <3>2, <3>3, <3>4, <3>5 DEF Timely
  <2> QED  BY <2>5, <2>6, <2>7, <2>8
<1>2. CASE ~Usable(p)
  <2>1. /\ read' = [read EXCEPT ![p] = 0] /\ posted' = [posted EXCEPT ![p] = "denied"]
        /\ UNCHANGED <<now, cookie, begun, logins, sessions, made, acting, ended, due, until, accepted>>
    BY <1>2 DEF Finish
  <2>2. SignInTypeOK'  BY <2>1 DEF SignInTypeOK
  <2>3. UsedUp'  BY <1>0, <2>1 DEF UsedUp, SignInTypeOK
  <2>4. Owned'  BY <2>1 DEF Owned
  <2>5. Timely'
    <3>1. \A q \in made : read'[q] = read[q]  BY <1>0, <2>1 DEF SignInTypeOK
    <3> QED  BY <2>1, <3>1 DEF Timely
  <2> QED  BY <2>2, <2>3, <2>4, <2>5
<1> QED  BY <1>1, <1>2

\* Requests of operators, of which one may end the session.
LEMMA RequestStep ==
  ASSUME SessionAssumption, SignInInv, NEW p \in Posts, Ask(p) \/ Serve(p) \/ Logout(p)
  PROVE  SignInInv'
<1> USE DEF SignInInv, SessionAssumption
<1>0. UNCHANGED <<now, cookie, begun, logins, posted, read, made, due, until>>
  BY DEF Ask, Serve, Logout, times
<1>1. /\ acting' \subseteq acting \cup {p} /\ ended' \subseteq ended \cup {p} /\ p \in made
      /\ \/ sessions' = sessions /\ ended' = ended
         \/ sessions' = [sessions EXCEPT ![p] = Nobody] /\ ended' = ended \cup {p}
  BY DEF Ask, Serve, Logout, Live, Owned
<1>a. accepted' = accepted \/ (accepted' = [accepted EXCEPT ![p] = now] /\ now < until[p])
  <2>1. CASE Ask(p)
    <3>1. sessions[p] = [browser |-> begun[p[1]], expires |-> until[p]] /\ sessions[p].expires > now
      BY <2>1 DEF Ask, Live, Owned
    <3>2. until[p] \in Nat /\ now \in Nat  BY DEF SignInTypeOK
    <3> QED  BY <2>1, <3>1, <3>2 DEF Ask
  <2>2. CASE Serve(p)  BY <2>2 DEF Serve, times
  <2>3. CASE Logout(p)
    <3>1. UNCHANGED times  BY <2>3 DEF Logout
    <3> QED  BY <3>1 DEF times
  <2> QED  BY <2>1, <2>2, <2>3
<1>2. SignInTypeOK'
  <2>1. Nobody \in [browser : Browsers \cup {"nobody"}, expires : Nat]  BY DEF Nobody
  <2>2. accepted' \in [Posts -> Nat]  BY <1>a DEF SignInTypeOK
  <2> QED  BY <1>0, <1>1, <2>1, <2>2 DEF SignInTypeOK
<1>3. UsedUp'  BY <1>0 DEF UsedUp
<1>4. Owned'  BY <1>0, <1>1 DEF Owned, SignInTypeOK
<1>5. Timely'
  <2>1. \A q \in Posts : accepted'[q] # accepted[q] => q = p /\ accepted'[q] = now /\ now < until[q]
    BY <1>a DEF SignInTypeOK
  <2> QED  BY <1>0, <1>1, <2>1 DEF Timely
<1> QED  BY <1>2, <1>3, <1>4, <1>5

----------------------------------------------------------------------------
\* web_auth.py, store.py, for any browsers, answers posted twice, and expiry and pruning at
\* any time: a sign-in makes one session, of the browser that began it, for an answer that came
\* before its request expired; it stays over once it was logged out, and no request is accepted
\* for it when it has expired.
THEOREM SignInsMakeOneSessionHolds ==
  ASSUME SessionAssumption PROVE SignInSpec => []SignInsMakeOneSession
<1>1. SignInInit => SignInInv  BY InitSignInInv
<1>2. SignInInv /\ [SignInNext]_signInVars => SignInInv'
  BY ClockStep, LoginStep, CheckStep, FinishStep, RequestStep DEF SignInNext
<1>3. SignInInv => SignInsMakeOneSession
  BY DEF SignInInv, UsedUp, Owned, Timely, SignInsMakeOneSession
<1> QED  BY <1>1, <1>2, <1>3, PTL DEF SignInSpec

----------------------------------------------------------------------------
(* The notices in Slack *)

Messages == (Enrollments \cup {"status"}) \X Nat
Became(sort) == IF sort = "begun" THEN "begun" ELSE "closed"

NoticeTypes ==
  /\ clock \in Nat /\ latest \in [Workloads -> Nat] /\ cursor \in [Workloads -> Nat]
  /\ notice \in [Workloads -> {"none", "begun", "closed"}] /\ slack \in [Workloads -> Seq(Messages)]
  /\ DOMAIN fleet = Workloads /\ losses \in Nat
  /\ sent = Nothing \/ sent \in Workloads \X (Enrollments \cup {"status"}) \X Nat

\* What is told is not later than what was reported, and a pass knows the last report.
InTime ==
  \A w \in Workloads :
    /\ latest[w] <= clock
    /\ place = "tell" => fleet[w].latest = latest[w]
    /\ \A i \in Told(slack[w], "status") : slack[w][i][2] <= latest[w]

\* The message without acknowledgement is the last one.
Flying == sent # Nothing =>
  LET story == slack[sent[1]] IN story # <<>> /\ story[Len(story)] = <<sent[2], sent[3]>>

Story ==
  \A w \in Workloads :
    /\ notice[w] = "begun" => Told(slack[w], "begun") # {}
    /\ \A i \in Told(slack[w], "ended") : Before(slack[w], {"begun"}, i) # 0
    /\ \A i, j \in Told(slack[w], "status") : i < j => slack[w][i][2] <= slack[w][j][2]

\* The last message of the kinds was shown but the database does not know.
Ahead(story, told) ==
  LET last == Before(story, {"status"}, Len(story) + 1) IN last # 0 /\ story[last][2] > told
Apart(story, apprised) ==
  LET last == Before(story, Enrollments, Len(story) + 1) IN last # 0 /\ Became(story[last][1]) # apprised

InFlight(w, kinds) == sent # Nothing /\ sent[1] = w /\ sent[2] \in kinds
One(p) == IF p THEN 1 ELSE 0

\* Each message that was repeated, or may be, is paid for by a loss.
Lossy ==
  \A w \in Workloads :
    Cardinality(Repeats(slack[w])) + One(Ahead(slack[w], cursor[w]) /\ ~InFlight(w, {"status"}))
      + One(Apart(slack[w], notice[w]) /\ ~InFlight(w, Enrollments)) <= losses

NoticeInv == NoticeTypes /\ InTime /\ Flying /\ Story /\ Lossy

LEMMA OneIsLeast ==
  ASSUME NEW T, T \subseteq Nat, T # {}
  PROVE  \E k \in T : \A i \in T : k <= i
<1>1. PICK k \in T : \A i \in T : ~(<<i, k>> \in OpToRel(<, Nat))
  BY NatLessThanWellFounded, WFMin
<1>2. ASSUME NEW i \in T PROVE k <= i
  <2>1. i < k => <<i, k>> \in OpToRel(<, Nat)  BY DEF OpToRel
  <2>2. ~(i < k)  BY <1>1, <2>1
  <2> QED  BY <2>2
<1> QED  BY <1>2

LEMMA Greatest ==
  ASSUME NEW n \in Nat, NEW T, T \subseteq 1..n, T # {}
  PROVE  \E k \in T : \A i \in T : i <= k
<1> DEFINE Down == {n - i : i \in T}
<1>1. Down \subseteq Nat /\ Down # {}
  <2>1. \A i \in T : n - i \in Nat  OBVIOUS
  <2> QED  BY <2>1
<1>2. PICK d \in Down : \A e \in Down : d <= e
  <2> HIDE DEF Down
  <2> QED  BY <1>1, OneIsLeast
<1>3. PICK k \in T : d = n - k  OBVIOUS
<1>4. \A i \in T : i <= k
  <2>1. TAKE i \in T
  <2>2. n - k <= n - i  BY <1>2, <1>3
  <2>3. i \in Int /\ k \in Int  OBVIOUS
  <2> QED  BY <2>2, <2>3
<1> QED  BY <1>4

\* The last of some kinds before the i-th.
LEMMA BeforeIs ==
  ASSUME NEW s \in Seq(Messages), NEW kinds, NEW i \in 1..Len(s) + 1
  PROVE  LET b == Before(s, kinds, i)
         IN  \/ b = 0 /\ \A j \in 1..i - 1 : s[j][1] \notin kinds
             \/ b \in 1..i - 1 /\ s[b][1] \in kinds /\ \A j \in 1..i - 1 : s[j][1] \in kinds => j <= b
<1> DEFINE past == {j \in 1..(i - 1) : s[j][1] \in kinds}
<1>1. CASE past = {}  BY <1>1 DEF Before
<1>2. CASE past # {}
  <2>1. PICK b : b = CHOOSE j \in past : \A k \in past : k <= j  OBVIOUS
  <2>2. \E j \in past : \A k \in past : k <= j
    <3>1. past \subseteq 1..i - 1 /\ i - 1 \in Nat  OBVIOUS
    <3> HIDE DEF past
    <3> QED  BY <3>1, <1>2, Greatest
  <2>3. b \in past /\ \A k \in past : k <= b
    <3> HIDE DEF past
    <3> QED  BY <2>1, <2>2
  <2>4. Before(s, kinds, i) = b  BY <1>2, <2>1 DEF Before
  <2> QED  BY <2>3, <2>4
<1> QED  BY <1>1, <1>2

\* A message more.
LEMMA OneMoreMessage ==
  ASSUME NEW s \in Seq(Messages), NEW m \in Messages
  PROVE  LET t == Append(s, m)
         IN  /\ t \in Seq(Messages) /\ Len(t) = Len(s) + 1 /\ t[Len(s) + 1] = m
             /\ \A i \in 1..Len(s) : t[i] = s[i]
             /\ \A kinds : \A i \in 1..Len(s) + 1 : Before(t, kinds, i) = Before(s, kinds, i)
             /\ \A kinds : Before(t, kinds, Len(t) + 1) =
                             IF m[1] \in kinds THEN Len(t) ELSE Before(s, kinds, Len(s) + 1)
<1> DEFINE t == Append(s, m)
<1>1. t \in Seq(Messages) /\ Len(t) = Len(s) + 1 /\ t[Len(s) + 1] = m /\ \A i \in 1..Len(s) : t[i] = s[i]
  OBVIOUS
<1> HIDE DEF t
<1>2. \A kinds : \A i \in 1..Len(s) + 1 : Before(t, kinds, i) = Before(s, kinds, i)
  <2> TAKE kinds
  <2>1. TAKE i \in 1..Len(s) + 1
  <2>2. {j \in 1..(i - 1) : t[j][1] \in kinds} = {j \in 1..(i - 1) : s[j][1] \in kinds}
    <3>1. \A j \in 1..(i - 1) : t[j] = s[j]  BY <1>1
    <3> QED  BY <3>1
  <2>3. PICK past : past = {j \in 1..(i - 1) : s[j][1] \in kinds}  OBVIOUS
  <2>4. past = {j \in 1..(i - 1) : t[j][1] \in kinds}  BY <2>2, <2>3
  <2>5. Before(t, kinds, i) = IF past = {} THEN 0 ELSE CHOOSE j \in past : \A k \in past : k <= j  BY <2>4 DEF Before
  <2>6. Before(s, kinds, i) = IF past = {} THEN 0 ELSE CHOOSE j \in past : \A k \in past : k <= j  BY <2>3 DEF Before
  <2> QED  BY <2>5, <2>6
<1>3. \A kinds : Before(t, kinds, Len(t) + 1) =
                  IF m[1] \in kinds THEN Len(t) ELSE Before(s, kinds, Len(s) + 1)
  <2>1. TAKE kinds
  <2>2. CASE m[1] \in kinds
    <3>1. Len(t) \in 1..(Len(t) + 1) - 1 /\ t[Len(t)][1] \in kinds  BY <1>1, <2>2
    <3>2. Len(t) + 1 \in 1..Len(t) + 1  BY <1>1
    <3> QED  BY <1>1, <2>2, <3>1, <3>2, BeforeIs
  <2>3. CASE m[1] \notin kinds
    <3>1. {j \in 1..((Len(t) + 1) - 1) : t[j][1] \in kinds} = {j \in 1..((Len(s) + 1) - 1) : s[j][1] \in kinds}
      <4>1. \A j \in 1..Len(t) : t[j][1] \in kinds <=> j \in 1..Len(s) /\ s[j][1] \in kinds
        <5>1. TAKE j \in 1..Len(t)
        <5>2. j \in 1..Len(s) \/ j = Len(s) + 1  BY <1>1
        <5> QED  BY <5>2, <1>1, <2>3
      <4>2. (Len(t) + 1) - 1 = Len(t) /\ (Len(s) + 1) - 1 = Len(s) /\ 1..Len(s) \subseteq 1..Len(t)  BY <1>1
      <4> QED  BY <4>1, <4>2
    <3>2. PICK past : past = {j \in 1..((Len(s) + 1) - 1) : s[j][1] \in kinds}  OBVIOUS
    <3>3. past = {j \in 1..((Len(t) + 1) - 1) : t[j][1] \in kinds}  BY <3>1, <3>2
    <3>4. Before(t, kinds, Len(t) + 1) = IF past = {} THEN 0 ELSE CHOOSE j \in past : \A k \in past : k <= j
      BY <3>3 DEF Before
    <3>5. Before(s, kinds, Len(s) + 1) = IF past = {} THEN 0 ELSE CHOOSE j \in past : \A k \in past : k <= j
      BY <3>2 DEF Before
    <3> QED  BY <2>3, <3>4, <3>5
  <2> QED  BY <2>2, <2>3
<1> QED  BY <1>1, <1>2, <1>3 DEF t

\* A story's places.
LEMMA Places == ASSUME NEW s \in Seq(Messages) PROVE DOMAIN s = 1..Len(s) /\ Len(s) \in Nat
OBVIOUS

LEMMA FewRepeats == ASSUME NEW s \in Seq(Messages) PROVE IsFiniteSet(Repeats(s)) /\ Cardinality(Repeats(s)) \in Nat
<1>1. Repeats(s) \in SUBSET (1..Len(s))  BY DEF Repeats
<1>2. IsFiniteSet(1..Len(s))  BY FS_Interval
<1>3. IsFiniteSet(Repeats(s))  BY <1>1, <1>2, FS_Subset
<1> QED  BY <1>3, FS_CardinalityType

\* It is a repetition only if it is the last one of its kinds again.
LEMMA RepeatsGrow ==
  ASSUME NEW s \in Seq(Messages), NEW m \in Messages
  PROVE  LET last == Before(s, Alike(m[1]), Len(s) + 1)
         IN  Cardinality(Repeats(Append(s, m))) <=
               Cardinality(Repeats(s)) + One(last # 0 /\ s[last] = m)
<1> DEFINE t == Append(s, m)
           last == Before(s, Alike(m[1]), Len(s) + 1)
           again == last # 0 /\ s[last] = m
<1>1. /\ t \in Seq(Messages) /\ Len(t) = Len(s) + 1 /\ t[Len(s) + 1] = m
      /\ \A i \in 1..Len(s) : t[i] = s[i]
      /\ \A kinds : \A i \in 1..Len(s) + 1 : Before(t, kinds, i) = Before(s, kinds, i)
  BY OneMoreMessage
<1>2. \A kinds : \A i \in 1..Len(s) + 1 : Before(s, kinds, i) # 0 => Before(s, kinds, i) \in 1..Len(s)
  <2> TAKE kinds
  <2>1. TAKE i \in 1..Len(s) + 1
  <2>2. 1..i - 1 \subseteq 1..Len(s)  OBVIOUS
  <2> QED  BY <2>2, BeforeIs
<1> HIDE DEF t
<1>3. Repeats(t) \subseteq Repeats(s) \cup (IF again THEN {Len(t)} ELSE {})
  <2> SUFFICES ASSUME NEW i \in Repeats(t) PROVE i \in Repeats(s) \cup (IF again THEN {Len(t)} ELSE {})  OBVIOUS
  <2>2. /\ i \in 1..Len(t) /\ Before(t, Alike(t[i][1]), i) # 0
        /\ t[Before(t, Alike(t[i][1]), i)] = t[i]
    BY <1>1, Places DEF Repeats
  <2>3. CASE i \in 1..Len(s)
    <3>1. t[i] = s[i] /\ Before(t, Alike(t[i][1]), i) = Before(s, Alike(s[i][1]), i)  BY <1>1, <2>3
    <3>2. PICK j : j = Before(s, Alike(s[i][1]), i)  OBVIOUS
    <3>3. j # 0 /\ j \in 1..Len(s) /\ s[j] = s[i]  BY <1>1, <1>2, <2>2, <2>3, <3>1, <3>2
    <3> QED  BY <2>3, <3>2, <3>3, Places DEF Repeats
  <2>4. CASE i = Len(s) + 1
    <3>1. t[i] = m /\ Before(t, Alike(t[i][1]), i) = last  BY <1>1, <2>4
    <3>2. last \in 1..Len(s)
      <4>1. last # 0 /\ Len(s) + 1 \in 1..Len(s) + 1  BY <2>2, <3>1
      <4> QED  BY <4>1, <1>2
    <3>3. again  BY <1>1, <2>2, <3>1, <3>2
    <3> QED  BY <1>1, <2>4, <3>3
  <2> QED  BY <2>2, <2>3, <2>4, <1>1
<1>4. IsFiniteSet(Repeats(s)) /\ Cardinality(Repeats(s)) \in Nat /\ Cardinality(Repeats(t)) \in Nat
  BY <1>1, FewRepeats
<1> HIDE DEF again
<1>5. CASE again
  <2>1. /\ IsFiniteSet(Repeats(s) \cup {Len(t)})
        /\ Cardinality(Repeats(s) \cup {Len(t)}) <= Cardinality(Repeats(s)) + 1
    <3>1. /\ IsFiniteSet(Repeats(s) \cup {Len(t)})
          /\ Cardinality(Repeats(s) \cup {Len(t)}) =
               IF Len(t) \in Repeats(s) THEN Cardinality(Repeats(s)) ELSE Cardinality(Repeats(s)) + 1
      BY <1>4, FS_AddElement
    <3> QED  BY <3>1, <1>4
  <2>2. Repeats(t) \in SUBSET (Repeats(s) \cup {Len(t)})  BY <1>3, <1>5
  <2>3. Cardinality(Repeats(t)) <= Cardinality(Repeats(s) \cup {Len(t)})  BY <2>1, <2>2, FS_Subset
  <2>4. Cardinality(Repeats(s) \cup {Len(t)}) \in Nat  BY <2>1, FS_CardinalityType
  <2> QED  BY <1>4, <1>5, <2>1, <2>3, <2>4 DEF One, again, t
<1>6. CASE ~again
  <2>1. Repeats(t) \in SUBSET Repeats(s)  BY <1>3, <1>6
  <2>2. Cardinality(Repeats(t)) <= Cardinality(Repeats(s))  BY <1>4, <2>1, FS_Subset
  <2> QED  BY <1>4, <1>6, <2>2 DEF One, again, t
<1> QED  BY <1>5, <1>6

\* What is sent when the database does not know it costs nothing that was not owed.
LEMMA Costs ==
  ASSUME NEW s \in Seq(Messages), NEW m \in Messages, NEW c \in Nat, NEW apprised,
         m[1] = "status" => m[2] > c, m[1] \in Enrollments => Became(m[1]) # apprised
  PROVE  LET t == Append(s, m)
         IN  /\ m[1] = "status" =>
                  /\ Cardinality(Repeats(t)) <= Cardinality(Repeats(s)) + One(Ahead(s, c))
                  /\ Apart(t, apprised) = Apart(s, apprised)
             /\ m[1] \in Enrollments =>
                  /\ Cardinality(Repeats(t)) <= Cardinality(Repeats(s)) + One(Apart(s, apprised))
                  /\ Ahead(t, c) = Ahead(s, c)
<1> DEFINE t == Append(s, m)
<1>1. /\ t \in Seq(Messages) /\ Len(t) = Len(s) + 1
      /\ \A i \in 1..Len(s) : t[i] = s[i]
      /\ \A kinds : m[1] \notin kinds => Before(t, kinds, Len(t) + 1) = Before(s, kinds, Len(s) + 1)
  BY OneMoreMessage
<1>2. \A kinds : Before(s, kinds, Len(s) + 1) # 0 => Before(s, kinds, Len(s) + 1) \in 1..Len(s)
  <2>1. TAKE kinds
  <2>2. Len(s) + 1 \in 1..Len(s) + 1 /\ (Len(s) + 1) - 1 = Len(s)  OBVIOUS
  <2> QED  BY <2>2, BeforeIs
<1>3. Cardinality(Repeats(s)) \in Nat /\ Cardinality(Repeats(t)) \in Nat  BY <1>1, FewRepeats
<1>4. PICK last : last = Before(s, Alike(m[1]), Len(s) + 1)  OBVIOUS
<1>5. Cardinality(Repeats(t)) <= Cardinality(Repeats(s)) + One(last # 0 /\ s[last] = m)  BY <1>4, RepeatsGrow
<1> HIDE DEF t
<1>6. ASSUME m[1] = "status"
      PROVE  /\ Cardinality(Repeats(t)) <= Cardinality(Repeats(s)) + One(Ahead(s, c))
             /\ Apart(t, apprised) = Apart(s, apprised)
  <2>1. Alike(m[1]) = {"status"} /\ m[1] \notin Enrollments  BY <1>6 DEF Alike, Enrollments
  <2>2. last # 0 /\ s[last] = m => Ahead(s, c)  BY <1>4, <1>6, <2>1 DEF Ahead
  <2>3. Cardinality(Repeats(t)) <= Cardinality(Repeats(s)) + One(Ahead(s, c))
    BY <1>3, <1>5, <2>2 DEF One
  <2>4. PICK e : e = Before(s, Enrollments, Len(s) + 1)  OBVIOUS
  <2>5. Before(t, Enrollments, Len(t) + 1) = e /\ (e # 0 => t[e] = s[e])  BY <1>1, <1>2, <2>1, <2>4
  <2>6. Apart(t, apprised) = Apart(s, apprised)  BY <2>4, <2>5 DEF Apart
  <2> QED  BY <2>3, <2>6
<1>7. ASSUME m[1] \in Enrollments
      PROVE  /\ Cardinality(Repeats(t)) <= Cardinality(Repeats(s)) + One(Apart(s, apprised))
             /\ Ahead(t, c) = Ahead(s, c)
  <2>1. Alike(m[1]) = Enrollments /\ m[1] \notin {"status"}  BY <1>7 DEF Alike, Enrollments
  <2>2. last # 0 /\ s[last] = m => Apart(s, apprised)  BY <1>4, <1>7, <2>1 DEF Apart
  <2>3. Cardinality(Repeats(t)) <= Cardinality(Repeats(s)) + One(Apart(s, apprised))
    BY <1>3, <1>5, <2>2 DEF One
  <2>4. PICK e : e = Before(s, {"status"}, Len(s) + 1)  OBVIOUS
  <2>5. Before(t, {"status"}, Len(t) + 1) = e /\ (e # 0 => t[e] = s[e])  BY <1>1, <1>2, <2>1, <2>4
  <2>6. Ahead(t, c) = Ahead(s, c)  BY <2>4, <2>5 DEF Ahead
  <2> QED  BY <2>3, <2>6
<1> QED  BY <1>6, <1>7 DEF t

----------------------------------------------------------------------------
(* The steps *)

LEMMA NoticeFrames ==
  ASSUME NoticeInv
  PROVE  /\ UNCHANGED <<clock, latest, cursor, notice, slack, losses, sent>> /\ DOMAIN fleet' = Workloads
              => NoticeTypes'
         /\ UNCHANGED <<clock, latest, slack>>
            /\ (place' = "tell" => place = "tell" /\ fleet' = fleet) => InTime'
         /\ UNCHANGED <<slack, sent>> => Flying'
         /\ UNCHANGED <<slack, notice>> => Story'
         /\ UNCHANGED <<slack, cursor, notice, sent, losses>> => Lossy'
<1>1. UNCHANGED <<clock, latest, cursor, notice, slack, losses, sent>> /\ DOMAIN fleet' = Workloads => NoticeTypes'
  BY DEF NoticeInv, NoticeTypes
<1>2. UNCHANGED <<clock, latest, slack>> /\ (place' = "tell" => place = "tell" /\ fleet' = fleet) => InTime'
  BY DEF NoticeInv, InTime
<1>3. UNCHANGED <<slack, sent>> => Flying'  BY DEF NoticeInv, Flying
<1>4. UNCHANGED <<slack, notice>> => Story'  BY DEF NoticeInv, Story
<1>5. UNCHANGED <<slack, cursor, notice, sent, losses>> => Lossy'  BY DEF NoticeInv, Lossy, InFlight
<1> QED  BY <1>1, <1>2, <1>3, <1>4, <1>5

LEMMA InitNoticeInv == NoticeInit => NoticeInv
<1> SUFFICES ASSUME NoticeInit PROVE NoticeInv  OBVIOUS
<1>1. \A kinds : Before(<<>>, kinds, 1) = 0
  <2>1. TAKE kinds
  <2>2. {j \in 1..(1 - 1) : <<>>[j][1] \in kinds} = {}  OBVIOUS
  <2> QED  BY <2>2 DEF Before
<1>2. NoticeTypes  BY DEF NoticeInit, NoticeTypes
<1>3. InTime  BY DEF NoticeInit, InTime, Told
<1>4. Flying  BY DEF NoticeInit, Flying
<1>5. Story  BY DEF NoticeInit, Story, Told
<1>6. Lossy
  <2> SUFFICES ASSUME NEW w \in Workloads
               PROVE  Cardinality(Repeats(<<>>)) + One(Ahead(<<>>, 0) /\ ~InFlight(w, {"status"}))
                        + One(Apart(<<>>, "none") /\ ~InFlight(w, Enrollments)) <= 0
    BY DEF NoticeInit, Lossy
  <2>1. Repeats(<<>>) = {}  BY DEF Repeats
  <2>2. Cardinality({}) = 0  BY FS_EmptySet
  <2>3. ~Ahead(<<>>, 0) /\ ~Apart(<<>>, "none")  BY <1>1 DEF Ahead, Apart
  <2>4. PICK n : n = Cardinality(Repeats(<<>>))  OBVIOUS
  <2>5. n = 0  BY <2>1, <2>2, <2>4
  <2>6. /\ One(Ahead(<<>>, 0) /\ ~InFlight(w, {"status"})) = 0
        /\ One(Apart(<<>>, "none") /\ ~InFlight(w, Enrollments)) = 0
    BY <2>3 DEF One
  <2> QED  BY <2>4, <2>5, <2>6
<1> QED  BY <1>2, <1>3, <1>4, <1>5, <1>6 DEF NoticeInv

\* What a workload's message is, given what the pass read of it.
LEMMA MessageIs ==
  ASSUME NoticeInv, place = "tell", NEW w \in Workloads, Message(w) # Nothing
  PROVE  \E m \in Messages :
           /\ Message(w) = <<w, m[1], m[2]>>
           /\ \/ m[1] = "status" /\ m[2] = latest[w] /\ m[2] > cursor[w]
              \/ m[1] = "begun" /\ notice[w] # "begun"
              \/ m[1] = "ended" /\ notice[w] = "begun"
<1>1. CASE Ends(w)
  <2>1. Message(w) = <<w, "ended", 0>>  BY <1>1 DEF Message, Ends, Begins
  <2>2. <<"ended", 0>> \in Messages  BY DEF Messages, Enrollments
  <2> QED  BY <1>1, <2>1, <2>2 DEF Ends
<1>2. CASE ~Ends(w) /\ Begins(w)
  <2>1. Message(w) = <<w, "begun", 0>>  BY <1>2 DEF Message, Ends, Begins
  <2>2. <<"begun", 0>> \in Messages  BY DEF Messages, Enrollments
  <2> QED  BY <1>2, <2>1, <2>2 DEF Begins
<1>3. CASE ~Ends(w) /\ ~Begins(w) /\ Updates(w)
  <2>1. Message(w) = <<w, "status", fleet[w].latest>>  BY <1>3 DEF Message
  <2>2. fleet[w].latest = latest[w] /\ latest[w] \in Nat  BY DEF NoticeInv, NoticeTypes, InTime
  <2>3. <<"status", latest[w]>> \in Messages  BY <2>2 DEF Messages
  <2> QED  BY <1>3, <2>1, <2>2, <2>3 DEF Updates
<1>4. CASE ~Ends(w) /\ ~Begins(w) /\ ~Updates(w)  BY <1>4 DEF Message
<1> QED  BY <1>1, <1>2, <1>3, <1>4

\* A message is shown: the story goes on.
LEMMA ShowGoesOn ==
  ASSUME NoticeInv, place = "tell", NEW w \in Workloads, Message(w) # Nothing, Show(Message(w)),
         UNCHANGED <<clock, latest, cursor, notice, place, fleet>>
  PROVE  /\ slack' \in [Workloads -> Seq(Messages)] /\ InTime' /\ Story'
         /\ \E m \in Messages :
              /\ Message(w) = <<w, m[1], m[2]>>
              /\ slack' = [slack EXCEPT ![w] = Append(slack[w], m)]
              /\ m[1] = "status" => m[2] > cursor[w]
              /\ m[1] \in Enrollments => Became(m[1]) # notice[w]
<1>1. PICK m \in Messages :
        /\ Message(w) = <<w, m[1], m[2]>>
        /\ \/ m[1] = "status" /\ m[2] = latest[w] /\ m[2] > cursor[w]
           \/ m[1] = "begun" /\ notice[w] # "begun"
           \/ m[1] = "ended" /\ notice[w] = "begun"
  BY MessageIs
<1>2. PICK s : s = slack[w]  OBVIOUS
<1>3. PICK t : t = Append(s, m)  OBVIOUS
<1>4. m = <<m[1], m[2]>>  BY DEF Messages
<1>5. s \in Seq(Messages) /\ slack \in [Workloads -> Seq(Messages)]  BY <1>2 DEF NoticeInv, NoticeTypes
<1>6. slack' = [slack EXCEPT ![w] = t]
  <2>1. slack' = [slack EXCEPT ![w] = Append(@, <<m[1], m[2]>>)]  BY <1>1 DEF Show
  <2> QED  BY <2>1, <1>2, <1>3, <1>4
<1>7. /\ t \in Seq(Messages) /\ Len(t) = Len(s) + 1 /\ t[Len(s) + 1] = m
      /\ \A i \in 1..Len(s) : t[i] = s[i]
      /\ \A kinds : \A i \in 1..Len(s) + 1 : Before(t, kinds, i) = Before(s, kinds, i)
  BY <1>3, <1>5, OneMoreMessage
<1>8. slack' \in [Workloads -> Seq(Messages)]  BY <1>5, <1>6, <1>7
<1>9. \A v \in Workloads : v # w => slack'[v] = slack[v]  BY <1>5, <1>6
<1>10. slack'[w] = t  BY <1>5, <1>6
<1>11. \A sort : \A i \in Told(t, sort) :
         (i \in Told(s, sort) /\ t[i] = s[i]) \/ (i = Len(s) + 1 /\ m[1] = sort)
  <2>1. TAKE sort
  <2>2. TAKE i \in Told(t, sort)
  <2>3. i \in 1..Len(s) + 1 /\ t[i][1] = sort  BY <1>7 DEF Told
  <2>4. CASE i \in 1..Len(s)
    <3>1. t[i] = s[i]  BY <1>7, <2>4
    <3>2. i \in DOMAIN s  BY <1>5, <2>4, Places
    <3>3. s[i][1] = sort  BY <3>1, <2>3
    <3>4. i \in Told(s, sort)  BY <3>2, <3>3 DEF Told
    <3> QED  BY <3>1, <3>4
  <2>5. CASE i = Len(s) + 1  BY <2>3, <2>5, <1>7
  <2> QED  BY <2>3, <2>4, <2>5
<1>12. \A sort : Told(s, sort) \subseteq Told(t, sort) /\ Told(s, sort) \subseteq 1..Len(s)
  <2>1. DOMAIN s = 1..Len(s) /\ DOMAIN t = 1..Len(s) + 1 /\ Len(s) \in Nat  BY <1>5, <1>7, Places
  <2>2. 1..Len(s) \subseteq 1..Len(s) + 1  BY <2>1
  <2> QED  BY <2>1, <2>2, <1>7 DEF Told
<1>13. /\ \A i \in Told(s, "status") : s[i][2] <= latest[w]
       /\ \A i \in Told(s, "ended") : Before(s, {"begun"}, i) # 0
       /\ \A i, j \in Told(s, "status") : i < j => s[i][2] <= s[j][2]
       /\ notice[w] = "begun" => Told(s, "begun") # {}
       /\ latest[w] \in Nat
  BY <1>2 DEF NoticeInv, NoticeTypes, InTime, Story
<1>14. InTime'
  <2> SUFFICES ASSUME NEW v \in Workloads
               PROVE  /\ latest'[v] <= clock'
                      /\ place' = "tell" => fleet'[v].latest = latest'[v]
                      /\ \A i \in Told(slack'[v], "status") : slack'[v][i][2] <= latest'[v]
    BY DEF InTime
  <2>1. /\ latest'[v] <= clock'
        /\ place' = "tell" => fleet'[v].latest = latest'[v]
    BY DEF NoticeInv, InTime
  <2>2. CASE v = w
    <3>1. \A i \in Told(t, "status") : t[i][2] <= latest[w]  BY <1>1, <1>7, <1>11, <1>13
    <3> QED  BY <2>1, <2>2, <3>1, <1>10
  <2>3. CASE v # w  BY <2>1, <2>3, <1>9 DEF NoticeInv, InTime
  <2> QED  BY <2>2, <2>3
<1>15. Story'
  <2> SUFFICES ASSUME NEW v \in Workloads
               PROVE  /\ notice'[v] = "begun" => Told(slack'[v], "begun") # {}
                      /\ \A i \in Told(slack'[v], "ended") : Before(slack'[v], {"begun"}, i) # 0
                      /\ \A i, j \in Told(slack'[v], "status") : i < j => slack'[v][i][2] <= slack'[v][j][2]
    BY DEF Story
  <2>1. CASE v # w  BY <2>1, <1>9 DEF NoticeInv, Story
  <2>2. CASE v = w
    <3>1. notice'[w] = "begun" => Told(t, "begun") # {}  BY <1>12, <1>13
    <3>2. ASSUME NEW i \in Told(t, "ended") PROVE Before(t, {"begun"}, i) # 0
      <4>1. CASE i \in Told(s, "ended")
        <5>1. i \in 1..Len(s) + 1  BY <1>12, <1>5, <4>1
        <5> QED  BY <4>1, <5>1, <1>7, <1>13
      <4>2. CASE i = Len(s) + 1 /\ m[1] = "ended"
        <5>1. PICK j \in Told(s, "begun") : TRUE  BY <1>1, <1>13, <4>2
        <5>2. j \in 1..Len(s) /\ s[j][1] \in {"begun"}  BY <1>12, <5>1 DEF Told
        <5>3. i \in 1..Len(s) + 1 /\ i - 1 = Len(s)  BY <4>2, <1>5
        <5>4. Before(s, {"begun"}, i) # 0  BY <5>2, <5>3, <1>5, BeforeIs
        <5> QED  BY <5>3, <5>4, <1>7
      <4> QED  BY <4>1, <4>2, <1>11
    <3>3. ASSUME NEW i \in Told(t, "status"), NEW j \in Told(t, "status"), i < j PROVE t[i][2] <= t[j][2]
      <4>1. i \in 1..Len(s) + 1 /\ j \in 1..Len(s) + 1  BY <1>7 DEF Told
      <4>2. i \in 1..Len(s)  BY <4>1, <3>3, <1>5
      <4>3. i \in Told(s, "status") /\ t[i] = s[i]  BY <4>2, <1>5, <1>11
      <4>4. CASE j \in Told(s, "status") /\ t[j] = s[j]  BY <3>3, <4>3, <4>4, <1>13
      <4>5. CASE j = Len(s) + 1 /\ m[1] = "status"  BY <4>3, <4>5, <1>1, <1>7, <1>13
      <4> QED  BY <4>4, <4>5, <1>11
    <3> QED  BY <2>2, <3>1, <3>2, <3>3, <1>10
  <2> QED  BY <2>1, <2>2
<1>16. m[1] = "status" => m[2] > cursor[w]  BY <1>1
<1>17. m[1] \in Enrollments => Became(m[1]) # notice[w]
  BY <1>1 DEF Enrollments, Became
<1> QED  BY <1>1, <1>2, <1>3, <1>6, <1>8, <1>14, <1>15, <1>16, <1>17

\* The sums of Lossy are of numbers.
LEMMA Sums ==
  ASSUME NoticeInv, NEW w \in Workloads
  PROVE  /\ slack[w] \in Seq(Messages) /\ Cardinality(Repeats(slack[w])) \in Nat /\ losses \in Nat
         /\ cursor[w] \in Nat
BY FewRepeats DEF NoticeInv, NoticeTypes

LEMMA Ones == /\ \A p : One(p) \in {0, 1} /\ (p => One(p) = 1) /\ (~p => One(p) = 0)
BY DEF One

\* What is on its way is owed no more, even if it is the message of before.
LEMMA SendNoticeInv == ASSUME NoticeInv, NEW w \in Workloads, Send(w) PROVE NoticeInv'
<1>1. place = "tell" /\ sent = Nothing /\ Message(w) # Nothing /\ Show(Message(w)) /\ sent' = Message(w)
  BY DEF Send
<1>2. UNCHANGED <<clock, latest, cursor, notice, place, fleet, losses>>  BY DEF Send
<1>3. PICK m \in Messages :
        /\ Message(w) = <<w, m[1], m[2]>>
        /\ slack' = [slack EXCEPT ![w] = Append(slack[w], m)]
        /\ m[1] = "status" => m[2] > cursor[w]
        /\ m[1] \in Enrollments => Became(m[1]) # notice[w]
  BY <1>1, <1>2, ShowGoesOn
<1>4. slack' \in [Workloads -> Seq(Messages)] /\ InTime' /\ Story'  BY <1>1, <1>2, ShowGoesOn
<1>5. PICK t : t = Append(slack[w], m)  OBVIOUS
<1>6. slack'[w] = t /\ \A v \in Workloads : v # w => slack'[v] = slack[v]
  BY <1>3, <1>5 DEF NoticeInv, NoticeTypes
<1>7. m[1] \in Enrollments \cup {"status"} /\ m[2] \in Nat /\ m = <<m[1], m[2]>>  BY DEF Messages
<1>8. sent' = <<w, m[1], m[2]>> /\ sent' # Nothing  BY <1>1, <1>3
<1>9. NoticeTypes'  BY <1>2, <1>4, <1>7, <1>8 DEF NoticeInv, NoticeTypes
<1>10. Flying'
  <2>1. t # <<>> /\ t[Len(t)] = m  BY <1>5, OneMoreMessage, Sums
  <2> QED  BY <2>1, <1>6, <1>7, <1>8 DEF Flying
<1>11. Lossy'
  <2> SUFFICES ASSUME NEW v \in Workloads
               PROVE  Cardinality(Repeats(slack'[v])) + One(Ahead(slack'[v], cursor'[v]) /\ ~InFlight(v, {"status"})')
                        + One(Apart(slack'[v], notice'[v]) /\ ~InFlight(v, Enrollments)') <= losses'
    BY DEF Lossy
  <2>1. Cardinality(Repeats(slack[v])) + One(Ahead(slack[v], cursor[v])) + One(Apart(slack[v], notice[v])) <= losses
    <3>1. ~InFlight(v, {"status"}) /\ ~InFlight(v, Enrollments)  BY <1>1 DEF InFlight
    <3>2. PICK a : a = One(Ahead(slack[v], cursor[v]) /\ ~InFlight(v, {"status"}))  OBVIOUS
    <3>3. PICK b : b = One(Apart(slack[v], notice[v]) /\ ~InFlight(v, Enrollments))  OBVIOUS
    <3>4. Cardinality(Repeats(slack[v])) + a + b <= losses  BY <3>2, <3>3 DEF NoticeInv, Lossy
    <3>5. a = One(Ahead(slack[v], cursor[v])) /\ b = One(Apart(slack[v], notice[v]))
      BY <3>1, <3>2, <3>3 DEF One
    <3> QED  BY <3>4, <3>5
  <2>2. CASE v # w
    <3>1. ~InFlight(v, {"status"})' /\ ~InFlight(v, Enrollments)'  BY <2>2, <1>8 DEF InFlight
    <3>2. slack'[v] = slack[v] /\ cursor'[v] = cursor[v] /\ notice'[v] = notice[v] /\ losses' = losses
      BY <2>2, <1>2, <1>6
    <3>3. /\ One(Ahead(slack'[v], cursor'[v]) /\ ~InFlight(v, {"status"})') = One(Ahead(slack[v], cursor[v]))
          /\ One(Apart(slack'[v], notice'[v]) /\ ~InFlight(v, Enrollments)') = One(Apart(slack[v], notice[v]))
      BY <3>1, <3>2 DEF One
    <3> QED  BY <2>1, <3>2, <3>3
  <2>3. CASE v = w
    <3>1. slack'[v] = t /\ cursor'[v] = cursor[v] /\ notice'[v] = notice[v] /\ losses' = losses
      BY <2>3, <1>2, <1>6
    <3>2. /\ Cardinality(Repeats(t)) \in Nat /\ Cardinality(Repeats(slack[v])) \in Nat /\ losses \in Nat
      BY <1>5, <2>3, OneMoreMessage, FewRepeats, Sums
    <3>0. /\ m[1] = "status" =>
               /\ Cardinality(Repeats(t)) <= Cardinality(Repeats(slack[w])) + One(Ahead(slack[w], cursor[w]))
               /\ Apart(t, notice[w]) = Apart(slack[w], notice[w])
          /\ m[1] \in Enrollments =>
               /\ Cardinality(Repeats(t)) <= Cardinality(Repeats(slack[w])) + One(Apart(slack[w], notice[w]))
               /\ Ahead(t, cursor[w]) = Ahead(slack[w], cursor[w])
      BY <1>3, <1>5, Costs, Sums
    <3>3. CASE m[1] = "status"
      <4>1. /\ Cardinality(Repeats(t)) <= Cardinality(Repeats(slack[v])) + One(Ahead(slack[v], cursor[v]))
            /\ Apart(t, notice[v]) = Apart(slack[v], notice[v])
        BY <3>0, <2>3, <3>3
      <4>2. InFlight(v, {"status"})' /\ ~InFlight(v, Enrollments)'
        BY <1>8, <2>3, <3>3 DEF InFlight, Enrollments
      <4>3. /\ One(Ahead(slack'[v], cursor'[v]) /\ ~InFlight(v, {"status"})') = 0
            /\ One(Apart(slack'[v], notice'[v]) /\ ~InFlight(v, Enrollments)') = One(Apart(slack[v], notice[v]))
        BY <3>1, <4>1, <4>2 DEF One
      <4> QED  BY <2>1, <3>1, <3>2, <4>1, <4>3, Ones
    <3>4. CASE m[1] \in Enrollments
      <4>1. /\ Cardinality(Repeats(t)) <= Cardinality(Repeats(slack[v])) + One(Apart(slack[v], notice[v]))
            /\ Ahead(t, cursor[v]) = Ahead(slack[v], cursor[v])
        BY <3>0, <2>3, <3>4
      <4>2. ~InFlight(v, {"status"})' /\ InFlight(v, Enrollments)'
        BY <1>8, <2>3, <3>4 DEF InFlight, Enrollments
      <4>3. /\ One(Ahead(slack'[v], cursor'[v]) /\ ~InFlight(v, {"status"})') = One(Ahead(slack[v], cursor[v]))
            /\ One(Apart(slack'[v], notice'[v]) /\ ~InFlight(v, Enrollments)') = 0
        BY <3>1, <4>1, <4>2 DEF One
      <4> QED  BY <2>1, <3>1, <3>2, <4>1, <4>3, Ones
    <3> QED  BY <1>7, <3>3, <3>4
  <2> QED  BY <2>2, <2>3
<1> QED  BY <1>4, <1>9, <1>10, <1>11 DEF NoticeInv

\* A message whose answer is lost costs what it adds.
LEMMA SendFailsNoticeInv == ASSUME NoticeInv, NEW w \in Workloads, SendFails(w) PROVE NoticeInv'
<1>1. place = "tell" /\ sent = Nothing /\ sent' = Nothing /\ Message(w) # Nothing /\ losses' = losses + 1
  BY DEF SendFails
<1>2. UNCHANGED <<clock, latest, cursor, notice, place, fleet, sent>>  BY DEF SendFails
<1>3. Flying'  BY <1>1 DEF Flying
<1>4. \A v \in Workloads :
        Cardinality(Repeats(slack[v])) + One(Ahead(slack[v], cursor[v])) + One(Apart(slack[v], notice[v])) <= losses
  <2>1. TAKE v \in Workloads
  <2>2. ~InFlight(v, {"status"}) /\ ~InFlight(v, Enrollments)  BY <1>1 DEF InFlight
  <2>3. PICK a : a = One(Ahead(slack[v], cursor[v]) /\ ~InFlight(v, {"status"}))  OBVIOUS
  <2>4. PICK b : b = One(Apart(slack[v], notice[v]) /\ ~InFlight(v, Enrollments))  OBVIOUS
  <2>5. Cardinality(Repeats(slack[v])) + a + b <= losses  BY <2>3, <2>4 DEF NoticeInv, Lossy
  <2>6. a = One(Ahead(slack[v], cursor[v])) /\ b = One(Apart(slack[v], notice[v]))  BY <2>2, <2>3, <2>4 DEF One
  <2> QED  BY <2>5, <2>6
<1>5. \A v \in Workloads :
        /\ One(Ahead(slack'[v], cursor'[v]) /\ ~InFlight(v, {"status"})') = One(Ahead(slack'[v], cursor[v]))
        /\ One(Apart(slack'[v], notice'[v]) /\ ~InFlight(v, Enrollments)') = One(Apart(slack'[v], notice[v]))
  BY <1>1, <1>2 DEF InFlight, One
<1>6. ASSUME \A v \in Workloads :
               Cardinality(Repeats(slack'[v])) + One(Ahead(slack'[v], cursor[v])) + One(Apart(slack'[v], notice[v]))
                 <= losses + 1
      PROVE  Lossy'
  BY <1>1, <1>5, <1>6 DEF Lossy
<1>7. CASE UNCHANGED slack
  <2>1. NoticeTypes' /\ InTime' /\ Story'
    <3>1. losses' \in Nat  BY <1>1 DEF NoticeInv, NoticeTypes
    <3> QED  BY <3>1, <1>2, <1>7, NoticeFrames DEF NoticeInv, NoticeTypes
  <2>2. \A v \in Workloads :
          Cardinality(Repeats(slack'[v])) + One(Ahead(slack'[v], cursor[v])) + One(Apart(slack'[v], notice[v]))
            <= losses + 1
    <3>1. TAKE v \in Workloads
    <3>2. slack'[v] = slack[v]  BY <1>7
    <3> QED  BY <3>2, <1>4, Sums, Ones
  <2> QED  BY <1>3, <1>6, <2>1, <2>2 DEF NoticeInv
<1>8. CASE Show(Message(w))
  <2>1. PICK m \in Messages :
          /\ Message(w) = <<w, m[1], m[2]>>
          /\ slack' = [slack EXCEPT ![w] = Append(slack[w], m)]
          /\ m[1] = "status" => m[2] > cursor[w]
          /\ m[1] \in Enrollments => Became(m[1]) # notice[w]
    BY <1>1, <1>2, <1>8, ShowGoesOn
  <2>2. slack' \in [Workloads -> Seq(Messages)] /\ InTime' /\ Story'  BY <1>1, <1>2, <1>8, ShowGoesOn
  <2>3. PICK t : t = Append(slack[w], m)  OBVIOUS
  <2>4. slack'[w] = t /\ \A v \in Workloads : v # w => slack'[v] = slack[v]
    BY <2>1, <2>3 DEF NoticeInv, NoticeTypes
  <2>5. NoticeTypes'  BY <1>1, <1>2, <2>2 DEF NoticeInv, NoticeTypes
  <2>6. \A v \in Workloads :
          Cardinality(Repeats(slack'[v])) + One(Ahead(slack'[v], cursor[v])) + One(Apart(slack'[v], notice[v]))
            <= losses + 1
    <3>1. TAKE v \in Workloads
    <3>2. CASE v # w
      <4>1. slack'[v] = slack[v]  BY <2>4, <3>2
      <4> QED  BY <4>1, <1>4, Sums, Ones
    <3>3. CASE v = w
      <4>1. slack'[v] = t  BY <2>4, <3>3
      <4>2. Cardinality(Repeats(t)) \in Nat /\ Cardinality(Repeats(slack[v])) \in Nat /\ losses \in Nat
        BY <2>3, <3>3, OneMoreMessage, FewRepeats, Sums
      <4>0. /\ m[1] = "status" =>
                 /\ Cardinality(Repeats(t)) <= Cardinality(Repeats(slack[w])) + One(Ahead(slack[w], cursor[w]))
                 /\ Apart(t, notice[w]) = Apart(slack[w], notice[w])
            /\ m[1] \in Enrollments =>
                 /\ Cardinality(Repeats(t)) <= Cardinality(Repeats(slack[w])) + One(Apart(slack[w], notice[w]))
                 /\ Ahead(t, cursor[w]) = Ahead(slack[w], cursor[w])
        BY <2>1, <2>3, Costs, Sums
      <4>3. CASE m[1] = "status"
        <5>1. /\ Cardinality(Repeats(t)) <= Cardinality(Repeats(slack[v])) + One(Ahead(slack[v], cursor[v]))
              /\ Apart(t, notice[v]) = Apart(slack[v], notice[v])
          BY <4>0, <3>3, <4>3
        <5>2. One(Apart(t, notice[v])) = One(Apart(slack[v], notice[v]))  BY <5>1
        <5>3. One(Ahead(t, cursor[v])) <= 1  BY Ones
        <5> QED  BY <1>4, <4>1, <4>2, <5>1, <5>2, <5>3, Ones
      <4>4. CASE m[1] \in Enrollments
        <5>1. /\ Cardinality(Repeats(t)) <= Cardinality(Repeats(slack[v])) + One(Apart(slack[v], notice[v]))
              /\ Ahead(t, cursor[v]) = Ahead(slack[v], cursor[v])
          BY <4>0, <3>3, <4>4
        <5>2. One(Ahead(t, cursor[v])) = One(Ahead(slack[v], cursor[v]))  BY <5>1
        <5>3. One(Apart(t, notice[v])) <= 1  BY Ones
        <5> QED  BY <1>4, <4>1, <4>2, <5>1, <5>2, <5>3, Ones
      <4> QED  BY <4>3, <4>4 DEF Messages
    <3> QED  BY <3>2, <3>3
  <2> QED  BY <1>3, <1>6, <2>2, <2>5, <2>6 DEF NoticeInv
<1> QED  BY <1>7, <1>8 DEF SendFails

\* What is acknowledged is the last of its kinds, and the database knows.
LEMMA AcknowledgeNoticeInv == ASSUME NoticeInv, Acknowledge PROVE NoticeInv'
<1>1. sent # Nothing /\ sent' = Nothing /\ UNCHANGED <<clock, latest, slack, place, fleet, losses>>  BY DEF Acknowledge
<1>2. sent \in Workloads \X (Enrollments \cup {"status"}) \X Nat  BY <1>1 DEF NoticeInv, NoticeTypes
<1>3. PICK w \in Workloads : w = sent[1]  BY <1>2
<1>4. PICK m \in Messages : m = <<sent[2], sent[3]>>  BY <1>2 DEF Messages
<1>5. PICK s : s = slack[w]  OBVIOUS
<1>6. s \in Seq(Messages) /\ s # <<>> /\ s[Len(s)] = m
  BY <1>1, <1>3, <1>4, <1>5 DEF NoticeInv, NoticeTypes, Flying
<1>7. m[1] = sent[2] /\ m[2] = sent[3] /\ m[2] \in Nat /\ m[1] \in Enrollments \cup {"status"}  BY <1>2, <1>4
<1>8. /\ notice' = [notice EXCEPT ![w] = IF m[1] \in Enrollments THEN Became(m[1]) ELSE notice[w]]
      /\ cursor' = [cursor EXCEPT ![w] = IF m[1] = "status" THEN m[2] ELSE cursor[w]]
  BY <1>3, <1>7 DEF Acknowledge, Became, Enrollments
<1>9. /\ notice' \in [Workloads -> {"none", "begun", "closed"}] /\ cursor' \in [Workloads -> Nat]
      /\ \A v \in Workloads : v # w => notice'[v] = notice[v] /\ cursor'[v] = cursor[v]
      /\ notice'[w] = IF m[1] \in Enrollments THEN Became(m[1]) ELSE notice[w]
      /\ cursor'[w] = IF m[1] = "status" THEN m[2] ELSE cursor[w]
  BY <1>7, <1>8 DEF NoticeInv, NoticeTypes, Became
<1>10. NoticeTypes'  BY <1>1, <1>9 DEF NoticeInv, NoticeTypes
<1>11. InTime'  BY <1>1, NoticeFrames
<1>12. Flying'  BY <1>1 DEF Flying
<1>13. Story'
  <2> SUFFICES ASSUME NEW v \in Workloads, notice'[v] = "begun" PROVE Told(slack[v], "begun") # {}
    BY <1>1 DEF NoticeInv, Story
  <2>1. CASE v = w /\ m[1] = "begun"
    <3>1. Len(s) \in DOMAIN s /\ s[Len(s)][1] = "begun"  BY <1>6, <2>1
    <3> QED  BY <2>1, <3>1, <1>5 DEF Told
  <2>2. CASE v # w  BY <2>2, <1>9 DEF NoticeInv, Story
  <2>3. CASE v = w /\ m[1] # "begun"
    <3>1. notice[v] = "begun"  BY <2>3, <1>9 DEF Became
    <3> QED  BY <3>1 DEF NoticeInv, Story
  <2> QED  BY <2>1, <2>2, <2>3
<1>14. \A kinds : m[1] \in kinds => Before(s, kinds, Len(s) + 1) = Len(s)
  <2>1. TAKE kinds
  <2>2. HAVE m[1] \in kinds
  <2>3. Len(s) \in 1..Len(s) /\ Len(s) + 1 \in 1..Len(s) + 1 /\ (Len(s) + 1) - 1 = Len(s)  BY <1>6
  <2> QED  BY <2>2, <2>3, <1>6, BeforeIs
<1>15. Lossy'
  <2> SUFFICES ASSUME NEW v \in Workloads
               PROVE  Cardinality(Repeats(slack[v])) + One(Ahead(slack[v], cursor'[v]) /\ ~InFlight(v, {"status"})')
                        + One(Apart(slack[v], notice'[v]) /\ ~InFlight(v, Enrollments)') <= losses
    BY <1>1 DEF Lossy
  <2>1. ~InFlight(v, {"status"})' /\ ~InFlight(v, Enrollments)'  BY <1>1 DEF InFlight
  <2>2. PICK a : a = One(Ahead(slack[v], cursor[v]) /\ ~InFlight(v, {"status"}))  OBVIOUS
  <2>3. PICK b : b = One(Apart(slack[v], notice[v]) /\ ~InFlight(v, Enrollments))  OBVIOUS
  <2>4. Cardinality(Repeats(slack[v])) + a + b <= losses /\ a \in {0, 1} /\ b \in {0, 1}
    BY <2>2, <2>3 DEF NoticeInv, Lossy, One
  <2>5. One(Ahead(slack[v], cursor'[v]) /\ ~InFlight(v, {"status"})') <= a
    <3>1. CASE Ahead(slack[v], cursor'[v])
      <4>1. ~(v = w /\ m[1] = "status")
        <5> SUFFICES ASSUME v = w, m[1] = "status" PROVE FALSE  OBVIOUS
        <5>1. Before(s, {"status"}, Len(s) + 1) = Len(s)  BY <1>14
        <5>2. cursor'[v] = m[2]  BY <1>9
        <5>3. m[2] > m[2]  BY <3>1, <5>1, <5>2, <1>5, <1>6 DEF Ahead
        <5> QED  BY <5>3, <1>7
      <4>2. cursor'[v] = cursor[v]  BY <4>1, <1>9
      <4>3. ~InFlight(v, {"status"})  BY <4>1, <1>3, <1>7 DEF InFlight
      <4>4. a = 1  BY <2>2, <3>1, <4>2, <4>3 DEF One
      <4> QED  BY <4>4 DEF One
    <3>2. CASE ~Ahead(slack[v], cursor'[v])  BY <3>2, <2>4 DEF One
    <3> QED  BY <3>1, <3>2
  <2>6. One(Apart(slack[v], notice'[v]) /\ ~InFlight(v, Enrollments)') <= b
    <3>1. CASE Apart(slack[v], notice'[v])
      <4>1. ~(v = w /\ m[1] \in Enrollments)
        <5> SUFFICES ASSUME v = w, m[1] \in Enrollments PROVE FALSE  OBVIOUS
        <5>1. Before(s, Enrollments, Len(s) + 1) = Len(s)  BY <1>14
        <5>2. notice'[v] = Became(m[1])  BY <1>9
        <5> QED  BY <3>1, <5>1, <5>2, <1>5, <1>6 DEF Apart
      <4>2. notice'[v] = notice[v]  BY <4>1, <1>9
      <4>3. ~InFlight(v, Enrollments)  BY <4>1, <1>3, <1>7 DEF InFlight
      <4>4. b = 1  BY <2>3, <3>1, <4>2, <4>3 DEF One
      <4> QED  BY <4>4 DEF One
    <3>2. CASE ~Apart(slack[v], notice'[v])  BY <3>2, <2>4 DEF One
    <3> QED  BY <3>1, <3>2
  <2>7. PICK x : x = One(Ahead(slack[v], cursor'[v]) /\ ~InFlight(v, {"status"})')  OBVIOUS
  <2>8. PICK y : y = One(Apart(slack[v], notice'[v]) /\ ~InFlight(v, Enrollments)')  OBVIOUS
  <2>9. x \in {0, 1} /\ y \in {0, 1} /\ x <= a /\ y <= b  BY <2>5, <2>6, <2>7, <2>8, Ones
  <2>10. Cardinality(Repeats(slack[v])) + x + y <= losses  BY <2>4, <2>9, Sums
  <2> QED  BY <2>7, <2>8, <2>10
<1> QED  BY <1>10, <1>11, <1>12, <1>13, <1>15 DEF NoticeInv

\* A death costs one message at most, the one on its way.
LEMMA WorkerDiesNoticeInv == ASSUME NoticeInv, WorkerDies PROVE NoticeInv'
<1>1. /\ UNCHANGED <<clock, latest, cursor, notice, slack>> /\ place' = "idle" /\ sent' = Nothing
      /\ losses' = losses + 1 /\ DOMAIN fleet' = Workloads
  BY DEF WorkerDies
<1>2. NoticeTypes'  BY <1>1 DEF NoticeInv, NoticeTypes
<1>3. InTime' /\ Story'  BY <1>1, NoticeFrames
<1>4. Flying'  BY <1>1 DEF Flying
<1>5. Lossy'
  <2> SUFFICES ASSUME NEW v \in Workloads
               PROVE  Cardinality(Repeats(slack[v])) + One(Ahead(slack[v], cursor[v]) /\ ~InFlight(v, {"status"})')
                        + One(Apart(slack[v], notice[v]) /\ ~InFlight(v, Enrollments)') <= losses + 1
    BY <1>1 DEF Lossy
  <2>1. PICK a : a = One(Ahead(slack[v], cursor[v]) /\ ~InFlight(v, {"status"}))  OBVIOUS
  <2>2. PICK b : b = One(Apart(slack[v], notice[v]) /\ ~InFlight(v, Enrollments))  OBVIOUS
  <2>3. Cardinality(Repeats(slack[v])) + a + b <= losses /\ a \in {0, 1} /\ b \in {0, 1}
    BY <2>1, <2>2 DEF NoticeInv, Lossy, One
  <2>4. PICK x : x = One(Ahead(slack[v], cursor[v]) /\ ~InFlight(v, {"status"})')  OBVIOUS
  <2>5. PICK y : y = One(Apart(slack[v], notice[v]) /\ ~InFlight(v, Enrollments)')  OBVIOUS
  <2>6. x \in {0, 1} /\ y \in {0, 1}  BY <2>4, <2>5, Ones
  <2>7. ~InFlight(v, {"status"}) => x <= a  BY <2>1, <2>3, <2>4, <2>6 DEF One
  <2>8. ~InFlight(v, Enrollments) => y <= b  BY <2>2, <2>3, <2>5, <2>6 DEF One
  <2>9. ~InFlight(v, {"status"}) \/ ~InFlight(v, Enrollments)  BY DEF InFlight, Enrollments
  <2>10. x <= a \/ y <= b  BY <2>7, <2>8, <2>9
  <2>11. Cardinality(Repeats(slack[v])) + x + y <= losses + 1  BY <2>3, <2>6, <2>10, Sums
  <2> QED  BY <2>4, <2>5, <2>11
<1> QED  BY <1>2, <1>3, <1>4, <1>5 DEF NoticeInv

LEMMA AssessNoticeInv == ASSUME NoticeInv, NEW w \in Workloads, Assess(w) PROVE NoticeInv'
<1>1. UNCHANGED <<clock, cursor, notice, slack, place, fleet, losses, sent>> /\ place = "assess"  BY DEF Assess
<1>2. latest' = [latest EXCEPT ![w] = clock] \/ latest' = latest
  <2>1. PICK kinds \in SUBSET Reports, completed \in BOOLEAN :
          latest' = [latest EXCEPT ![w] = IF completed /\ "status" \in kinds THEN clock ELSE @]
    BY DEF Assess
  <2> QED  BY <2>1 DEF NoticeInv, NoticeTypes
<1>3. \A v \in Workloads : latest'[v] \in Nat /\ latest[v] <= latest'[v] /\ latest'[v] <= clock
  <2>1. TAKE v \in Workloads
  <2>2. latest[v] \in Nat /\ latest[v] <= clock /\ clock \in Nat  BY DEF NoticeInv, NoticeTypes, InTime
  <2>3. latest'[v] = latest[v] \/ latest'[v] = clock  BY <1>2 DEF NoticeInv, NoticeTypes
  <2> QED  BY <2>2, <2>3
<1>4. NoticeTypes'  BY <1>1, <1>2 DEF NoticeInv, NoticeTypes
<1>5. InTime'
  <2> SUFFICES ASSUME NEW v \in Workloads, NEW i \in Told(slack[v], "status") PROVE slack[v][i][2] <= latest'[v]
    BY <1>1, <1>3 DEF InTime
  <2>1. slack[v][i] \in Messages
    <3>1. slack[v] \in Seq(Messages)  BY Sums
    <3>2. i \in DOMAIN slack[v]  BY DEF Told
    <3> QED  BY <3>1, <3>2
  <2>2. slack[v][i][2] \in Nat  BY <2>1 DEF Messages
  <2>3. slack[v][i][2] <= latest[v] /\ latest[v] \in Nat  BY DEF NoticeInv, NoticeTypes, InTime
  <2> QED  BY <2>2, <2>3, <1>3
<1> QED  BY <1>1, <1>4, <1>5, NoticeFrames DEF NoticeInv

LEMMA NextNoticeInv == NoticeInv /\ [NoticeNext]_noticeVars => NoticeInv'
<1> SUFFICES ASSUME NoticeInv, [NoticeNext]_noticeVars PROVE NoticeInv'  OBVIOUS
<1>0. DOMAIN fleet = Workloads  BY DEF NoticeInv, NoticeTypes
<1>1. CASE WindowEnds
  <2>1. UNCHANGED <<latest, cursor, notice, slack, place, fleet, losses, sent>> /\ clock' = clock + 1
    BY <1>1 DEF WindowEnds
  <2>2. NoticeTypes'  BY <2>1 DEF NoticeInv, NoticeTypes
  <2>3. InTime'  BY <2>1 DEF NoticeInv, NoticeTypes, InTime
  <2> QED  BY <2>1, <2>2, <2>3, NoticeFrames DEF NoticeInv
<1>2. ASSUME NEW w \in Workloads, MoveInstance(w) PROVE NoticeInv'
  <2>1. UNCHANGED <<clock, latest, cursor, notice, slack, place, fleet, losses, sent>>  BY <1>2 DEF MoveInstance
  <2> QED  BY <2>1, <1>0, NoticeFrames DEF NoticeInv
<1>3. CASE Sync
  <2>1. UNCHANGED <<clock, latest, cursor, notice, slack, fleet, losses, sent>> /\ place' = "assess"  BY <1>3 DEF Sync
  <2> QED  BY <2>1, <1>0, NoticeFrames DEF NoticeInv
<1>4. CASE ReadFleet
  <2>1. /\ UNCHANGED <<clock, latest, cursor, notice, slack, losses, sent>>
        /\ fleet' = [w \in Workloads |-> [state |-> row[w], tried |-> tried[w], latest |-> latest[w]]]
    BY <1>4 DEF ReadFleet
  <2>2. InTime'  BY <2>1 DEF NoticeInv, InTime
  <2> QED  BY <2>1, <2>2, NoticeFrames DEF NoticeInv
<1>5. CASE Pass
  <2>1. UNCHANGED <<clock, latest, cursor, notice, slack, place, fleet, losses, sent>>  BY <1>5 DEF Pass
  <2> QED  BY <2>1, <1>0, NoticeFrames DEF NoticeInv
<1>6. CASE EndTelling
  <2>1. /\ UNCHANGED <<clock, latest, cursor, notice, slack, losses, sent>> /\ place' = "idle"
        /\ DOMAIN fleet' = Workloads
    BY <1>6 DEF EndTelling
  <2> QED  BY <2>1, NoticeFrames DEF NoticeInv
<1>7. CASE UNCHANGED noticeVars
  <2>1. UNCHANGED <<clock, latest, cursor, notice, slack, place, fleet, losses, sent>>  BY <1>7 DEF noticeVars
  <2> QED  BY <2>1, <1>0, NoticeFrames DEF NoticeInv
<1> QED
  BY <1>1, <1>2, <1>3, <1>4, <1>5, <1>6, <1>7, AssessNoticeInv, SendNoticeInv, SendFailsNoticeInv,
     AcknowledgeNoticeInv, WorkerDiesNoticeInv DEF NoticeNext, Worker

\* fleet.py, for any workloads, windows, changes and failures: whatever is lost between Slack
\* and the database, each workload's messages tell a story, and a message is told twice only
\* for an acknowledgement that was lost.
THEOREM NoticesTellAStoryHolds == NoticeSpec => []NoticesTellAStory
<1>1. NoticeInv => NoticesTellAStory
  <2> SUFFICES ASSUME NoticeInv, NEW w \in Workloads
               PROVE  Cardinality(Repeats(slack[w])) <= losses
    BY DEF NoticeInv, Story, NoticesTellAStory
  <2>1. PICK a : a = One(Ahead(slack[w], cursor[w]) /\ ~InFlight(w, {"status"}))  OBVIOUS
  <2>2. PICK b : b = One(Apart(slack[w], notice[w]) /\ ~InFlight(w, Enrollments))  OBVIOUS
  <2>3. Cardinality(Repeats(slack[w])) + a + b <= losses  BY <2>1, <2>2 DEF NoticeInv, Lossy
  <2> QED  BY <2>1, <2>2, <2>3, Ones, Sums
<1> QED  BY <1>1, InitNoticeInv, NextNoticeInv, PTL DEF NoticeSpec

----------------------------------------------------------------------------
(* Assessments: what a reviewer is of, what is left out, what is paid *)

Collected ==
  /\ input \in Collections \cup {NoWindow}
  /\ input.telemetry \subseteq sources /\ sources \subseteq input.files \cup input.telemetry
  /\ view \subseteq sources

\* Whoever was chosen is of another family than any model of the view, stand-ins included.
OfAnother == \A k \in Scopes : reviewer[k] \notin Families(Evidence)

\* Each call is reserved before it is made, and at most one is reserved and not yet made.
Underway(k) == IF calling = k THEN 1 ELSE 0
Paying == \A k \in Scopes : called[k] + Underway(k) <= reserved[k] /\ reserved[k] <= Limit

\* A report that tells of no omission sweeps all chunks of a view of all the evidence.
Sweeping ==
  doing \in {"sweep", "summary"} =>
    /\ Packing(starts)
    /\ gaps \/ ~(WorkspaceGap \/ ViewGap \/ Cardinality(starts) > MaxChunks)
    /\ \A p \in Pieces : ChunkOf(p) \in 1..(chunk - 1) => p \in swept
    /\ doing = "summary" => ~(chunk - 1 < Chunks)

AssessInv ==
  /\ {reserved, called} \subseteq [Scopes -> Nat] /\ calling \in Scopes \cup {NoModel}
  /\ DOMAIN reviewer = Scopes /\ chunk \in Nat \ {0} /\ gaps \in BOOLEAN
  /\ Collected /\ OfAnother /\ Paying /\ Sweeping

\* The sources of a window, and so those that were collected of it.
LEMMA WindowSources ==
  ASSUME Collected
  PROVE  /\ IsFiniteSet(input.files) /\ IsFiniteSet(input.telemetry)
         /\ \A s \in input.files \cup input.telemetry : s.place \in Nat /\ s.size \in Nat \ {0}
<1>1. CASE input = NoWindow
  <2>1. input.files = {} /\ input.telemetry = {}  BY <1>1 DEF NoWindow
  <2> QED  BY <2>1, FS_EmptySet
<1>2. CASE input \in Collections  BY <1>2, ViewAssumption
<1> QED  BY <1>1, <1>2 DEF Collected

\* There is a first of any of them.
LEMMA FirstSource ==
  ASSUME Collected, NEW S, S \subseteq sources, S # {}
  PROVE  \E s \in S : \A t \in S : ~(t.place < s.place)
<1> DEFINE places == {s.place : s \in S}
<1>1. \A s \in S : s.place \in Nat  BY WindowSources DEF Collected
<1>2. places \subseteq Nat /\ places # {}  BY <1>1
<1>3. PICK k \in places : \A i \in places : k <= i  BY <1>2, OneIsLeast
<1>4. PICK s \in S : s.place = k  BY <1>3
<1>5. \A t \in S : ~(t.place < s.place)  BY <1>1, <1>3, <1>4
<1> QED  BY <1>5

\* What does not fit the view leaves the name of its model there.
LEMMA ModelsAreKnown ==
  ASSUME Collected
  PROVE  Families(sources) \subseteq Families(Evidence)
<1> SUFFICES ASSUME NEW m \in Families(sources) PROVE m \in Families(Evidence)  OBVIOUS
<1>1. m # NoModel  BY DEF Families
<1> DEFINE S == {s \in sources : s.model = m}
<1>2. S # {} /\ S \subseteq sources  BY DEF Families
<1>3. PICK s \in S : \A t \in S : ~(t.place < s.place)  BY <1>2, FirstSource
<1>4. CASE s \in view  BY <1>1, <1>4 DEF Families, Evidence
<1>5. CASE s \notin view
  <2>1. \A u \in Earlier(sources, s) : u.model # s.model  BY <1>3 DEF Earlier
  <2>2. StandIn(s) \in StandIns(view, sources)  BY <1>1, <1>5, <2>1 DEF StandIns
  <2>3. StandIn(s).model = m  BY DEF StandIn
  <2> QED  BY <1>1, <2>2, <2>3 DEF Families, Evidence
<1> QED  BY <1>4, <1>5

LEMMA FamiliesOfMore ==
  ASSUME NEW S, NEW T, S \subseteq T
  PROVE  Families(S) \subseteq Families(T)
BY DEF Families

LEMMA NoModelIsNoFamily == \A S : NoModel \notin Families(S)
BY DEF Families

\* select_reviewer: nobody, or somebody of another family.
LEMMA ChoiceIsOfAnother ==
  ASSUME NEW S, NoModel \notin S
  PROVE  Choose(S) \notin S
<1> DEFINE others == {i \in DOMAIN Reviewers : Reviewers[i] \notin S}
<1>1. CASE S = {} \/ others = {}  BY <1>1 DEF Choose
<1>2. CASE S # {} /\ others # {}
  <2>1. others \subseteq Nat  BY ViewAssumption
  <2>2. \E i \in others : \A j \in others : i <= j  BY <1>2, <2>1, OneIsLeast
  <2>3. PICK i \in others : i = CHOOSE k \in others : \A j \in others : k <= j  BY <2>2
  <2>4. Choose(S) = Reviewers[i]  BY <1>2, <2>3 DEF Choose
  <2> QED  BY <2>4
<1> QED  BY <1>1, <1>2

LEMMA WithoutGaps ==
  ASSUME Collected, ~WorkspaceGap, ~ViewGap
  PROVE  Evidence = sources /\ sources = input.files \cup input.telemetry
<1>1. Cardinality(input.files) <= MaxFiles /\ Newest(input.files) \subseteq sources
  <2>1. Cardinality(input.files) \in Nat /\ MaxFiles \in Nat
    BY WindowSources, FS_CardinalityType, ViewAssumption
  <2> QED  BY <2>1 DEF WorkspaceGap
<1>2. ASSUME NEW f \in input.files PROVE f \in Newest(input.files)
  <2> DEFINE older == Earlier(input.files, f)
  <2>1. older \in SUBSET input.files /\ f \notin older  BY WindowSources DEF Earlier
  <2>2. IsFiniteSet(older) /\ Cardinality(older) <= Cardinality(input.files)
        /\ Cardinality(input.files) # Cardinality(older)
    BY <2>1, WindowSources, FS_Subset
  <2>3. Cardinality(older) \in Nat /\ Cardinality(input.files) \in Nat /\ MaxFiles \in Nat
    BY <2>2, WindowSources, FS_CardinalityType, ViewAssumption
  <2>4. Cardinality(older) < MaxFiles  BY <1>1, <2>2, <2>3
  <2> QED  BY <2>4 DEF Newest
<1>3. sources = input.files \cup input.telemetry  BY <1>1, <1>2 DEF Collected
<1>4. view = sources  BY DEF ViewGap
<1>5. StandIns(view, sources) = {}  BY <1>4 DEF StandIns
<1> QED  BY <1>3, <1>4, <1>5 DEF Evidence

LEMMA PiecesAreFinite ==
  ASSUME Collected, Evidence = sources
  PROVE  IsFiniteSet(Pieces)
<1> DEFINE count(s) == IF Split(s) THEN s.size ELSE 1
           pieces == [s \in sources |-> {s} \X (1..count(s))]
           all == {pieces[s] : s \in sources}
<1>1. IsFiniteSet(sources)
  <2>1. IsFiniteSet(input.files \cup input.telemetry)  BY WindowSources, FS_Union
  <2> QED  BY <2>1, FS_Subset DEF Collected
<1>2. pieces \in Surjection(sources, all)  BY DEF Surjection
<1>3. IsFiniteSet(all)  BY <1>1, <1>2, FS_Surjection
<1>4. ASSUME NEW s \in sources PROVE IsFiniteSet(pieces[s])
  <2>1. count(s) \in Int  BY WindowSources DEF Collected
  <2>2. IsFiniteSet(1..count(s))  BY <2>1, FS_Interval
  <2>3. IsFiniteSet({s})  BY FS_Singleton
  <2>4. IsFiniteSet({s} \X (1..count(s)))  BY <2>2, <2>3, FS_Product
  <2> QED  BY <2>4
<1>5. \A T \in all : IsFiniteSet(T)  BY <1>4
<1>6. IsFiniteSet(UNION all)  BY <1>3, <1>5, FS_UNION
<1>7. UNION all = Pieces  BY DEF Pieces
<1> QED  BY <1>6, <1>7

\* Each piece is in one of the chunks: the first piece begins one.
LEMMA PiecesAreInChunks ==
  ASSUME Collected, Evidence = sources, Packing(starts), NEW p \in Pieces
  PROVE  ChunkOf(p) \in 1..Cardinality(starts)
<1> DEFINE upTo == {r \in starts : ~Precedes(p, r)}
<1>1. PICK s \in sources : \A t \in sources : ~(t.place < s.place)
  <2>1. sources # {}  BY DEF Pieces
  <2> QED  BY <2>1, FirstSource
<1>2. s.place \in Nat /\ s.size \in Nat \ {0}  BY WindowSources DEF Collected
<1>3. <<s, 1>> \in Pieces  BY <1>2 DEF Pieces
<1>4. \A q \in Pieces : q[1] \in sources /\ q[1].place \in Nat /\ q[2] \in Nat /\ q[2] >= 1
  BY WindowSources DEF Pieces, Collected
<1>5. \A q \in Pieces : ~Precedes(q, <<s, 1>>)  BY <1>1, <1>2, <1>4 DEF Precedes
<1>6. <<s, 1>> \in starts  BY <1>3, <1>5 DEF Packing, Current
<1>7. <<s, 1>> \in upTo  BY <1>5, <1>6
<1>8. IsFiniteSet(starts) /\ IsFiniteSet(upTo) /\ Cardinality(upTo) <= Cardinality(starts)
  <2>1. starts \in SUBSET Pieces  BY DEF Packing
  <2>2. IsFiniteSet(starts)  BY <2>1, PiecesAreFinite, FS_Subset
  <2>3. upTo \in SUBSET starts  OBVIOUS
  <2> QED  BY <2>2, <2>3, FS_Subset
<1>9. Cardinality(starts) \in Nat /\ Cardinality(upTo) \in Nat /\ Cardinality(upTo) # 0
  BY <1>7, <1>8, FS_CardinalityType, FS_EmptySet
<1> QED  BY <1>8, <1>9 DEF ChunkOf
LEMMA InitAssessInv == AssessInit => AssessInv
<1> SUFFICES ASSUME AssessInit PROVE AssessInv  OBVIOUS
<1>1. Collected  BY DEF AssessInit, Collected, NoWindow
<1>2. OfAnother
  <2>1. \A k \in Scopes : reviewer[k] = NoModel  BY DEF AssessInit
  <2> QED  BY <2>1, NoModelIsNoFamily DEF OfAnother
<1>3. Paying
  <2>1. \A k \in Scopes : called[k] = 0 /\ reserved[k] = 0  BY DEF AssessInit, None
  <2>2. \A k \in Scopes : calling # k  BY DEF AssessInit, Scopes, NoModel
  <2>3. Limit \in Nat  BY ViewAssumption
  <2> QED  BY <2>1, <2>2, <2>3 DEF Paying, Underway
<1>4. Sweeping  BY DEF AssessInit, Sweeping
<1>5. /\ {reserved, called} \subseteq [Scopes -> Nat] /\ calling \in Scopes \cup {NoModel}
      /\ DOMAIN reviewer = Scopes /\ chunk \in Nat \ {0} /\ gaps \in BOOLEAN
  <2>1. reserved = None /\ called = None /\ None \in [Scopes -> Nat]  BY DEF AssessInit, None
  <2>2. {reserved, called} \subseteq [Scopes -> Nat]  BY <2>1
  <2>3. calling \in Scopes \cup {NoModel} /\ DOMAIN reviewer = Scopes /\ gaps \in BOOLEAN  BY DEF AssessInit
  <2>4. chunk = 1  BY DEF AssessInit
  <2> QED  BY <2>2, <2>3, <2>4
<1> QED  BY <1>1, <1>2, <1>3, <1>4, <1>5 DEF AssessInv

\* Each part of the invariant is about few of the variables.
LEMMA AssessFrames ==
  /\ Collected /\ UNCHANGED evidenceVars => Collected'
  /\ OfAnother /\ UNCHANGED <<evidenceVars, reviewer>> => OfAnother'
  /\ Paying /\ UNCHANGED budgetVars => Paying'
  /\ doing' \notin {"sweep", "summary"} => Sweeping'
  /\ Sweeping /\ UNCHANGED <<evidenceVars, starts, gaps, chunk, swept, doing>> => Sweeping'
<1>1. Collected /\ UNCHANGED evidenceVars => Collected'  BY DEF Collected, evidenceVars
<1>2. OfAnother /\ UNCHANGED <<evidenceVars, reviewer>> => OfAnother'
  <2> SUFFICES ASSUME OfAnother, UNCHANGED <<evidenceVars, reviewer>> PROVE OfAnother'  OBVIOUS
  <2>1. Evidence' = Evidence  BY DEF Evidence, evidenceVars
  <2>2. Families(Evidence)' = Families(Evidence)  BY <2>1 DEF Families
  <2> QED  BY <2>2 DEF OfAnother
<1>3. Paying /\ UNCHANGED budgetVars => Paying'  BY DEF Paying, Underway, budgetVars
<1>4. doing' \notin {"sweep", "summary"} => Sweeping'  BY DEF Sweeping
<1>5. Sweeping /\ UNCHANGED <<evidenceVars, starts, gaps, chunk, swept, doing>> => Sweeping'
  <2> SUFFICES ASSUME Sweeping, UNCHANGED <<evidenceVars, starts, gaps, chunk, swept, doing>>, doing \in {"sweep", "summary"}
               PROVE  Sweeping'
    BY DEF Sweeping
  <2>1. Pieces' = Pieces /\ WorkspaceGap' = WorkspaceGap /\ ViewGap' = ViewGap /\ Chunks' = Chunks
    BY DEF Pieces, Evidence, WorkspaceGap, ViewGap, Chunks, evidenceVars
  <2>2. \A p : ChunkOf(p)' = ChunkOf(p)  BY DEF ChunkOf
  <2>3. Packing(starts)' = Packing(starts)  BY <2>1 DEF Packing, Current
  <2> QED  BY <2>1, <2>2, <2>3 DEF Sweeping
<1> QED  BY <1>1, <1>2, <1>3, <1>4, <1>5

LEMMA CollectAssessInv == ASSUME AssessInv, NEW w \in Collections, CollectWindow(w) PROVE AssessInv'
<1>1. Collected'
  <2>1. input' = w /\ view' \subseteq sources'  BY DEF CollectWindow
  <2>2. PICK files \in SUBSET Newest(w.files) : sources' = files \cup w.telemetry  BY DEF CollectWindow
  <2>3. files \subseteq w.files  BY <2>2 DEF Newest
  <2> QED  BY <2>1, <2>2, <2>3 DEF Collected
<1>2. OfAnother'
  <2>1. \A k \in Scopes : reviewer'[k] = NoModel  BY DEF CollectWindow
  <2>2. NoModel \notin Families(Evidence)'  BY DEF Families
  <2> QED  BY <2>1, <2>2 DEF OfAnother
<1>3. doing' \notin {"sweep", "summary"} /\ UNCHANGED budgetVars /\ chunk' = 1
      /\ DOMAIN reviewer' = Scopes /\ gaps' \in BOOLEAN
  BY DEF CollectWindow
<1> QED  BY <1>1, <1>2, <1>3, AssessFrames DEF AssessInv, budgetVars

LEMMA StartStatusAssessInv == ASSUME AssessInv, StartStatus PROVE AssessInv'
<1>1. /\ UNCHANGED <<evidenceVars, budgetVars>> /\ doing' = "sweep" /\ chunk' = 1
      /\ starts' \in SUBSET Pieces /\ Packing(starts') /\ Sweeper \notin Subject
      /\ reviewer' = [reviewer EXCEPT !["status"] = Sweeper]
      /\ gaps' = (WorkspaceGap \/ ViewGap \/ Cardinality(starts') > MaxChunks)
  BY DEF StartStatus
<1>2. OfAnother'
  <2>1. Families(Evidence)' = Families(Evidence)  BY <1>1 DEF Families, Evidence, evidenceVars
  <2>2. Sweeper \notin Families(Evidence)  BY <1>1 DEF Subject
  <2>3. \A k \in Scopes : reviewer'[k] = reviewer[k] \/ reviewer'[k] = Sweeper  BY <1>1 DEF AssessInv
  <2> QED  BY <2>1, <2>2, <2>3 DEF OfAnother, AssessInv
<1>3. Sweeping'
  <2>1. Pieces' = Pieces /\ WorkspaceGap' = WorkspaceGap /\ ViewGap' = ViewGap
    BY <1>1 DEF Pieces, Evidence, WorkspaceGap, ViewGap, evidenceVars
  <2>2. Packing(starts)'  BY <1>1, <2>1 DEF Packing, Current
  <2>3. gaps' \/ ~(WorkspaceGap' \/ ViewGap' \/ Cardinality(starts') > MaxChunks)  BY <1>1, <2>1
  <2>4. 1..(chunk' - 1) = {}  BY <1>1
  <2> QED  BY <1>1, <2>2, <2>3, <2>4 DEF Sweeping
<1>4. DOMAIN reviewer' = Scopes /\ gaps' \in BOOLEAN /\ chunk' \in Nat \ {0}  BY <1>1 DEF AssessInv
<1> QED  BY <1>1, <1>2, <1>3, <1>4, AssessFrames DEF AssessInv, budgetVars

\* A call is made only when one is reserved.
LEMMA AnsweredIsPaid ==
  ASSUME AssessInv, NEW k \in Scopes, Answered(k)
  PROVE  {reserved', called'} \subseteq [Scopes -> Nat] /\ calling' = NoModel /\ Paying'
<1>1. calling = k /\ calling' = NoModel /\ called' = [called EXCEPT ![k] = @ + 1] /\ reserved' = reserved
  BY DEF Answered
<1>2. {reserved, called} \subseteq [Scopes -> Nat]  BY DEF AssessInv
<1>3. {reserved', called'} \subseteq [Scopes -> Nat]  BY <1>1, <1>2
<1>4. ASSUME NEW j \in Scopes PROVE called'[j] + Underway(j)' <= reserved'[j] /\ reserved'[j] <= Limit
  <2>1. called[j] + Underway(j) <= reserved[j] /\ reserved[j] <= Limit  BY DEF AssessInv, Paying
  <2>2. NoModel \notin Scopes  BY DEF NoModel, Scopes
  <2>3. Underway(j)' = 0  BY <1>1, <2>2 DEF Underway
  <2>4. CASE j = k
    <3>1. Underway(j) = 1 /\ called'[j] = called[j] + 1  BY <1>1, <1>2, <2>4 DEF Underway
    <3> QED  BY <1>1, <1>2, <2>1, <2>3, <3>1
  <2>5. CASE j # k
    <3>1. Underway(j) = 0 /\ called'[j] = called[j]  BY <1>1, <1>2, <2>5 DEF Underway
    <3> QED  BY <1>1, <1>2, <2>1, <2>3, <3>1
  <2> QED  BY <2>4, <2>5
<1> QED  BY <1>1, <1>3, <1>4 DEF Paying

LEMMA StartCallAssessInv == ASSUME AssessInv, NEW k \in Scopes, StartCall(k) PROVE AssessInv'
<1>1. /\ calling = NoModel /\ calling' = k /\ reserved[k] < Limit
      /\ reserved' = [reserved EXCEPT ![k] = @ + 1] /\ called' = called
      /\ UNCHANGED <<evidenceVars, sweepVars, doing, gaps, reviewer>>
  BY DEF StartCall, Reserve
<1>2. {reserved, called} \subseteq [Scopes -> Nat] /\ Limit \in Nat  BY ViewAssumption DEF AssessInv
<1>3. {reserved', called'} \subseteq [Scopes -> Nat]  BY <1>1, <1>2
<1>4. ASSUME NEW j \in Scopes PROVE called'[j] + Underway(j)' <= reserved'[j] /\ reserved'[j] <= Limit
  <2>1. called[j] + Underway(j) <= reserved[j] /\ reserved[j] <= Limit  BY DEF AssessInv, Paying
  <2>2. NoModel \notin Scopes  BY DEF NoModel, Scopes
  <2>3. Underway(j) = 0  BY <1>1, <2>2 DEF Underway
  <2>4. CASE j = k
    <3>1. Underway(j)' = 1 /\ reserved'[j] = reserved[j] + 1  BY <1>1, <1>2, <2>4 DEF Underway
    <3> QED  BY <1>1, <1>2, <2>1, <2>3, <2>4, <3>1
  <2>5. CASE j # k
    <3>1. Underway(j)' = 0 /\ reserved'[j] = reserved[j]  BY <1>1, <1>2, <2>5 DEF Underway
    <3> QED  BY <1>1, <1>2, <2>1, <2>3, <3>1
  <2> QED  BY <2>4, <2>5
<1>5. Paying'  BY <1>4 DEF Paying
<1> QED  BY <1>1, <1>3, <1>5, AssessFrames DEF AssessInv, sweepVars

LEMMA SweptAssessInv == ASSUME AssessInv, Swept PROVE AssessInv'
<1>1. /\ Answered("status") /\ "status" \in Scopes /\ doing = "sweep"
      /\ UNCHANGED <<evidenceVars, starts, gaps, reviewer>>
      /\ swept' = swept \cup Chunk(chunk) /\ chunk' = chunk + 1
      /\ doing' = IF chunk < Chunks THEN "sweep" ELSE "summary"
  BY DEF Swept, Answered, Scopes
<1>2. Pieces' = Pieces /\ WorkspaceGap' = WorkspaceGap /\ ViewGap' = ViewGap /\ Chunks' = Chunks
  BY <1>1 DEF Pieces, Evidence, WorkspaceGap, ViewGap, Chunks, evidenceVars
<1>3. \A p : ChunkOf(p)' = ChunkOf(p)  BY <1>1 DEF ChunkOf
<1>4. Packing(starts)' = Packing(starts)  BY <1>1, <1>2 DEF Packing, Current
<1>5. chunk \in Nat \ {0} /\ Sweeping  BY DEF AssessInv
<1>6. \A p \in Pieces' : ChunkOf(p)' \in 1..(chunk' - 1) => p \in swept'
  <2> SUFFICES ASSUME NEW p \in Pieces, ChunkOf(p) \in 1..chunk PROVE p \in swept \cup Chunk(chunk)
    BY <1>1, <1>2, <1>3, <1>5
  <2>1. CASE ChunkOf(p) = chunk  BY <2>1 DEF Chunk
  <2>2. CASE ChunkOf(p) # chunk
    <3>1. ChunkOf(p) \in 1..(chunk - 1)  BY <1>5, <2>2
    <3> QED  BY <1>1, <1>5, <3>1 DEF Sweeping
  <2> QED  BY <2>1, <2>2
<1>7. doing' = "summary" => ~(chunk' - 1 < Chunks')
  <2>1. chunk' - 1 = chunk  BY <1>1, <1>5
  <2> QED  BY <1>1, <1>2, <2>1
<1>8. Sweeping'  BY <1>1, <1>2, <1>4, <1>5, <1>6, <1>7 DEF Sweeping
<1>9. chunk' \in Nat \ {0}  BY <1>1, <1>5
<1> QED  BY <1>1, <1>8, <1>9, AnsweredIsPaid, AssessFrames DEF AssessInv

LEMMA CallAssessInv ==
  ASSUME AssessInv, Summarized \/ Reviewed \/ \E k \in Scopes : CallFails(k)
  PROVE  AssessInv'
<1>1. PICK k \in Scopes : Answered(k)  BY DEF Summarized, Reviewed, CallFails, Scopes
<1>2. doing' \notin {"sweep", "summary"} /\ UNCHANGED <<evidenceVars, reviewer, chunk>>
  BY DEF Summarized, Reviewed, CallFails, Answered, Onwards, sweepVars
<1>3. gaps' \in BOOLEAN  BY DEF Summarized, Reviewed, CallFails, AssessInv
<1> QED  BY <1>1, <1>2, <1>3, AnsweredIsPaid, AssessFrames DEF AssessInv

LEMMA StartReviewAssessInv == ASSUME AssessInv, StartReview PROVE AssessInv'
<1>1. /\ UNCHANGED <<evidenceVars, sweepVars, gaps, budgetVars>> /\ doing' \in {"idle", "review"}
      /\ reviewer' = [reviewer EXCEPT !["incident"] = Choose(Families(Evidence))]
  BY DEF StartReview
<1>2. OfAnother'
  <2>1. Families(Evidence)' = Families(Evidence)  BY <1>1 DEF Families, Evidence, evidenceVars
  <2>2. PICK other : other = Choose(Families(Evidence))  OBVIOUS
  <2>3. other \notin Families(Evidence)  BY <2>2, NoModelIsNoFamily, ChoiceIsOfAnother
  <2>4. \A k \in Scopes : reviewer'[k] = reviewer[k] \/ reviewer'[k] = other  BY <1>1, <2>2 DEF AssessInv
  <2> QED  BY <2>1, <2>3, <2>4 DEF OfAnother, AssessInv
<1>3. DOMAIN reviewer' = Scopes  BY <1>1 DEF AssessInv
<1> QED  BY <1>1, <1>2, <1>3, AssessFrames DEF AssessInv, sweepVars, budgetVars

LEMMA DiesAssessInv == ASSUME AssessInv, Dies PROVE AssessInv'
<1>1. /\ UNCHANGED <<evidenceVars, sweepVars, gaps, reviewer, reserved, called>> /\ calling' = NoModel
      /\ doing' \notin {"sweep", "summary"}
  BY DEF Dies
<1>2. Paying'
  <2> SUFFICES ASSUME NEW j \in Scopes PROVE called[j] + Underway(j)' <= reserved[j] /\ reserved[j] <= Limit
    BY <1>1 DEF Paying
  <2>1. called[j] + Underway(j) <= reserved[j] /\ reserved[j] <= Limit  BY DEF AssessInv, Paying
  <2>2. NoModel \notin Scopes  BY DEF NoModel, Scopes
  <2>3. Underway(j)' = 0 /\ Underway(j) \in {0, 1}  BY <1>1, <2>2 DEF Underway
  <2>4. called[j] \in Nat /\ reserved[j] \in Nat  BY DEF AssessInv
  <2> QED  BY <2>1, <2>3, <2>4
<1> QED  BY <1>1, <1>2, AssessFrames DEF AssessInv, sweepVars

LEMMA NextAssessInv == AssessInv /\ [AssessNext]_assessVars => AssessInv'
<1> SUFFICES ASSUME AssessInv, [AssessNext]_assessVars PROVE AssessInv'  OBVIOUS
<1>1. CASE NoStatus \/ \E k \in Scopes : Exhausted(k)
  <2>1. UNCHANGED <<evidenceVars, sweepVars, gaps, reviewer, budgetVars>> /\ doing' \notin {"sweep", "summary"}
    BY <1>1 DEF NoStatus, Exhausted, Onwards
  <2> QED  BY <2>1, AssessFrames DEF AssessInv, sweepVars, budgetVars
<1>2. CASE UNCHANGED assessVars
  <2>1. UNCHANGED <<evidenceVars, sweepVars, doing, gaps, reviewer, budgetVars>>  BY <1>2 DEF assessVars
  <2> QED  BY <2>1, AssessFrames DEF AssessInv, sweepVars, budgetVars
<1> QED
  BY <1>1, <1>2, CollectAssessInv, StartStatusAssessInv, SweptAssessInv, CallAssessInv, StartCallAssessInv,
     StartReviewAssessInv, DiesAssessInv DEF AssessNext

\* A report that tells of no omission was based on everything.
LEMMA SummaryIsOfAll ==
  ASSUME AssessInv, Summarized, ~gaps'
  PROVE  /\ \A s \in input.files \cup input.telemetry : {s} \X (1..(IF Split(s) THEN s.size ELSE 1)) \subseteq swept
         /\ cited = given'
<1>1. doing = "summary" /\ gaps' = (gaps \/ cited # given')  BY DEF Summarized
<1>2. ~gaps /\ cited = given'  BY <1>1
<1>3. ~WorkspaceGap /\ ~ViewGap /\ ~(Cardinality(starts) > MaxChunks) /\ Packing(starts) /\ ~(chunk - 1 < Chunks)
  BY <1>1, <1>2 DEF AssessInv, Sweeping
<1>4. Collected  BY DEF AssessInv
<1>5. Evidence = sources /\ sources = input.files \cup input.telemetry  BY <1>3, <1>4, WithoutGaps
<1>6. Cardinality(starts) \in Nat
  <2>1. starts \in SUBSET Pieces  BY <1>3 DEF Packing
  <2>2. IsFiniteSet(starts)  BY <1>4, <1>5, <2>1, PiecesAreFinite, FS_Subset
  <2> QED  BY <2>2, FS_CardinalityType
<1>7. Cardinality(starts) <= Chunks  BY <1>3, <1>6, ViewAssumption DEF Chunks
<1>8. ASSUME NEW p \in Pieces PROVE p \in swept
  <2>1. ChunkOf(p) \in 1..Cardinality(starts)  BY <1>3, <1>4, <1>5, PiecesAreInChunks
  <2>2. chunk \in Nat /\ Chunks \in Nat  BY <1>6, ViewAssumption DEF Chunks, AssessInv
  <2>3. ChunkOf(p) \in 1..(chunk - 1)  BY <1>3, <1>6, <1>7, <2>1, <2>2
  <2> QED  BY <1>1, <2>3 DEF AssessInv, Sweeping
<1>9. \A s \in sources : {s} \X (1..(IF Split(s) THEN s.size ELSE 1)) \subseteq Pieces  BY <1>5 DEF Pieces
<1> QED  BY <1>2, <1>5, <1>8, <1>9

\* collection.py, status_review.py, review.py, store.py, for any evidence, reviewers, bounds
\* and budget: whoever assesses is of another family than any model observed, calls are paid
\* for first, and a report that tells of no omission was based on everything.
THEOREM AssessmentsAreSoundHolds == AssessSpec => AssessmentsAreSound
<1>1. AssessInv => ReviewersAreIndependent /\ CallsAreReserved
  <2> SUFFICES ASSUME AssessInv PROVE ReviewersAreIndependent /\ CallsAreReserved  OBVIOUS
  <2>1. Families(input.telemetry) \subseteq Families(Evidence)
    <3>1. Collected  BY DEF AssessInv
    <3>2. Families(input.telemetry) \subseteq Families(sources)  BY <3>1, FamiliesOfMore DEF Collected
    <3> QED  BY <3>1, <3>2, ModelsAreKnown
  <2>2. ReviewersAreIndependent  BY <2>1 DEF AssessInv, OfAnother, ReviewersAreIndependent, Observed
  <2>3. ASSUME NEW k \in Scopes PROVE called[k] <= reserved[k] /\ reserved[k] <= Limit
    <3>1. called[k] \in Nat /\ reserved[k] \in Nat /\ Underway(k) \in {0, 1}  BY DEF AssessInv, Underway
    <3>2. called[k] + Underway(k) <= reserved[k] /\ reserved[k] <= Limit  BY DEF AssessInv, Paying
    <3> QED  BY <3>1, <3>2
  <2> QED  BY <2>2, <2>3 DEF CallsAreReserved
<1>2. AssessInv /\ [AssessNext]_assessVars =>
        [Summarized /\ ~gaps' =>
           /\ \A s \in input.files \cup input.telemetry : {s} \X (1..(IF Split(s) THEN s.size ELSE 1)) \subseteq swept
           /\ cited = given']_assessVars
  BY SummaryIsOfAll
<1> QED  BY <1>1, <1>2, InitAssessInv, NextAssessInv, PTL DEF AssessSpec, AssessmentsAreSound, OmissionsAreTold
=============================================================================
