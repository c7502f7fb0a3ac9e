------------------------------ MODULE Releases -------------------------------
(* Monitoring's release automation (monitoring/service/ci).  The plans of a pull request:*)
(* a workflow takes its head, plans the candidate against the live state in a second job,*)
(* and a third reports on the pull request and the commit (pr_plan.py,                   *)
(* monitoring-plan.yml).  The deployment: images, plan, the reset that retires the old   *)
(* pipelines and their data, apply, verify, record (reset.py, monitoring-deploy.yml).    *)
(* GitHub runs one plan at a time for a pull request, and one deployment at a time.      *)
EXTENDS Naturals, Sequences, FiniteSets

CONSTANTS
  Plans,       \* what a plan may find: sets of resources
  BatchJobs,        \* the jobs of the retired pipelines
  MaxPushes,   \* bound: commits of the pull request
  MaxRuns,     \* bound: runs of the plan workflow
  MaxDeploys   \* bound: runs of the deployment

VARIABLES
  head, open,        \* the pull request's commit; whether it may be planned
  queued, runs,      \* whether a run waits for its turn; the runs so far
  run, storedReport,     \* the run under way, and the report the run has stored
  statuses, comments,   \* of each commit, and of the pull request
  found,             \* for each commit, what its plans found
  deploys, step,     \* the deployments so far, and where the one under way is
  at,                \* the place in a listing of jobs
  scheduled, accepting,   \* the retired schedules and queues that are enabled
  batch, queueOf,      \* the retired jobs: their status, and their queue
  tables, artifacts  \* the retired tables in order, and the retired objects in S3

ASSUME ReleaseAssumption == MaxPushes \in Nat \ {0} /\ {MaxRuns, MaxDeploys} \subseteq Nat

pull == <<head, open, queued, runs, run, storedReport, statuses, comments, found>>
retired == <<scheduled, accepting, batch, queueOf, tables, artifacts>>
deployment == <<deploys, step, at>>
releaseVars == <<pull, deployment, retired>>
-----------------------------------------------------------------------------
\* resource_changes: a managed resource is listed with what the plan does to it; an
\* action it does not know makes the plan an error.
Action(r) ==
  IF {"create", "delete"} \subseteq r.actions THEN "replace"
  ELSE IF r.importing THEN "import"
  ELSE IF r.actions = {"no-op"} THEN (IF r.moved THEN "move" ELSE "none")
  ELSE IF Cardinality(r.actions) = 1 THEN CHOOSE a \in r.actions : TRUE ELSE "unknown"
KnownActions == {"create", "update", "delete", "replace", "import", "move"}
Listed(plan) == {r \in plan : r.managed /\ Action(r) # "none"}
Readable(plan) == \A r \in Listed(plan) : Action(r) \in KnownActions
Changes(plan) == {[address |-> r.address, action |-> Action(r)] : r \in Listed(plan)}

Failure == [status |-> "error", changes |-> {}]
Success(plan) == [status |-> "success", changes |-> Changes(plan)]
NothingStored == [status |-> "none", changes |-> {}]
NoRun == [at |-> "none", sha |-> 0, eligible |-> FALSE, result |-> FALSE, report |-> NothingStored]
Commits == 1..MaxPushes

\* External: people push, close, reopen, retarget and ask for plans.
Push ==
  /\ head < MaxPushes /\ head' = head + 1 /\ queued' = TRUE
  /\ UNCHANGED <<open, runs, run, storedReport, statuses, comments, found, deployment, retired>>
CloseOrReopen ==
  /\ open' = ~open /\ queued' = (queued \/ open')
  /\ UNCHANGED <<head, runs, run, storedReport, statuses, comments, found, deployment, retired>>
Dispatch ==
  /\ ~queued /\ queued' = TRUE
  /\ UNCHANGED <<head, open, runs, run, storedReport, statuses, comments, found, deployment, retired>>

Same == UNCHANGED <<head, open, queued, runs, deployment, retired>>

\* A new run, or all the jobs of the last one again, whose report is still stored.
Begin ==
  /\ run = NoRun /\ runs < MaxRuns /\ runs' = runs + 1
  /\ \/ queued /\ queued' = FALSE /\ storedReport' = NothingStored
     \/ runs > 0 /\ UNCHANGED <<queued, storedReport>>
  /\ run' = [NoRun EXCEPT !.at = "context"]
  /\ UNCHANGED <<head, open, statuses, comments, found, deployment, retired>>

\* A step fails, or the newer run cancels this one.
Abort ==
  /\ run # NoRun /\ run' = NoRun
  /\ Same /\ UNCHANGED <<storedReport, statuses, comments, found>>

\* context: the head as it is now, and whether it may be planned; then its status.
ReadPull ==
  /\ run.at = "context" /\ run' = [run EXCEPT !.at = "marking", !.sha = head, !.eligible = open]
  /\ Same /\ UNCHANGED <<storedReport, statuses, comments, found>>
Mark ==
  /\ run.at = "marking"
  /\ statuses' = [statuses EXCEPT ![run.sha] = IF run.eligible THEN "pending" ELSE "error"]
  /\ IF run.eligible THEN run' = [run EXCEPT !.at = "planning"] ELSE run' = NoRun
  /\ Same /\ UNCHANGED <<storedReport, comments, found>>

\* plan: its report says success only when every change could be told; the job's result
\* is the same, unless the report could not be stored.
Plan ==
  /\ run.at = "planning"
  /\ \E plan \in Plans, works \in BOOLEAN, stored \in BOOLEAN :
       LET planned == works /\ Readable(plan)
           report == IF planned THEN Success(plan) ELSE Failure
       IN  /\ run' = [run EXCEPT !.at = "reporting", !.result = planned /\ stored]
           /\ storedReport' = IF stored THEN report ELSE storedReport
           /\ found' = IF planned THEN [found EXCEPT ![run.sha] = @ \cup {plan}] ELSE found
  /\ Same /\ UNCHANGED <<statuses, comments>>

\* read_report: a stored report counts only if this run's job succeeded.
Fault_ReadReport(result) == IF storedReport = NothingStored THEN Failure ELSE storedReport   \* the job's result is not asked for
ReadReport(result) == IF ~result \/ storedReport = NothingStored THEN Failure ELSE storedReport

\* publish: not for a head that has changed; the comment first, then the status.
Check ==
  /\ run.at = "reporting"
  /\ IF head = run.sha /\ open
     THEN \E downloaded \in BOOLEAN :
            run' = [run EXCEPT !.at = "commenting", !.report = IF downloaded THEN ReadReport(run.result) ELSE Failure]
     ELSE run' = NoRun
  /\ Same /\ UNCHANGED <<storedReport, statuses, comments, found>>
Comment ==
  /\ run.at = "commenting" /\ run' = [run EXCEPT !.at = "closing"]
  /\ LET body == [sha |-> run.sha, report |-> run.report]
         told == comments # {} \/ (run.report.status = "success" /\ run.report.changes # {})
     IN  comments' = IF told THEN {body} ELSE {}
  /\ Same /\ UNCHANGED <<storedReport, statuses, found>>
Close ==
  /\ run.at = "closing" /\ run' = NoRun
  /\ statuses' = [statuses EXCEPT ![run.sha] = run.report.status]
  /\ Same /\ UNCHANGED <<storedReport, comments, found>>

PlanNext ==
  \/ Push \/ CloseOrReopen \/ Dispatch \/ Begin \/ Abort
  \/ ReadPull \/ Mark \/ Plan \/ Check \/ Comment \/ Close
-----------------------------------------------------------------------------
\* The retired pipelines: a schedule submits jobs to its queue, which writes artifacts
\* while it runs.  Places of a job: submitted, pending, runnable, starting, running.
Queues == {"pass", "status"}
Order == <<"pass", "status">>
Running == 5
Ended == 6
Active(j) == batch[j] \in 1..Running

Submit(j) ==
  /\ batch[j] = 0 /\ queueOf[j] \in scheduled \cap accepting
  /\ batch' = [batch EXCEPT ![j] = 1]
  /\ UNCHANGED <<pull, deployment, scheduled, accepting, queueOf, tables, artifacts>>
Advance(j) ==
  /\ Active(j) /\ \E next \in {batch[j] + 1, Ended} : batch' = [batch EXCEPT ![j] = next]
  /\ UNCHANGED <<pull, deployment, scheduled, accepting, queueOf, tables, artifacts>>
WriteArtifact(j) ==
  /\ batch[j] = Running /\ artifacts' = artifacts \cup {j}
  /\ UNCHANGED <<pull, deployment, scheduled, accepting, batch, queueOf, tables>>

Unmoved == UNCHANGED <<pull, scheduled, accepting, batch, queueOf, tables, artifacts>>
Goto(place) == step' = place /\ UNCHANGED deploys

\* The images are built, unless they were, and scanned; the infrastructure is planned.
Deploy ==
  /\ step = "none" /\ deploys < MaxDeploys
  /\ deploys' = deploys + 1 /\ step' = "disabling" /\ at' = 1 /\ Unmoved

FailDeploy ==
  /\ step # "none" /\ Goto("none") /\ at' = 0 /\ Unmoved

\* reset, for each queue: its schedule, then itself; its jobs are terminated, and end in
\* their time, as they may anyway.
DisableSchedule ==
  /\ step = "disabling"
  /\ scheduled' = scheduled \ {Order[at]} /\ Goto("closing")
  /\ UNCHANGED <<pull, at, accepting, batch, queueOf, tables, artifacts>>
DisableQueue ==
  /\ step = "closing"
  /\ accepting' = accepting \ {Order[at]}
  /\ IF at < Len(Order) THEN Goto("disabling") /\ at' = at + 1 ELSE Goto("waiting") /\ at' = 1
  /\ UNCHANGED <<pull, scheduled, batch, queueOf, tables, artifacts>>

\* The wait lists the queues status by status, in the order a job goes through them; it
\* starts again when it finds one, and in time gives up.
Fault_Statuses == <<5, 4, 3, 2, 1>>   \* the running jobs are asked for first
Statuses == <<1, 2, 3, 4, 5>>
Listing == {j \in BatchJobs : batch[j] = Statuses[at]}

Wait ==
  /\ step = "waiting"
  /\ \/ Listing # {} /\ at' = 1 /\ Goto("waiting")
     \/ Listing = {} /\ at < Len(Statuses) /\ at' = at + 1 /\ Goto("waiting")
     \/ Listing = {} /\ at = Len(Statuses) /\ at' = 0 /\ Goto("unprotecting")
  /\ Unmoved

\* Table by table; one of the name that is not monitoring's stops the reset.
Foreign == {i \in DOMAIN tables : tables[i] = "foreign"}
Unprotect ==
  /\ step = "unprotecting" /\ Goto(IF Foreign = {} THEN "deleting" ELSE "none")
  /\ tables' = [i \in DOMAIN tables |->
       IF tables[i] = "protected" /\ \A f \in Foreign : i < f THEN "unprotected" ELSE tables[i]]
  /\ UNCHANGED <<pull, at, scheduled, accepting, batch, queueOf, artifacts>>

\* The retired prefixes only, every version; what a rerun finds is deleted again.
DeleteArtifacts ==
  /\ step = "deleting" /\ artifacts' = {} /\ Goto("applying")
  /\ UNCHANGED <<pull, at, scheduled, accepting, batch, queueOf, tables>>
Apply ==
  /\ step = "applying" /\ Goto("verifying")
  /\ tables' = [i \in DOMAIN tables |-> IF tables[i] = "unprotected" THEN "gone" ELSE tables[i]]
  /\ UNCHANGED <<pull, at, scheduled, accepting, batch, queueOf, artifacts>>
Record ==
  /\ step = "verifying" /\ Goto("none") /\ at' = 0 /\ Unmoved

DeployNext ==
  \/ \E j \in BatchJobs : Submit(j) \/ Advance(j) \/ WriteArtifact(j)
  \/ Deploy \/ FailDeploy \/ DisableSchedule \/ DisableQueue \/ Wait \/ Unprotect \/ DeleteArtifacts \/ Apply \/ Record
-----------------------------------------------------------------------------
ReleaseInit ==
  /\ head = 1 /\ open = TRUE /\ queued = TRUE /\ runs = 0 /\ run = NoRun /\ storedReport = NothingStored
  /\ statuses = [c \in Commits |-> "none"] /\ comments = {} /\ found = [c \in Commits |-> {}]
  /\ deploys = 0 /\ step = "none" /\ at = 0
  /\ scheduled = Queues /\ accepting = Queues /\ batch = [j \in BatchJobs |-> 0] /\ queueOf \in [BatchJobs -> Queues]
  /\ tables \in [1..2 -> {"protected", "foreign", "gone"}] /\ artifacts = {}

ReleaseNext == PlanNext \/ DeployNext

ReleaseSpec == ReleaseInit /\ [][ReleaseNext]_releaseVars
-----------------------------------------------------------------------------
ReleaseTypeOK ==
  /\ head \in Commits /\ runs \in 0..MaxRuns /\ deploys \in 0..MaxDeploys
  /\ statuses \in [Commits -> {"none", "pending", "error", "success"}] /\ found \in [Commits -> SUBSET Plans]
  /\ batch \in [BatchJobs -> 0..Ended] /\ artifacts \subseteq BatchJobs
  /\ tables \in [1..2 -> {"protected", "unprotected", "foreign", "gone"}]

\* read_report, publish: a commit's status and the pull request's comment say what a plan of
\* that commit found, a failed one never reads as a success, and while the head's status
\* is a success the comment is not about an earlier commit.
PlansAreTold ==
  /\ \A c \in Commits : statuses[c] = "success" => found[c] # {}
  /\ \A b \in comments : IF b.report.status = "success" THEN b.report.changes \in {Changes(plan) : plan \in found[b.sha]}
                         ELSE b.report.changes = {}
  /\ statuses[head] = "success" =>
       IF comments = {} THEN {} \in {Changes(plan) : plan \in found[head]}
       ELSE \A b \in comments : b.sha = head /\ b.report.status = "success"

\* ci/design.md "Fresh-data cutover" 2-3: no artifact is deleted while a job of the retired
\* pipelines could still write one, none comes back, and only monitoring's tables go.
RetiredDataIsGone ==
  [][/\ step' \in {"unprotecting", "deleting", "applying", "verifying"} => \A j \in BatchJobs : batch'[j] \in {0, Ended}
     /\ step' \in {"applying", "verifying"} => artifacts' = {}
     /\ \A i \in 1..2 : tables[i] = "foreign" => tables'[i] = "foreign"]_releaseVars
=============================================================================
