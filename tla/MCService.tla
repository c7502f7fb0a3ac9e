------------------------------ MODULE MCService ------------------------------
(* The worker of the monitoring service on small instances, and how the service   *)
(* is released.  The parts share no state: a behaviour is one of its passes, of   *)
(* its notices, of the assessment of one workload, of the copy of a workspace, of *)
(* the plans of a pull request or of the deployment.                              *)
EXTENDS MonitoringPass, WorkspaceCopy, WorkloadNotices, Releases, Assessments, TLC

VARIABLE part

Source(p, n, family) == [place |-> p, size |-> n, model |-> family, whole |-> TRUE]
File(p, n) == Source(p, n, "nobody")

\* Few files, files beyond the number kept, a file that does not fit; no telemetry,
\* telemetry that fits, and records that fill the view with a model seen only behind them.
MCCollections ==
  {[files |-> f, telemetry |-> t] :
     f \in {{}, {File(3, 1), File(1, 1), File(2, 1)}, {File(3, 1), File(1, 2), File(2, 1)}},
     t \in {{}, {Source(4, 1, "a")},
            {Source(4, 3, "a"), Source(5, 3, "b"), Source(6, 1, "b")}, {Source(4, 4, "c"), File(5, 2)}}}
MCReviewers == <<"a", "b", "c">>

\* Plans with nothing to change, with a replacement and a move, and with an action the
\* report does not know; two commits, three runs; two deployments over two jobs.
Resource(address, managed, actions, moved) ==
  [address |-> address, managed |-> managed, actions |-> actions, importing |-> FALSE, moved |-> moved]
MCPlans ==
  {{Resource("a", TRUE, {"no-op"}, FALSE), Resource("d", FALSE, {"read"}, FALSE)},
   {Resource("a", TRUE, {"create", "delete"}, FALSE), Resource("b", TRUE, {"no-op"}, TRUE)},
   {Resource("a", TRUE, {"forget"}, FALSE)}}

MCInit ==
  /\ part \in {"passes", "notices", "assess", "copy", "plans", "deploy"}
  /\ Init /\ NoticeInit /\ AssessInit /\ CopyInit /\ ReleaseInit
  /\ part # "deploy" => queueOf = [j \in BatchJobs |-> "pass"] /\ tables = [i \in 1..2 |-> "gone"]

Passes(taken) == part = "passes" /\ taken /\ UNCHANGED <<part, noticeVars, assessVars, copyVars, releaseVars>>
Notices(taken) == part = "notices" /\ taken /\ UNCHANGED <<part, vars, assessVars, copyVars, releaseVars>>

MCNext ==
  \/ Passes(Next) \/ Notices(NoticeNext)
  \/ part = "assess" /\ AssessNext /\ UNCHANGED <<part, vars, noticeVars, copyVars, releaseVars>>
  \/ part = "copy" /\ CopyNext /\ UNCHANGED <<part, vars, noticeVars, assessVars, releaseVars>>
  \/ part = "plans" /\ PlanNext /\ UNCHANGED <<part, vars, noticeVars, assessVars, copyVars>>
  \/ part = "deploy" /\ DeployNext /\ UNCHANGED <<part, vars, noticeVars, assessVars, copyVars>>

MCvars == <<part, vars, noticeVars, assessVars, copyVars, releaseVars>>

\* Only the worker promises anything in time: the fairness of its two modules.
MCSpec ==
  /\ MCInit /\ [][MCNext]_MCvars
  /\ WF_MCvars(Passes(Step)) /\ WF_MCvars(Passes(Clock)) /\ WF_MCvars(Notices(Worker))
=============================================================================
