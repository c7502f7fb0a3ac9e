-------------------------- MODULE DeploymentProofs --------------------------
(***************************************************************************)
(* What is checked and built before anything runs: pull requests and the   *)
(* retirement of the old pipelines, the controller's box, and drop-ins.    *)
(*                                                                         *)
(* Releases, for any plans, jobs, and any number of commits, runs and      *)
(* deployments: the invariant of pull requests says what the run under way *)
(* has to go on: a report that a plan of its commit explains, and a commit *)
(* later than its own of which nothing is said yet.  That of the           *)
(* retirement says how far a wait has come: the jobs it has passed cannot  *)
(* be where it looked for them, because jobs only advance and none is      *)
(* submitted.                                                              *)
(*                                                                         *)
(* ControlBox, for any boxes and any number of commands, failures and      *)
(* losses: the invariant says what each stage of a script may rely on:     *)
(* that the box it works on is the one that lives and that the address     *)
(* leads to, that the volume is mounted, and which environment is written  *)
(* when AgentRQ is restarted with it.                                      *)
(*                                                                         *)
(* Assembly, for any drop-ins, of any agents: while agents are visited,    *)
(* those that are active form a path and those that are done come after    *)
(* the ones they delegate to, so that a path of delegates goes down in the *)
(* order and none is longer than its first agent's place; the depths are   *)
(* the lengths of the longest paths.  The rest says what each list of      *)
(* checks leaves behind when none of them fails.                           *)
(***************************************************************************)
EXTENDS Releases, ControlBox, Assembly, FiniteSetTheorems, WellFoundedInduction, TLAPS

Reports(commit) == {Success(plan) : plan \in found[commit]}
ToldOnce(body) ==
  IF body.report.status = "success" THEN body.report.changes \in {Changes(plan) : plan \in found[body.sha]}
  ELSE body.report.changes = {}

\* A run beyond its context has a commit, marked unless it is about to be.
Beyond == {"marking", "planning", "reporting", "commenting", "closing"}

AnyReport == {NothingStored, Failure} \cup {Success(plan) : plan \in Plans}
CheckRuns == [at : {"none", "context"} \cup Beyond, sha : Commits \cup {0}, eligible : BOOLEAN,
         result : BOOLEAN, report : AnyReport]

Typed ==
  /\ head \in Commits /\ found \in [Commits -> SUBSET Plans]
  /\ statuses \in [Commits -> {"none", "pending", "error", "success"}]
  /\ \A b \in comments : b.sha \in Commits
  /\ open \in BOOLEAN /\ run \in CheckRuns /\ storedReport \in AnyReport

Underway ==
  /\ run.at \in Beyond => run.sha \in 1..head
  /\ run.at \in Beyond \ {"marking"} => statuses[run.sha] = "pending"
  /\ run.at = "reporting" /\ run.result => storedReport \in Reports(run.sha)
  /\ run.at \in {"commenting", "closing"} => run.report \in {Failure} \cup Reports(run.sha)
  /\ run.at = "closing" =>
       IF comments = {} THEN run.report = Failure \/ run.report.changes = {}
       ELSE \A b \in comments : b.sha = run.sha /\ b.report = run.report

\* Nothing is said of a commit before a run has taken it, and of no later one meanwhile.
NotYet ==
  /\ \A c \in Commits : c > head => statuses[c] = "none"
  /\ run.at \in Beyond => \A c \in Commits : c > run.sha => statuses[c] = "none"

PlanInv == Typed /\ Underway /\ NotYet /\ PlansAreTold

Said == <<head, statuses, comments, found>>

----------------------------------------------------------------------------

LEMMA ReportFields ==
  ASSUME NEW plan
  PROVE  /\ Success(plan).status = "success" /\ Success(plan).changes = Changes(plan)
         /\ Failure.status = "error" /\ Failure.changes = {}
BY DEF Success, Failure

LEMMA InitPlanInv == ReleaseInit => PlanInv
<1> SUFFICES ASSUME ReleaseInit PROVE PlanInv  OBVIOUS
<1>1. 1 \in Commits  BY ReleaseAssumption DEF Commits
<1>2. run.at = "none" /\ run \in CheckRuns  BY DEF ReleaseInit, NoRun, CheckRuns, AnyReport
<1>3. Typed  BY <1>1, <1>2 DEF ReleaseInit, Typed, AnyReport
<1>4. Underway  BY <1>2 DEF Underway, Beyond
<1>5. NotYet  BY <1>2 DEF NotYet, Beyond, ReleaseInit
<1>6. PlansAreTold  BY <1>1, ReleaseAssumption DEF PlansAreTold, ReleaseInit
<1> QED  BY <1>3, <1>4, <1>5, <1>6 DEF PlanInv

LEMMA SameSaid ==
  ASSUME PlanInv, UNCHANGED Said
  PROVE  PlansAreTold' /\ Commits' = Commits
BY DEF PlanInv, PlansAreTold, Said

\* A run that ends, or one that begins, has nothing to go on yet.
LEMMA NothingUnderway ==
  ASSUME PlanInv, UNCHANGED Said, UNCHANGED open, storedReport' \in AnyReport,
         run' = NoRun \/ run' = [NoRun EXCEPT !.at = "context"]
  PROVE  PlanInv'
<1> DEFINE begun == [NoRun EXCEPT !.at = "context"]
<1>1. /\ NoRun \in CheckRuns /\ NoRun.at = "none" /\ begun \in CheckRuns /\ begun.at = "context"
      /\ run' = NoRun \/ run' = begun
  BY DEF NoRun, CheckRuns, AnyReport
<1> HIDE DEF begun
<1>2. run' \in CheckRuns /\ run'.at \notin Beyond  BY <1>1 DEF Beyond
<1>3. Typed'  BY <1>2 DEF PlanInv, Typed, Said
<1>4. Underway'  BY <1>2 DEF Underway, Beyond
<1>5. NotYet'  BY <1>2 DEF PlanInv, NotYet, Said
<1> QED  BY <1>3, <1>4, <1>5, SameSaid DEF PlanInv

LEMMA SameRun ==
  ASSUME PlanInv, UNCHANGED <<Said, open, run, storedReport>>
  PROVE  PlanInv'
<1>1. UNCHANGED <<head, statuses, comments, found, open, run, storedReport>>  BY DEF Said
<1>2. Typed'  BY <1>1 DEF PlanInv, Typed
<1>3. Underway'  BY <1>1 DEF PlanInv, Underway, Reports
<1>4. NotYet'  BY <1>1 DEF PlanInv, NotYet
<1>5. PlansAreTold'  BY SameSaid
<1> QED  BY <1>2, <1>3, <1>4, <1>5 DEF PlanInv

\* Nothing is said of the commit that becomes the head.
LEMMA PushStep == ASSUME PlanInv, Push PROVE PlanInv'
<1>1. /\ head < MaxPushes /\ head' = head + 1
      /\ UNCHANGED <<statuses, comments, found, open, run, storedReport>>
  BY DEF Push
<1>2. head' \in Commits /\ head \in Commits  BY <1>1, ReleaseAssumption DEF PlanInv, Typed, Commits
<1>3. Typed'  BY <1>1, <1>2 DEF PlanInv, Typed
<1>4. Underway'
  <2>1. run.sha \in 1..head => run.sha \in 1..head'  BY <1>1, <1>2 DEF Commits
  <2> QED  BY <1>1, <2>1 DEF PlanInv, Underway, Reports
<1>5. NotYet'
  <2>1. \A c \in Commits : c > head' => c > head  BY <1>1, <1>2 DEF Commits
  <2> QED  BY <1>1, <2>1 DEF PlanInv, NotYet
<1>6. PlansAreTold'
  <2>1. statuses[head'] = "none"
    <3>1. head' > head  BY <1>1, <1>2 DEF Commits
    <3> QED  BY <1>2, <3>1 DEF PlanInv, NotYet
  <2> QED  BY <1>1, <2>1 DEF PlanInv, PlansAreTold
<1> QED  BY <1>3, <1>4, <1>5, <1>6 DEF PlanInv

LEMMA ReadPullStep == ASSUME PlanInv, ReadPull PROVE PlanInv'
<1>1. /\ run' = [run EXCEPT !.at = "marking", !.sha = head, !.eligible = open]
      /\ UNCHANGED <<Said, storedReport>> /\ UNCHANGED <<head, statuses, comments, found, open>>
  BY DEF ReadPull, Same, Said
<1>2. run'.at = "marking" /\ run'.sha = head /\ run' \in CheckRuns /\ head \in 1..head
  <2>1. run \in CheckRuns /\ head \in Commits /\ open \in BOOLEAN /\ "marking" \in Beyond
    BY DEF PlanInv, Typed, Beyond
  <2>2. run'.at = "marking" /\ run'.sha = head /\ run' \in CheckRuns  BY <1>1, <2>1 DEF CheckRuns
  <2>3. head \in 1..head  BY <2>1, ReleaseAssumption DEF Commits
  <2> QED  BY <2>2, <2>3
<1>3. Typed'  BY <1>1, <1>2 DEF PlanInv, Typed
<1>4. Underway'  BY <1>1, <1>2 DEF Underway, Beyond
<1>5. NotYet'  BY <1>1, <1>2 DEF PlanInv, NotYet
<1> QED  BY <1>1, <1>3, <1>4, <1>5, SameSaid DEF PlanInv

\* The commit's status is pending, or the run ends with an error.
LEMMA MarkStep == ASSUME PlanInv, Mark PROVE PlanInv'
<1> DEFINE said == IF run.eligible THEN "pending" ELSE "error"
<1>1. /\ run.at = "marking" /\ statuses' = [statuses EXCEPT ![run.sha] = said]
      /\ run' = (IF run.eligible THEN [run EXCEPT !.at = "planning"] ELSE NoRun)
      /\ UNCHANGED <<head, open, storedReport, comments, found>>
  BY DEF Mark, Same
<1>2. /\ run.sha \in 1..head /\ run.sha \in Commits /\ head \in Commits
      /\ \A c \in Commits : c > run.sha => statuses[c] = "none"
  BY <1>1, ReleaseAssumption DEF PlanInv, Typed, Underway, NotYet, Beyond, Commits
<1>3. \A c \in Commits : statuses'[c] = (IF c = run.sha THEN said ELSE statuses[c])
  BY <1>1, <1>2 DEF PlanInv, Typed
<1>4. NoRun \in CheckRuns /\ NoRun.at = "none"  BY DEF NoRun, CheckRuns, AnyReport
<1>5. /\ run' \in CheckRuns
      /\ \/ ~run.eligible /\ run'.at \notin Beyond
         \/ run.eligible /\ run'.at = "planning" /\ run'.sha = run.sha
  <2>1. CASE run.eligible  BY <1>1, <2>1 DEF PlanInv, Typed, CheckRuns, Beyond
  <2>2. CASE ~run.eligible  BY <1>1, <1>4, <2>2 DEF Beyond
  <2> QED  BY <2>1, <2>2
<1>6. Typed'  BY <1>1, <1>2, <1>5 DEF PlanInv, Typed
<1>7. Underway'  BY <1>1, <1>2, <1>3, <1>5 DEF Underway, Beyond
<1>8. NotYet'
  <2>1. \A c \in Commits : c > head => c > run.sha  BY <1>2 DEF Commits
  <2>2. \A c \in Commits : c > run.sha => c # run.sha  BY <1>2 DEF Commits
  <2> QED  BY <1>1, <1>2, <1>3, <1>5, <2>1, <2>2 DEF NotYet
<1>9. PlansAreTold'
  <2>1. statuses'[head] # "success"
    <3>1. head = run.sha \/ head > run.sha  BY <1>2 DEF Commits
    <3> QED  BY <1>2, <1>3, <3>1
  <2>2. \A c \in Commits : statuses'[c] = "success" => statuses[c] = "success"  BY <1>3
  <2> QED  BY <1>1, <2>1, <2>2 DEF PlanInv, PlansAreTold
<1> QED  BY <1>6, <1>7, <1>8, <1>9 DEF PlanInv

\* What is said stays, while the run goes on to another step of the same commit.
LEMMA RunGoesOn ==
  ASSUME PlanInv, run.at \in Beyond \ {"marking"}, run' \in CheckRuns, storedReport' \in AnyReport,
         run'.at \in Beyond \ {"marking"}, run'.sha = run.sha,
         UNCHANGED <<head, open, statuses>>,
         found' \in [Commits -> SUBSET Plans], \A c \in Commits : found[c] \subseteq found'[c],
         \A b \in comments' : b.sha \in Commits /\ ToldOnce(b)'
  PROVE  /\ Typed' /\ NotYet' /\ PlansAreTold'
         /\ run'.sha \in 1..head' /\ run.sha \in Commits /\ statuses'[run'.sha] = "pending"
<1>1. /\ head \in Commits /\ run.sha \in 1..head /\ run.sha \in Commits /\ statuses[run.sha] = "pending"
      /\ \A c \in Commits : c > run.sha => statuses[c] = "none"
  BY ReleaseAssumption DEF PlanInv, Typed, Underway, NotYet, Commits
<1>2. Typed'  BY DEF PlanInv, Typed
<1>3. NotYet'  BY DEF PlanInv, NotYet
<1>4. PlansAreTold'
  <2>1. statuses'[head'] # "success"
    <3>1. head = run.sha \/ head > run.sha  BY <1>1 DEF Commits
    <3> QED  BY <1>1, <3>1
  <2>2. \A c \in Commits : statuses'[c] = "success" => found'[c] # {}  BY DEF PlanInv, PlansAreTold
  <2> QED  BY <2>1, <2>2 DEF PlansAreTold, ToldOnce
<1> QED  BY <1>1, <1>2, <1>3, <1>4

\* What is told of a commit stays true when more plans of it are found.
LEMMA MoreIsFound ==
  ASSUME \A c \in Commits : found[c] \subseteq found'[c], NEW b, b.sha \in Commits, ToldOnce(b)
  PROVE  ToldOnce(b)'
BY DEF ToldOnce

LEMMA CommentsStay ==
  ASSUME PlanInv, comments' = comments, \A c \in Commits : found[c] \subseteq found'[c]
  PROVE  \A b \in comments' : b.sha \in Commits /\ ToldOnce(b)'
<1>1. \A b \in comments : b.sha \in Commits /\ ToldOnce(b)  BY DEF PlanInv, Typed, PlansAreTold, ToldOnce
<1> QED  BY <1>1, MoreIsFound

\* The report that is stored with a result is of a plan of the commit.
LEMMA PlanStep == ASSUME PlanInv, Plan PROVE PlanInv'
<1>1. PICK plan \in Plans, works \in BOOLEAN, stored \in BOOLEAN :
        LET planned == works /\ Readable(plan)
            report == IF planned THEN Success(plan) ELSE Failure
        IN  /\ run' = [run EXCEPT !.at = "reporting", !.result = planned /\ stored]
            /\ storedReport' = IF stored THEN report ELSE storedReport
            /\ found' = IF planned THEN [found EXCEPT ![run.sha] = @ \cup {plan}] ELSE found
  BY DEF Plan
<1> DEFINE planned == works /\ Readable(plan)
<1>2. /\ run.at = "planning" /\ UNCHANGED <<head, open, statuses, comments>>
      /\ run' = [run EXCEPT !.at = "reporting", !.result = planned /\ stored]
      /\ storedReport' = (IF stored THEN IF planned THEN Success(plan) ELSE Failure ELSE storedReport)
      /\ found' = (IF planned THEN [found EXCEPT ![run.sha] = @ \cup {plan}] ELSE found)
  BY <1>1 DEF Plan, Same
<1>3. planned \in BOOLEAN  OBVIOUS
<1> HIDE DEF planned
<1>4. /\ run \in CheckRuns /\ storedReport \in AnyReport /\ found \in [Commits -> SUBSET Plans]
      /\ {"reporting", "planning"} \subseteq Beyond \ {"marking"}
  BY DEF PlanInv, Typed, Beyond
<1>5. run' \in CheckRuns /\ run'.at = "reporting" /\ run'.sha = run.sha /\ run'.result = (planned /\ stored)
  BY <1>2, <1>3, <1>4 DEF CheckRuns
<1>6. run.sha \in Commits  BY <1>2, <1>4, ReleaseAssumption DEF PlanInv, Typed, Underway, Commits
<1>7. /\ found' \in [Commits -> SUBSET Plans] /\ \A c \in Commits : found[c] \subseteq found'[c]
      /\ planned => plan \in found'[run.sha]
  BY <1>2, <1>4, <1>6
<1>8. storedReport' \in AnyReport  BY <1>2, <1>4 DEF AnyReport
<1>9. run'.result => (storedReport \in Reports(run.sha))'
  <2> SUFFICES ASSUME run'.result PROVE (storedReport \in Reports(run.sha))'  OBVIOUS
  <2>1. planned /\ stored  BY <1>5
  <2>2. storedReport' = Success(plan) /\ plan \in found'[run'.sha]  BY <1>2, <1>5, <1>7, <2>1
  <2> QED  BY <2>2 DEF Reports
<1>10. /\ Typed' /\ NotYet' /\ PlansAreTold'
       /\ run'.sha \in 1..head' /\ run.sha \in Commits /\ statuses'[run'.sha] = "pending"
  BY <1>2, <1>4, <1>5, <1>7, <1>8, CommentsStay, RunGoesOn
<1>11. Underway'  BY <1>5, <1>9, <1>10 DEF Underway
<1> QED  BY <1>10, <1>11 DEF PlanInv

LEMMA CheckStep == ASSUME PlanInv, Check PROVE PlanInv'
<1>1. /\ run.at = "reporting" /\ UNCHANGED <<Said, head, open, storedReport, statuses, comments, found>>
      /\ \/ run' = NoRun
         \/ \E downloaded \in BOOLEAN :
              run' = [run EXCEPT !.at = "commenting",
                                 !.report = IF downloaded THEN ReadReport(run.result) ELSE Failure]
  BY DEF Check, Same, Said
<1>2. CASE run' = NoRun
  <2>1. storedReport' \in AnyReport  BY <1>1 DEF PlanInv, Typed
  <2> QED  BY <1>1, <1>2, <2>1, NothingUnderway
<1>3. CASE \E downloaded \in BOOLEAN :
             run' = [run EXCEPT !.at = "commenting",
                                !.report = IF downloaded THEN ReadReport(run.result) ELSE Failure]
  <2>1. PICK report : /\ run' = [run EXCEPT !.at = "commenting", !.report = report]
                      /\ report \in {Failure, ReadReport(run.result)}
    BY <1>3
  <2>2. /\ run \in CheckRuns /\ storedReport \in AnyReport /\ found \in [Commits -> SUBSET Plans]
        /\ {"reporting", "commenting"} \subseteq Beyond \ {"marking"}
    BY DEF PlanInv, Typed, Beyond
  <2>3. report \in {Failure} \cup Reports(run.sha)
    BY <1>1, <2>1, <2>2 DEF ReadReport, PlanInv, Underway, CheckRuns
  <2>4. report \in AnyReport
    BY <2>1, <2>2 DEF ReadReport, AnyReport
  <2>5. run' \in CheckRuns /\ run'.at = "commenting" /\ run'.sha = run.sha /\ run'.report = report
    BY <2>1, <2>2, <2>4 DEF CheckRuns
  <2>6. /\ Typed' /\ NotYet' /\ PlansAreTold'
        /\ run'.sha \in 1..head' /\ run.sha \in Commits /\ statuses'[run'.sha] = "pending"
    BY <1>1, <2>2, <2>5, CommentsStay, RunGoesOn
  <2>7. Underway'  BY <1>1, <2>3, <2>5, <2>6 DEF Underway, Reports
  <2> QED  BY <2>6, <2>7 DEF PlanInv
<1> QED  BY <1>1, <1>2, <1>3

\* The comment becomes the run's report, or stays away with nothing to tell.
LEMMA CommentStep == ASSUME PlanInv, Comment PROVE PlanInv'
<1> PICK body : body = [sha |-> run.sha, report |-> run.report]  OBVIOUS
<1>1. /\ run.at = "commenting" /\ UNCHANGED <<head, open, storedReport, statuses, found>>
      /\ run' = [run EXCEPT !.at = "closing"]
      /\ \/ comments' = {body}
         \/ comments' = {} /\ ~(run.report.status = "success" /\ run.report.changes # {})
  BY DEF Comment, Same
<1>2. /\ run \in CheckRuns /\ storedReport \in AnyReport /\ found \in [Commits -> SUBSET Plans]
      /\ {"commenting", "closing"} \subseteq Beyond \ {"marking"}
  BY DEF PlanInv, Typed, Beyond
<1>3. run' \in CheckRuns /\ run'.at = "closing" /\ run'.sha = run.sha /\ run'.report = run.report
  BY <1>1, <1>2 DEF CheckRuns
<1>4. /\ run.report \in {Failure} \cup Reports(run.sha) /\ run.sha \in Commits
  BY <1>1, <1>2, ReleaseAssumption DEF PlanInv, Typed, Underway, Commits
<1>5. body.sha = run.sha /\ body.report = run.report  OBVIOUS
<1>6. ToldOnce(body)
  <2>1. CASE run.report = Failure  BY <1>5, <2>1, ReportFields DEF ToldOnce
  <2>2. CASE run.report \in Reports(run.sha)
    <3>1. PICK plan \in found[run.sha] : run.report = Success(plan)  BY <2>2 DEF Reports
    <3> QED  BY <1>5, <3>1, ReportFields DEF ToldOnce
  <2> QED  BY <1>4, <2>1, <2>2
<1>7. ToldOnce(body)'  BY <1>1, <1>6 DEF ToldOnce
<1>8. \A b \in comments' : b.sha \in Commits /\ ToldOnce(b)'
  <2> SUFFICES ASSUME NEW b \in comments' PROVE b.sha \in Commits /\ ToldOnce(b)'  OBVIOUS
  <2>1. b = body  BY <1>1
  <2> QED  BY <1>4, <1>5, <1>7, <2>1
<1>9. /\ Typed' /\ NotYet' /\ PlansAreTold'
      /\ run'.sha \in 1..head' /\ run.sha \in Commits /\ statuses'[run'.sha] = "pending"
  BY <1>1, <1>2, <1>3, <1>8, RunGoesOn
<1>10. IF comments' = {} THEN run'.report = Failure \/ run'.report.changes = {}
       ELSE \A b \in comments' : b.sha = run'.sha /\ b.report = run'.report
  <2>1. run.report # Failure => run.report.status = "success"
    <3>1. run.report # Failure => \E plan : run.report = Success(plan)  BY <1>4 DEF Reports
    <3> QED  BY <3>1, ReportFields
  <2>2. CASE comments' = {}  BY <1>1, <1>3, <2>1, <2>2
  <2>3. CASE comments' = {body}  BY <1>3, <1>5, <2>3
  <2> QED  BY <1>1, <2>2, <2>3
<1>11. Underway'  BY <1>1, <1>3, <1>4, <1>9, <1>10 DEF Underway, Reports
<1> QED  BY <1>9, <1>11 DEF PlanInv

\* The status becomes that of the report, which the comment agrees with.
LEMMA CloseStep == ASSUME PlanInv, Close PROVE PlanInv'
<1>1. /\ run.at = "closing" /\ run' = NoRun /\ UNCHANGED <<head, open, storedReport, comments, found>>
      /\ statuses' = [statuses EXCEPT ![run.sha] = run.report.status]
  BY DEF Close, Same
<1>2. /\ run.sha \in 1..head /\ run.sha \in Commits /\ head \in Commits
      /\ \A c \in Commits : c > run.sha => statuses[c] = "none"
      /\ run.report \in {Failure} \cup Reports(run.sha)
      /\ IF comments = {} THEN run.report = Failure \/ run.report.changes = {}
         ELSE \A b \in comments : b.sha = run.sha /\ b.report = run.report
  BY <1>1, ReleaseAssumption DEF PlanInv, Typed, Underway, NotYet, Beyond, Commits
<1>3. \/ run.report = Failure /\ run.report.status = "error"
      \/ \E plan \in found[run.sha] :
           run.report = Success(plan) /\ run.report.status = "success" /\ run.report.changes = Changes(plan)
  BY <1>2, ReportFields DEF Reports
<1>4. \A c \in Commits : statuses'[c] = (IF c = run.sha THEN run.report.status ELSE statuses[c])
  BY <1>1, <1>2 DEF PlanInv, Typed
<1>5. NoRun \in CheckRuns /\ NoRun.at \notin Beyond  BY DEF NoRun, CheckRuns, AnyReport, Beyond
<1>6. Typed'  BY <1>1, <1>3, <1>5 DEF PlanInv, Typed
<1>7. Underway'  BY <1>1, <1>5 DEF Underway, Beyond
<1>8. NotYet'
  <2>1. \A c \in Commits : c > head => c > run.sha /\ c # run.sha  BY <1>2 DEF Commits
  <2> QED  BY <1>1, <1>2, <1>4, <1>5, <2>1 DEF NotYet
<1>9. PlansAreTold'
  <2>1. \A c \in Commits : statuses'[c] = "success" => found'[c] # {}
    BY <1>1, <1>3, <1>4 DEF PlanInv, PlansAreTold
  <2>2. \A b \in comments' :
          IF b.report.status = "success" THEN b.report.changes \in {Changes(plan) : plan \in found'[b.sha]}
          ELSE b.report.changes = {}
    BY <1>1 DEF PlanInv, PlansAreTold
  <2>3. ASSUME statuses'[head] = "success"
        PROVE  IF comments = {} THEN {} \in {Changes(plan) : plan \in found[head]}
               ELSE \A b \in comments : b.sha = head /\ b.report.status = "success"
    <3>1. head = run.sha
      <4>1. head = run.sha \/ head > run.sha  BY <1>2 DEF Commits
      <4> QED  BY <1>2, <1>4, <2>3, <4>1
    <3>2. run.report.status = "success"  BY <1>2, <1>4, <2>3, <3>1
    <3>3. PICK plan \in found[head] : run.report.changes = Changes(plan)  BY <1>3, <3>1, <3>2
    <3>4. run.report # Failure  BY <3>2, ReportFields
    <3> QED  BY <1>2, <3>1, <3>2, <3>3, <3>4
  <2>4. PlansAreTold' =
          /\ \A c \in Commits : statuses'[c] = "success" => found'[c] # {}
          /\ \A b \in comments' :
               IF b.report.status = "success" THEN b.report.changes \in {Changes(plan) : plan \in found'[b.sha]}
               ELSE b.report.changes = {}
          /\ statuses'[head'] = "success" =>
               IF comments' = {} THEN {} \in {Changes(plan) : plan \in found'[head']}
               ELSE \A b \in comments' : b.sha = head' /\ b.report.status = "success"
    BY DEF PlansAreTold
  <2> QED  BY <1>1, <2>1, <2>2, <2>3, <2>4
<1> QED  BY <1>6, <1>7, <1>8, <1>9 DEF PlanInv

LEMMA NextPlanInv == PlanInv /\ [ReleaseNext]_releaseVars => PlanInv'
<1> SUFFICES ASSUME PlanInv, [ReleaseNext]_releaseVars PROVE PlanInv'  OBVIOUS
<1>1. CASE PlanNext
  <2>1. CASE CloseOrReopen
    <3>1. UNCHANGED <<head, statuses, comments, found, run, storedReport>> /\ open' = ~open
      BY <2>1 DEF CloseOrReopen
    <3>2. Typed'  BY <3>1 DEF PlanInv, Typed
    <3>3. Underway'  BY <3>1 DEF PlanInv, Underway, Reports
    <3>4. NotYet'  BY <3>1 DEF PlanInv, NotYet
    <3>5. PlansAreTold'  BY <3>1, SameSaid DEF Said
    <3> QED  BY <3>2, <3>3, <3>4, <3>5 DEF PlanInv
  <2>2. CASE Dispatch  BY <2>2, SameRun DEF Dispatch, Said
  <2>3. CASE Begin
    <3>1. UNCHANGED Said /\ UNCHANGED open /\ run' = [NoRun EXCEPT !.at = "context"]
      BY <2>3 DEF Begin, Said
    <3>2. storedReport' \in AnyReport  BY <2>3 DEF Begin, PlanInv, Typed, AnyReport
    <3> QED  BY <3>1, <3>2, NothingUnderway
  <2>4. CASE Abort
    <3>1. UNCHANGED Said /\ UNCHANGED open /\ run' = NoRun /\ storedReport' \in AnyReport
      BY <2>4 DEF Abort, Same, Said, PlanInv, Typed
    <3> QED  BY <3>1, NothingUnderway
  <2> QED  BY <1>1, <2>1, <2>2, <2>3, <2>4, PushStep, ReadPullStep, MarkStep, PlanStep, CheckStep,
              CommentStep, CloseStep DEF PlanNext
<1>2. CASE DeployNext \/ UNCHANGED releaseVars
  <2>1. UNCHANGED pull
    BY <1>2 DEF DeployNext, releaseVars, Submit, Advance, WriteArtifact, Deploy, FailDeploy, DisableSchedule,
             DisableQueue, Wait, Unprotect, DeleteArtifacts, Apply, Record, Unmoved
  <2> QED  BY <2>1, SameRun DEF pull, Said
<1> QED  BY <1>1, <1>2 DEF ReleaseNext

\* pr_plan.py: whatever is pushed, cancelled, rerun or fails meanwhile, a commit's status and
\* the comment say what a plan of that commit found, and a head's success is not commented
\* on with another commit's changes.
THEOREM PlansAreToldHolds == ReleaseSpec => []PlansAreTold
<1>1. PlanInv => PlansAreTold  BY DEF PlanInv
<1> QED  BY <1>1, InitPlanInv, NextPlanInv, PTL DEF ReleaseSpec
----------------------------------------------------------------------------

Closing == {"disabling", "closing"}
Quiet == {"unprotecting", "deleting", "applying", "verifying"}

\* How far a reset has come: the queues it has closed, the places of a job it has found
\* empty, and then that no job of the retired pipelines is active or will be.
RetireInv ==
  /\ batch \in [BatchJobs -> 0..Ended] /\ queueOf \in [BatchJobs -> Queues] /\ accepting \subseteq Queues
  /\ step \in {"none", "waiting"} \cup Closing \cup Quiet /\ DOMAIN tables = 1..2
  /\ step \in Closing => at \in 1..2 /\ (at = 2 => Order[1] \notin accepting)
  /\ step \in {"waiting"} \cup Quiet => accepting = {}
  /\ step = "waiting" => at \in 1..5 /\ \A j \in BatchJobs : batch[j] \notin 1..(at - 1)
  /\ step \in Quiet => \A j \in BatchJobs : batch[j] \in {0, Ended}
  /\ step \in {"applying", "verifying"} => artifacts = {}

\* What a step of the reset may do.
RetiredStep ==
  /\ step' \in Quiet => \A j \in BatchJobs : batch'[j] \in {0, Ended}
  /\ step' \in {"applying", "verifying"} => artifacts' = {}
  /\ \A i \in 1..2 : tables[i] = "foreign" => tables'[i] = "foreign"

LEMMA Listings ==
  /\ Order[1] = "pass" /\ Order[2] = "status" /\ Queues = {Order[1], Order[2]}
  /\ \A i \in 1..5 : Statuses[i] = i
BY DEF Order, Queues, Statuses

LEMMA InitRetire == ReleaseInit => RetireInv
BY DEF ReleaseInit, RetireInv, Closing, Quiet, Ended

\* A pull request's runs touch nothing of the pipelines.
LEMMA PlanRetire == ASSUME RetireInv, UNCHANGED <<deployment, retired>> PROVE RetireInv' /\ RetiredStep
<1>1. UNCHANGED <<step, at, accepting, batch, queueOf, tables, artifacts>>  BY DEF deployment, retired
<1>2. RetireInv'  BY <1>1 DEF RetireInv
<1>3. RetiredStep  BY <1>1 DEF RetireInv, RetiredStep
<1> QED  BY <1>2, <1>3

\* None is submitted once the queues are closed, and those before the place of the wait
\* stay before the first one.
LEMMA JobRetire ==
  ASSUME RetireInv, NEW j \in BatchJobs, Submit(j) \/ Advance(j) \/ WriteArtifact(j)
  PROVE  RetireInv' /\ RetiredStep
<1>1. UNCHANGED <<step, at, accepting, queueOf, tables>>
  BY DEF Submit, Advance, WriteArtifact, deployment
<1>2. /\ batch' \in [BatchJobs -> 0..Ended]
      /\ \A i \in BatchJobs \ {j} : batch'[i] = batch[i]
      /\ \/ batch'[j] = batch[j]
         \/ batch[j] = 0 /\ batch'[j] = 1 /\ accepting # {}
         \/ batch[j] \in 1..Running /\ batch'[j] \in {batch[j] + 1, Ended}
  <2>1. batch \in [BatchJobs -> 0..Ended]  BY DEF RetireInv
  <2>2. CASE Submit(j)  BY <2>1, <2>2 DEF Submit, Ended
  <2>3. CASE Advance(j)  BY <2>1, <2>3 DEF Advance, Active, Running, Ended
  <2>4. CASE WriteArtifact(j)  BY <2>1, <2>4 DEF WriteArtifact
  <2> QED  BY <2>2, <2>3, <2>4
<1>3. step \in {"applying", "verifying"} => UNCHANGED artifacts
  <2>1. step \in {"applying", "verifying"} => batch[j] \in {0, Ended}  BY DEF RetireInv, Quiet
  <2> QED  BY <2>1 DEF Submit, Advance, WriteArtifact, Running, Ended
<1>4. step = "waiting" => \A i \in BatchJobs : batch'[i] \notin 1..(at - 1)
  <2> SUFFICES ASSUME step = "waiting", NEW i \in BatchJobs PROVE batch'[i] \notin 1..(at - 1)  OBVIOUS
  <2>1. accepting = {} /\ at \in 1..5 /\ batch[i] \notin 1..(at - 1)  BY DEF RetireInv
  <2>2. batch[i] \in 0..Ended /\ batch'[i] \in 0..Ended  BY <1>2 DEF RetireInv
  <2>3. \/ batch'[i] = batch[i]
        \/ batch[i] \in 1..Running /\ batch'[i] \in {batch[i] + 1, Ended}
    BY <1>2, <2>1
  <2> QED  BY <2>1, <2>2, <2>3 DEF Running, Ended
<1>5. step \in Quiet => \A i \in BatchJobs : batch'[i] \in {0, Ended}
  <2> SUFFICES ASSUME step \in Quiet, NEW i \in BatchJobs PROVE batch'[i] \in {0, Ended}  OBVIOUS
  <2>1. accepting = {} /\ batch[i] \in {0, Ended} /\ batch[j] \in {0, Ended}  BY DEF RetireInv
  <2> QED  BY <1>2, <2>1 DEF Running, Ended
<1>6. RetireInv'
  BY <1>1, <1>2, <1>3, <1>4, <1>5 DEF RetireInv
<1>7. RetiredStep  BY <1>1, <1>3, <1>5 DEF RetiredStep, RetireInv
<1> QED  BY <1>6, <1>7

\* A queue at a time, until both are closed.
LEMMA CloseRetire ==
  ASSUME RetireInv, Deploy \/ DisableSchedule \/ DisableQueue
  PROVE  RetireInv' /\ RetiredStep
<1>1. UNCHANGED <<batch, queueOf, tables, artifacts>>
  BY DEF Deploy, DisableSchedule, DisableQueue, Unmoved
<1>2. CASE Deploy
  <2>1. step' = "disabling" /\ at' = 1 /\ UNCHANGED accepting  BY <1>2 DEF Deploy, Unmoved
  <2> QED  BY <1>1, <2>1 DEF RetireInv, RetiredStep, Closing, Quiet
<1>3. CASE DisableSchedule
  <2>1. step = "disabling" /\ step' = "closing" /\ UNCHANGED <<at, accepting>>
    BY <1>3 DEF DisableSchedule, Goto
  <2> QED  BY <1>1, <2>1 DEF RetireInv, RetiredStep, Closing, Quiet
<1>4. CASE DisableQueue
  <2>1. /\ step = "closing" /\ accepting' = accepting \ {Order[at]}
        /\ at \in {1, 2} /\ accepting \subseteq Queues /\ (at = 2 => Order[1] \notin accepting)
    BY <1>4 DEF DisableQueue, RetireInv, Closing
  <2>2. CASE at = 1
    <3>1. step' = "disabling" /\ at' = 2  BY <1>4, <2>2 DEF DisableQueue, Goto, Order
    <3>2. Order[1] \notin accepting'  BY <2>1, <2>2
    <3> QED  BY <1>1, <2>1, <3>1, <3>2 DEF RetireInv, RetiredStep, Closing, Quiet
  <2>3. CASE at = 2
    <3>1. step' = "waiting" /\ at' = 1  BY <1>4, <2>3 DEF DisableQueue, Goto, Order
    <3>2. accepting' = {}
      <4>1. Order[1] \notin accepting  BY <2>1, <2>3
      <4> QED  BY <2>1, <2>3, <4>1, Listings
    <3>3. \A j \in BatchJobs : batch'[j] \notin 1..(at' - 1)  BY <3>1
    <3> QED  BY <1>1, <3>1, <3>2, <3>3 DEF RetireInv, RetiredStep, Closing, Quiet
  <2> QED  BY <2>1, <2>2, <2>3
<1> QED  BY <1>2, <1>3, <1>4

\* A place that is listed empty stays so; after the last one no job is active.
LEMMA WaitRetire == ASSUME RetireInv, Wait PROVE RetireInv' /\ RetiredStep
<1>1. /\ step = "waiting" /\ UNCHANGED <<accepting, batch, queueOf, tables, artifacts>>
      /\ accepting = {} /\ at \in 1..5 /\ batch \in [BatchJobs -> 0..Ended]
      /\ \A j \in BatchJobs : batch[j] \notin 1..(at - 1)
  BY DEF Wait, Unmoved, RetireInv
<1>2. CASE Listing # {} /\ at' = 1 /\ Goto("waiting")
  <2>1. step' = "waiting" /\ at' = 1 /\ \A j \in BatchJobs : batch'[j] \notin 1..(at' - 1)  BY <1>2 DEF Goto
  <2> QED  BY <1>1, <2>1 DEF RetireInv, RetiredStep, Closing, Quiet
<1>3. Listing = {} => \A j \in BatchJobs : batch[j] \notin 1..at
  <2>1. Listing = {} => \A j \in BatchJobs : batch[j] # at  BY <1>1, Listings DEF Listing
  <2> QED  BY <1>1, <2>1
<1>4. CASE Listing = {} /\ at < Len(Statuses) /\ at' = at + 1 /\ Goto("waiting")
  <2>1. step' = "waiting" /\ at' \in 1..5 /\ at' - 1 = at  BY <1>1, <1>4 DEF Goto, Statuses
  <2> QED  BY <1>1, <1>3, <1>4, <2>1 DEF RetireInv, RetiredStep, Closing, Quiet
<1>5. CASE Listing = {} /\ at = Len(Statuses) /\ at' = 0 /\ Goto("unprotecting")
  <2>1. step' = "unprotecting" /\ at = 5  BY <1>5 DEF Goto, Statuses
  <2>2. \A j \in BatchJobs : batch[j] \in {0, Ended}  BY <1>1, <1>3, <1>5, <2>1 DEF Ended
  <2> QED  BY <1>1, <2>1, <2>2 DEF RetireInv, RetiredStep, Closing, Quiet
<1> QED  BY <1>2, <1>4, <1>5 DEF Wait

\* What is retired goes in order, and nothing foreign with it.
LEMMA DeleteRetire ==
  ASSUME RetireInv, Unprotect \/ DeleteArtifacts \/ Apply \/ Record \/ FailDeploy
  PROVE  RetireInv' /\ RetiredStep
<1>1. UNCHANGED <<batch, queueOf, accepting>>
  BY DEF Unprotect, DeleteArtifacts, Apply, Record, FailDeploy, Unmoved
<1>2. DOMAIN tables' = 1..2 /\ \A i \in 1..2 : tables[i] = "foreign" => tables'[i] = "foreign"
  BY DEF RetireInv, Unprotect, DeleteArtifacts, Apply, Record, FailDeploy, Unmoved
<1>3. \/ step' = "none"
      \/ step \in Quiet /\ step' \in {"deleting"}
      \/ step \in Quiet /\ step' = "applying" /\ artifacts' = {}
      \/ step = "applying" /\ step' = "verifying" /\ UNCHANGED artifacts
  BY DEF Unprotect, DeleteArtifacts, Apply, Record, FailDeploy, Goto, Quiet
<1> QED  BY <1>1, <1>2, <1>3 DEF RetireInv, RetiredStep, Closing, Quiet

LEMMA NextRetire == ASSUME RetireInv, [ReleaseNext]_releaseVars PROVE RetireInv' /\ RetiredStep
<1>1. CASE PlanNext \/ UNCHANGED releaseVars
  <2>1. UNCHANGED <<deployment, retired>>
    BY <1>1 DEF PlanNext, releaseVars, Push, CloseOrReopen, Dispatch, Begin, Abort, ReadPull, Mark, Plan,
                Check, Comment, Close, Same
  <2> QED  BY <2>1, PlanRetire
<1>2. CASE DeployNext
  BY <1>2, JobRetire, CloseRetire, WaitRetire, DeleteRetire DEF DeployNext
<1> QED  BY <1>1, <1>2 DEF ReleaseNext

\* reset.py: nothing is deleted while a job of the retired pipelines could still write, no
\* artifact comes back before the apply, and what is not monitoring's stays.
THEOREM RetiredDataIsGoneHolds == ReleaseSpec => RetiredDataIsGone
<1>1. RetireInv /\ [ReleaseNext]_releaseVars => RetireInv' /\ RetiredStep  BY NextRetire
<1>2. RetiredStep =>
        [/\ step' \in {"unprotecting", "deleting", "applying", "verifying"} => \A j \in BatchJobs : batch'[j] \in {0, Ended}
         /\ step' \in {"applying", "verifying"} => artifacts' = {}
         /\ \A i \in 1..2 : tables[i] = "foreign" => tables'[i] = "foreign"]_releaseVars
  BY DEF RetiredStep, Quiet
<1> QED  BY InitRetire, <1>1, <1>2, PTL DEF ReleaseSpec, RetiredDataIsGone

----------------------------------------------------------------------------
(* ControlBox *)

States == {"none", "terminated", "shutting-down"} \cup Live
Envs == [version : Nat, local : BOOLEAN]
Volumes == [to : Boxes \cup {Nil}, data : {"none", "raw", "empty", "state"}, env : SUBSET Envs]
Written(version, isLocal) == volume.env = {[version |-> version, local |-> isLocal]} /\ version # Nil

Reaching == {"wait", "volume", "attach", "address", "associate", "alias", "ssh"}

Aside ==
  \/ stage' = stage \/ stage' \notin Reaching \cup OnBox
  \/ <<stage, stage'>> \in {<<"wait", "volume">>, <<"address", "associate">>, <<"alias", "ssh">>}

ControlTyped ==
  /\ parameter \in Nat /\ box \in [Boxes -> States] /\ target \in Boxes \cup {Nil} /\ leads \in Boxes \cup {Nil}
  /\ volume \in Volumes /\ settings \in Envs /\ mounted \in BOOLEAN

\* Instances follow each other: none is launched while one lives.
OneLives == \A b, c \in Boxes : box[b] \in Live /\ box[c] \in Live => b = c

\* A script on the box is on the box that lives, which the address leads to.
TargetIsReached ==
  /\ stage \in Reaching \cup OnBox => target \in Boxes
  /\ stage \in {"alias", "ssh"} => leads \in {Nil, target}
  /\ stage \in OnBox => leads = target /\ box[target] = "running"

VolumeIsMounted == stage \in OnBox \ {"packages", "disk", "mount"} => mounted

Serving == {"caddy", "install caddy", "caddyfile", "certificate"}

\* The file is written before AgentRQ is restarted, and only then is its answer awaited.
EnvironmentIsWritten ==
  /\ stage = "rewrite" => \E version \in Nat : Written(version, FALSE)
  /\ stage \in Serving \cup {"unit", "health"} => \E version \in Nat : Written(version, TRUE)
  /\ stage = "health" => service = "waiting" \/ (service = "up" /\ Written(settings.version, TRUE))
  /\ stage \in Serving => service \in {"waiting", "up"} /\ Written(settings.version, TRUE)

ControlInv == ControlTyped /\ OneLives /\ TargetIsReached /\ VolumeIsMounted /\ EnvironmentIsWritten /\ StateIsOnTheVolume

LEMMA InitControlInv == ControlInit => ControlInv
<1> SUFFICES ASSUME ControlInit PROVE ControlInv  OBVIOUS
<1> USE DEF ControlInit, Nil, Live
<1>1. ControlTyped  BY DEF ControlTyped, States, Volumes, Envs, NoEnv
<1>2. OneLives /\ TargetIsReached /\ VolumeIsMounted  BY DEF OneLives, TargetIsReached, Reaching, VolumeIsMounted, OnBox
<1>3. EnvironmentIsWritten /\ StateIsOnTheVolume  BY DEF EnvironmentIsWritten, Serving, StateIsOnTheVolume
<1> QED  BY <1>1, <1>2, <1>3 DEF ControlInv

\* A step of the script that leaves EC2, the volume and the box alone, and goes on to a
\* stage before the address is given out, or ends the script.
LEMMA AsideKeepsInv ==
  ASSUME ControlInv, UNCHANGED <<target, box, leads, volume, mounted, service, settings, astray>>, parameter' \in Nat,
         Aside
  PROVE  ControlInv'
<1>1. ControlTyped' /\ OneLives' /\ StateIsOnTheVolume'  BY DEF ControlInv, ControlTyped, OneLives, StateIsOnTheVolume
<1>2. TargetIsReached'  BY DEF Aside, ControlInv, TargetIsReached, Reaching, OnBox
<1>3. VolumeIsMounted'  BY DEF Aside, Reaching, ControlInv, VolumeIsMounted, OnBox
<1>4. EnvironmentIsWritten'  BY DEF Aside, Reaching, ControlInv, EnvironmentIsWritten, Serving, Written, OnBox
<1> QED  BY <1>1, <1>2, <1>3, <1>4 DEF ControlInv

LEMMA ScriptPreparesKeepsInv ==
  ASSUME ControlInv,
         PutSecrets \/ BeginScript \/ Finish \/ Cut \/ KeyPair \/ Groups \/ Role \/ Profile \/ WaitForBox \/ Address \/ Alias
  PROVE  ControlInv'
<1>1. UNCHANGED <<target, box, leads, volume, mounted, service, settings, astray>>
  BY DEF PutSecrets, BeginScript, Finish, Cut, KeyPair, Groups, Role, Profile, WaitForBox, Address, Alias, Make, onbox
<1>3. parameter' \in {parameter, parameter + 1}
  BY DEF PutSecrets, BeginScript, Finish, Cut, KeyPair, Groups, Role, Profile, WaitForBox, Address, Alias, Make
<1>4. parameter' \in Nat  BY <1>3 DEF ControlInv, ControlTyped
<1>2. Aside
  BY DEF Aside, Reaching, PutSecrets, BeginScript, Finish, Cut, KeyPair, Groups, Role, Profile, WaitForBox, Address, Alias, Make, OnBox
<1> QED  BY <1>1, <1>2, <1>4, AsideKeepsInv

\* What happens to a box, when the script is not on it.
LEMMA BoxesKeepInv ==
  ASSUME ControlInv, UNCHANGED <<parameter, target, settings, astray>>, stage' \notin OnBox,
         box' \in [Boxes -> States], OneLives', volume' \in Volumes, leads' \in Boxes \cup {Nil}, mounted' \in BOOLEAN,
         stage' \in Reaching => target \in Boxes,
         stage' \in {"alias", "ssh"} => leads' \in {Nil, target}
  PROVE  ControlInv'
<1>1. ControlTyped' /\ StateIsOnTheVolume'  BY DEF ControlInv, ControlTyped, StateIsOnTheVolume
<1>2. TargetIsReached'  BY DEF TargetIsReached
<1>3. VolumeIsMounted'  BY DEF VolumeIsMounted
<1>4. EnvironmentIsWritten'  BY DEF EnvironmentIsWritten, Serving, OnBox
<1> QED  BY <1>1, <1>2, <1>3, <1>4 DEF ControlInv

LEMMA DownKeepsInv ==
  ASSUME ControlInv, Stop \/ Terminate \/ Reboot
  PROVE  ControlInv'
<1>1. PICK b \in Boxes, state \in {"stopped", "shutting-down", "pending"} :
        box[b] \in {"running", "stopped"} /\ Down(b, state)
  BY DEF Stop, Terminate, Reboot
<1> USE DEF Down, ControlInv
<1>2. box' \in [Boxes -> States] /\ OneLives'  BY <1>1 DEF ControlTyped, States, OneLives, Live
<1>3. stage' \notin OnBox /\ (stage' = stage \/ stage' = "idle")  BY <1>1 DEF OnBox
<1>4. UNCHANGED <<parameter, target, settings, astray, leads, volume>> /\ mounted' = FALSE  BY <1>1
<1> QED  BY <1>2, <1>3, <1>4, BoxesKeepInv DEF TargetIsReached, Reaching, ControlTyped

LEMMA BootKeepsInv ==
  ASSUME ControlInv, Boot
  PROVE  ControlInv'
<1>1. PICK b \in Boxes : box[b] = "pending" /\ box' = [box EXCEPT ![b] = "running"]  BY DEF Boot
<1> USE DEF Boot, laptop, ControlInv
<1>2. box' \in [Boxes -> States] /\ OneLives'  BY <1>1 DEF ControlTyped, States, OneLives, Live
<1>3. stage' = stage /\ stage \notin OnBox  BY <1>1 DEF TargetIsReached, OneLives, Live
<1>4. UNCHANGED <<parameter, target, settings, astray, leads, volume>> /\ mounted' \in BOOLEAN  BY DEF ControlTyped
<1> QED  BY <1>2, <1>3, <1>4, BoxesKeepInv DEF TargetIsReached, Reaching, ControlTyped

LEMMA GoneKeepsInv ==
  ASSUME ControlInv, Gone
  PROVE  ControlInv'
<1>1. PICK b \in Boxes : /\ box[b] = "shutting-down" /\ box' = [box EXCEPT ![b] = "terminated"]
                         /\ leads' = IF leads = b THEN Nil ELSE leads
                         /\ volume' = IF volume.to = b THEN [volume EXCEPT !.to = Nil] ELSE volume
  BY DEF Gone
<1>2. UNCHANGED <<stage, parameter, target, settings, astray, mounted, service>>  BY DEF Gone, laptop, onbox
<1>3. volume' \in Volumes /\ volume'.env = volume.env  BY <1>1 DEF ControlInv, ControlTyped, Volumes
<1>4. ControlTyped' /\ OneLives' /\ StateIsOnTheVolume'
  BY <1>1, <1>2, <1>3 DEF ControlInv, ControlTyped, OneLives, StateIsOnTheVolume, States, Live
<1>5. TargetIsReached'  BY <1>1, <1>2 DEF ControlInv, ControlTyped, TargetIsReached
<1>6. VolumeIsMounted' /\ EnvironmentIsWritten'
  BY <1>2, <1>3 DEF ControlInv, VolumeIsMounted, EnvironmentIsWritten, Serving, Written
<1> QED  BY <1>4, <1>5, <1>6 DEF ControlInv

\* AgentRQ is started with what is in the file, from the volume.
LEMMA ServiceStartsKeepsInv ==
  ASSUME ControlInv, ServiceStarts
  PROVE  ControlInv' /\ volume'.data = "state"
<1>1. mounted /\ volume.env # {} /\ service' = "up" /\ ~astray'
  BY DEF ServiceStarts, HasEnv, ControlInv, StateIsOnTheVolume
<1>2. settings' \in volume.env  BY <1>1 DEF ServiceStarts
<1>3. volume' = [volume EXCEPT !.data = "state"]  BY <1>1 DEF ServiceStarts
<1>4. volume' \in Volumes /\ volume'.env = volume.env /\ volume'.data = "state" /\ settings' \in Envs
  BY <1>2, <1>3 DEF ControlInv, ControlTyped, Volumes
<1>5. UNCHANGED <<stage, parameter, target, box, leads, mounted>>  BY DEF ServiceStarts, laptop
<1>6. ControlTyped' /\ OneLives' /\ TargetIsReached' /\ VolumeIsMounted' /\ StateIsOnTheVolume'
  BY <1>1, <1>4, <1>5 DEF ControlInv, ControlTyped, OneLives, TargetIsReached, VolumeIsMounted, StateIsOnTheVolume
<1>7. ASSUME NEW version \in Nat, Written(version, TRUE)
      PROVE  Written(settings.version, TRUE)'
  BY <1>2, <1>4, <1>7 DEF Written
<1>8. EnvironmentIsWritten'  BY <1>1, <1>4, <1>5, <1>7 DEF ControlInv, EnvironmentIsWritten, Serving, Written
<1> QED  BY <1>4, <1>6, <1>8 DEF ControlInv

LEMMA DiesKeepsInv ==
  ASSUME ControlInv, Dies
  PROVE  ControlInv'
<1>1. UNCHANGED <<stage, parameter, target, box, leads, volume, mounted, settings, astray>> /\ service' = "waiting"
  BY DEF Dies, laptop
<1>2. ControlTyped' /\ OneLives' /\ TargetIsReached' /\ VolumeIsMounted' /\ StateIsOnTheVolume'
  BY <1>1 DEF ControlInv, ControlTyped, OneLives, TargetIsReached, VolumeIsMounted, StateIsOnTheVolume
<1>3. EnvironmentIsWritten'  BY <1>1 DEF ControlInv, EnvironmentIsWritten, Serving, Written
<1> QED  BY <1>2, <1>3 DEF ControlInv

LEMMA InstanceKeepsInv ==
  ASSUME ControlInv, Instance
  PROVE  ControlInv'
<1> USE DEF ControlInv
<1>1. UNCHANGED <<parameter, leads, volume>> /\ astray' = astray /\ stage' \in {"wait", "idle"}
  BY DEF Instance, onbox
<1>2. mounted' \in BOOLEAN /\ settings' \in Envs
  <2>1. NoEnv \in Envs  BY DEF NoEnv, Envs, Nil
  <2>2. UNCHANGED <<mounted, settings>> \/ (mounted' = FALSE /\ settings' = NoEnv)  BY DEF Instance, onbox
  <2> QED  BY <2>1, <2>2 DEF ControlTyped
<1>3. /\ box' \in [Boxes -> States] /\ target' \in Boxes \cup {Nil} /\ OneLives'
      /\ stage' = "wait" => target' \in Boxes
  <2>1. ASSUME Current # {}, NEW b \in Current, target' = b, box' = [box EXCEPT ![b] = IF @ = "stopped" THEN "pending" ELSE @]
        PROVE  <1>3!1
    BY <2>1 DEF Current, ControlTyped, OneLives, States, Live
  <2> QED  BY ZenonT(30) DEF Instance, Current, ControlTyped, OneLives, States, Live
<1>4. ControlTyped' /\ StateIsOnTheVolume'  BY <1>1, <1>2, <1>3 DEF ControlTyped, StateIsOnTheVolume
<1>5. TargetIsReached' /\ VolumeIsMounted' /\ EnvironmentIsWritten'
  BY <1>1, <1>3 DEF TargetIsReached, VolumeIsMounted, EnvironmentIsWritten, Serving, OnBox, Reaching
<1> QED  BY <1>3, <1>4, <1>5

\* The volume, its attachment, the address and the connection.
LEMMA ReachKeepsInv ==
  ASSUME ControlInv, Volume \/ Attach \/ Associate \/ Ssh
  PROVE  ControlInv'
<1> USE DEF ControlInv
<1>1. UNCHANGED <<parameter, target, box, mounted, service, settings, astray>>
  BY DEF Volume, Attach, Associate, Ssh, onbox
<1>2. volume' \in Volumes /\ leads' \in Boxes \cup {Nil}
  BY DEF Volume, Attach, Associate, Ssh, ControlTyped, Volumes
<1>3. stage' \notin OnBox \ {"packages"}  BY DEF Volume, Attach, Associate, Ssh, OnBox
<1>4. TargetIsReached'
  BY DEF Volume, Attach, Associate, Ssh, TargetIsReached, Reaching, OnBox, onbox
<1>5. ControlTyped' /\ OneLives' /\ StateIsOnTheVolume'  BY <1>1, <1>2 DEF ControlTyped, OneLives, StateIsOnTheVolume
<1>6. VolumeIsMounted' /\ EnvironmentIsWritten'  BY <1>3 DEF VolumeIsMounted, EnvironmentIsWritten, Serving, OnBox
<1> QED  BY <1>4, <1>5, <1>6

\* configure-control.sh before AgentRQ is restarted.
LEMMA FilesKeepInv ==
  ASSUME ControlInv, Packages \/ Disk \/ Mount \/ Environment
  PROVE  ControlInv'
<1> USE DEF ControlInv
<1>1. UNCHANGED <<parameter, target, leads, box, service, settings, astray>> /\ mounted' \in {mounted, TRUE}
  BY DEF Packages, Disk, Mount, Environment, WriteEnv, onbox
<1>2. volume' \in Volumes
  <2>1. CASE Packages \/ Disk \/ Mount  BY <2>1 DEF Packages, Disk, Mount, ControlTyped, Volumes
  <2>2. CASE Environment
    <3>1. PICK env, next : WriteEnv(env, next) /\ env \in Envs
      <4>1. NoEnv \in Envs /\ [version |-> parameter, local |-> FALSE] \in Envs
        BY DEF NoEnv, Envs, Nil, ControlTyped
      <4>2. \A e \in volume.env : [e EXCEPT !.local = TRUE] \in Envs  BY DEF ControlTyped, Volumes, Envs
      <4> QED  BY <2>2, <4>1, <4>2 DEF Environment
    <3> QED  BY <3>1 DEF WriteEnv, ControlTyped, Volumes
  <2> QED  BY <2>1, <2>2
<1>3. ControlTyped' /\ OneLives' /\ StateIsOnTheVolume'  BY <1>1, <1>2 DEF ControlTyped, OneLives, StateIsOnTheVolume
<1>4. stage \in OnBox /\ stage' \in (OnBox \cup {"idle"}) \ (Serving \cup {"health"})
  BY DEF Packages, Disk, Mount, Environment, WriteEnv, OnBox, Serving
<1>5. TargetIsReached'  BY <1>1, <1>4 DEF TargetIsReached, Reaching, OnBox
<1>6. VolumeIsMounted'  BY <1>1 DEF VolumeIsMounted, OnBox, Packages, Disk, Mount, Environment, WriteEnv, onbox
<1>7. EnvironmentIsWritten'
  <2>1. CASE stage' \notin {"rewrite", "unit"}  BY <2>1, <1>4 DEF EnvironmentIsWritten, Serving, OnBox
  <2>2. CASE stage' = "rewrite"
    BY <2>2 DEF EnvironmentIsWritten, Serving, Packages, Disk, Mount, Environment, WriteEnv, Written, ControlTyped, Volumes, Nil
  <2>3. CASE stage' = "unit"
    <3>1. stage = "rewrite" /\ \E e \in volume.env : WriteEnv([e EXCEPT !.local = TRUE], "unit")
      BY <2>3 DEF Packages, Disk, Mount, Environment, WriteEnv
    <3>2. PICK version \in Nat : Written(version, FALSE)  BY <3>1 DEF EnvironmentIsWritten
    <3>3. Written(version, TRUE)'  BY <3>1, <3>2 DEF Written, WriteEnv, ControlTyped, Volumes
    <3> QED  BY <2>3, <3>3 DEF EnvironmentIsWritten, Serving
  <2> QED  BY <2>1, <2>2, <2>3
<1> QED  BY <1>3, <1>5, <1>6, <1>7

\* And from then on.
LEMMA RestartKeepsInv ==
  ASSUME ControlInv, Unit \/ Health \/ Keyring \/ InstallCaddy \/ Caddy \/ Certificate
  PROVE  ControlInv'
<1> USE DEF ControlInv
<1>1. UNCHANGED <<parameter, target, leads, box, volume, mounted, settings, astray>>
  BY DEF Unit, Health, Keyring, InstallCaddy, Caddy, Certificate, onbox
<1>2. ControlTyped' /\ OneLives' /\ StateIsOnTheVolume'  BY <1>1 DEF ControlTyped, OneLives, StateIsOnTheVolume
<1>3. TargetIsReached' /\ VolumeIsMounted'
  BY <1>1 DEF TargetIsReached, VolumeIsMounted, OnBox, Unit, Health, Keyring, InstallCaddy, Caddy, Certificate
<1>4. EnvironmentIsWritten'
  BY <1>1 DEF EnvironmentIsWritten, Serving, Written, Unit, Restarted, Health, Keyring, InstallCaddy, Caddy, Certificate, onbox
<1> QED  BY <1>2, <1>3, <1>4

LEMMA NextControlInv == ControlInv /\ [ControlNext]_controlVars => ControlInv'
<1> SUFFICES ASSUME ControlInv, [ControlNext]_controlVars PROVE ControlInv'  OBVIOUS
<1>1. CASE UNCHANGED controlVars
  BY <1>1, AsideKeepsInv DEF Aside, controlVars, laptop, onbox, ControlInv, ControlTyped
<1>2. CASE ControlNext
  BY <1>2, ScriptPreparesKeepsInv, DownKeepsInv, BootKeepsInv, GoneKeepsInv, ServiceStartsKeepsInv, DiesKeepsInv,
     InstanceKeepsInv, ReachKeepsInv, FilesKeepInv, RestartKeepsInv DEF ControlNext, Script
<1> QED  BY <1>1, <1>2

LEMMA StateStays ==
  ASSUME ControlInv, [ControlNext]_controlVars, volume.data = "state"
  PROVE  volume'.data = "state"
<1> USE DEF ControlInv, ControlTyped, Volumes
<1>1. CASE UNCHANGED volume  BY <1>1
<1>2. CASE ServiceStarts  BY <1>2, ServiceStartsKeepsInv
<1>3. CASE Gone  BY <1>3 DEF Gone
<1>4. CASE Volume \/ Attach \/ Disk  BY <1>4 DEF Volume, Attach, Disk, Unformatted
<1>5. CASE Environment  BY <1>5 DEF Environment, WriteEnv
<1> QED  BY <1>1, <1>2, <1>3, <1>4, <1>5
  DEF ControlNext, Script, controlVars, laptop, onbox, Stop, Terminate, Reboot, Down, Boot, Dies, PutSecrets, BeginScript, Cut,
      Finish, KeyPair, Groups, Make, Role, Profile, Instance, WaitForBox, Address, Associate, Alias, Ssh, Packages, Mount,
      Unit, Health, Keyring, InstallCaddy, Caddy, Certificate

LEMMA DoneIsReady ==
  ASSUME ControlInv, [ControlNext]_controlVars, stage = "certificate", stage' = "done"
  PROVE  /\ mounted /\ service # "off" /\ leads = target
         /\ volume.env = {[version |-> settings.version, local |-> TRUE]} /\ settings.version # Nil
BY DEF ControlInv, VolumeIsMounted, EnvironmentIsWritten, Serving, Written, TargetIsReached, Reaching, OnBox

\* configure-control.sh: whatever commands are run again, fail, or lose their box, AgentRQ
\* writes to the volume that outlives it, and state that is on it stays.
THEOREM StateIsSafeHolds == ControlSpec => StateIsSafe
<1>1. ControlInv => StateIsOnTheVolume  BY DEF ControlInv
<1>2. ControlInv /\ [ControlNext]_controlVars => [volume.data = "state" => volume'.data = "state"]_controlVars
  BY StateStays
<1> QED  BY <1>1, <1>2, InitControlInv, NextControlInv, PTL DEF ControlSpec, StateIsSafe, StateIsKept

\* configure-control.sh: a run that ends well leaves AgentRQ started on the mounted volume with
\* the settings that were written last, on the box the address leads to.
THEOREM ReadyIsReadyHolds == ControlSpec => ReadyIsReady
<1>1. ControlInv /\ [ControlNext]_controlVars =>
        [stage = "certificate" /\ stage' = "done" =>
           /\ mounted /\ service # "off" /\ leads = target
           /\ volume.env = {[version |-> settings.version, local |-> TRUE]} /\ settings.version # Nil]_controlVars
  BY DoneIsReady
<1> QED  BY <1>1, InitControlInv, NextControlInv, PTL DEF ControlSpec, ReadyIsReady

----------------------------------------------------------------------------
(* Assembly: paths of delegates *)

Everyone == SdkAgents \cup {Coder}

\* A path of delegates, from an agent.
PathFrom(n, length) ==
  \E p \in [1..(length + 1) -> Everyone] :
    p[1] = n /\ \A i \in 1..length : p[i] \in SdkAgents /\ p[i + 1] \in dropIn.delegates[p[i]]

LEMMA LeastOne ==
  ASSUME NEW T, T \subseteq Nat, T # {}
  PROVE  \E k \in T : \A i \in T : k <= i
<1>1. PICK k \in T : \A i \in T : ~(<<i, k>> \in OpToRel(<, Nat))
  BY NatLessThanWellFounded, WFMin
<1>2. ASSUME NEW i \in T PROVE k <= i
  <2>1. i < k => <<i, k>> \in OpToRel(<, Nat)  BY DEF OpToRel
  <2>2. ~(i < k)  BY <1>1, <2>1
  <2> QED  BY <2>2
<1> QED  BY <1>2

LEMMA GreatestOne ==
  ASSUME NEW S, S \subseteq Nat, S # {}, NEW bound \in Nat, \A x \in S : x <= bound
  PROVE  Max(S) \in S /\ \A x \in S : x <= Max(S)
<1> DEFINE above == {u \in Nat : \A x \in S : x <= u}
<1>1. PICK u \in above : \A v \in above : u <= v
  <2>1. above \subseteq Nat /\ above # {}  OBVIOUS
  <2> QED  BY <2>1, LeastOne
<1>2. u \in S
  <2> SUFFICES ASSUME u \notin S PROVE FALSE  OBVIOUS
  <2>1. PICK x \in S : TRUE  OBVIOUS
  <2>2. u > 0  BY <1>1, <2>1
  <2>3. u - 1 \in above  BY <1>1, <2>2
  <2> QED  BY <1>1, <2>3
<1>3. u \in S /\ \A y \in S : u >= y  BY <1>1, <1>2
<1>4. Max(S) \in S /\ \A y \in S : Max(S) >= y  BY <1>3 DEF Max
<1> QED  BY <1>4

LEMMA HasPathIsFrom ==
  ASSUME NEW length \in Nat
  PROVE  HasPath(length) <=> \E n \in Everyone : PathFrom(n, length)
<1> DEFINE goes(p) == \A i \in 1..length : p[i] \in SdkAgents /\ p[i + 1] \in dropIn.delegates[p[i]]
           paths == [1..(length + 1) -> Everyone]
<1>1. HasPath(length) <=> \E p \in paths : goes(p)  BY DEF HasPath, Everyone
<1>2. \A n : PathFrom(n, length) <=> \E p \in paths : p[1] = n /\ goes(p)  BY DEF PathFrom
<1>3. \A p \in paths : p[1] \in Everyone
  <2>1. 1 \in 1..(length + 1)  OBVIOUS
  <2> QED  BY <2>1
<1> HIDE DEF goes, paths
<1> QED  BY <1>1, <1>2, <1>3

LEMMA PathOfNone ==
  ASSUME NEW n \in Everyone
  PROVE  PathFrom(n, 0)
<1> DEFINE p == [i \in 1..(0 + 1) |-> n]
<1>1. p \in [1..(0 + 1) -> Everyone] /\ p[1] = n  OBVIOUS
<1>2. \A i \in 1..0 : FALSE  OBVIOUS
<1> HIDE DEF p
<1> QED  BY <1>1, <1>2 DEF PathFrom

LEMMA LongerPath ==
  ASSUME NEW n \in SdkAgents, NEW x \in dropIn.delegates[n] \cap Everyone, NEW length \in Nat, PathFrom(x, length)
  PROVE  PathFrom(n, length + 1)
<1>1. PICK p \in [1..(length + 1) -> Everyone] :
        p[1] = x /\ \A i \in 1..length : p[i] \in SdkAgents /\ p[i + 1] \in dropIn.delegates[p[i]]
  BY DEF PathFrom
<1> DEFINE q == [i \in 1..(length + 1 + 1) |-> IF i = 1 THEN n ELSE p[i - 1]]
<1>2. q \in [1..(length + 1 + 1) -> Everyone] /\ q[1] = n  BY DEF Everyone
<1>3. ASSUME NEW i \in 1..(length + 1)
      PROVE  q[i] \in SdkAgents /\ q[i + 1] \in dropIn.delegates[q[i]]
  <2>1. CASE i = 1
    <3>1. q[i] = n /\ q[i + 1] = x  BY <1>1, <2>1
    <3> QED  BY <3>1
  <2>2. CASE i # 1
    <3>1. i - 1 \in 1..length /\ q[i] = p[i - 1] /\ q[i + 1] = p[(i - 1) + 1]  BY <2>2
    <3> QED  BY <1>1, <3>1
  <2> QED  BY <2>1, <2>2
<1> HIDE DEF q
<1> QED  BY <1>2, <1>3 DEF PathFrom

LEMMA ShorterPath ==
  ASSUME NEW n, NEW length \in Nat, PathFrom(n, length + 1)
  PROVE  n \in SdkAgents /\ \E x \in dropIn.delegates[n] \cap Everyone : PathFrom(x, length)
<1>1. PICK p \in [1..(length + 1 + 1) -> Everyone] :
        p[1] = n /\ \A i \in 1..(length + 1) : p[i] \in SdkAgents /\ p[i + 1] \in dropIn.delegates[p[i]]
  BY DEF PathFrom
<1> DEFINE q == [i \in 1..(length + 1) |-> p[i + 1]]
<1>2. n \in SdkAgents /\ p[2] \in dropIn.delegates[n] \cap Everyone
  <2>1. 1 \in 1..(length + 1) /\ 1 + 1 \in 1..(length + 1 + 1)  OBVIOUS
  <2> QED  BY <1>1, <2>1
<1>3. q \in [1..(length + 1) -> Everyone] /\ q[1] = p[2]  BY <1>1
<1>4. ASSUME NEW i \in 1..length
      PROVE  q[i] \in SdkAgents /\ q[i + 1] \in dropIn.delegates[q[i]]
  <2>1. i + 1 \in 1..(length + 1) /\ q[i] = p[i + 1] /\ q[i + 1] = p[(i + 1) + 1]  OBVIOUS
  <2> QED  BY <1>1, <2>1
<1> HIDE DEF q
<1> QED  BY <1>2, <1>3, <1>4 DEF PathFrom

LEMMA PathPrefix ==
  ASSUME NEW n, NEW length \in Nat, NEW k \in 0..length, PathFrom(n, length)
  PROVE  PathFrom(n, k)
<1>1. PICK p \in [1..(length + 1) -> Everyone] :
        p[1] = n /\ \A i \in 1..length : p[i] \in SdkAgents /\ p[i + 1] \in dropIn.delegates[p[i]]
  BY DEF PathFrom
<1> DEFINE q == [i \in 1..(k + 1) |-> p[i]]
<1>2. q \in [1..(k + 1) -> Everyone] /\ q[1] = n  BY <1>1
<1>3. ASSUME NEW i \in 1..k
      PROVE  q[i] \in SdkAgents /\ q[i + 1] \in dropIn.delegates[q[i]]
  <2>1. i \in 1..length /\ q[i] = p[i] /\ q[i + 1] = p[i + 1]  OBVIOUS
  <2> QED  BY <1>1, <2>1
<1> HIDE DEF q
<1> QED  BY <1>2, <1>3 DEF PathFrom

\* Where everyone has a delegate that has one, paths are of any length.
LEMMA PathsGoRound ==
  ASSUME NEW circle, circle \subseteq SdkAgents, \A c \in circle : dropIn.delegates[c] \cap circle # {},
         NEW length \in Nat, NEW n \in circle
  PROVE  PathFrom(n, length)
<1> DEFINE failing == {k \in Nat : \E c \in circle : ~PathFrom(c, k)}
<1> SUFFICES ASSUME failing # {} PROVE FALSE  OBVIOUS
<1>1. PICK k \in failing : \A i \in failing : k <= i  BY LeastOne
<1>2. PICK c \in circle : ~PathFrom(c, k)  BY <1>1
<1>3. k # 0  BY <1>2, PathOfNone DEF Everyone
<1>4. PICK x \in dropIn.delegates[c] \cap circle : TRUE  OBVIOUS
<1>5. k - 1 \in Nat /\ k - 1 \notin failing  BY <1>1, <1>3
<1>6. PathFrom(x, k - 1)  BY <1>4, <1>5
<1>7. PathFrom(c, (k - 1) + 1)  BY <1>4, <1>5, <1>6, LongerPath DEF Everyone
<1> QED  BY <1>1, <1>2, <1>7

----------------------------------------------------------------------------
(* Assembly: lists of checks *)

Reasons(checks) == {checks[i][2] : i \in DOMAIN checks}
IsList(checks) == \E S : checks \in Seq(S)

LEMMA FirstOfChecks ==
  ASSUME NEW checks, IsList(checks)
  PROVE  /\ First(checks) \in {Void} \cup Reasons(checks)
         /\ Void \notin Reasons(checks) /\ First(checks) = Void => \A i \in DOMAIN checks : ~checks[i][1]
         /\ (\A i \in DOMAIN checks : ~checks[i][1]) => First(checks) = Void
<1> DEFINE failing == {i \in DOMAIN checks : checks[i][1]}
<1>1. CASE failing = {}  BY <1>1 DEF First
<1>2. CASE failing # {}
  <2>1. DOMAIN checks \subseteq Nat  BY DEF IsList
  <2>2. PICK k \in failing : \A i \in failing : k <= i
    <3> HIDE DEF failing
    <3>1. failing \subseteq Nat  BY <2>1 DEF failing
    <3> QED  BY <1>2, <3>1, LeastOne
  <2> DEFINE first == CHOOSE i \in failing : \A j \in failing : i <= j
  <2>3. first \in failing  BY <2>2
  <2>4. First(checks) = checks[first][2]  BY <1>2 DEF First
  <2> HIDE DEF first
  <2> QED  BY <2>3, <2>4 DEF Reasons
<1> QED  BY <1>1, <1>2

LEMMA ChecksOfBoth ==
  ASSUME NEW s, IsList(s), NEW t, IsList(t)
  PROVE  /\ IsList(s \o t) /\ Reasons(s \o t) = Reasons(s) \cup Reasons(t)
         /\ \A i \in DOMAIN s : i \in DOMAIN (s \o t) /\ (s \o t)[i] = s[i]
         /\ \A i \in DOMAIN t : Len(s) + i \in DOMAIN (s \o t) /\ (s \o t)[Len(s) + i] = t[i]
<1>1. PICK S : s \in Seq(S) /\ t \in Seq(S)
  <2>1. PICK S1 : s \in Seq(S1)  BY DEF IsList
  <2>2. PICK S2 : t \in Seq(S2)  BY DEF IsList
  <2>3. s \in Seq(S1 \cup S2) /\ t \in Seq(S1 \cup S2)  BY <2>1, <2>2
  <2> QED  BY <2>3
<1>2. s \o t \in Seq(S) /\ Len(s \o t) = Len(s) + Len(t)  BY <1>1
<1>3. \A i \in 1..(Len(s) + Len(t)) : (s \o t)[i] = IF i <= Len(s) THEN s[i] ELSE t[i - Len(s)]  BY <1>1
<1>4. \A i \in DOMAIN s : i \in DOMAIN (s \o t) /\ (s \o t)[i] = s[i]  BY <1>1, <1>2, <1>3
<1>5. ASSUME NEW i \in DOMAIN t PROVE Len(s) + i \in DOMAIN (s \o t) /\ (s \o t)[Len(s) + i] = t[i]
  <2>1. Len(s) + i \in 1..(Len(s) + Len(t)) /\ (Len(s) + i) - Len(s) = i /\ ~(Len(s) + i <= Len(s))  BY <1>1
  <2> QED  BY <1>1, <1>2, <1>3, <2>1
<1>6. ASSUME NEW i \in DOMAIN (s \o t)
      PROVE  (\E j \in DOMAIN s : (s \o t)[i] = s[j]) \/ \E j \in DOMAIN t : (s \o t)[i] = t[j]
  <2>1. CASE i <= Len(s)  BY <1>1, <1>2, <1>3, <2>1
  <2>2. CASE ~(i <= Len(s))
    <3>1. i - Len(s) \in DOMAIN t  BY <1>1, <1>2, <2>2
    <3> QED  BY <1>1, <1>2, <1>3, <2>2, <3>1
  <2> QED  BY <2>1, <2>2
<1>7. IsList(s \o t)  BY <1>2 DEF IsList
<1>8. Reasons(s \o t) \subseteq Reasons(s) \cup Reasons(t)
  <2> SUFFICES ASSUME NEW i \in DOMAIN (s \o t) PROVE (s \o t)[i][2] \in Reasons(s) \cup Reasons(t)  BY DEF Reasons
  <2> QED  BY <1>6 DEF Reasons
<1>9. Reasons(s) \subseteq Reasons(s \o t)
  <2> SUFFICES ASSUME NEW i \in DOMAIN s PROVE s[i][2] \in Reasons(s \o t)  BY DEF Reasons
  <2> QED  BY <1>4 DEF Reasons
<1>10. Reasons(t) \subseteq Reasons(s \o t)
  <2> SUFFICES ASSUME NEW i \in DOMAIN t PROVE t[i][2] \in Reasons(s \o t)  BY DEF Reasons
  <2> QED  BY <1>5 DEF Reasons
<1> QED  BY <1>4, <1>5, <1>7, <1>8, <1>9, <1>10

LEMMA ListOfOne ==
  ASSUME NEW a
  PROVE  IsList(<<a>>)
<1>1. <<a>> \in Seq({a})  OBVIOUS
<1> QED  BY <1>1 DEF IsList

LEMMA ListOfTwo ==
  ASSUME NEW a, NEW b
  PROVE  IsList(<<a, b>>)
<1>1. <<a, b>> \in Seq({a, b})  OBVIOUS
<1> QED  BY <1>1 DEF IsList

LEMMA ListOfFour ==
  ASSUME NEW a, NEW b, NEW c, NEW d
  PROVE  IsList(<<a, b, c, d>>)
<1>1. <<a, b, c, d>> \in Seq({a, b, c, d})  OBVIOUS
<1> QED  BY <1>1 DEF IsList

LEMMA ListOfFive ==
  ASSUME NEW a, NEW b, NEW c, NEW d, NEW e
  PROVE  IsList(<<a, b, c, d, e>>)
<1>1. <<a, b, c, d, e>> \in Seq({a, b, c, d, e})  OBVIOUS
<1> QED  BY <1>1 DEF IsList

LEMMA OneReason ==
  ASSUME NEW a, NEW ra
  PROVE  Reasons(<<<<a, ra>>>>) = {ra}
BY DEF Reasons

LEMMA TwoReasons ==
  ASSUME NEW a, NEW ra, NEW b, NEW rb
  PROVE  Reasons(<<<<a, ra>>, <<b, rb>>>>) = {ra, rb}
BY DEF Reasons

LEMMA FourReasons ==
  ASSUME NEW a, NEW ra, NEW b, NEW rb, NEW c, NEW rc, NEW d, NEW rd
  PROVE  Reasons(<<<<a, ra>>, <<b, rb>>, <<c, rc>>, <<d, rd>>>>) = {ra, rb, rc, rd}
BY DEF Reasons

LEMMA FiveReasons ==
  ASSUME NEW a, NEW ra, NEW b, NEW rb, NEW c, NEW rc, NEW d, NEW rd, NEW e, NEW re
  PROVE  Reasons(<<<<a, ra>>, <<b, rb>>, <<c, rc>>, <<d, rd>>, <<e, re>>>>) = {ra, rb, rc, rd, re}
BY DEF Reasons

LEMMA ReasonsOfLists ==
  /\ IsList(ReferenceChecks) /\ Reasons(ReferenceChecks) = {"description", "unknown server"}
  /\ IsList(DirectoryChecks) /\ Reasons(DirectoryChecks) = {"placeholder", "summary", "workspace", "extension"}
  /\ IsList(BuildChecks) /\ Reasons(BuildChecks) = {"key", "nested delegates", "name", "server settings", "model"}
  /\ IsList(EnterChecks) /\ Reasons(EnterChecks) = {"name", "steering tools"}
  /\ IsList(ReviewChecks) /\ Reasons(ReviewChecks) = {"review"}
  /\ IsList(RuntimeChecks) /\ Reasons(RuntimeChecks) = {"runtime options"}
  /\ IsList(SteeringChecks) /\ Reasons(SteeringChecks) = {"steering", "escalate"}
<1>1. IsList(ReferenceChecks) /\ IsList(EnterChecks) /\ IsList(SteeringChecks)
  BY ListOfTwo DEF ReferenceChecks, EnterChecks, SteeringChecks
<1>2. IsList(DirectoryChecks)  BY ListOfFour DEF DirectoryChecks
<1>3. IsList(BuildChecks)  BY ListOfFive DEF BuildChecks
<1>4. IsList(ReviewChecks) /\ IsList(RuntimeChecks)  BY ListOfOne DEF ReviewChecks, RuntimeChecks
<1>5. Reasons(ReferenceChecks) = {"description", "unknown server"}
  <2>1. PICK a, b, ra, rb :
         /\ ReferenceChecks = <<<<a, ra>>, <<b, rb>>>>
         /\ ra = "description" /\ rb = "unknown server"
    BY DEF ReferenceChecks
  <2>2. ReferenceChecks = <<<<a, ra>>, <<b, rb>>>>  BY <2>1
  <2>3. Reasons(ReferenceChecks) = {ra, rb}  BY <2>2, TwoReasons
  <2> QED  BY <2>1, <2>3
<1>6. Reasons(DirectoryChecks) = {"placeholder", "summary", "workspace", "extension"}  BY FourReasons DEF DirectoryChecks
<1>7. Reasons(BuildChecks) = {"key", "nested delegates", "name", "server settings", "model"}
  <2>1. PICK a, b, c, d, e, ra, rb, rc, rd, re :
         /\ BuildChecks = <<<<a, ra>>, <<b, rb>>, <<c, rc>>, <<d, rd>>, <<e, re>>>>
         /\ ra = "key" /\ rb = "nested delegates" /\ rc = "name" /\ rd = "server settings" /\ re = "model"
    BY DEF BuildChecks
  <2>2. BuildChecks = <<<<a, ra>>, <<b, rb>>, <<c, rc>>, <<d, rd>>, <<e, re>>>>  BY <2>1
  <2>3. Reasons(BuildChecks) = {ra, rb, rc, rd, re}  BY <2>2, FiveReasons
  <2> QED  BY <2>1, <2>3
<1>8. Reasons(EnterChecks) = {"name", "steering tools"}
  <2>1. PICK a, b, ra, rb :
         /\ EnterChecks = <<<<a, ra>>, <<b, rb>>>>
         /\ ra = "name" /\ rb = "steering tools"
    BY DEF EnterChecks
  <2>2. EnterChecks = <<<<a, ra>>, <<b, rb>>>>  BY <2>1
  <2>3. Reasons(EnterChecks) = {ra, rb}  BY <2>2, TwoReasons
  <2> QED  BY <2>1, <2>3
<1>9. Reasons(ReviewChecks) = {"review"}  BY OneReason DEF ReviewChecks
<1>10. Reasons(RuntimeChecks) = {"runtime options"}  BY OneReason DEF RuntimeChecks
<1>11. Reasons(SteeringChecks) = {"steering", "escalate"}  BY TwoReasons DEF SteeringChecks
<1> QED  BY <1>1, <1>2, <1>3, <1>4, <1>5, <1>6, <1>7, <1>8, <1>9, <1>10, <1>11

Configured ==
  {"settings", "model resource", "unknown gate", "unknown type", "review", "instructions", "runtime options", "steering", "escalate"}

LEMMA ReasonsToAssemble ==
  /\ IsList(AssembleChecks) /\ Reasons(AssembleChecks) = Configured
  /\ \E k \in Nat : \A i \in DOMAIN SteeringChecks :
       k + i \in DOMAIN AssembleChecks /\ AssembleChecks[k + i] = SteeringChecks[i]
  /\ \A i \in DOMAIN ReviewChecks : \E j \in DOMAIN AssembleChecks : AssembleChecks[j] = ReviewChecks[i]
<1> DEFINE first == <<<<Lacks("provider settings"), "settings">>, <<dropIn.capped /\ ~dropIn.metered, "model resource">>,
                      <<UnknownGates, "unknown gate">>, <<UnknownTypes, "unknown type">>>>
           third == <<<<Lacks("persona") \/ Lacks("context"), "instructions">>>>
           r2 == first \o ReviewChecks
           r3 == r2 \o third
           r4 == r3 \o RuntimeChecks
<1>1. IsList(first) /\ Reasons(first) = {"settings", "model resource", "unknown gate", "unknown type"}
  <2>1. IsList(first)  BY ListOfFour
  <2>2. Reasons(first) = {"settings", "model resource", "unknown gate", "unknown type"}
    <3>1. PICK a, b, c, d, ra, rb, rc, rd :
           /\ first = <<<<a, ra>>, <<b, rb>>, <<c, rc>>, <<d, rd>>>>
           /\ ra = "settings" /\ rb = "model resource" /\ rc = "unknown gate" /\ rd = "unknown type"
      OBVIOUS
    <3>2. first = <<<<a, ra>>, <<b, rb>>, <<c, rc>>, <<d, rd>>>>  BY <3>1
    <3> HIDE DEF first
    <3>3. Reasons(first) = {ra, rb, rc, rd}  BY <3>2, FourReasons
    <3> QED  BY <3>1, <3>3
  <2> QED  BY <2>1, <2>2
<1>2. IsList(third) /\ Reasons(third) = {"instructions"}
  <2>1. IsList(third)  BY ListOfOne
  <2>2. Reasons(third) = {"instructions"}  BY OneReason
  <2> QED  BY <2>1, <2>2
<1>3. AssembleChecks = r4 \o SteeringChecks  BY DEF AssembleChecks
<1> HIDE DEF first, third
<1>11. \A i \in DOMAIN ReviewChecks : \E j \in DOMAIN r2 : r2[j] = ReviewChecks[i]
  <2>1. \A i \in DOMAIN ReviewChecks :
          Len(first) + i \in DOMAIN (first \o ReviewChecks) /\ (first \o ReviewChecks)[Len(first) + i] = ReviewChecks[i]
    BY ZenonT(30), <1>1, ReasonsOfLists, ChecksOfBoth
  <2> QED  BY <2>1
<1>4. IsList(r2) /\ Reasons(r2) = Reasons(first) \cup {"review"}
  <2>1. IsList(r2) /\ Reasons(r2) = Reasons(first) \cup Reasons(ReviewChecks)  BY <1>1, ReasonsOfLists, ChecksOfBoth
  <2> QED  BY <2>1, ReasonsOfLists
<1> HIDE DEF r2
<1>5. IsList(r3) /\ Reasons(r3) = Reasons(r2) \cup {"instructions"}  BY <1>2, <1>4, ChecksOfBoth
<1>12. \A j \in DOMAIN r2 : \E h \in DOMAIN r3 : r3[h] = r2[j]  BY <1>2, <1>4, ChecksOfBoth
<1> HIDE DEF r3
<1>6. IsList(r4) /\ Reasons(r4) = Reasons(r3) \cup {"runtime options"}
  <2>1. IsList(r4) /\ Reasons(r4) = Reasons(r3) \cup Reasons(RuntimeChecks)  BY <1>5, ReasonsOfLists, ChecksOfBoth
  <2> QED  BY <2>1, ReasonsOfLists
<1>13. \A j \in DOMAIN r3 : \E h \in DOMAIN r4 : r4[h] = r3[j]
  <2>1. \A j \in DOMAIN r3 : j \in DOMAIN (r3 \o RuntimeChecks) /\ (r3 \o RuntimeChecks)[j] = r3[j]
    BY <1>5, ReasonsOfLists, ChecksOfBoth
  <2> QED  BY <2>1
<1> HIDE DEF r4
<1>14. \A j \in DOMAIN r4 : \E h \in DOMAIN AssembleChecks : AssembleChecks[h] = r4[j]
  <2>1. \A j \in DOMAIN r4 : j \in DOMAIN (r4 \o SteeringChecks) /\ (r4 \o SteeringChecks)[j] = r4[j]
    BY <1>6, ReasonsOfLists, ChecksOfBoth
  <2> QED  BY <1>3, <2>1
<1>15. ASSUME NEW i \in DOMAIN ReviewChecks PROVE \E j \in DOMAIN AssembleChecks : AssembleChecks[j] = ReviewChecks[i]
  <2>1. PICK j \in DOMAIN r2 : r2[j] = ReviewChecks[i]  BY <1>11
  <2>2. PICK h \in DOMAIN r3 : r3[h] = r2[j]  BY <1>12
  <2>3. PICK g \in DOMAIN r4 : r4[g] = r3[h]  BY <1>13
  <2> QED  BY <1>14, <2>1, <2>2, <2>3
<1>7. IsList(AssembleChecks) /\ Reasons(AssembleChecks) = Reasons(r4) \cup {"steering", "escalate"}
  <2>1. IsList(r4 \o SteeringChecks) /\ Reasons(r4 \o SteeringChecks) = Reasons(r4) \cup Reasons(SteeringChecks)
    BY <1>6, ReasonsOfLists, ChecksOfBoth
  <2> QED  BY <1>3, <2>1, ReasonsOfLists
<1>8. \A i \in DOMAIN SteeringChecks :
        Len(r4) + i \in DOMAIN AssembleChecks /\ AssembleChecks[Len(r4) + i] = SteeringChecks[i]
  <2>1. \A i \in DOMAIN SteeringChecks :
          Len(r4) + i \in DOMAIN (r4 \o SteeringChecks) /\ (r4 \o SteeringChecks)[Len(r4) + i] = SteeringChecks[i]
    BY ZenonT(30), <1>6, ReasonsOfLists, ChecksOfBoth
  <2> QED  BY <1>3, <2>1
<1>9. Len(r4) \in Nat
  <2>1. PICK S : r4 \in Seq(S)  BY <1>6 DEF IsList
  <2> QED  BY <2>1
<1>10. Reasons(AssembleChecks) = Configured  BY <1>1, <1>4, <1>5, <1>6, <1>7 DEF Configured
<1> QED  BY <1>7, <1>8, <1>9, <1>10, <1>15

----------------------------------------------------------------------------
(* Assembly: the delegates of the agents *)

Loading == {"load", "visit", "measure", "references"}

GraphTyped ==
  /\ dropIn.depth \in Nat /\ path \in Seq(SdkAgents) /\ order \in Seq(SdkAgents) /\ depths \in Seq(Nat)
  /\ point = "load" => path = <<>> /\ order = <<>>
  /\ point \in {"load", "visit"} => depths = <<>>
  /\ point \notin {"load", "exited"} => Delegated \subseteq Everyone

\* Each agent comes once, after those it delegates to.
Ordered ==
  /\ \A i, j \in DOMAIN order : order[i] = order[j] => i = j
  /\ \A i \in DOMAIN order : \A x \in Below(order[i]) : \E j \in 1..(i - 1) : order[j] = x
  /\ point \notin {"load", "visit", "exited"} => Done = SdkAgents

\* Those that are active are not done, and each delegates to the next.
OnPath ==
  /\ \A i, j \in DOMAIN path : path[i] = path[j] => i = j
  /\ \A i \in DOMAIN path : path[i] \notin Done
  /\ \A i \in 1..(Len(path) - 1) : path[i + 1] \in Below(path[i])

\* Depths are lengths of paths, and no path is longer.
Measured ==
  /\ Len(depths) <= Len(order)
  /\ \A i \in DOMAIN depths :
       /\ PathFrom(order[i], depths[i])
       /\ \A length \in Nat : PathFrom(order[i], length) => length <= depths[i]

Judged ==
  /\ point \in {"references", "assemble"} /\ dropIn.depth # Unlimited => ~HasPath(dropIn.depth + 1)
  /\ point = "exited" /\ error = "cycle" => HasPath(Len(Sdk) + 1)
  /\ point = "exited" /\ error = "depth" => HasPath(dropIn.depth + 1)
  /\ point # "exited" => error = Void

GraphInv == GraphTyped /\ Ordered /\ OnPath /\ Measured /\ Judged

LEMMA SamePaths ==
  ASSUME UNCHANGED dropIn
  PROVE  /\ \A n, length : PathFrom(n, length)' <=> PathFrom(n, length)
         /\ \A length : HasPath(length)' <=> HasPath(length)
         /\ \A n : Below(n)' = Below(n)
         /\ Delegated' = Delegated
BY DEF PathFrom, HasPath, Below, Delegated

LEMMA SdkIsFinite ==
  ASSUME AssemblyAssumption
  PROVE  IsFiniteSet(SdkAgents) /\ Cardinality(SdkAgents) <= Len(Sdk) /\ Len(Sdk) \in Nat
<1>1. Len(Sdk) \in Nat /\ Sdk \in [1..Len(Sdk) -> SdkAgents]  BY DEF AssemblyAssumption
<1>2. \A n \in SdkAgents : \E i \in 1..Len(Sdk) : Sdk[i] = n  BY <1>1 DEF SdkAgents, ToSet
<1>3. Sdk \in Surjection(1..Len(Sdk), SdkAgents)  BY <1>1, <1>2 DEF Surjection
<1>4. IsFiniteSet(1..Len(Sdk)) /\ Cardinality(1..Len(Sdk)) = Len(Sdk)  BY <1>1, FS_Interval
<1> QED  BY <1>1, <1>3, <1>4, FS_Surjection

\* The order is not longer than the agents are many.
LEMMA OrderIsShort ==
  ASSUME AssemblyAssumption, GraphTyped, Ordered
  PROVE  Len(order) <= Len(Sdk) /\ Len(order) \in Nat
<1>1. Len(order) \in Nat /\ order \in [1..Len(order) -> SdkAgents]  BY DEF GraphTyped
<1>2. order \in Injection(1..Len(order), SdkAgents)  BY <1>1 DEF Ordered, Injection, IsInjective
<1>3. Cardinality(1..Len(order)) = Len(order)  BY <1>1, FS_Interval
<1>4. Cardinality(1..Len(order)) <= Cardinality(SdkAgents)  BY <1>2, SdkIsFinite, FS_Injection
<1>5. Cardinality(SdkAgents) \in Nat  BY SdkIsFinite, FS_CardinalityType
<1> QED  BY <1>1, <1>3, <1>4, <1>5, SdkIsFinite

\* A path goes down in the order.
LEMMA PathsGoDown ==
  ASSUME GraphTyped, Ordered, Delegated \subseteq Everyone, AssemblyAssumption,
         NEW length \in Nat, NEW i \in DOMAIN order, PathFrom(order[i], length)
  PROVE  length <= i
<1> DEFINE long == {k \in Nat : \E j \in DOMAIN order : PathFrom(order[j], k) /\ ~(k <= j)}
<1> SUFFICES ASSUME long # {} PROVE FALSE  OBVIOUS
<1>1. PICK k \in long : \A j \in long : k <= j  BY LeastOne
<1>2. PICK j \in DOMAIN order : PathFrom(order[j], k) /\ ~(k <= j)  BY <1>1
<1>3. j \in Nat /\ j > 0 /\ order[j] \in SdkAgents  BY DEF GraphTyped
<1>4. k > 1 /\ k - 1 \in Nat /\ (k - 1) + 1 = k  BY <1>2, <1>3
<1>5. PICK x \in dropIn.delegates[order[j]] \cap Everyone : PathFrom(x, k - 1)  BY <1>2, <1>4, ShorterPath
<1>6. CASE x = Coder
  <2>1. k - 2 \in Nat /\ (k - 2) + 1 = k - 1  BY <1>4
  <2>2. Coder \in SdkAgents  BY <1>5, <1>6, <2>1, ShorterPath
  <2> QED  BY <2>2 DEF AssemblyAssumption
<1>7. CASE x \in SdkAgents
  <2>1. PICK h \in 1..(j - 1) : order[h] = x  BY <1>5, <1>7 DEF Ordered, Below
  <2>2. h \in DOMAIN order /\ ~(k - 1 <= h)  BY <1>2, <1>3, <1>4, <2>1 DEF GraphTyped
  <2>3. k - 1 \in long  BY <1>4, <1>5, <2>1, <2>2
  <2> QED  BY <1>1, <1>4, <2>3
<1> QED  BY <1>5, <1>6, <1>7 DEF Everyone

LEMMA NoCycle ==
  ASSUME AssemblyAssumption, GraphTyped, Ordered, Delegated \subseteq Everyone, Done = SdkAgents
  PROVE  ~HasPath(Len(Sdk) + 1)
<1> SUFFICES ASSUME HasPath(Len(Sdk) + 1) PROVE FALSE  OBVIOUS
<1>1. Len(Sdk) \in Nat /\ Len(order) <= Len(Sdk) /\ Len(order) \in Nat  BY OrderIsShort, SdkIsFinite
<1>2. PICK n \in Everyone : PathFrom(n, Len(Sdk) + 1)  BY <1>1, HasPathIsFrom
<1>3. n \in SdkAgents  BY <1>1, <1>2, ShorterPath
<1>4. PICK i \in DOMAIN order : order[i] = n  BY <1>3 DEF Done, ToSet
<1>5. Len(Sdk) + 1 <= i  BY <1>1, <1>2, <1>4, PathsGoDown
<1>6. i <= Len(order)  BY DEF GraphTyped
<1> QED  BY <1>1, <1>5, <1>6

LEMMA NoneIsThere ==
  ASSUME NEW s, s = <<>>
  PROVE  (\A i \in DOMAIN s : FALSE) /\ Len(s) = 0 /\ \A i \in 1..(Len(s) - 1) : FALSE
<1>1. s \in Seq({}) /\ Len(s) = 0  OBVIOUS
<1>2. DOMAIN s = 1..0  BY <1>1
<1> QED  BY <1>1, <1>2

LEMMA NextIndex ==
  ASSUME NEW n \in Nat, NEW k \in 1..n, NEW i \in k..n, i # n
  PROVE  i \in 1..(n - 1) /\ i + 1 \in k..n /\ i + 1 \in 1..n
OBVIOUS

\* An agent that is active again closes a circle.
LEMMA CycleHasPath ==
  ASSUME AssemblyAssumption, GraphTyped, OnPath, path # <<>>, NEW x \in Below(Last(path)), x \in ToSet(path)
  PROVE  HasPath(Len(Sdk) + 1)
<1>1. Len(path) \in Nat \ {0} /\ DOMAIN path = 1..Len(path) /\ Len(path) \in DOMAIN path  BY DEF GraphTyped
<1>2. PICK k \in DOMAIN path : path[k] = x  BY DEF ToSet
<1> DEFINE circle == {path[i] : i \in k..Len(path)}
<1>3. circle \subseteq SdkAgents  BY <1>1 DEF GraphTyped
<1>4. x \in circle /\ Last(path) \in circle  BY <1>1, <1>2 DEF Last
<1>5. ASSUME NEW c \in circle PROVE dropIn.delegates[c] \cap circle # {}
  <2>1. PICK i \in k..Len(path) : c = path[i]  OBVIOUS
  <2>2. CASE i = Len(path)  BY <1>4, <2>1, <2>2 DEF Last, Below
  <2>3. CASE i # Len(path)
    <3>0. k \in 1..Len(path)  BY <1>1
    <3>2. i \in 1..(Len(path) - 1) /\ i + 1 \in k..Len(path)
      <4> HIDE DEF circle
      <4> QED  BY <3>0, <1>1, <2>1, <2>3, NextIndex
    <3>3. path[i + 1] \in dropIn.delegates[c]  BY <2>1, <3>2 DEF OnPath, Below
    <3> QED  BY <3>2, <3>3
  <2> QED  BY <2>2, <2>3
<1> HIDE DEF circle
<1>6. Len(Sdk) + 1 \in Nat  BY SdkIsFinite
<1>7. PathFrom(x, Len(Sdk) + 1)  BY <1>3, <1>4, <1>5, <1>6, PathsGoRound
<1> QED  BY <1>3, <1>4, <1>6, <1>7, HasPathIsFrom DEF Everyone

LEMMA InitGraphInv == ASSUME AssemblyAssumption, AssemblyInit PROVE GraphInv
<1>1. dropIn.depth \in Nat  BY DEF AssemblyAssumption, AssemblyInit
<1>2. path = <<>> /\ order = <<>> /\ depths = <<>> /\ point = "load" /\ error = Void  BY DEF AssemblyInit, Started
<1>3. GraphTyped /\ Ordered /\ OnPath /\ Measured
  BY <1>1, <1>2 DEF GraphTyped, Ordered, OnPath, Measured
<1>4. Judged  BY <1>2 DEF Judged
<1> QED  BY <1>3, <1>4 DEF GraphInv

\* After the order is prepared, only the delegates matter, and what ends the process.
LEMMA GraphStays ==
  ASSUME GraphInv, UNCHANGED config,
         \/ UNCHANGED <<point, error>>
         \/ /\ point \notin {"load", "visit", "exited"} /\ point' \notin Loading \cup {"assemble"}
            /\ point' # "exited" => error' = Void
            /\ error' \notin {"cycle", "depth"}
  PROVE  GraphInv'
<1> USE DEF GraphInv, config, Loading
<1>1. UNCHANGED dropIn  OBVIOUS
<1>2. GraphTyped'  BY <1>1, SamePaths DEF GraphTyped
<1>3. Ordered'  BY <1>1, SamePaths DEF Ordered, Done
<1>4. OnPath'  BY <1>1, SamePaths DEF OnPath, Done
<1>5. Measured'  BY <1>1, SamePaths DEF Measured
<1>6. Judged'  BY <1>1, SamePaths DEF Judged
<1> QED  BY <1>2, <1>3, <1>4, <1>5, <1>6

LEMMA FirstOfOne ==
  ASSUME NEW check, NEW reason
  PROVE  /\ First(<<<<check, reason>>>>) \in {Void, reason}
         /\ reason # Void /\ First(<<<<check, reason>>>>) = Void => ~check
         /\ First(<<<<check, reason>>>>) = reason /\ reason # Void => check
<1> DEFINE checks == <<<<check, reason>>>>
<1>1. IsList(checks) /\ Reasons(checks) = {reason}
  <2>1. IsList(checks)  BY ListOfOne
  <2>2. Reasons(checks) = {reason}  BY OneReason
  <2> QED  BY <2>1, <2>2
<1>2. DOMAIN checks = {1} /\ checks[1][1] = check  OBVIOUS
<1> HIDE DEF checks
<1>3. /\ First(checks) \in {Void, reason}
      /\ reason # Void /\ First(checks) = Void => ~checks[1][1]
      /\ ~checks[1][1] => First(checks) = Void
  BY <1>1, <1>2, FirstOfChecks
<1> QED  BY <1>2, <1>3 DEF checks

LEMMA LoadKeepsGraph == ASSUME GraphInv, Load PROVE GraphInv'
<1> USE DEF Load, config
<1>1. UNCHANGED dropIn /\ point = "load"  OBVIOUS
<1> DEFINE unknown == ~(Delegated \subseteq SdkAgents \cup {Coder})
           reason == "unknown delegate"
<1>2. error' = First(<<<<unknown, reason>>>>) /\ point' = IF error' = Void THEN "visit" ELSE "exited"
  BY DEF Passes
<1>3. reason # Void /\ reason \notin {"cycle", "depth"}  BY DEF Void
<1> HIDE DEF reason
<1>4. error' \in {Void, reason} /\ (error' = Void => ~unknown)
  <2> HIDE DEF unknown
  <2> QED  BY <1>2, <1>3, FirstOfOne
<1> USE DEF GraphInv
<1>5. GraphTyped'  BY <1>1, <1>2, <1>4, SamePaths DEF GraphTyped, Everyone
<1>6. path' = <<>> /\ order' = <<>> /\ point' \in {"visit", "exited"}  BY <1>1, <1>2 DEF GraphTyped
<1>9. Ordered' /\ OnPath'
  <2>0. point' \in {"visit", "exited"}  BY <1>6
  <2>1. (\A i \in DOMAIN path' : FALSE) /\ (\A i \in DOMAIN order' : FALSE) /\ \A i \in 1..(Len(path') - 1) : FALSE
    <3>1. path' = <<>> /\ order' = <<>>  BY <1>6
    <3> QED  BY <3>1, NoneIsThere
  <2>2. Ordered'  BY <2>0, <2>1 DEF Ordered
  <2>3. OnPath'  BY <2>0, <2>1 DEF OnPath
  <2> QED  BY <2>2, <2>3
<1>7. Measured'  BY <1>1, SamePaths DEF Measured
<1>8. Judged'  BY <1>1, <1>2, <1>3, <1>4 DEF Judged, Void
<1> QED  BY <1>5, <1>7, <1>8, <1>9

LEMMA VisitAgentKeepsGraph == ASSUME AssemblyAssumption, GraphInv, Visiting(VisitAgent) PROVE GraphInv'
<1> USE DEF Visiting, GraphInv
<1>1. point = "visit" /\ path = <<>> /\ Unvisited # {} /\ UNCHANGED <<dropIn, depths, point, error, order>>  BY DEF VisitAgent
<1> DEFINE first == CHOOSE i \in Unvisited : \A j \in Unvisited : i <= j
<1>2. first \in Unvisited
  <2>1. Unvisited \subseteq Nat  BY DEF Unvisited, AssemblyAssumption
  <2>2. PICK k \in Unvisited : \A j \in Unvisited : k <= j  BY <1>1, <2>1, LeastOne
  <2> QED  BY <2>2
<1>3. path' = <<Sdk[first]>>  BY DEF VisitAgent
<1> HIDE DEF first
<1>4. Sdk[first] \in SdkAgents /\ Sdk[first] \notin Done  BY <1>2 DEF Unvisited, AssemblyAssumption
<1>5. GraphTyped'  BY <1>1, <1>3, <1>4, SamePaths DEF GraphTyped
<1>6. Ordered' /\ Measured' /\ Judged'  BY <1>1, SamePaths DEF Ordered, Done, Measured, Judged
<1>7. OnPath'
  <2>1. DOMAIN path' = {1} /\ path'[1] = Sdk[first] /\ Len(path') = 1 /\ Done' = Done  BY <1>1, <1>3 DEF Done
  <2> QED  BY <1>4, <2>1 DEF OnPath
<1> QED  BY <1>5, <1>6, <1>7

LEMMA VisitDelegateKeepsGraph == ASSUME AssemblyAssumption, GraphInv, Visiting(VisitDelegate) PROVE GraphInv'
<1> USE DEF Visiting, GraphInv
<1>1. PICK x \in Below(Last(path)) \ Done :
        IF x \in ToSet(path) THEN error' = "cycle" /\ point' = "exited" /\ UNCHANGED path
        ELSE path' = Append(path, x) /\ UNCHANGED <<point, error>>
  BY DEF VisitDelegate
<1>2. point = "visit" /\ path # <<>> /\ UNCHANGED <<dropIn, depths, order>>  BY DEF VisitDelegate
<1>3. x \in SdkAgents  BY DEF Below
<1>4. Len(path) \in Nat \ {0} /\ DOMAIN path = 1..Len(path)  BY <1>2 DEF GraphTyped
<1>5. Ordered' /\ Measured'  BY <1>1, <1>2, SamePaths DEF Ordered, Done, Measured
<1>6. CASE x \in ToSet(path)
  <2>1. HasPath(Len(Sdk) + 1)  BY <1>1, <1>2, <1>6, CycleHasPath
  <2>2. UNCHANGED path /\ point' = "exited" /\ error' = "cycle"  BY <1>1, <1>6
  <2>3. GraphTyped'  BY <1>2, <2>2, SamePaths DEF GraphTyped
  <2>4. OnPath'  BY <1>2, <2>2, SamePaths DEF OnPath, Done
  <2>5. Judged'  BY <1>2, <2>1, <2>2, SamePaths DEF Judged
  <2> QED  BY <1>5, <2>3, <2>4, <2>5
<1>7. CASE x \notin ToSet(path)
  <2>1. path' = Append(path, x) /\ UNCHANGED <<point, error>>  BY <1>1, <1>7
  <2>2. /\ path' \in Seq(SdkAgents) /\ Len(path') = Len(path) + 1 /\ DOMAIN path' = 1..(Len(path) + 1)
        /\ path'[Len(path) + 1] = x /\ \A i \in 1..Len(path) : path'[i] = path[i]
    BY <1>3, <1>4, <2>1 DEF GraphTyped
  <2>3. GraphTyped' /\ Judged'  BY <1>2, <2>1, <2>2, SamePaths DEF GraphTyped, Judged
  <2>4. \A i \in 1..Len(path) : path[i] # x  BY <1>4, <1>7 DEF ToSet
  <2>5. \A i, j \in DOMAIN path' : path'[i] = path'[j] => i = j  BY <1>4, <2>2, <2>4 DEF OnPath
  <2>6. \A i \in DOMAIN path' : path'[i] \notin Done'  BY <1>1, <1>2, <1>4, <2>2 DEF OnPath, Done
  <2>7. ASSUME NEW i \in 1..(Len(path') - 1) PROVE path'[i + 1] \in Below(path'[i])
    <3>1. i \in 1..Len(path) /\ path'[i] = path[i]  BY <1>4, <2>2
    <3>2. CASE i = Len(path)  BY <2>2, <3>1, <3>2, <1>1 DEF Last
    <3>3. CASE i # Len(path)
      <4>2. i \in 1..(Len(path) - 1) /\ i + 1 \in 1..Len(path)
        <5>1. 1 \in 1..Len(path)  BY <1>4
        <5> QED  BY <1>4, <3>1, <3>3, <5>1, NextIndex
      <4>1. i \in 1..(Len(path) - 1) /\ path'[i + 1] = path[i + 1]  BY <2>2, <4>2
      <4> QED  BY <3>1, <4>1 DEF OnPath
    <3> QED  BY <3>2, <3>3
  <2>8. OnPath'  BY <1>2, <2>5, <2>6, <2>7 DEF OnPath, Below
  <2> QED  BY <1>5, <2>3, <2>8
<1> QED  BY <1>6, <1>7

LEMMA ReturnKeepsGraph == ASSUME GraphInv, Visiting(Return) PROVE GraphInv'
<1> USE DEF Visiting, GraphInv
<1>1. /\ point = "visit" /\ path # <<>> /\ Below(Last(path)) \subseteq Done /\ UNCHANGED <<dropIn, depths, point, error>>
      /\ order' = Append(order, Last(path)) /\ path' = Front(path)
  BY DEF Return
<1>2. Len(path) \in Nat \ {0} /\ DOMAIN path = 1..Len(path) /\ Last(path) = path[Len(path)] /\ Last(path) \in SdkAgents
  BY <1>1 DEF GraphTyped, Last
<1>3. Len(order) \in Nat /\ DOMAIN order = 1..Len(order)  BY DEF GraphTyped
<1>4. /\ order' \in Seq(SdkAgents) /\ Len(order') = Len(order) + 1 /\ DOMAIN order' = 1..(Len(order) + 1)
      /\ order'[Len(order) + 1] = Last(path) /\ \A i \in 1..Len(order) : order'[i] = order[i]
  BY <1>1, <1>2, <1>3 DEF GraphTyped
<1>5. /\ path' \in Seq(SdkAgents) /\ Len(path') = Len(path) - 1 /\ DOMAIN path' = 1..(Len(path) - 1)
      /\ \A i \in 1..(Len(path) - 1) : path'[i] = path[i]
  BY <1>1, <1>2 DEF GraphTyped, Front
<1>6. Done' = Done \cup {Last(path)}  BY <1>3, <1>4 DEF Done, ToSet
<1>7. depths = <<>> /\ depths' = <<>>  BY <1>1 DEF GraphTyped
<1>8. GraphTyped' /\ Judged'  BY <1>1, <1>4, <1>5, SamePaths DEF GraphTyped, Judged
<1>9. Measured'  BY <1>3, <1>4, <1>7 DEF Measured
<1>10. Last(path) \notin Done  BY <1>2 DEF OnPath
<1>11. Ordered'
  <2>1. \A i, j \in DOMAIN order' : order'[i] = order'[j] => i = j
    <3>1. \A i \in 1..Len(order) : order[i] # Last(path)  BY <1>3, <1>10 DEF Done, ToSet
    <3> QED  BY <1>3, <1>4, <3>1 DEF Ordered
  <2>2. ASSUME NEW i \in DOMAIN order', NEW x \in Below(order'[i]) PROVE \E j \in 1..(i - 1) : order'[j] = x
    <3>2. CASE i \in 1..Len(order)
      <4>1. PICK j \in 1..(i - 1) : order[j] = x  BY <1>3, <1>4, <3>2 DEF Ordered
      <4>2. j \in 1..Len(order)  BY <1>3, <3>2
      <4> QED  BY <1>4, <4>1, <4>2
    <3>3. CASE i = Len(order) + 1
      <4>1. x \in Done  BY <1>1, <1>4, <3>3
      <4>2. PICK j \in 1..Len(order) : order[j] = x  BY <1>3, <4>1 DEF Done, ToSet
      <4> QED  BY <1>3, <1>4, <3>3, <4>2
    <3> QED  BY <1>3, <1>4, <3>2, <3>3
  <2> QED  BY <1>1, <2>1, <2>2 DEF Ordered, Below
<1>12. OnPath'
  <2>1. \A i, j \in DOMAIN path' : path'[i] = path'[j] => i = j  BY <1>2, <1>5 DEF OnPath
  <2>2. ASSUME NEW i \in DOMAIN path' PROVE path'[i] \notin Done'
    <3>1. i \in 1..Len(path) /\ Len(path) \in 1..Len(path) /\ i # Len(path) /\ path'[i] = path[i]  BY <1>2, <1>5
    <3> QED  BY <1>2, <1>6, <3>1 DEF OnPath
  <2>3. ASSUME NEW i \in 1..(Len(path') - 1) PROVE path'[i + 1] \in Below(path'[i])
    <3>1. i \in 1..(Len(path) - 1) /\ path'[i] = path[i] /\ path'[i + 1] = path[i + 1]  BY <1>2, <1>5
    <3> QED  BY <3>1 DEF OnPath
  <2> QED  BY <1>1, <2>1, <2>2, <2>3 DEF OnPath, Below
<1> QED  BY <1>8, <1>9, <1>11, <1>12

LEMMA VisitedKeepsGraph == ASSUME AssemblyAssumption, GraphInv, Visiting(Visited) PROVE GraphInv'
<1> USE DEF Visiting, GraphInv
<1>1. /\ point = "visit" /\ Unvisited = {} /\ UNCHANGED <<dropIn, depths, error, path, order>>
      /\ point' = IF dropIn.depth = Unlimited THEN "references" ELSE "measure"
  BY DEF Visited
<1>2. Done = SdkAgents  BY <1>1 DEF Unvisited, Done, ToSet, SdkAgents, GraphTyped
<1>3. GraphTyped' /\ Measured'  BY <1>1, SamePaths DEF GraphTyped, Measured
<1>4. Ordered' /\ OnPath'  BY <1>1, <1>2, SamePaths DEF Ordered, OnPath, Done
<1>5. Judged'  BY <1>1 DEF Judged
<1> QED  BY <1>3, <1>4, <1>5

\* What a delegate's depth is while those after it are measured.
LEMMA DepthOfDelegate ==
  ASSUME AssemblyAssumption, GraphTyped, Ordered, Measured, Delegated \subseteq Everyone,
         NEW k \in DOMAIN order, Len(depths) = k - 1, NEW x \in dropIn.delegates[order[k]]
  PROVE  /\ x \in Everyone /\ DepthOf(x) \in Nat /\ PathFrom(x, DepthOf(x))
         /\ \A length \in Nat : PathFrom(x, length) => length <= DepthOf(x)
<1>1. /\ Len(order) \in Nat /\ DOMAIN order = 1..Len(order) /\ order[k] \in SdkAgents /\ k \in Nat
      /\ DOMAIN depths = 1..(k - 1) /\ \A i \in DOMAIN depths : depths[i] \in Nat
  BY DEF GraphTyped
<1>2. x \in Everyone  BY <1>1 DEF Delegated
<1>3. CASE x = Coder
  <2>1. \A i \in DOMAIN depths : i \in DOMAIN order  BY <1>1
  <2>2. \A i \in DOMAIN depths : order[i] # x  BY <2>1, <1>3 DEF GraphTyped, AssemblyAssumption
  <2>3. DepthOf(x) = 0  BY <2>2 DEF DepthOf
  <2>4. ASSUME NEW length \in Nat, PathFrom(x, length) PROVE length <= 0
    <3> SUFFICES ASSUME ~(length <= 0) PROVE FALSE  OBVIOUS
    <3>1. length - 1 \in Nat /\ (length - 1) + 1 = length  OBVIOUS
    <3>2. x \in SdkAgents  BY <2>4, <3>1, ShorterPath
    <3> QED  BY <1>3, <3>2 DEF AssemblyAssumption
  <2> QED  BY <1>2, <2>3, <2>4, PathOfNone
<1>4. CASE x \in SdkAgents
  <2>1. PICK j \in 1..(k - 1) : order[j] = x  BY <1>4 DEF Ordered, Below
  <2>2. j \in DOMAIN depths /\ j \in DOMAIN order  BY <1>1, <2>1
  <2>3. \A i \in DOMAIN depths : order[i] = x => i = j
    <3>1. \A i \in DOMAIN depths : i \in DOMAIN order  BY <1>1
    <3> QED  BY <2>1, <2>2, <3>1 DEF Ordered
  <2>4. DepthOf(x) = depths[j]
    <3> DEFINE i == CHOOSE i \in DOMAIN depths : order[i] = x
    <3>1. i \in DOMAIN depths /\ order[i] = x  BY <2>1, <2>2
    <3>2. DepthOf(x) = depths[i]  BY <2>1, <2>2 DEF DepthOf
    <3> HIDE DEF i
    <3> QED  BY <2>3, <3>1, <3>2
  <2> QED  BY <1>1, <1>2, <2>1, <2>2, <2>4 DEF Measured
<1> QED  BY <1>2, <1>3, <1>4 DEF Everyone

LEMMA NextDepth ==
  ASSUME AssemblyAssumption, GraphTyped, Ordered, Measured, Delegated \subseteq Everyone,
         NEW k \in DOMAIN order, Len(depths) = k - 1, NEW depth,
         depth = Max({0} \cup {1 + DepthOf(x) : x \in dropIn.delegates[order[k]]})
  PROVE  depth \in Nat /\ PathFrom(order[k], depth) /\ \A length \in Nat : PathFrom(order[k], length) => length <= depth
<1> DEFINE n == order[k]
           values == {0} \cup {1 + DepthOf(x) : x \in dropIn.delegates[n]}
<1>1. n \in SdkAgents /\ k \in Nat  BY DEF GraphTyped
<1>2. ASSUME NEW x \in dropIn.delegates[n] PROVE 1 + DepthOf(x) \in Nat /\ PathFrom(n, 1 + DepthOf(x))
  <2>1. x \in Everyone /\ DepthOf(x) \in Nat /\ PathFrom(x, DepthOf(x))  BY DepthOfDelegate
  <2>2. PathFrom(n, DepthOf(x) + 1)  BY <1>1, <2>1, LongerPath
  <2>3. DepthOf(x) + 1 = 1 + DepthOf(x)  BY <2>1
  <2> QED  BY <2>1, <2>2, <2>3
<1>3. \A v \in values : v \in Nat /\ PathFrom(n, v)  BY <1>1, <1>2, PathOfNone DEF Everyone
<1>4. \A v \in values : v <= k  BY <1>3, PathsGoDown
<1>5. depth \in values /\ \A v \in values : v <= depth
  <2>1. values \subseteq Nat /\ values # {} /\ depth = Max(values)  BY <1>3
  <2> HIDE DEF values
  <2> QED  BY <1>1, <1>4, <2>1, GreatestOne
<1>6. ASSUME NEW length \in Nat, PathFrom(n, length) PROVE length <= depth
  <2>1. CASE length = 0  BY <1>3, <1>5, <2>1
  <2>2. CASE length # 0
    <3>1. length - 1 \in Nat /\ (length - 1) + 1 = length  BY <2>2
    <3>2. PICK x \in dropIn.delegates[n] : PathFrom(x, length - 1)  BY <1>6, <3>1, ShorterPath
    <3>3. length - 1 <= DepthOf(x) /\ DepthOf(x) \in Nat  BY <3>1, <3>2, DepthOfDelegate
    <3>4. 1 + DepthOf(x) <= depth  BY <1>5
    <3>5. depth \in Nat  BY <1>3, <1>5
    <3> QED  BY <3>3, <3>4, <3>5
  <2> QED  BY <2>1, <2>2
<1> QED  BY <1>3, <1>5, <1>6

\* With all depths known, the greatest is that of the longest path.
LEMMA GreatestDepth ==
  ASSUME AssemblyAssumption, GraphTyped, Ordered, Measured, Delegated \subseteq Everyone, Done = SdkAgents,
         Len(depths) = Len(order)
  PROVE  Max(ToSet(depths)) > dropIn.depth <=> HasPath(dropIn.depth + 1)
<1>1. /\ Len(order) \in Nat /\ DOMAIN order = 1..Len(order) /\ DOMAIN depths = DOMAIN order
      /\ \A i \in DOMAIN depths : depths[i] \in Nat
      /\ dropIn.depth \in Nat /\ dropIn.depth + 1 \in Nat
  BY DEF GraphTyped
<1>2. ASSUME NEW i \in DOMAIN depths PROVE depths[i] <= Len(order)
  <2>1. depths[i] <= i  BY <1>1, PathsGoDown DEF Measured
  <2> QED  BY <1>1, <2>1
<1>3. ToSet(depths) \subseteq Nat /\ \A d \in ToSet(depths) : d <= Len(order)  BY <1>1, <1>2 DEF ToSet
<1>4. ToSet(depths) # {}
  <2>1. PICK i \in DOMAIN order : order[i] = Orchestrator  BY DEF Done, ToSet, AssemblyAssumption
  <2> QED  BY <1>1, <2>1 DEF ToSet
<1>5. Max(ToSet(depths)) \in ToSet(depths) /\ \A d \in ToSet(depths) : d <= Max(ToSet(depths))
  BY <1>1, <1>3, <1>4, GreatestOne
<1>6. Max(ToSet(depths)) \in Nat  BY <1>3, <1>5
<1>7. ASSUME Max(ToSet(depths)) > dropIn.depth PROVE HasPath(dropIn.depth + 1)
  <2>1. PICK i \in DOMAIN depths : Max(ToSet(depths)) = depths[i]  BY <1>5 DEF ToSet
  <2>2. depths[i] \in Nat /\ dropIn.depth + 1 \in 0..depths[i]  BY <1>1, <1>7, <2>1
  <2>3. PathFrom(order[i], depths[i])  BY DEF Measured
  <2>4. PathFrom(order[i], dropIn.depth + 1)  BY <2>2, <2>3, PathPrefix
  <2>5. order[i] \in Everyone  BY <1>1 DEF GraphTyped, Everyone
  <2> QED  BY <1>1, <2>4, <2>5, HasPathIsFrom
<1>8. ASSUME HasPath(dropIn.depth + 1) PROVE Max(ToSet(depths)) > dropIn.depth
  <2>1. PICK n \in Everyone : PathFrom(n, dropIn.depth + 1)  BY <1>1, <1>8, HasPathIsFrom
  <2>2. n \in SdkAgents  BY <1>1, <2>1, ShorterPath
  <2>3. PICK i \in DOMAIN order : order[i] = n  BY <2>2 DEF Done, ToSet
  <2>4. dropIn.depth + 1 <= depths[i]  BY <1>1, <2>1, <2>3 DEF Measured
  <2>5. depths[i] <= Max(ToSet(depths)) /\ depths[i] \in Nat  BY <1>1, <1>5 DEF ToSet
  <2> QED  BY <1>1, <1>6, <2>4, <2>5
<1> QED  BY <1>7, <1>8

LEMMA SameLength ==
  ASSUME NEW m \in Nat, NEW n \in Nat, m <= n, ~(m < n)
  PROVE  m = n
OBVIOUS

LEMMA MeasureKeepsGraph == ASSUME AssemblyAssumption, GraphInv, Measure PROVE GraphInv'
<1> USE DEF GraphInv
<1>1. point = "measure" /\ UNCHANGED <<dropIn, path, order>>  BY DEF Measure
<1>2. Delegated \subseteq Everyone /\ Done = SdkAgents  BY <1>1 DEF GraphTyped, Ordered
<1>3. Len(depths) \in Nat /\ Len(order) \in Nat /\ Len(depths) <= Len(order) /\ DOMAIN order = 1..Len(order)
      /\ DOMAIN depths = 1..Len(depths)
  BY DEF GraphTyped, Measured
<1>4. CASE Len(depths) < Len(order)
  <2> DEFINE k == Len(depths) + 1
             depth == Max({0} \cup {1 + DepthOf(x) : x \in dropIn.delegates[order[k]]})
  <2>1. k \in DOMAIN order /\ Len(depths) = k - 1  BY <1>3, <1>4
  <2>2. depths' = Append(depths, depth) /\ UNCHANGED <<point, error>>  BY <1>4 DEF Measure
  <2>3. depth \in Nat /\ PathFrom(order[k], depth) /\ \A length \in Nat : PathFrom(order[k], length) => length <= depth
    <3> HIDE DEF k
    <3> QED  BY <1>2, <2>1, NextDepth
  <2> HIDE DEF depth
  <2>4. /\ depths' \in Seq(Nat) /\ Len(depths') = k /\ DOMAIN depths' = 1..k /\ depths'[k] = depth
        /\ \A i \in 1..Len(depths) : depths'[i] = depths[i]
    BY <1>3, <2>2, <2>3 DEF GraphTyped
  <2>5. GraphTyped' /\ Judged'  BY <1>1, <2>2, <2>4, SamePaths DEF GraphTyped, Judged
  <2>6. Ordered' /\ OnPath'  BY <1>1, <2>2, SamePaths DEF Ordered, OnPath, Done
  <2>7. ASSUME NEW i \in DOMAIN depths'
        PROVE  /\ PathFrom(order[i], depths'[i])
               /\ \A length \in Nat : PathFrom(order[i], length) => length <= depths'[i]
    <3>1. CASE i = k  BY <2>3, <2>4, <3>1
    <3>2. CASE i # k
      <4>1. i \in DOMAIN depths /\ depths'[i] = depths[i]  BY <1>3, <2>4, <3>2
      <4> QED  BY <4>1 DEF Measured
    <3> QED  BY <3>1, <3>2
  <2>8. Measured'
    <3>1. Len(depths') <= Len(order')  BY <1>1, <2>1, <2>4, <1>3
    <3> QED  BY <1>1, <2>7, <3>1, SamePaths DEF Measured
  <2> QED  BY <2>5, <2>6, <2>8
<1>5. CASE ~(Len(depths) < Len(order))
  <2> DEFINE deep == Max(ToSet(depths)) > dropIn.depth
             reason == "depth"
  <2>1. error' = First(<<<<deep, reason>>>>) /\ (point' = IF error' = Void THEN "references" ELSE "exited") /\ UNCHANGED depths
    BY <1>5 DEF Measure, Passes
  <2>2. reason # Void /\ reason = "depth"  BY DEF Void
  <2>3. deep <=> HasPath(dropIn.depth + 1)
    <3>1. Len(depths) = Len(order)
      <4>1. Len(depths) \in Nat /\ Len(order) \in Nat /\ Len(depths) <= Len(order) /\ ~(Len(depths) < Len(order))  BY <1>3, <1>5
      <4> QED  BY <4>1, SameLength
    <3> QED  BY <1>2, <3>1, GreatestDepth
  <2> HIDE DEF deep, reason
  <2>4. error' \in {Void, reason} /\ (error' = Void => ~deep) /\ (error' = reason => deep)
    BY <2>1, <2>2, FirstOfOne
  <2>5. point' \in {"references", "exited"} /\ (point' = "references" <=> error' = Void)  BY <2>1
  <2>6. GraphTyped'  BY <1>1, <1>2, <2>1, <2>5, SamePaths DEF GraphTyped
  <2>7. Ordered'  BY <1>1, <1>2, <2>5, SamePaths DEF Ordered, Done
  <2>8. OnPath' /\ Measured'  BY <1>1, <2>1, SamePaths DEF OnPath, Done, Measured
  <2>9. Judged'  BY <1>1, <2>2, <2>3, <2>4, <2>5, SamePaths DEF Judged, Void
  <2> QED  BY <2>6, <2>7, <2>8, <2>9
<1> QED  BY <1>4, <1>5

LEMMA CheckReferencesKeepsGraph == ASSUME GraphInv, CheckReferences PROVE GraphInv'
<1> USE DEF GraphInv
<1>1. point = "references" /\ UNCHANGED config  BY DEF CheckReferences
<1>2. UNCHANGED <<dropIn, path, order, depths>>  BY <1>1 DEF config
<1>3. error' \in {Void, "description", "unknown server", "placeholder", "summary", "workspace", "extension"}
  <2>1. /\ IsList(ReferenceChecks \o DirectoryChecks)
        /\ Reasons(ReferenceChecks \o DirectoryChecks) = Reasons(ReferenceChecks) \cup Reasons(DirectoryChecks)
    <3>1. IsList(ReferenceChecks) /\ IsList(DirectoryChecks)  BY ReasonsOfLists
    <3> QED  BY <3>1, ChecksOfBoth
  <2>2. error' = First(ReferenceChecks \o DirectoryChecks)  BY DEF CheckReferences, Passes
  <2>3. error' \in {Void} \cup (Reasons(ReferenceChecks) \cup Reasons(DirectoryChecks))  BY <2>1, <2>2, FirstOfChecks
  <2> QED  BY <2>3, ReasonsOfLists
<1>4. point' = IF error' = Void THEN "assemble" ELSE "exited"  BY DEF CheckReferences, Passes
<1>5. GraphTyped'  BY <1>1, <1>2, <1>4, SamePaths DEF GraphTyped
<1>6. Ordered'  BY <1>1, <1>2, <1>4, SamePaths DEF Ordered, Done
<1>7. OnPath' /\ Measured'  BY <1>2, SamePaths DEF OnPath, Done, Measured
<1>8. Judged'  BY <1>1, <1>2, <1>3, <1>4, SamePaths DEF Judged, Void
<1> QED  BY <1>5, <1>6, <1>7, <1>8

LEMMA AssembleKeepsGraph ==
  ASSUME GraphInv, Assemble
  PROVE  GraphInv' /\ error' \in {Void} \cup Configured /\ point' = IF error' = Void THEN "build" ELSE "exited"
<1>1. point = "assemble" /\ UNCHANGED config  BY DEF Assemble
<1>2. error' = First(AssembleChecks) /\ point' = IF error' = Void THEN "build" ELSE "exited"  BY DEF Assemble, Passes
<1>3. error' \in {Void} \cup Configured  BY <1>2, ReasonsToAssemble, FirstOfChecks
<1>4. error' \notin {"cycle", "depth"}  BY <1>3 DEF Configured, Void
<1>5. point' \notin Loading \cup {"assemble"}  BY <1>2 DEF Loading
<1> QED  BY <1>1, <1>2, <1>3, <1>4, <1>5, GraphStays

LEMMA BuildKeepsGraph ==
  ASSUME GraphInv, Build
  PROVE  GraphInv' /\ error' \in {Void} \cup Reasons(BuildChecks)
<1>1. point = "build" /\ UNCHANGED config  BY DEF Build
<1>2. error' = First(BuildChecks)  BY DEF Build
<1>3. error' \in {Void} \cup Reasons(BuildChecks)  BY <1>2, ReasonsOfLists, FirstOfChecks
<1>4. error' \notin {"cycle", "depth"}  BY <1>3, ReasonsOfLists DEF Void
<1>5. point' \notin Loading \cup {"assemble"} /\ (point' # "exited" => error' = Void)  BY DEF Build, Loading
<1> QED  BY <1>1, <1>3, <1>4, <1>5, GraphStays

LEMMA EnterKeepsGraph ==
  ASSUME GraphInv, Enter
  PROVE  GraphInv' /\ point' = IF error' = Void THEN "prompt" ELSE "exited"
<1>1. point = "enter" /\ UNCHANGED config  BY DEF Enter
<1>2. error' = First(EnterChecks) /\ point' = IF error' = Void THEN "prompt" ELSE "exited"  BY DEF Enter, Passes
<1>3. error' \in {Void, "name", "steering tools"}  BY <1>2, ReasonsOfLists, FirstOfChecks
<1>4. error' \notin {"cycle", "depth"}  BY <1>3 DEF Void
<1>5. point' \notin Loading \cup {"assemble"}  BY <1>2 DEF Loading
<1> QED  BY <1>1, <1>2, <1>4, <1>5, GraphStays

LEMMA RestartKeepsGraph == ASSUME GraphInv, Restart PROVE GraphInv'
<1> USE DEF GraphInv
<1>1. path' = <<>> /\ order' = <<>> /\ depths' = <<>> /\ point' = "load" /\ error' = Void /\ UNCHANGED dropIn  BY DEF Restart
<1>2. GraphTyped'  BY <1>1 DEF GraphTyped
<1>3. Ordered' /\ OnPath' /\ Measured'
  <2>1. /\ \A i \in DOMAIN path' : FALSE
        /\ \A i \in DOMAIN order' : FALSE
        /\ \A i \in DOMAIN depths' : FALSE
        /\ \A i \in 1..(Len(path') - 1) : FALSE
        /\ Len(depths') <= Len(order')
    BY <1>1, NoneIsThere
  <2>2. Ordered'  BY <1>1, <2>1 DEF Ordered
  <2>3. OnPath'  BY <2>1 DEF OnPath
  <2>4. Measured'  BY <2>1 DEF Measured
  <2> QED  BY <2>2, <2>3, <2>4
<1>4. Judged'  BY <1>1 DEF Judged
<1> QED  BY <1>2, <1>3, <1>4

\* Agents come after those they call.
LEMMA AgentsCanBeBuilt == ASSUME GraphInv, point = "build" PROVE CanBuild
<1> DEFINE Place(n) == CHOOSE i \in DOMAIN order : order[i] = n
<1>1. Done = SdkAgents /\ DOMAIN order = 1..Len(order) /\ Len(order) \in Nat  BY DEF GraphInv, GraphTyped, Ordered
<1>2. ASSUME NEW n \in SdkAgents PROVE Place(n) \in DOMAIN order /\ order[Place(n)] = n
  <2>1. \E i \in DOMAIN order : order[i] = n  BY <1>1 DEF Done, ToSet
  <2> QED  BY <2>1
<1> HIDE DEF Place
<1>3. ASSUME NEW n \in SdkAgents, NEW x \in dropIn.delegates[n] \cap SdkAgents PROVE Place(x) < Place(n)
  <2>1. x \in Below(order[Place(n)])  BY <1>2 DEF Below
  <2>2. PICK j \in 1..(Place(n) - 1) : order[j] = x  BY <1>2, <2>1 DEF GraphInv, Ordered
  <2>3. Place(n) \in Nat /\ Place(n) <= Len(order)  BY <1>1, <1>2
  <2>4. j \in DOMAIN order /\ j < Place(n)  BY <1>1, <2>3
  <2>5. Place(x) = j  BY <1>2, <2>2, <2>4 DEF GraphInv, Ordered
  <2> QED  BY <2>4, <2>5
<1> QED  BY <1>3 DEF CanBuild, Place

Ongoing == {"prompt", "call", "working", "gates", "snapshot", "asking", "judging"}
LateErrors == {Void, "prompt", "continue", "rubric", "summary"}

RunTyped ==
  /\ point \in Loading \cup {"assemble", "build", "enter", "exited"} \cup Ongoing
  /\ draft \in [Submission -> Nat] /\ writes \in Nat

CalledLate == called => point \in Ongoing \cup {"exited"} /\ error \in LateErrors

\* What checks and builds leave behind, in their order.
Assembled ==
  point \in {"build", "enter"} \cup Ongoing =>
    /\ told = [n \in SdkAgents |-> Told(n)]
    /\ Escalates => dropIn.steering # Void
    /\ ReviewIsAllowed

ToolsOf(n) ==
  Runs(dropIn.tools[n]) \cup {DelegateTool(x) : x \in dropIn.delegates[n]} \cup ResultTools(n) \cup CommunicationTools(n)

Built ==
  point \in {"enter"} \cup Ongoing =>
    /\ tools = [n \in SdkAgents |-> ToolsOf(n)]
    /\ ~NestedDelegates /\ ~NamesAreTaken(Used \cup SdkAgents \cup {Coder})

Offered == point \in Ongoing => ~OffersTaken /\ ~SteeringLacksTools

Snapshots ==
  /\ \A f \in DOMAIN snapshot : snapshot[f] # 0
  /\ point \in {"asking", "judging"} /\ dropIn.blind => Submission \subseteq DOMAIN snapshot
  /\ point \in {"snapshot", "asking"} => seen = {}
  /\ point = "judging" /\ dropIn.blind => \A r \in seen : r[1] \in Submission /\ r[2] = snapshot[r[1]]

AcceptedInv == GraphInv /\ RunTyped /\ CalledLate /\ Assembled /\ Built /\ Offered /\ Snapshots

LEMMA SameChecks ==
  ASSUME UNCHANGED dropIn
  PROVE  /\ UNCHANGED <<Escalates, ReviewIsAllowed, NestedDelegates, OffersTaken, SteeringLacksTools>>
         /\ UNCHANGED NamesAreTaken(Used \cup SdkAgents \cup {Coder})
         /\ UNCHANGED <<[n \in SdkAgents |-> Told(n)], [n \in SdkAgents |-> ToolsOf(n)]>>
BY DEF Escalates, ReviewIsAllowed, NestedDelegates, OffersTaken, SteeringLacksTools, NamesAreTaken, Used, Generated, Interactive,
       Background, Delegated, Servers, Told, ToldOfDelegates, ToolsOf, DelegateTool, ResultTools, CommunicationTools

----------------------------------------------------------------------------
(* Assembly: a run *)

\* A step of a run changes nothing that was checked before.
LEMMA StepOfRun ==
  ASSUME AcceptedInv, UNCHANGED <<config, prepared>>, point \in Ongoing, point' \in Ongoing \cup {"exited"},
         point' # "exited" => error' = Void, error' \in LateErrors,
         UNCHANGED files \/ (draft' \in [Submission -> Nat] /\ writes' \in Nat), Snapshots'
  PROVE  AcceptedInv'
<1> USE DEF AcceptedInv
<1>1. UNCHANGED <<dropIn, told, tools>>  BY DEF config, prepared
<1>2. GraphInv'
  <2>1. point \notin {"load", "visit", "exited"} /\ point' \notin Loading \cup {"assemble"} /\ error' \notin {"cycle", "depth"}
    BY DEF Ongoing, Loading, LateErrors, Void
  <2> QED  BY <2>1, GraphStays
<1>3. RunTyped'  BY DEF RunTyped, files
<1>4. CalledLate'  BY DEF CalledLate
<1>5. point \notin {"exited"}  BY DEF Ongoing
<1>6. Assembled' /\ Built' /\ Offered'  BY <1>1, <1>5, SameChecks DEF Assembled, Built, Offered
<1> QED  BY <1>2, <1>3, <1>4, <1>6

\* No error was raised while a run goes on.
LEMMA NoErrorInRun == ASSUME GraphInv, point \in Ongoing PROVE error = Void
BY DEF GraphInv, Judged, Ongoing

LEMMA SnapshotsStay ==
  ASSUME Snapshots, UNCHANGED <<dropIn, review>>, point' = point \/ point' \notin {"snapshot", "asking", "judging"}
  PROVE  Snapshots'
BY DEF Snapshots, review

LEMMA PromptIsAccepted == ASSUME AcceptedInv, Prompt PROVE AcceptedInv'
<1>1. point = "prompt" /\ UNCHANGED <<config, prepared, files, review>>  BY DEF Prompt
<1>2. error = Void  BY <1>1, NoErrorInRun DEF AcceptedInv, Ongoing
<1>3. /\ point' \in {"call", "exited"} /\ (point' # "exited" => error' = Void) /\ error' \in {Void, "prompt"}
  BY <1>2 DEF Prompt, Exits
<1>4. Snapshots'  BY <1>1, <1>3, SnapshotsStay DEF AcceptedInv, config
<1> QED  BY <1>1, <1>3, <1>4, StepOfRun DEF Ongoing, LateErrors

LEMMA CallIsAccepted == ASSUME AcceptedInv, Call PROVE AcceptedInv'
<1>1. point = "call" /\ UNCHANGED <<config, prepared, files, review>>  BY DEF Call
<1>2. error = Void  BY <1>1, NoErrorInRun DEF AcceptedInv, Ongoing
<1>3. /\ point' \in {"working", "exited"} /\ (point' # "exited" => error' = Void) /\ error' \in {Void, "summary"}
  BY <1>2 DEF Call, Exits
<1>4. Snapshots'  BY <1>1, <1>3, SnapshotsStay DEF AcceptedInv, config
<1> QED  BY <1>1, <1>3, <1>4, StepOfRun DEF Ongoing, LateErrors

LEMMA WorkIsAccepted == ASSUME AcceptedInv, Work PROVE AcceptedInv'
<1>1. point = "working" /\ UNCHANGED <<config, prepared, files, review, error>>  BY DEF Work
<1>2. error = Void  BY <1>1, NoErrorInRun DEF AcceptedInv, Ongoing
<1>3. point' \in {"call", "gates"}  BY DEF Work
<1>4. Snapshots'  BY <1>1, <1>3, SnapshotsStay DEF AcceptedInv, config
<1> QED  BY <1>1, <1>2, <1>3, <1>4, StepOfRun DEF Ongoing, LateErrors

LEMMA WriteIsAccepted == ASSUME AcceptedInv, WriteFile PROVE AcceptedInv'
<1>1. point \in {"working", "gates", "snapshot", "judging"} /\ UNCHANGED <<config, prepared, review, point, error>>  BY DEF WriteFile, loop
<1>2. error = Void /\ point \in Ongoing  BY <1>1, NoErrorInRun DEF AcceptedInv, Ongoing
<1>3. Snapshots'  BY <1>1, SnapshotsStay DEF AcceptedInv, config
<1>4. writes' \in Nat /\ draft' \in [Submission -> Nat]  BY DEF WriteFile, AcceptedInv, RunTyped
<1>5. point # "exited"  BY <1>1
<1> QED  BY <1>1, <1>2, <1>3, <1>4, <1>5, StepOfRun DEF LateErrors

LEMMA RunCommandIsAccepted == ASSUME AcceptedInv, RunCommand PROVE AcceptedInv'
<1>1. point = "gates" /\ point' = "gates" /\ UNCHANGED <<config, prepared, files, review, error>>  BY DEF RunCommand, AfterGate
<1>2. error = Void  BY <1>1, NoErrorInRun DEF AcceptedInv, Ongoing
<1>3. Snapshots'  BY <1>1, SnapshotsStay DEF AcceptedInv, config
<1> QED  BY <1>1, <1>2, <1>3, StepOfRun DEF Ongoing, LateErrors

LEMMA ConcludeIsAccepted == ASSUME AcceptedInv, Conclude PROVE AcceptedInv'
<1>1. point = "gates" /\ UNCHANGED <<config, prepared, files, review>>  BY DEF Conclude
<1>2. error = Void  BY <1>1, NoErrorInRun DEF AcceptedInv, Ongoing
<1>3. /\ point' \in {"prompt", "exited"} /\ (point' # "exited" => error' = Void) /\ error' \in {Void, "continue"}
  BY <1>2 DEF Conclude, Exits
<1>4. Snapshots'  BY <1>1, <1>3, SnapshotsStay DEF AcceptedInv, config
<1> QED  BY <1>1, <1>3, <1>4, StepOfRun DEF Ongoing, LateErrors

LEMMA StartReviewIsAccepted == ASSUME AcceptedInv, StartReview PROVE AcceptedInv'
<1>1. /\ point = "gates" /\ UNCHANGED <<config, prepared, files, error>> /\ snapshot' = <<>> /\ seen' = {}
      /\ point' = IF dropIn.blind THEN "snapshot" ELSE "asking"
  BY DEF StartReview
<1>2. error = Void  BY <1>1, NoErrorInRun DEF AcceptedInv, Ongoing
<1>3. Snapshots'
  <2>1. \A f \in DOMAIN snapshot' : FALSE  BY <1>1, NoneIsThere
  <2> QED  BY <1>1, <2>1 DEF Snapshots, config
<1> QED  BY <1>1, <1>2, <1>3, StepOfRun DEF Ongoing, LateErrors

LEMMA TakeArtifactIsAccepted == ASSUME AcceptedInv, TakeArtifact PROVE AcceptedInv'
<1> DEFINE f == Artifacts[Cardinality(DOMAIN snapshot) + 1]
<1>1. /\ point = "snapshot" /\ UNCHANGED <<config, prepared, files, error, seen>> /\ seen = {}
      /\ IF draft[f] = 0 THEN point' = "gates" /\ snapshot' = <<>>
         ELSE /\ snapshot' = [g \in DOMAIN snapshot \cup {f} |-> IF g = f THEN draft[f] ELSE snapshot[g]]
              /\ point' = IF DOMAIN snapshot' = Submission THEN "asking" ELSE point
  BY DEF TakeArtifact, AfterGate, AcceptedInv, Snapshots
<1> HIDE DEF f
<1>2. error = Void  BY <1>1, NoErrorInRun DEF AcceptedInv, Ongoing
<1>3. point' \in {"gates", "snapshot", "asking"}  BY <1>1
<1>4. \A g \in DOMAIN snapshot' : snapshot'[g] # 0
  <2>1. CASE draft[f] = 0
    <3>1. \A g \in DOMAIN snapshot' : FALSE  BY <1>1, <2>1, NoneIsThere
    <3> QED  BY <3>1
  <2>2. CASE draft[f] # 0
    <3>1. snapshot' = [g \in DOMAIN snapshot \cup {f} |-> IF g = f THEN draft[f] ELSE snapshot[g]]  BY <1>1, <2>2
    <3> QED  BY <2>2, <3>1 DEF AcceptedInv, Snapshots
  <2> QED  BY <2>1, <2>2
<1>5. Snapshots'  BY <1>1, <1>3, <1>4 DEF Snapshots
<1> QED  BY <1>1, <1>2, <1>3, <1>5, StepOfRun DEF Ongoing, LateErrors

LEMMA AskJudgeIsAccepted == ASSUME AcceptedInv, AskJudge PROVE AcceptedInv'
<1>1. point = "asking" /\ UNCHANGED <<config, prepared, files, review>>  BY DEF AskJudge
<1>2. error = Void /\ ReviewIsAllowed  BY <1>1, NoErrorInRun DEF AcceptedInv, Ongoing, Assembled
<1>3. /\ point' \in {"judging", "exited"} /\ (point' # "exited" => error' = Void) /\ error' \in {Void, "rubric"}
  BY <1>2 DEF AskJudge, Exits
<1>4. Snapshots'
  <2>1. UNCHANGED <<dropIn, snapshot, seen>> /\ seen = {}  BY <1>1 DEF config, review, AcceptedInv, Snapshots
  <2> QED  BY <1>1, <1>3, <2>1 DEF AcceptedInv, Snapshots
<1> QED  BY <1>1, <1>3, <1>4, StepOfRun DEF Ongoing, LateErrors

LEMMA JudgeReadsIsAccepted == ASSUME AcceptedInv, JudgeReads PROVE AcceptedInv'
<1>1. point = "judging" /\ UNCHANGED <<config, prepared, files, point, error, snapshot>>  BY DEF JudgeReads
<1>2. error = Void  BY <1>1, NoErrorInRun DEF AcceptedInv, Ongoing
<1>3. PICK f \in Submission : seen' = seen \cup {<<f, Reviewed(f)>>}  BY DEF JudgeReads
<1>4. dropIn.blind => Reviewed(f) = snapshot[f]  BY DEF Reviewed
<1>5. Snapshots'
  <2>1. UNCHANGED dropIn  BY <1>1 DEF config
  <2>2. dropIn.blind => \A r \in seen' : r[1] \in Submission /\ r[2] = snapshot[r[1]]
    BY <1>1, <1>3, <1>4 DEF AcceptedInv, Snapshots
  <2> QED  BY <1>1, <2>1, <2>2 DEF AcceptedInv, Snapshots
<1> QED  BY <1>1, <1>2, <1>5, StepOfRun DEF Ongoing, LateErrors

LEMMA VerdictIsAccepted == ASSUME AcceptedInv, Verdict PROVE AcceptedInv'
<1>1. point = "judging" /\ point' = "gates" /\ UNCHANGED <<config, prepared, files, error>> /\ snapshot' = <<>> /\ seen' = {}
  BY DEF Verdict, AfterGate
<1>2. error = Void  BY <1>1, NoErrorInRun DEF AcceptedInv, Ongoing
<1>3. Snapshots'
  <2>1. \A f \in DOMAIN snapshot' : FALSE  BY <1>1, NoneIsThere
  <2> QED  BY <1>1, <2>1 DEF Snapshots
<1> QED  BY <1>1, <1>2, <1>3, StepOfRun DEF Ongoing, LateErrors

----------------------------------------------------------------------------
(* Assembly: what comes before a run *)

LEMMA BeforeTheRun ==
  ASSUME AcceptedInv, UNCHANGED <<dropIn, called, files, review>>, point \in Loading \cup {"assemble", "build", "enter"},
         point' \in Loading \cup {"assemble", "build", "enter", "exited"} \cup {"prompt"}
  PROVE  RunTyped' /\ CalledLate' /\ Snapshots'
<1>1. RunTyped'  BY DEF AcceptedInv, RunTyped, files, Ongoing
<1>2. ~called  BY DEF AcceptedInv, CalledLate, Loading, Ongoing
<1>3. CalledLate'  BY <1>2 DEF CalledLate
<1>4. point' \notin {"snapshot", "asking", "judging"}  BY DEF Loading
<1>5. Snapshots'  BY <1>4, SnapshotsStay DEF AcceptedInv
<1> QED  BY <1>1, <1>3, <1>5

LEMMA LoadingIsAccepted ==
  ASSUME AcceptedInv, GraphInv', UNCHANGED <<dropIn, called, prepared, files, review>>, point \in Loading,
         point' \in Loading \cup {"assemble", "exited"}
  PROVE  AcceptedInv'
<1>1. RunTyped' /\ CalledLate' /\ Snapshots'  BY BeforeTheRun
<1>2. point' \notin {"build", "enter"} \cup Ongoing  BY DEF Loading, Ongoing
<1>3. Assembled' /\ Built' /\ Offered'  BY <1>2 DEF Assembled, Built, Offered
<1> QED  BY <1>1, <1>3 DEF AcceptedInv

LEMMA LoadIsAccepted == ASSUME AcceptedInv, Load PROVE AcceptedInv'
<1>1. GraphInv'  BY LoadKeepsGraph DEF AcceptedInv
<1>2. point = "load" /\ point' \in {"visit", "exited"} /\ UNCHANGED <<config, called, prepared, files, review>>  BY DEF Load, Passes
<1> QED  BY <1>1, <1>2, LoadingIsAccepted DEF Loading, config

LEMMA VisitIsAccepted == ASSUME AssemblyAssumption, AcceptedInv, Visit PROVE AcceptedInv'
<1>1. GraphInv'
  BY VisitAgentKeepsGraph, VisitDelegateKeepsGraph, ReturnKeepsGraph, VisitedKeepsGraph DEF Visit, AcceptedInv
<1>2. point = "visit" /\ UNCHANGED <<dropIn, called, prepared, files, review>>  BY DEF Visit, Visiting
<1>3. point' \in {"visit", "exited", "references", "measure"}
  BY <1>2 DEF Visit, Visiting, VisitAgent, VisitDelegate, Return, Visited
<1> QED  BY <1>1, <1>2, <1>3, LoadingIsAccepted DEF Loading

LEMMA MeasureIsAccepted == ASSUME AssemblyAssumption, AcceptedInv, Measure PROVE AcceptedInv'
<1>1. GraphInv'  BY MeasureKeepsGraph DEF AcceptedInv
<1>2. point = "measure" /\ point' \in {"measure", "references", "exited"} /\ UNCHANGED <<dropIn, called, prepared, files, review>>
  BY DEF Measure, Passes
<1> QED  BY <1>1, <1>2, LoadingIsAccepted DEF Loading

LEMMA CheckReferencesIsAccepted == ASSUME AcceptedInv, CheckReferences PROVE AcceptedInv'
<1>1. GraphInv'  BY CheckReferencesKeepsGraph DEF AcceptedInv
<1>2. point = "references" /\ point' \in {"assemble", "exited"} /\ UNCHANGED <<config, called, prepared, files, review>>
  BY DEF CheckReferences, Passes
<1> QED  BY <1>1, <1>2, LoadingIsAccepted DEF Loading, config

LEMMA TwoPass ==
  ASSUME NEW a, NEW ra, NEW b, NEW rb
  PROVE  LET checks == <<<<a, ra>>, <<b, rb>>>> IN
         1 \in DOMAIN checks /\ 2 \in DOMAIN checks /\ checks[1][1] = a /\ checks[2][1] = b
OBVIOUS

LEMMA FivePass ==
  ASSUME NEW a, NEW ra, NEW b, NEW rb, NEW c, NEW rc, NEW d, NEW rd, NEW e, NEW re
  PROVE  LET checks == <<<<a, ra>>, <<b, rb>>, <<c, rc>>, <<d, rd>>, <<e, re>>>> IN
         2 \in DOMAIN checks /\ 3 \in DOMAIN checks /\ checks[2][1] = b /\ checks[3][1] = c
OBVIOUS

LEMMA AssembleIsAccepted == ASSUME AcceptedInv, Assemble PROVE AcceptedInv'
<1>1. GraphInv' /\ error' \in {Void} \cup Configured /\ point' = IF error' = Void THEN "build" ELSE "exited"
  BY AssembleKeepsGraph DEF AcceptedInv
<1>2. point = "assemble" /\ UNCHANGED <<config, dropIn, called, files, review>>  BY DEF Assemble, config
<1>3. point' \in {"build", "exited"}  BY <1>1
<1>4. RunTyped' /\ CalledLate' /\ Snapshots'  BY <1>1, <1>2, <1>3, BeforeTheRun DEF Loading
<1>5. Built' /\ Offered'  BY <1>3 DEF Built, Offered, Ongoing
<1>6. Assembled'
  <2> SUFFICES ASSUME point' = "build"
               PROVE  told' = [n \in SdkAgents |-> Told(n)] /\ (Escalates => dropIn.steering # Void) /\ ReviewIsAllowed
    BY <1>2, <1>3, SameChecks DEF Assembled, Ongoing
  <2>1. error' = Void  BY <1>1
  <2>2. told' = [n \in SdkAgents |-> Told(n)]  BY <2>1 DEF Assemble
  <2>3. First(AssembleChecks) = Void  BY <2>1 DEF Assemble, Passes
  <2>4. Void \notin Configured  BY DEF Void, Configured
  <2>5. \A i \in DOMAIN AssembleChecks : ~AssembleChecks[i][1]  BY <2>3, <2>4, ReasonsToAssemble, FirstOfChecks
  <2>6. Escalates => dropIn.steering # Void
    <3>1. PICK k \in Nat : \A i \in DOMAIN SteeringChecks :
            k + i \in DOMAIN AssembleChecks /\ AssembleChecks[k + i] = SteeringChecks[i]
      BY ReasonsToAssemble
    <3>2. 2 \in DOMAIN SteeringChecks /\ SteeringChecks[2][1] = (dropIn.steering = Void /\ Escalates)
      <4>1. PICK a, b, ra, rb : SteeringChecks = <<<<a, ra>>, <<b, rb>>>> /\ b = (dropIn.steering = Void /\ Escalates)
        BY DEF SteeringChecks
      <4>2. SteeringChecks = <<<<a, ra>>, <<b, rb>>>>  BY <4>1
      <4>3. 2 \in DOMAIN SteeringChecks /\ SteeringChecks[2][1] = b  BY <4>2, TwoPass
      <4> QED  BY <4>1, <4>3
    <3>3. ~SteeringChecks[2][1]  BY <2>5, <3>1, <3>2
    <3> QED  BY <3>2, <3>3
  <2>7. ReviewIsAllowed
    <3>1. 1 \in DOMAIN ReviewChecks /\ ReviewChecks[1][1] = ~ReviewIsAllowed  BY DEF ReviewChecks
    <3>2. PICK j \in DOMAIN AssembleChecks : AssembleChecks[j] = ReviewChecks[1]  BY <3>1, ReasonsToAssemble
    <3>3. ~AssembleChecks[j][1]  BY <2>5
    <3> QED  BY <3>1, <3>2, <3>3
  <2> QED  BY <2>2, <2>6, <2>7
<1> QED  BY <1>1, <1>4, <1>5, <1>6 DEF AcceptedInv

LEMMA BuildIsAccepted == ASSUME AcceptedInv, Build PROVE AcceptedInv'
<1>1. GraphInv' /\ error' \in {Void} \cup Reasons(BuildChecks)  BY BuildKeepsGraph DEF AcceptedInv
<1>2. point = "build" /\ UNCHANGED <<config, dropIn, told, called, files, review>>  BY DEF Build, config
<1>3. CanBuild  BY <1>2, AgentsCanBeBuilt DEF AcceptedInv
<1>4. point' \in {"enter", "exited"} /\ (point' = "enter" => error' = Void)  BY <1>3 DEF Build
<1>5. RunTyped' /\ CalledLate' /\ Snapshots'  BY <1>1, <1>2, <1>4, BeforeTheRun DEF Loading
<1>6. Assembled'  BY <1>2, <1>4, SameChecks DEF AcceptedInv, Assembled, Ongoing
<1>7. Built'
  <2> SUFFICES ASSUME point' = "enter"
               PROVE  tools' = [n \in SdkAgents |-> ToolsOf(n)] /\ ~NestedDelegates /\ ~NamesAreTaken(Used \cup SdkAgents \cup {Coder})
    BY <1>2, <1>4, SameChecks DEF Built, Ongoing
  <2>1. error' = Void  BY <1>4
  <2>2. tools' = [n \in SdkAgents |-> ToolsOf(n)]  BY <2>1 DEF Build, ToolsOf
  <2>3. First(BuildChecks) = Void  BY <2>1 DEF Build
  <2>4. \A i \in DOMAIN BuildChecks : ~BuildChecks[i][1]
    <3>1. Void \notin Reasons(BuildChecks)  BY ReasonsOfLists DEF Void
    <3> QED  BY <2>3, <3>1, ReasonsOfLists, FirstOfChecks
  <2>5. /\ 2 \in DOMAIN BuildChecks /\ BuildChecks[2][1] = NestedDelegates
        /\ 3 \in DOMAIN BuildChecks /\ BuildChecks[3][1] = NamesAreTaken(Used \cup SdkAgents \cup {Coder})
    <3>1. PICK a, b, c, d, e, ra, rb, rc, rd, re :
           /\ BuildChecks = <<<<a, ra>>, <<b, rb>>, <<c, rc>>, <<d, rd>>, <<e, re>>>>
           /\ b = NestedDelegates /\ c = NamesAreTaken(Used \cup SdkAgents \cup {Coder})
      BY DEF BuildChecks
    <3>2. BuildChecks = <<<<a, ra>>, <<b, rb>>, <<c, rc>>, <<d, rd>>, <<e, re>>>>  BY <3>1
    <3>3. 2 \in DOMAIN BuildChecks /\ 3 \in DOMAIN BuildChecks /\ BuildChecks[2][1] = b /\ BuildChecks[3][1] = c  BY <3>2, FivePass
    <3> QED  BY <3>1, <3>3
  <2>6. ~NestedDelegates  BY <2>4, <2>5
  <2>7. ~NamesAreTaken(Used \cup SdkAgents \cup {Coder})  BY <2>4, <2>5
  <2> QED  BY <2>2, <2>6, <2>7
<1>8. Offered'  BY <1>4 DEF Offered, Ongoing
<1> QED  BY <1>1, <1>5, <1>6, <1>7, <1>8 DEF AcceptedInv

LEMMA EnterIsAccepted == ASSUME AcceptedInv, Enter PROVE AcceptedInv'
<1>1. GraphInv' /\ point' = IF error' = Void THEN "prompt" ELSE "exited"  BY EnterKeepsGraph DEF AcceptedInv
<1>2. point = "enter" /\ UNCHANGED <<config, dropIn, told, tools, called, files, review>>  BY DEF Enter, config, prepared
<1>3. point' \in {"prompt", "exited"}  BY <1>1
<1>4. RunTyped' /\ CalledLate' /\ Snapshots'  BY <1>1, <1>2, <1>3, BeforeTheRun DEF Loading
<1>5. Assembled' /\ Built'  BY <1>2, <1>3, SameChecks DEF AcceptedInv, Assembled, Built, Ongoing
<1>6. Offered'
  <2> SUFFICES ASSUME point' = "prompt" PROVE ~OffersTaken /\ ~SteeringLacksTools
    BY <1>2, <1>3, SameChecks DEF Offered, Ongoing
  <2>1. First(EnterChecks) = Void  BY <1>1 DEF Enter, Passes
  <2>2. \A i \in DOMAIN EnterChecks : ~EnterChecks[i][1]
    <3>1. Void \notin Reasons(EnterChecks)  BY ReasonsOfLists DEF Void
    <3> QED  BY <2>1, <3>1, ReasonsOfLists, FirstOfChecks
  <2>3. /\ 1 \in DOMAIN EnterChecks /\ EnterChecks[1][1] = OffersTaken
        /\ 2 \in DOMAIN EnterChecks /\ EnterChecks[2][1] = SteeringLacksTools
    <3>1. PICK a, b, ra, rb :
           EnterChecks = <<<<a, ra>>, <<b, rb>>>> /\ a = OffersTaken /\ b = SteeringLacksTools
      BY DEF EnterChecks
    <3>2. EnterChecks = <<<<a, ra>>, <<b, rb>>>>  BY <3>1
    <3>3. 1 \in DOMAIN EnterChecks /\ 2 \in DOMAIN EnterChecks /\ EnterChecks[1][1] = a /\ EnterChecks[2][1] = b  BY <3>2, TwoPass
    <3> QED  BY <3>1, <3>3
  <2>4. ~OffersTaken  BY <2>2, <2>3
  <2>5. ~SteeringLacksTools  BY <2>2, <2>3
  <2> QED  BY <2>4, <2>5
<1> QED  BY <1>1, <1>4, <1>5, <1>6 DEF AcceptedInv

LEMMA RestartIsAccepted == ASSUME AcceptedInv, Restart PROVE AcceptedInv'
<1>1. GraphInv'  BY RestartKeepsGraph DEF AcceptedInv
<1>2. point' = "load" /\ called' = FALSE /\ snapshot' = <<>> /\ seen' = {} /\ UNCHANGED files  BY DEF Restart
<1>3. RunTyped' /\ CalledLate'  BY <1>2 DEF AcceptedInv, RunTyped, CalledLate, files, Loading
<1>4. Assembled' /\ Built' /\ Offered'  BY <1>2 DEF Assembled, Built, Offered, Ongoing
<1>5. Snapshots'
  <2>1. \A f \in DOMAIN snapshot' : FALSE  BY <1>2, NoneIsThere
  <2> QED  BY <1>2, <2>1 DEF Snapshots
<1> QED  BY <1>1, <1>3, <1>4, <1>5 DEF AcceptedInv

LEMMA InitIsAccepted == ASSUME AssemblyAssumption, AssemblyInit PROVE AcceptedInv
<1>1. GraphInv  BY InitGraphInv
<1>2. point = "load" /\ called = FALSE /\ snapshot = <<>> /\ seen = {} /\ draft = [f \in Submission |-> 0] /\ writes = 0
  BY DEF AssemblyInit, Started
<1>3. RunTyped /\ CalledLate  BY <1>2 DEF RunTyped, CalledLate, Loading
<1>4. Assembled /\ Built /\ Offered  BY <1>2 DEF Assembled, Built, Offered, Ongoing
<1>5. Snapshots
  <2>1. \A f \in DOMAIN snapshot : FALSE  BY <1>2, NoneIsThere
  <2> QED  BY <1>2, <2>1 DEF Snapshots
<1> QED  BY <1>1, <1>3, <1>4, <1>5 DEF AcceptedInv

LEMMA StutterIsAccepted == ASSUME AcceptedInv, UNCHANGED assemblyVars PROVE AcceptedInv'
<1> USE DEF AcceptedInv
<1>1. UNCHANGED <<config, dropIn, point, error, called, told, tools, files, draft, writes, review>>
  BY DEF assemblyVars, config, prepared, files
<1>2. GraphInv'  BY <1>1, GraphStays
<1>3. RunTyped' /\ CalledLate'  BY <1>1 DEF RunTyped, CalledLate
<1>4. Assembled' /\ Built' /\ Offered'  BY <1>1, SameChecks DEF Assembled, Built, Offered
<1>5. Snapshots'  BY <1>1, SnapshotsStay
<1> QED  BY <1>2, <1>3, <1>4, <1>5

LEMMA NextIsAccepted == ASSUME AssemblyAssumption, AcceptedInv, [AssemblyNext]_assemblyVars PROVE AcceptedInv'
<1>1. CASE Load  BY <1>1, LoadIsAccepted
<1>2. CASE Visit  BY <1>2, VisitIsAccepted
<1>3. CASE Measure  BY <1>3, MeasureIsAccepted
<1>4. CASE CheckReferences  BY <1>4, CheckReferencesIsAccepted
<1>5. CASE Assemble  BY <1>5, AssembleIsAccepted
<1>6. CASE Build  BY <1>6, BuildIsAccepted
<1>7. CASE Enter  BY <1>7, EnterIsAccepted
<1>8. CASE Prompt  BY <1>8, PromptIsAccepted
<1>9. CASE Call  BY <1>9, CallIsAccepted
<1>10. CASE Work  BY <1>10, WorkIsAccepted
<1>11. CASE WriteFile  BY <1>11, WriteIsAccepted
<1>12. CASE RunCommand  BY <1>12, RunCommandIsAccepted
<1>13. CASE Conclude  BY <1>13, ConcludeIsAccepted
<1>14. CASE StartReview  BY <1>14, StartReviewIsAccepted
<1>15. CASE TakeArtifact  BY <1>15, TakeArtifactIsAccepted
<1>16. CASE AskJudge  BY <1>16, AskJudgeIsAccepted
<1>17. CASE JudgeReads  BY <1>17, JudgeReadsIsAccepted
<1>18. CASE Verdict  BY <1>18, VerdictIsAccepted
<1>19. CASE Restart  BY <1>19, RestartIsAccepted
<1>20. CASE UNCHANGED assemblyVars  BY <1>20, StutterIsAccepted
<1> QED  BY <1>1, <1>2, <1>3, <1>4, <1>5, <1>6, <1>7, <1>8, <1>9, <1>10, <1>11, <1>12, <1>13, <1>14, <1>15, <1>16, <1>17,
            <1>18, <1>19, <1>20 DEF AssemblyNext

----------------------------------------------------------------------------
(* Assembly: what is promised *)

LEMMA DropInsHold == ASSUME AssemblyAssumption, AcceptedInv PROVE DropInsAreChecked
<1> USE DEF AcceptedInv
<1>1. point # "crashed"  BY DEF RunTyped, Loading, Ongoing
<1>2. DelegationIsBounded
  <2>1. ASSUME point = "assemble" PROVE ~HasPath(Len(Sdk) + 1)
    <3>1. Delegated \subseteq Everyone /\ Done = SdkAgents  BY <2>1 DEF GraphInv, GraphTyped, Ordered
    <3> QED  BY <3>1, NoCycle DEF GraphInv
  <2> QED  BY <2>1 DEF DelegationIsBounded, GraphInv, Judged
<1>3. LateErrorsAreOfFiles  BY DEF LateErrorsAreOfFiles, CalledLate, LateErrors
<1> QED  BY <1>1, <1>2, <1>3 DEF DropInsAreChecked

LEMMA ToldIsBuilt ==
  ASSUME NEW n \in SdkAgents, ~NestedDelegates
  PROVE  Told(n) \subseteq ToolsOf(n)
<1> DEFINE names == dropIn.delegates[n]
           coding == names \cap {Coder}
<1>1. \A s, t : s \subseteq t => Runs(s) \subseteq Runs(t)  BY DEF Runs
<1>2. ToldOfDelegates(n) \subseteq ToolsOf(n)
  <2>1. CASE names = {}  BY <2>1 DEF ToldOfDelegates
  <2>2. CASE names # {} /\ Interactive
    <3>1. n = Orchestrator  BY <2>2 DEF NestedDelegates
    <3>2. Starts(names) \subseteq {DelegateTool(x) : x \in names}  BY <2>2 DEF Starts, DelegateTool
    <3>3. Runs({Result(x) : x \in names} \cup PiTools) \subseteq CommunicationTools(n)
      BY <1>1, <2>2, <3>1 DEF CommunicationTools
    <3>4. ToldOfDelegates(n) = Starts(names) \cup Runs({Result(x) : x \in names} \cup PiTools)  BY <2>2 DEF ToldOfDelegates
    <3> QED  BY <3>2, <3>3, <3>4 DEF ToolsOf
  <2>3. CASE names # {} /\ ~Interactive /\ Background
    <3>1. Runs(names \ coding) \subseteq {DelegateTool(x) : x \in names}
      <4>1. ASSUME NEW x \in names \ coding PROVE <<x, "runs">> = DelegateTool(x)  BY <2>3 DEF DelegateTool
      <4> QED  BY <4>1 DEF Runs
    <3>2. Starts(coding) \subseteq {DelegateTool(x) : x \in names}
      <4>1. ASSUME NEW x \in coding PROVE <<x, "starts">> = DelegateTool(x)  BY <2>3 DEF DelegateTool
      <4> QED  BY <4>1 DEF Starts
    <3>3. Runs({Result(x) : x \in coding}) = ResultTools(n)  BY <2>3 DEF ResultTools
    <3>4. ToldOfDelegates(n) = Runs(names \ coding) \cup Starts(coding) \cup Runs({Result(x) : x \in coding})
      BY <2>3 DEF ToldOfDelegates
    <3> QED  BY <3>1, <3>2, <3>3, <3>4 DEF ToolsOf
  <2>4. CASE names # {} /\ ~Interactive /\ ~Background
    <3>1. Runs(names) \subseteq {DelegateTool(x) : x \in names}  BY <2>4 DEF Runs, DelegateTool
    <3>2. ToldOfDelegates(n) = Runs(names)  BY <2>4 DEF ToldOfDelegates
    <3> QED  BY <3>1, <3>2 DEF ToolsOf
  <2> QED  BY <2>1, <2>2, <2>3, <2>4
<1>3. Interactive /\ n # Orchestrator => Runs(DelegateTools) \subseteq ToolsOf(n)  BY DEF CommunicationTools, ToolsOf
<1> QED  BY <1>2, <1>3 DEF Told, ToolsOf

\* No agent delegates to itself.
LEMMA NoneCallsItself == ASSUME GraphInv, Done = SdkAgents, NEW n \in SdkAgents PROVE n \notin dropIn.delegates[n]
<1> SUFFICES ASSUME n \in dropIn.delegates[n] PROVE FALSE  OBVIOUS
<1>1. DOMAIN order = 1..Len(order) /\ Len(order) \in Nat  BY DEF GraphInv, GraphTyped
<1>2. PICK i \in DOMAIN order : order[i] = n  BY DEF Done, ToSet
<1>3. PICK j \in 1..(i - 1) : order[j] = n  BY <1>2 DEF GraphInv, Ordered, Below
<1>4. j \in DOMAIN order /\ j # i  BY <1>1
<1> QED  BY <1>2, <1>3, <1>4 DEF GraphInv, Ordered

LEMMA GeneratedIsKnown ==
  ASSUME GraphInv, Done = SdkAgents, NEW n \in SdkAgents, NEW t \in GeneratedFor(n), Delegated \subseteq Everyone
  PROVE  t \in Generated /\ (Interactive \/ Background)
<1>1. dropIn.delegates[n] \subseteq Delegated  BY DEF Delegated
<1>2. ASSUME NEW s PROVE {r[1] : r \in Runs(s)} = s
  <2>1. PICK w : Runs(s) = {<<x, w>> : x \in s}  BY DEF Runs
  <2>2. ASSUME NEW r \in Runs(s) PROVE r[1] \in s
    <3>1. PICK x \in s : r = <<x, w>>  BY <2>1
    <3> QED  BY <3>1
  <2>3. ASSUME NEW x \in s PROVE \E r \in Runs(s) : r[1] = x
    <3>1. <<x, w>> \in Runs(s) /\ <<x, w>>[1] = x  BY <2>1
    <3> QED  BY <3>1
  <2> QED  BY <2>2, <2>3
<1>3. CASE t \in {r[1] : r \in ResultTools(n)}
  <2>1. Background /\ ~Interactive /\ ResultTools(n) = Runs({Result(x) : x \in dropIn.delegates[n] \cap {Coder}})
    BY <1>3 DEF ResultTools
  <2>2. t \in {Result(x) : x \in dropIn.delegates[n] \cap {Coder}}  BY <1>2, <1>3, <2>1
  <2> QED  BY <1>1, <2>1, <2>2 DEF Generated
<1>4. CASE t \in {r[1] : r \in CommunicationTools(n)}
  <2>1. Interactive  BY <1>4 DEF CommunicationTools
  <2>2. CASE n # Orchestrator
    <3>1. t \in DelegateTools
      <4>1. CommunicationTools(n) = Runs(DelegateTools)  BY <2>1, <2>2 DEF CommunicationTools
      <4> QED  BY <1>2, <1>4, <4>1
    <3> QED  BY <2>1, <3>1 DEF Generated
  <2>3. CASE n = Orchestrator
    <3>1. t \in PiTools \cup {Result(x) : x \in dropIn.delegates[n]}
      <4>1. CommunicationTools(n) = Runs(PiTools \cup {Result(x) : x \in dropIn.delegates[n]})
        BY <2>1, <2>3 DEF CommunicationTools
      <4> QED  BY <1>2, <1>4, <4>1
    <3>2. CASE t \in PiTools  BY <2>1, <3>2 DEF Generated
    <3>3. CASE t \in {Result(x) : x \in dropIn.delegates[n]}
      <4>1. PICK x \in dropIn.delegates[n] : t = Result(x)  BY <3>3
      <4>2. x # Orchestrator  BY <2>3, NoneCallsItself
      <4>3. x \in SdkAgents \ {Orchestrator} \/ x \in Delegated \cap {Coder}  BY <1>1, <4>2 DEF Everyone
      <4> QED  BY <2>1, <4>1, <4>3 DEF Generated
    <3> QED  BY <3>1, <3>2, <3>3
  <2> QED  BY <2>1, <2>2, <2>3
<1> QED  BY <1>3, <1>4 DEF GeneratedFor

LEMMA ToldHolds == ASSUME AcceptedInv PROVE ToldIsTrue
<1> USE DEF AcceptedInv
<1> SUFFICES ASSUME Entered PROVE ToldIsTrue!2  BY DEF ToldIsTrue
<1>1. point \in Ongoing  BY DEF Entered, RunTyped, Loading
<1>2. Delegated \subseteq Everyone /\ Done = SdkAgents  BY <1>1 DEF GraphInv, GraphTyped, Ordered, Ongoing
<1>3. /\ told = [n \in SdkAgents |-> Told(n)] /\ tools = [n \in SdkAgents |-> ToolsOf(n)]
      /\ Escalates => dropIn.steering # Void
      /\ ~NestedDelegates /\ ~NamesAreTaken(Used \cup SdkAgents \cup {Coder}) /\ ~OffersTaken /\ ~SteeringLacksTools
  BY <1>1 DEF Assembled, Built, Offered
<1>4. ASSUME NEW n \in SdkAgents PROVE told[n] \subseteq tools[n]  BY <1>3, ToldIsBuilt
<1>5. ASSUME NEW n \in SdkAgents, NEW t \in GeneratedFor(n)
      PROVE  t \notin dropIn.tools[n] \cup dropIn.delegates[n] \cup UNION {dropIn.offered[s] : s \in dropIn.servers[n]}
  <2>1. t \in Generated /\ (Interactive \/ Background)  BY <1>2, GeneratedIsKnown
  <2>2. t \notin Used \cup SdkAgents \cup {Coder}  BY <1>3, <2>1 DEF NamesAreTaken
  <2>3. dropIn.tools[n] \subseteq Used  BY DEF Used
  <2>4. dropIn.delegates[n] \subseteq SdkAgents \cup {Coder}  BY <1>2 DEF Delegated, Everyone
  <2>5. ASSUME NEW s \in dropIn.servers[n] PROVE t \notin dropIn.offered[s]
    <3>1. s \in Servers  BY DEF Servers
    <3> QED  BY <1>3, <2>1, <3>1 DEF OffersTaken, NamesAreTaken
  <2> QED  BY <2>2, <2>3, <2>4, <2>5
<1>6. ASSUME Escalates
      PROVE  dropIn.steering # Void /\ <<"conversations_add_message">> \in dropIn.offered[dropIn.steering]
  BY <1>3, <1>6 DEF SteeringLacksTools
<1> QED  BY <1>4, <1>5, <1>6

LEMMA ReviewsHold == ASSUME AcceptedInv PROVE ReviewsAreBlind
<1> USE DEF AcceptedInv
<1> SUFFICES ASSUME point = "judging", dropIn.blind PROVE ReviewsAreBlind!2  BY DEF ReviewsAreBlind
<1>1. ASSUME NEW f \in Submission, NEW q \in seen, q[1] = f PROVE q[2] \in {snapshot[f]} \ {0}
  BY <1>1 DEF Snapshots
<1>2. ReviewIsAllowed  BY DEF Assembled, Ongoing
<1> QED  BY <1>1, <1>2 DEF ReviewIsAllowed

\* config.py, drop_in.py, scaffold.py, gates.py: of a drop-in that is accepted, delegation is
\* bounded and its agents can be built, what is found later is only missing from files, agents
\* are told of the tools they have, and a blind review reads one version of what it reviews.
THEOREM AcceptedRunsHolds == ASSUME AssemblyAssumption PROVE AssemblySpec => []AcceptedRuns
<1>1. AssemblyInit => AcceptedInv  BY InitIsAccepted
<1>2. AcceptedInv /\ [AssemblyNext]_assemblyVars => AcceptedInv'  BY NextIsAccepted
<1>3. AcceptedInv => AcceptedRuns  BY DropInsHold, ToldHolds, ReviewsHold DEF AcceptedRuns
<1> QED  BY <1>1, <1>2, <1>3, PTL DEF AssemblySpec
=============================================================================
