--------------------------- MODULE WorkloadNotices ---------------------------
(***************************************************************************)
(* What Slack is told of the monitored instances (fleet.py, with sync,     *)
(* fleet, notice and acknowledge of store.py): a pass takes the inventory, *)
(* assesses what runs, reads the fleet and tells of workloads that began   *)
(* or ended and of new status reports; a message is acknowledged in the    *)
(* database after Slack took it.  EC2, Slack and the assessments are       *)
(* external, windows are numbered.                                         *)
(***************************************************************************)
EXTENDS Naturals, Sequences, FiniteSets

CONSTANTS
  Workloads,
  MaxWindow, MaxMoves, MaxLosses   \* bounds: windows, changes of instances, lost answers and deaths

VARIABLES
  instance,  \* EC2's state of each: absent, pending, running, stopped
  clock,     \* the window that goes on
  row,       \* workloads.state, "none" without a row
  tried,     \* assessments of each workload that were published, of either kind
  latest,    \* window of the last completed status report
  notice,    \* notices enrollment/<key>: none, begun, closed
  cursor,    \* notices status/<key>: the last window told
  slack,     \* messages that were shown of each workload
  place,     \* of the pass: idle, assess, tell
  fleet,     \* what the pass read of each workload
  waiting,   \* workloads it has to look at
  sent,      \* a message that Slack took and that is not acknowledged
  moves, losses

noticeVars == <<instance, clock, row, tried, latest, notice, cursor, slack, place, fleet, waiting, sent, moves, losses>>

Reports == {"status", "incident"}
Nothing == <<>>
NoRow == [state |-> "none", tried |-> {}, latest |-> 0]

NoticeInit ==
  /\ instance = [w \in Workloads |-> "absent"] /\ clock = 1
  /\ row = [w \in Workloads |-> "none"] /\ tried = [w \in Workloads |-> {}]
  /\ latest = [w \in Workloads |-> 0] /\ notice = [w \in Workloads |-> "none"]
  /\ cursor = [w \in Workloads |-> 0] /\ slack = [w \in Workloads |-> <<>>]
  /\ place = "idle" /\ fleet = [w \in Workloads |-> NoRow] /\ waiting = {} /\ sent = Nothing
  /\ moves = 0 /\ losses = 0

WindowEnds ==
  /\ clock < MaxWindow /\ clock' = clock + 1
  /\ UNCHANGED <<instance, row, tried, latest, notice, cursor, slack, place, fleet, waiting, sent, moves, losses>>

MoveInstance(w) ==
  /\ moves < MaxMoves /\ moves' = moves + 1
  /\ \E s \in {"absent", "pending", "running", "stopped"} \ {instance[w]} : instance' = [instance EXCEPT ![w] = s]
  /\ UNCHANGED <<clock, row, tried, latest, notice, cursor, slack, place, fleet, waiting, sent, losses>>

----------------------------------------------------------------------------
(* A pass: sync, the assessments, the fleet *)

\* An instance that is gone keeps its row.
Synced(w) ==
  IF instance[w] # "absent" THEN instance[w]
  ELSE IF row[w] = "none" THEN "none" ELSE "no longer enrolled"

Sync ==
  /\ place = "idle" /\ place' = "assess" /\ row' = [w \in Workloads |-> Synced(w)]
  /\ waiting' = {w \in Workloads : instance[w] = "running"}
  /\ UNCHANGED <<instance, clock, tried, latest, notice, cursor, slack, fleet, sent, moves, losses>>

\* Either kind of assessment may fail, and its publication too.
Assess(w) ==
  /\ place = "assess" /\ w \in waiting /\ waiting' = waiting \ {w}
  /\ \E kinds \in SUBSET Reports : \E completed \in BOOLEAN :
       /\ tried' = [tried EXCEPT ![w] = @ \cup kinds]
       /\ latest' = [latest EXCEPT ![w] = IF completed /\ "status" \in kinds THEN clock ELSE @]
  /\ UNCHANGED <<instance, clock, row, notice, cursor, slack, place, fleet, sent, moves, losses>>

ReadFleet ==
  /\ place = "assess" /\ waiting = {} /\ place' = "tell"
  /\ fleet' = [w \in Workloads |-> [state |-> row[w], tried |-> tried[w], latest |-> latest[w]]]
  /\ waiting' = {w \in Workloads : row[w] # "none"}
  /\ UNCHANGED <<instance, clock, row, tried, latest, notice, cursor, slack, sent, moves, losses>>

----------------------------------------------------------------------------
(* notify_workload *)

\* Fault: an enrollment is not told again after the workload had ended.
Fault_Begins(w) == fleet[w].state = "running" /\ fleet[w].tried = Reports /\ notice[w] = "none"

\* Once both kinds of assessment were tried.
Begins(w) == fleet[w].state = "running" /\ fleet[w].tried = Reports /\ notice[w] \in {"none", "closed"}

\* Fault: the end of what was never told is told.
Fault_Ends(w) == fleet[w].state \in {"stopped", "no longer enrolled"} /\ notice[w] # "closed"

Ends(w) == fleet[w].state \in {"stopped", "no longer enrolled"} /\ notice[w] = "begun"

Updates(w) == fleet[w].state = "running" /\ fleet[w].latest > cursor[w]

Message(w) ==
  CASE Ends(w) -> <<w, "ended", 0>>
    [] Begins(w) -> <<w, "begun", 0>>
    [] ~Ends(w) /\ ~Begins(w) /\ Updates(w) -> <<w, "status", fleet[w].latest>>
    [] OTHER -> Nothing

Show(m) == slack' = [slack EXCEPT ![m[1]] = Append(@, <<m[2], m[3]>>)]

Pass ==
  \E w \in waiting :
    /\ place = "tell" /\ sent = Nothing /\ Message(w) = Nothing /\ waiting' = waiting \ {w}
    /\ UNCHANGED <<instance, clock, row, tried, latest, notice, cursor, slack, place, fleet, sent, moves, losses>>

Send(w) ==
  /\ place = "tell" /\ sent = Nothing /\ w \in waiting /\ Message(w) # Nothing
  /\ sent' = Message(w) /\ Show(Message(w))
  /\ UNCHANGED <<instance, clock, row, tried, latest, notice, cursor, place, fleet, waiting, moves, losses>>

\* Slack refuses the message, or takes it and its answer is lost; the workload is
\* left to the next pass.
SendFails(w) ==
  /\ place = "tell" /\ sent = Nothing /\ w \in waiting /\ Message(w) # Nothing /\ losses < MaxLosses
  /\ losses' = losses + 1 /\ waiting' = waiting \ {w}
  /\ Show(Message(w)) \/ UNCHANGED slack
  /\ UNCHANGED <<instance, clock, row, tried, latest, notice, cursor, place, fleet, sent, moves>>

Acknowledge ==
  /\ sent # Nothing /\ sent' = Nothing
  /\ LET w == sent[1]
     IN  /\ notice' = [notice EXCEPT ![w] = CASE sent[2] = "begun" -> "begun" [] sent[2] = "ended" -> "closed" [] OTHER -> @]
         /\ cursor' = [cursor EXCEPT ![w] = IF sent[2] = "status" THEN sent[3] ELSE @]
  /\ UNCHANGED <<instance, clock, row, tried, latest, slack, place, fleet, waiting, moves, losses>>

EndTelling ==
  /\ place = "tell" /\ waiting = {} /\ sent = Nothing /\ place' = "idle"
  /\ fleet' = [w \in Workloads |-> NoRow]
  /\ UNCHANGED <<instance, clock, row, tried, latest, notice, cursor, slack, waiting, sent, moves, losses>>

\* The worker dies, or the pass fails as a whole.
WorkerDies ==
  /\ place # "idle" /\ losses < MaxLosses /\ losses' = losses + 1
  /\ place' = "idle" /\ fleet' = [w \in Workloads |-> NoRow] /\ waiting' = {} /\ sent' = Nothing
  /\ UNCHANGED <<instance, clock, row, tried, latest, notice, cursor, slack, moves>>

Worker ==
  \/ Sync \/ ReadFleet \/ Pass \/ Acknowledge \/ EndTelling
  \/ \E w \in Workloads : Assess(w) \/ Send(w)

NoticeNext == WindowEnds \/ Worker \/ WorkerDies \/ \E w \in Workloads : MoveInstance(w) \/ SendFails(w)

\* The worker starts a pass every minute.
NoticeSpec == NoticeInit /\ [][NoticeNext]_noticeVars /\ WF_noticeVars(Worker)

----------------------------------------------------------------------------
(* Properties *)

\* The messages of that kind in a story, and the last of those kinds before the i-th;
\* 0 without one.
Told(story, kind) == {i \in DOMAIN story : story[i][1] = kind}
Before(story, kinds, i) ==
  LET past == {j \in 1..(i - 1) : story[j][1] \in kinds}
  IN  IF past = {} THEN 0 ELSE CHOOSE j \in past : \A k \in past : k <= j

\* Reports are acknowledged apart from the beginning and the end.
Enrollments == {"begun", "ended"}
Alike(kind) == IF kind = "status" THEN {"status"} ELSE Enrollments

Repeats(story) ==
  {i \in DOMAIN story :
     LET j == Before(story, Alike(story[i][1]), i) IN j # 0 /\ story[j] = story[i]}

\* Whatever fails between Slack and the database, the messages of a workload tell a
\* story: it begins, ends only after it began, begins again only after it ended,
\* and its reports are told in the order of their windows; a message is told twice
\* only if its acknowledgement failed.
NoticesTellAStory ==
  \A w \in Workloads :
    LET story == slack[w]
    IN  /\ \A i \in Told(story, "ended") : Before(story, {"begun"}, i) # 0
        /\ \A i, j \in Told(story, "status") : i < j => story[i][2] <= story[j][2]
        /\ Cardinality(Repeats(story)) <= losses

\* What an instance comes to be is told at last: that a workload began that both
\* assessments were tried for, and that one ended whose beginning was told.
ChangesAreTold ==
  \A w \in Workloads :
    /\ [](instance[w] = "running" /\ tried[w] = Reports) ~> notice[w] = "begun"
    /\ [](instance[w] \in {"stopped", "absent"}) ~> notice[w] # "begun"
=============================================================================
