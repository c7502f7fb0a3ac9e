--------------------------- MODULE IncidentStore ---------------------------
(***************************************************************************)
(* The incidents of one workload (src/monitoring/service/store.py): the    *)
(* worker ingests reviews and announces new incidents in Slack             *)
(* (fleet.notify_incidents); operators close and reopen incidents on the   *)
(* website (web.py), one or many at a time, by the versions they were shown.*)
(*                                                                         *)
(* PostgreSQL is external: a transaction locks the rows it touches as it   *)
(* goes, waits for rows that another one has locked, and commits at once;  *)
(* of transactions that wait for each other one is aborted.  What a        *)
(* transaction writes depends on the rows it has locked, which nobody      *)
(* else changes: it is computed when it commits.                           *)
(***************************************************************************)
EXTENDS Naturals, Sequences, FiniteSets

CONSTANTS
  Findings,   \* detector and anchor: the identity of an incident
  Windows,    \* ends of the collection windows, numbers
  Operators,  \* requests of operators that may be open together
  MaxEvents,  \* bound: operator decisions on an incident
  MaxLost     \* bound: messages Slack took while the worker did not hear of it

Worker == "worker"
Txns == Operators \cup {Worker}
None == "none"

ASSUME StoreAssumption ==
  /\ Windows \subseteq Nat \ {0} /\ IsFiniteSet(Windows)
  /\ {MaxEvents, MaxLost} \subseteq Nat
  /\ Worker \notin Operators /\ None \notin Operators \cup Findings

VARIABLES
  report,        \* the findings of each window's review
  created,       \* the incidents in order of id
  incident,      \* the rows of incidents
  observations,  \* the windows in which an incident was observed
  events,        \* incident_events
  ingested,      \* windows whose review is marked ingested
  notified,      \* slack_incident_cursor, as a position in created
  rowLock,       \* holder of each row's lock
  stage,         \* where each transaction is
  ingesting,     \* the worker's window, the findings it has applied, those it inserted in order
  want,          \* the row a transaction is to lock next
  request,       \* an operator's selection and decision
  notice,        \* the message the worker has sent and not acknowledged
  announced,     \* messages each incident was counted in
  lost           \* messages Slack took unheard of

data == <<report, created, incident, observations, events, ingested, notified>>
notices == <<notice, announced, lost>>
vars == <<data, rowLock, stage, ingesting, want, request, notices>>

Idle == [window |-> 0, done |-> {}, new |-> <<>>]
NoRow == [status |-> None, version |-> 0, first |-> 0, last |-> 0, detail |-> 0]
NoRequest == [selection |-> {}, status |-> None]

Init ==
  /\ report \in [Windows -> SUBSET Findings]
  /\ created = <<>> /\ ingested = {} /\ notified = 0
  /\ incident = [f \in Findings |-> NoRow]
  /\ observations = [f \in Findings |-> {}] /\ events = [f \in Findings |-> <<>>]
  /\ rowLock = [f \in Findings |-> None] /\ stage = [t \in Txns |-> "idle"]
  /\ ingesting = Idle /\ want = [t \in Txns |-> None]
  /\ request = [o \in Operators |-> NoRequest]
  /\ notice = 0 /\ announced = [f \in Findings |-> 0] /\ lost = 0

InSeq(s) == {s[i] : i \in 1..Len(s)}
Existing == InSeq(created)

Lock(t) ==
  /\ stage[t] = "locking" /\ rowLock[want[t]] = None
  /\ rowLock' = [rowLock EXCEPT ![want[t]] = t]

Release(t) == rowLock' = [f \in Findings |-> IF rowLock[f] = t THEN None ELSE rowLock[f]]

----------------------------------------------------------------------------
(* Store.ingest *)

\* A review that was published: in any order, and more than once on a retry.
BeginIngest(w) ==
  /\ stage[Worker] = "idle"
  /\ stage' = [stage EXCEPT ![Worker] = "applying"]
  /\ ingesting' = [Idle EXCEPT !.window = w]
  /\ UNCHANGED <<data, rowLock, want, request, notices>>

NextFinding(f) ==
  /\ stage[Worker] = "applying" /\ f \in report[ingesting.window] \ ingesting.done
  /\ stage' = [stage EXCEPT ![Worker] = "locking"]
  /\ want' = [want EXCEPT ![Worker] = f]
  /\ UNCHANGED <<data, rowLock, ingesting, request, notices>>

\* The upsert locks the row of an incident, or inserts one nobody else can see.
ApplyFinding ==
  /\ Lock(Worker)
  /\ ingesting' = [ingesting EXCEPT !.done = @ \cup {want[Worker]},
                        !.new = IF want[Worker] \in Existing THEN @ ELSE Append(@, want[Worker])]
  /\ stage' = [stage EXCEPT ![Worker] = "applying"]
  /\ want' = [want EXCEPT ![Worker] = None]
  /\ UNCHANGED <<data, request, notices>>

\* Fault: the detail is replaced by whichever review is ingested last.
Fault_Observed(row, w) ==
  [row EXCEPT !.first = IF @ > w THEN w ELSE @, !.last = IF @ < w THEN w ELSE @,
              !.detail = w, !.version = @ + 1]

\* A new observation: the row keeps the earliest and the latest window, and the
\* detail of the latest.
Observed(row, w) ==
  [row EXCEPT !.first = IF @ > w THEN w ELSE @, !.last = IF @ < w THEN w ELSE @,
              !.detail = IF row.last <= w THEN w ELSE @, !.version = @ + 1]

\* Fault: an observation is no change an operator has to know of.
Fault_Ingested(f, w) ==
  IF w \in observations[f] THEN incident[f]
  ELSE IF f \in Existing THEN [Observed(incident[f], w) EXCEPT !.version = incident[f].version]
  ELSE Observed([status |-> "open", version |-> 1, first |-> w, last |-> w, detail |-> w], w)

\* What ingesting window w makes of the row of f.
Ingested(f, w) ==
  IF w \in observations[f] THEN incident[f]
  ELSE IF f \in Existing THEN Observed(incident[f], w)
  ELSE Observed([status |-> "open", version |-> 1, first |-> w, last |-> w, detail |-> w], w)

CommitIngest ==
  LET w == ingesting.window
      found == ingesting.done
  IN  /\ stage[Worker] = "applying" /\ found = report[w]
      /\ incident' = [f \in Findings |-> IF f \in found THEN Ingested(f, w) ELSE incident[f]]
      /\ observations' = [f \in Findings |-> IF f \in found THEN observations[f] \cup {w} ELSE observations[f]]
      /\ created' = created \o ingesting.new
      /\ ingested' = ingested \cup {w}
      /\ Release(Worker)
      /\ stage' = [stage EXCEPT ![Worker] = "idle"] /\ ingesting' = Idle
      /\ UNCHANGED <<report, events, notified, want, request, notices>>

----------------------------------------------------------------------------
(* Store.transition and transition_many *)

\* An operator is shown incidents and decides on some of them.
Decide(o, chosen, s) ==
  /\ stage[o] = "idle" /\ chosen # {} /\ chosen \subseteq Existing
  /\ \A f \in chosen : Len(events[f]) < MaxEvents
  /\ request' = [request EXCEPT ![o] =
       [selection |-> {[finding |-> f, version |-> incident[f].version,
                        saw |-> <<observations[f], Len(events[f])>>] : f \in chosen}, status |-> s]]
  /\ stage' = [stage EXCEPT ![o] = "submitted"]
  /\ UNCHANGED <<data, rowLock, ingesting, want, notices>>

Selected(o) == {c.finding : c \in request[o].selection}

Unlocked(o) == {f \in Selected(o) : rowLock[f] # o}

\* Fault: rows are locked in the order of the selection.
Fault_LockNext(o) ==
  /\ stage[o] = "submitted"
  /\ \E f \in Unlocked(o) : want' = [want EXCEPT ![o] = f]
  /\ stage' = [stage EXCEPT ![o] = "locking"]
  /\ UNCHANGED <<data, rowLock, ingesting, request, notices>>

\* SELECT ... ORDER BY id FOR UPDATE locks the rows one after the other.
LockNext(o) ==
  /\ stage[o] = "submitted"
  /\ \E i \in 1..Len(created) :
       /\ created[i] \in Unlocked(o) /\ \A j \in 1..i - 1 : created[j] \notin Unlocked(o)
       /\ want' = [want EXCEPT ![o] = created[i]]
  /\ stage' = [stage EXCEPT ![o] = "locking"]
  /\ UNCHANGED <<data, rowLock, ingesting, request, notices>>

LockRow(o) ==
  /\ Lock(o)
  /\ stage' = [stage EXCEPT ![o] = "submitted"]
  /\ want' = [want EXCEPT ![o] = None]
  /\ UNCHANGED <<data, ingesting, request, notices>>

\* The locked rows have the versions the operator was shown.
Current(o) == \A c \in request[o].selection : incident[c.finding].version = c.version

\* The rows that do not have the requested status yet.
Changed(o) == {f \in Selected(o) : incident[f].status # request[o].status}

Respond(o) ==
  /\ Release(o)
  /\ stage' = [stage EXCEPT ![o] = "idle"]
  /\ want' = [want EXCEPT ![o] = None]
  /\ request' = [request EXCEPT ![o] = NoRequest]
  /\ UNCHANGED <<report, created, observations, ingested, notified, ingesting, notices>>

Transition(o) ==
  /\ stage[o] = "submitted" /\ Unlocked(o) = {} /\ Current(o)
  /\ incident' = [f \in Findings |->
       IF f \in Changed(o) THEN [incident[f] EXCEPT !.status = request[o].status, !.version = @ + 1]
       ELSE incident[f]]
  /\ events' = [f \in Findings |->
       IF f \in Changed(o)
       THEN Append(events[f], [version |-> incident[f].version + 1,
                               from |-> incident[f].status, to |-> request[o].status])
       ELSE events[f]]
  /\ Respond(o)

Conflict(o) ==
  /\ stage[o] = "submitted" /\ Unlocked(o) = {} /\ ~Current(o)
  /\ Respond(o)
  /\ UNCHANGED <<incident, events>>

----------------------------------------------------------------------------
(* fleet.notify_incidents: the new incidents are counted, a message is sent,  *)
(* and the cursor advances after Slack accepts it.                            *)

Counted(i) == i > notified

SendNotice ==
  /\ stage[Worker] = "idle" /\ notified < Len(created)
  /\ announced' = [f \in Findings |->
       announced[f] + Cardinality({i \in 1..Len(created) : Counted(i) /\ created[i] = f})]
  /\ notice' = Len(created)
  /\ stage' = [stage EXCEPT ![Worker] = "announced"]
  /\ UNCHANGED <<data, rowLock, ingesting, want, request, lost>>

Acknowledge ==
  /\ stage[Worker] = "announced"
  /\ notified' = IF notified < notice THEN notice ELSE notified
  /\ notice' = 0 /\ stage' = [stage EXCEPT ![Worker] = "idle"]
  /\ UNCHANGED <<report, created, incident, observations, events, ingested, rowLock, ingesting, want,
                 request, announced, lost>>

\* The answer is lost, the acknowledgement fails, or the worker dies.
LoseNotice ==
  /\ stage[Worker] = "announced" /\ lost < MaxLost /\ lost' = lost + 1
  /\ notice' = 0 /\ stage' = [stage EXCEPT ![Worker] = "idle"]
  /\ UNCHANGED <<data, rowLock, ingesting, want, request, announced>>

----------------------------------------------------------------------------
(* Aborts: a client or the database fails, or breaks a deadlock.            *)

Abort(t) ==
  /\ stage[t] \in {"applying", "locking", "submitted"}
  /\ Release(t)
  /\ stage' = [stage EXCEPT ![t] = "idle"] /\ want' = [want EXCEPT ![t] = None]
  /\ ingesting' = IF t = Worker THEN Idle ELSE ingesting
  /\ request' = [o \in Operators |-> IF o = t THEN NoRequest ELSE request[o]]
  /\ UNCHANGED <<data, notices>>

----------------------------------------------------------------------------

Ingesting ==
  ApplyFinding \/ CommitIngest \/ \E f \in Findings : NextFinding(f)

Request(o) == LockNext(o) \/ LockRow(o) \/ Transition(o) \/ Conflict(o)

Next ==
  \/ Ingesting \/ SendNotice \/ Acknowledge \/ LoseNotice
  \/ \E w \in Windows : BeginIngest(w)
  \/ \E o \in Operators : Request(o)
  \/ \E o \in Operators, chosen \in SUBSET Findings, s \in {"open", "closed"} : Decide(o, chosen, s)
  \/ \E t \in Txns : Abort(t)

Spec == Init /\ [][Next]_vars

----------------------------------------------------------------------------
(* Properties *)

\* Every variable keeps its type, and locks are held by open transactions only.
TypeOK ==
  /\ report \in [Windows -> SUBSET Findings]
  /\ created \in Seq(Findings) /\ \A i, j \in 1..Len(created) : created[i] = created[j] => i = j
  /\ incident \in [Findings -> [status : {None, "open", "closed"}, version : Nat,
                                first : Windows \cup {0}, last : Windows \cup {0}, detail : Windows \cup {0}]]
  /\ observations \in [Findings -> SUBSET Windows]
  /\ \A f \in Findings : events[f] \in Seq([version : Nat, from : {"open", "closed"}, to : {"open", "closed"}])
  /\ ingested \subseteq Windows /\ notified \in 0..Len(created)
  /\ rowLock \in [Findings -> Txns \cup {None}]
  /\ \A f \in Findings : rowLock[f] # None => stage[rowLock[f]] \in {"applying", "submitted", "locking"}
  /\ stage \in [Txns -> {"idle", "applying", "submitted", "locking", "announced"}]
  /\ \A t \in Txns : (stage[t] = "locking") = (want[t] # None)
  /\ notice \in 0..Len(created) /\ announced \in [Findings -> Nat] /\ lost \in 0..MaxLost

\* In whatever order reviews are ingested, retried and aborted, an incident is
\* observed in the ingested windows that found it, and its row shows the first of
\* them, the last, and the detail of the last.
RowTellsObservations ==
  \A f \in Findings :
    /\ observations[f] = {w \in ingested : f \in report[w]}
    /\ (f \in Existing) = (observations[f] # {})
    /\ f \in Existing =>
         /\ {incident[f].first, incident[f].last} \subseteq observations[f]
         /\ \A w \in observations[f] : incident[f].first <= w /\ w <= incident[f].last
         /\ incident[f].detail = incident[f].last

\* The recorded decisions of operators explain the status: each one turned it,
\* from where the one before had left it, and no two share a version.
EventsTellStatus ==
  \A f \in Existing :
    LET turns == events[f]
        before(i) == IF i = 1 THEN "open" ELSE turns[i - 1].to
    IN  /\ \A i \in 1..Len(turns) : turns[i].from = before(i) /\ turns[i].to # turns[i].from
        /\ \A i, j \in 1..Len(turns) : i < j => turns[i].version < turns[j].version
        /\ incident[f].status = before(Len(turns) + 1)

\* An operator never closes or reopens an incident over an observation or another
\* operator's decision that he was not shown, and a selection is changed as a whole.
DecisionsAreInformed ==
  [][\A f \in Existing :
       incident'[f].status # incident[f].status =>
         \E o \in Operators :
           /\ f \in Selected(o)
           /\ \A c \in request[o].selection :
                /\ c.saw = <<observations[c.finding], Len(events[c.finding])>>
                /\ incident'[c.finding].status = request[o].status]_vars

\* Every incident the cursor has passed was announced, and none twice except when
\* Slack took a message without the worker's knowing.
AnnouncedOnce ==
  \A i \in 1..Len(created) :
    /\ i <= notified => announced[created[i]] >= 1
    /\ announced[created[i]] <= 1 + lost

\* The holder of the lock t waits for.
Blocker(t) == IF stage[t] = "locking" THEN rowLock[want[t]] ELSE None

\* Requests for any number of incidents never wait for each other in a circle:
\* only the worker, which takes rows in the order of a review's findings, can
\* be in a deadlock that the database has to break.
OperatorsDoNotDeadlock ==
  \A circle \in (SUBSET Operators) \ {{}} : \E o \in circle : Blocker(o) \notin circle

\* store.py: an incident's row, events and announcements tell what was found and decided.
IncidentsAreTrue == TypeOK /\ RowTellsObservations /\ EventsTellStatus /\ AnnouncedOnce
=============================================================================
