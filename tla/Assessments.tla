----------------------------- MODULE Assessments -----------------------------
(***************************************************************************)
(* What the models that assess a workload are shown and what they cost     *)
(* (collection.py, status_review.py, select_reviewer of review.py, Budget  *)
(* of store.py): bounded views of the evidence of a window, a reviewer of  *)
(* another family than any model observed, a reservation before each call. *)
(* Sizes are small numbers; the models and their prices are external.      *)
(* A loop over sources that keeps what fits is given by what it has kept.  *)
(***************************************************************************)
EXTENDS Naturals, FiniteSets

CONSTANTS
  Collections, \* what a window may hold: [files, telemetry], sets of sources
  Reviewers,   \* families of the configured reviewers, in their order
  Sweeper,     \* family of the model of the status report
  MaxFiles, FileRoom, ViewRoom, ChunkRoom, MaxChunks, SummaryRoom,   \* the code's bounds
  Limit,       \* the budget, in calls
  MaxAssessed  \* bound: windows

\* A source has a size, perhaps a model, and a place: the files of the archive by age,
\* the newest first, then the observations in their order.
ASSUME ViewAssumption ==
  /\ {MaxFiles, Limit} \subseteq Nat /\ MaxChunks \in Nat \ {0} /\ DOMAIN Reviewers \subseteq Nat
  /\ \A w \in Collections :
       /\ IsFiniteSet(w.files) /\ IsFiniteSet(w.telemetry)
       /\ \A s \in w.files \cup w.telemetry :
            /\ s.place \in Nat /\ s.size \in Nat \ {0} /\ s.whole
            /\ \A t \in w.files \cup w.telemetry : s.place = t.place => s = t

VARIABLES
  assessed, input,   \* the windows so far; what the one at hand holds
  sources, view,     \* what was collected of it; what the view has in full
  starts,            \* where each chunk of the view begins
  known,             \* families that the last completed status report recorded
  doing,             \* idle, status, sweep, summary, incident, review
  chunk, swept,      \* the chunk to sweep; what the sweeps were shown
  cited,             \* sources the sweep notes cite
  gaps,              \* whether the reports of the window tell of omissions
  given,             \* sources whose originals the summary was given
  reviewer,          \* family of each reviewer that was chosen in this window
  reserved,          \* budgets: reserved calls
  calling, called    \* a call that was reserved; calls the provider was asked for

evidenceVars == <<input, sources, view>>
sweepVars == <<starts, chunk, swept, cited, given>>
budgetVars == <<reserved, calling, called>>
assessVars == <<assessed, evidenceVars, sweepVars, known, doing, gaps, reviewer, budgetVars>>

Scopes == {"status", "incident"}
NoModel == "nobody"
NoWindow == [files |-> {}, telemetry |-> {}]
None == [k \in Scopes |-> 0]

AssessInit ==
  /\ assessed = 0 /\ input = NoWindow /\ sources = {} /\ view = {} /\ starts = {} /\ known = {}
  /\ doing = "idle" /\ chunk = 1 /\ swept = {} /\ cited = {} /\ gaps = FALSE /\ given = {}
  /\ reviewer = [k \in Scopes |-> NoModel] /\ reserved = None /\ calling = NoModel /\ called = None

----------------------------------------------------------------------------
(* workspace_view, Collector.collect *)

Length(set) == Cardinality(UNION {{s} \X (1..s.size) : s \in set})
Earlier(set, s) == {t \in set : t.place < s.place}

\* What a loop keeps that takes a source if it fits with those it has taken.
Fitting(kept, set, room) ==
  kept \subseteq set /\ \A s \in set : s \in kept <=> Length(Earlier(kept, s)) + s.size <= room

\* The newest files of the archive, whatever their order in it.
Newest(files) == {f \in files : Cardinality(Earlier(files, f)) < MaxFiles}

\* Whether files were left out. Fault: those beyond the newest are not reckoned with.
Fault_WorkspaceGap == ~(Newest(input.files) \subseteq sources)

WorkspaceGap == Cardinality(input.files) > MaxFiles \/ ~(Newest(input.files) \subseteq sources)

\* A source that does not fit is replaced by the name of its model, at the model's first.
StandIn(s) == [place |-> s.place, size |-> 1, model |-> s.model, whole |-> FALSE]
StandIns(kept, set) ==
  {StandIn(s) : s \in {t \in set \ kept : t.model # NoModel /\ \A u \in Earlier(set, t) : u.model # t.model}}

Viewing(kept, set) ==
  /\ kept \subseteq set
  /\ \A s \in set :
       s \in kept <=> Length(Earlier(kept \cup StandIns(kept, set), s)) + s.size <= ViewRoom

Evidence == view \cup StandIns(view, sources)
ViewGap == view # sources

Families(set) == {s.model : s \in set} \ {NoModel}

CollectWindow(w) ==
  /\ doing = "idle" /\ assessed < MaxAssessed /\ assessed' = assessed + 1
  /\ input' = w
  /\ \E files \in SUBSET Newest(w.files) : Fitting(files, Newest(w.files), FileRoom) /\ sources' = files \cup w.telemetry
  /\ view' \in SUBSET sources' /\ Viewing(view', sources')
  /\ starts' = {} /\ chunk' = 1 /\ swept' = {} /\ cited' = {} /\ given' = {}
  /\ doing' = "status" /\ gaps' = FALSE /\ reviewer' = [k \in Scopes |-> NoModel]
  /\ UNCHANGED <<known, budgetVars>>

----------------------------------------------------------------------------
(* chunks *)

\* Large records are split into fragments.
Split(s) == s.size > ChunkRoom
Pieces == UNION {{s} \X (1..(IF Split(s) THEN s.size ELSE 1)) : s \in Evidence}
Room(set) == Cardinality(UNION {{p} \X (1..(IF Split(p[1]) THEN 1 ELSE p[1].size)) : p \in set})
Precedes(p, q) == p[1].place < q[1].place \/ (p[1].place = q[1].place /\ p[2] < q[2])

\* What the chunk has that a piece would be added to.
Current(begins, p) == {q \in Pieces : Precedes(q, p) /\ \A r \in begins : Precedes(r, p) => ~Precedes(q, r)}

Packing(begins) ==
  /\ begins \subseteq Pieces
  /\ \A p \in Pieces : p \in begins <=> Current(begins, p) = {} \/ Room(Current(begins, p) \cup {p}) > ChunkRoom

ChunkOf(p) == Cardinality({r \in starts : ~Precedes(p, r)})
Chunk(n) == {p \in Pieces : ChunkOf(p) = n}
Chunks == IF Cardinality(starts) < MaxChunks THEN Cardinality(starts) ELSE MaxChunks

----------------------------------------------------------------------------
(* The status report, the incident review *)

\* Runtime.status: the models of this window and those of the last report.
Subject == known \cup Families(Evidence)

StartStatus ==
  /\ doing = "status" /\ Subject # {} /\ Sweeper \notin Subject
  /\ starts' \in SUBSET Pieces /\ Packing(starts')
  /\ doing' = "sweep" /\ chunk' = 1 /\ swept' = {} /\ cited' = {} /\ reviewer' = [reviewer EXCEPT !["status"] = Sweeper]
  /\ gaps' = (WorkspaceGap \/ ViewGap \/ Cardinality(starts') > MaxChunks)
  /\ UNCHANGED <<assessed, evidenceVars, known, given, budgetVars>>

NoStatus ==
  /\ doing = "status" /\ (Subject = {} \/ Sweeper \in Subject)
  /\ doing' = "incident"
  /\ UNCHANGED <<assessed, evidenceVars, sweepVars, known, gaps, reviewer, budgetVars>>

\* Budget.reserve, and an error once the budget is used up.
Phases(k) == IF k = "status" THEN {"sweep", "summary"} ELSE {"review"}
Onwards(k) == IF k = "status" THEN "incident" ELSE "idle"
Reserve(k) == reserved' = [reserved EXCEPT ![k] = @ + 1]

StartCall(k) ==
  /\ calling = NoModel /\ doing \in Phases(k) /\ reserved[k] < Limit
  /\ Reserve(k) /\ calling' = k
  /\ UNCHANGED <<assessed, evidenceVars, sweepVars, known, doing, gaps, reviewer, called>>

Exhausted(k) ==
  /\ calling = NoModel /\ doing \in Phases(k) /\ reserved[k] >= Limit
  /\ doing' = Onwards(k)
  /\ UNCHANGED <<assessed, evidenceVars, sweepVars, known, gaps, reviewer, budgetVars>>

Answered(k) ==
  calling = k /\ calling' = NoModel /\ called' = [called EXCEPT ![k] = @ + 1] /\ UNCHANGED <<assessed, evidenceVars, starts, reserved>>

\* The provider is asked and answers; a note cites some of what it was shown.  The box's
\* own state, left out here, is in the first chunk, so there always is one.
Swept ==
  /\ doing = "sweep" /\ Answered("status")
  /\ \E notes \in SUBSET {p[1] : p \in Chunk(chunk)} : cited' = cited \cup notes
  /\ swept' = swept \cup Chunk(chunk)
  /\ chunk' = chunk + 1 /\ doing' = IF chunk < Chunks THEN "sweep" ELSE "summary"
  /\ UNCHANGED <<known, gaps, given, reviewer>>

Summarized ==
  /\ doing = "summary" /\ Answered("status")
  /\ given' \in SUBSET cited /\ Fitting(given', cited, SummaryRoom)
  /\ gaps' = (gaps \/ cited # given')
  /\ known' = Subject /\ doing' = "incident"
  /\ UNCHANGED <<chunk, swept, cited, reviewer>>

\* select_reviewer: the first of another family, and an error when none is known.
Choose(subject) ==
  LET others == {i \in DOMAIN Reviewers : Reviewers[i] \notin subject}
  IN  IF subject = {} \/ others = {} THEN NoModel ELSE Reviewers[CHOOSE i \in others : \A j \in others : i <= j]

StartReview ==
  /\ doing = "incident"
  /\ reviewer' = [reviewer EXCEPT !["incident"] = Choose(Families(Evidence))]
  /\ doing' = IF reviewer'["incident"] = NoModel THEN "idle" ELSE "review"
  /\ UNCHANGED <<assessed, evidenceVars, sweepVars, known, gaps, budgetVars>>

Reviewed ==
  /\ doing = "review" /\ Answered("incident") /\ doing' = "idle"
  /\ UNCHANGED <<sweepVars, known, gaps, reviewer>>

\* The provider fails, or its answer is not valid: the assessment is over.
CallFails(k) ==
  /\ doing \in Phases(k) /\ Answered(k) /\ doing' = Onwards(k)
  /\ UNCHANGED <<sweepVars, known, gaps, reviewer>>

\* The worker dies; the assessments of the window start again.
Dies ==
  /\ doing \in {"sweep", "summary", "review"} /\ doing' = (IF doing = "review" THEN "incident" ELSE "status")
  /\ calling' = NoModel
  /\ UNCHANGED <<assessed, evidenceVars, sweepVars, known, gaps, reviewer, reserved, called>>

AssessNext ==
  \/ StartStatus \/ NoStatus \/ Swept \/ Summarized \/ StartReview \/ Reviewed \/ Dies
  \/ \E w \in Collections : CollectWindow(w)
  \/ \E k \in Scopes : StartCall(k) \/ Exhausted(k) \/ CallFails(k)

AssessSpec == AssessInit /\ [][AssessNext]_assessVars

----------------------------------------------------------------------------
(* Properties *)

Observed == Families(input.telemetry)

\* Whoever assesses a workload is of another family than any model observed in the
\* window, also than those whose records did not fit the view.
ReviewersAreIndependent == \A k \in Scopes : reviewer[k] \notin Observed

\* A completed status report says so when anything of the window was left out on the
\* way to its models, by any of the bounds: else the sweeps were shown all of it, each
\* fragment, and the summary every original that was cited.
OmissionsAreTold ==
  [][Summarized /\ ~gaps' =>
       /\ \A s \in input.files \cup input.telemetry : {s} \X (1..(IF Split(s) THEN s.size ELSE 1)) \subseteq swept
       /\ cited = given']_assessVars

\* Every call was paid for before it was made, across failures and crashes, and the
\* budget is never passed.
CallsAreReserved == \A k \in Scopes : called[k] <= reserved[k] /\ reserved[k] <= Limit

\* review.py, status_review.py, collection.py: reviewers are of another family than what
\* they review, calls are paid for first, and what a report is not based on, it tells.
AssessmentsAreSound == [](ReviewersAreIndependent /\ CallsAreReserved) /\ OmissionsAreTold
=============================================================================
