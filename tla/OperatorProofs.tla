--------------------------- MODULE OperatorProofs ----------------------------
(***************************************************************************)
(* What operators decide and say, each for any number of everything.       *)
(* The incidents tell what was found and decided, for any findings,        *)
(* windows and operators, and any order of reviews, retries and aborts.    *)
(* The invariant says of a request that is open what its versions are good *)
(* for: a row that still has the version an operator was shown has neither *)
(* an observation nor a decision that he was not shown.  It needs nothing  *)
(* of who holds which lock: what a transaction makes of its rows is        *)
(* computed when it commits, and the locks are there so that this is so.   *)
(* Steering: the lemmas are about sequences of messages in the order of    *)
(* their timestamps, what a scan has read by each page, who may post an    *)
(* escalation, and what the session has that is not marked delivered.      *)
(* Pages, for any fleet, incidents and size of a page: what was shown ends *)
(* at the cursor, with nothing that stayed left out (SeenSoFar); what a    *)
(* page has read lies between that and what it has yet to list             *)
(* (ReadSoFar).                                                            *)
(***************************************************************************)
EXTENDS IncidentStore, Steering, Pages, SequenceTheorems, FiniteSetTheorems, WellFoundedInduction, TLAPS

Statuses == {None, "open", "closed"}
Rows == [status : Statuses, version : Nat,
         first : Windows \cup {0}, last : Windows \cup {0}, detail : Windows \cup {0}]
Event == [version : Nat, from : {"open", "closed"}, to : {"open", "closed"}]
Choice == [finding : Findings, version : Nat, saw : (SUBSET Windows) \X Nat]

Injective(s) == \A i, j \in 1..Len(s) : s[i] = s[j] => i = j

Tables ==
  /\ report \in [Windows -> SUBSET Findings] /\ ingested \subseteq Windows
  /\ incident \in [Findings -> Rows] /\ observations \in [Findings -> SUBSET Windows]
  /\ events \in [Findings -> Seq(Event)]

Ids == created \in Seq(Findings) /\ Injective(created)

\* Transactions and their locks.
Locks ==
  /\ stage \in [Txns -> {"idle", "applying", "submitted", "locking", "announced"}]
  /\ want \in [Txns -> Findings \cup {None}]
  /\ rowLock \in [Findings -> Txns \cup {None}]
  /\ \A t \in Txns : stage[t] = "locking" <=> want[t] # None
  /\ \A f \in Findings : rowLock[f] # None => stage[rowLock[f]] \in {"applying", "submitted", "locking"}

\* What the worker has applied of a review, and inserted for it.
Applying ==
  /\ ingesting.done \subseteq Findings
  /\ ingesting.new \in Seq(Findings) /\ Injective(ingesting.new)
  /\ InSeq(ingesting.new) = ingesting.done \ Existing
  /\ stage[Worker] \in {"applying", "locking"} => ingesting.window \in Windows
  /\ stage[Worker] = "locking" => want[Worker] \notin ingesting.done

\* The decisions on a row in their order, none later than the row.
Before(turns, i) == IF i = 1 THEN "open" ELSE turns[i - 1].to

Chain(turns, version) ==
  /\ \A i \in 1..Len(turns) :
       turns[i].from = Before(turns, i) /\ turns[i].to # turns[i].from /\ turns[i].version <= version
  /\ \A i, j \in 1..Len(turns) : i < j => turns[i].version < turns[j].version

Decided ==
  \A f \in Findings :
    /\ Chain(events[f], incident[f].version)
    /\ IF f \in Existing THEN incident[f].status = Before(events[f], Len(events[f]) + 1)
       ELSE events[f] = <<>>

\* What the version of a selected row is good for.
Shown(c) ==
  /\ c \in Choice /\ c.finding \in Existing /\ c.version <= incident[c.finding].version
  /\ c.version = incident[c.finding].version =>
       c.saw = <<observations[c.finding], Len(events[c.finding])>>

RequestsAreShown ==
  \A o \in Operators :
    /\ \A c \in request[o].selection : Shown(c)
    /\ request[o].selection # {} => request[o].status \in {"open", "closed"}

\* Who has been told of an incident: everybody of those the cursor has passed, and of
\* the others whoever a message that is on its way, or was lost, told.
Told ==
  /\ notified \in 0..Len(created) /\ notice \in 0..Len(created) /\ lost \in 0..MaxLost
  /\ announced \in [Findings -> Nat]
  /\ stage[Worker] = "announced" => notice = Len(created)
  /\ \A f \in Findings : f \notin Existing => announced[f] = 0
  /\ \A i \in 1..Len(created) :
       IF i <= notified THEN announced[created[i]] >= 1 /\ announced[created[i]] <= 1 + lost
       ELSE IF stage[Worker] = "announced"
            THEN announced[created[i]] >= 1 /\ announced[created[i]] <= 1 + lost
            ELSE announced[created[i]] <= lost

IInv ==
  /\ Tables /\ Ids /\ Locks /\ Applying /\ RowTellsObservations /\ Decided /\ RequestsAreShown /\ Told

----------------------------------------------------------------------------
(* Sequences without repetition *)

LEMMA TwoAreJoined ==
  ASSUME NEW S, NEW s \in Seq(S), NEW t \in Seq(S), Injective(s), Injective(t),
         InSeq(s) \cap InSeq(t) = {}
  PROVE  /\ s \o t \in Seq(S) /\ Len(s \o t) = Len(s) + Len(t)
         /\ Len(s) \in Nat /\ Len(t) \in Nat
         /\ \A i \in 1..Len(s) : (s \o t)[i] = s[i]
         /\ \A i \in Len(s) + 1..Len(s) + Len(t) : (s \o t)[i] \in InSeq(t)
         /\ Injective(s \o t) /\ InSeq(s \o t) = InSeq(s) \cup InSeq(t)
<1> DEFINE u == s \o t
<1>1. /\ u \in Seq(S) /\ Len(u) = Len(s) + Len(t) /\ Len(s) \in Nat /\ Len(t) \in Nat
      /\ \A i \in 1..Len(s) + Len(t) : u[i] = IF i <= Len(s) THEN s[i] ELSE t[i - Len(s)]
  BY ConcatProperties, LenProperties
<1> HIDE DEF u
<1>2. \A i \in 1..Len(s) : u[i] = s[i] /\ u[i] \in InSeq(s)  BY <1>1 DEF InSeq
<1>3. \A i \in Len(s) + 1..Len(s) + Len(t) :
        i - Len(s) \in 1..Len(t) /\ u[i] = t[i - Len(s)] /\ u[i] \in InSeq(t)
  BY <1>1 DEF InSeq
<1>4. ASSUME NEW i \in 1..Len(u), NEW j \in 1..Len(u), u[i] = u[j] PROVE i = j
  <2>1. CASE i <= Len(s) /\ j <= Len(s)
    <3>1. i \in 1..Len(s) /\ j \in 1..Len(s)  BY <2>1, <1>1
    <3> QED  BY <3>1, <1>2, <1>4 DEF Injective
  <2>2. CASE i > Len(s) /\ j > Len(s)
    <3>1. i \in Len(s) + 1..Len(s) + Len(t) /\ j \in Len(s) + 1..Len(s) + Len(t)  BY <2>2, <1>1
    <3>2. t[i - Len(s)] = t[j - Len(s)]  BY <3>1, <1>3, <1>4
    <3>3. i - Len(s) = j - Len(s)  BY <3>1, <3>2, <1>3 DEF Injective
    <3> QED  BY <3>3, <3>1, <1>1
  <2>3. ~(i <= Len(s) /\ j > Len(s)) /\ ~(j <= Len(s) /\ i > Len(s))
    <3>1. \A k \in 1..Len(u) : k <= Len(s) => u[k] \in InSeq(s)  BY <1>2, <1>1
    <3>2. \A k \in 1..Len(u) : k > Len(s) => u[k] \in InSeq(t)  BY <1>3, <1>1
    <3> QED  BY <3>1, <3>2, <1>4
  <2> QED  BY <2>1, <2>2, <2>3, <1>1
<1>5. InSeq(u) = InSeq(s) \cup InSeq(t)
  <2>1. \A i \in 1..Len(u) : u[i] \in InSeq(s) \cup InSeq(t)  BY <1>1, <1>2, <1>3
  <2>2. \A i \in 1..Len(s) : s[i] \in InSeq(u)
    <3>1. \A i \in 1..Len(s) : i \in 1..Len(u)  BY <1>1
    <3> QED  BY <3>1, <1>2 DEF InSeq
  <2>3. \A i \in 1..Len(t) : t[i] \in InSeq(u)
    <3>1. \A i \in 1..Len(t) : i + Len(s) \in 1..Len(u) /\ ~(i + Len(s) <= Len(s)) /\ i + Len(s) - Len(s) = i
      BY <1>1
    <3>2. \A i \in 1..Len(t) : u[i + Len(s)] = t[i]  BY <3>1, <1>1
    <3> QED  BY <3>1, <3>2 DEF InSeq
  <2> QED  BY <2>1, <2>2, <2>3 DEF InSeq
<1> QED  BY <1>1, <1>2, <1>3, <1>4, <1>5 DEF Injective, u

LEMMA OneIsAdded ==
  ASSUME NEW S, NEW s \in Seq(S), NEW elt \in S, Injective(s), InSeq(s) \cap {elt} = {}
  PROVE  /\ Append(s, elt) \in Seq(S) /\ Injective(Append(s, elt))
         /\ InSeq(Append(s, elt)) = InSeq(s) \cup {elt}
<1>1. <<elt>> \in Seq(S) /\ Len(<<elt>>) = 1 /\ <<elt>>[1] = elt  OBVIOUS
<1>2. Injective(<<elt>>) /\ InSeq(<<elt>>) = {elt}  BY <1>1 DEF Injective, InSeq
<1>3. Append(s, elt) = s \o <<elt>>  BY AppendIsConcat
<1>4. InSeq(s) \cap InSeq(<<elt>>) = {}  BY <1>2
<1>5. /\ s \o <<elt>> \in Seq(S) /\ Injective(s \o <<elt>>)
      /\ InSeq(s \o <<elt>>) = InSeq(s) \cup InSeq(<<elt>>)
  BY <1>1, <1>2, <1>4, TwoAreJoined
<1> QED  BY <1>2, <1>3, <1>5

LEMMA ExistingTyped == IInv => Existing \subseteq Findings
  BY ElementOfSeq DEF IInv, Ids, Existing, InSeq

----------------------------------------------------------------------------
(* Steps that leave the tables alone *)

LEMMA SameTables ==
  ASSUME IInv, UNCHANGED data
  PROVE  Tables' /\ Ids' /\ RowTellsObservations' /\ Decided' /\ Existing' = Existing
<1>1. UNCHANGED <<report, created, incident, observations, events, ingested>>  BY DEF data
<1>2. Existing' = Existing  BY <1>1 DEF Existing
<1>3. Tables' /\ Ids'  BY <1>1 DEF IInv, Tables, Ids
<1>4. RowTellsObservations'  BY <1>1, <1>2 DEF IInv, RowTellsObservations
<1>5. Decided'  BY <1>1, <1>2 DEF IInv, Decided
<1> QED  BY <1>2, <1>3, <1>4, <1>5

LEMMA SameRequests ==
  ASSUME IInv, UNCHANGED data,
         \A o \in Operators : request'[o] = request[o] \/ request'[o] = NoRequest
  PROVE  RequestsAreShown'
<1>1. \A c : Shown(c) => Shown(c)'  BY DEF Shown, data, Existing
<1>2. NoRequest.selection = {}  BY DEF NoRequest
<1> QED  BY <1>1, <1>2 DEF IInv, RequestsAreShown

LEMMA SameTold ==
  ASSUME IInv, UNCHANGED data, UNCHANGED notices, stage'[Worker] = "announced" <=> stage[Worker] = "announced"
  PROVE  Told'
BY DEF IInv, Told, data, notices, Existing

\* A transaction takes or gives back what it locks, and the worker's review stays.
LEMMA SameApplying ==
  ASSUME IInv, UNCHANGED <<created, ingesting>>,
         stage'[Worker] \in {"applying", "locking"} => stage[Worker] = stage'[Worker] /\ want'[Worker] = want[Worker]
  PROVE  Applying'
BY DEF IInv, Applying, Existing

LEMMA InitIInv == Init => IInv
<1> SUFFICES ASSUME Init PROVE IInv  OBVIOUS
<1>1. created = <<>> /\ Len(created) = 0 /\ Existing = {} /\ InSeq(<<>>) = {} /\ Injective(<<>>)
  BY EmptySeq DEF Init, Existing, InSeq, Injective
<1>2. Tables  BY EmptySeq DEF Init, Tables, NoRow, Rows, Statuses, Event
<1>3. Ids  BY <1>1, EmptySeq DEF Ids
<1>4. Locks  BY StoreAssumption DEF Init, Locks
<1>5. Applying
  <2>1. ingesting.done = {} /\ ingesting.new = <<>> /\ stage[Worker] = "idle"
    BY DEF Init, Idle, Txns
  <2> QED  BY <2>1, <1>1, EmptySeq DEF Applying
<1>6. RowTellsObservations  BY <1>1 DEF Init, RowTellsObservations
<1>7. Decided
  <2>1. Len(<<>>) = 0  BY EmptySeq
  <2> QED  BY <1>1, <2>1 DEF Init, Decided, Chain
<1>8. RequestsAreShown  BY DEF Init, RequestsAreShown, NoRequest
<1>9. Told  BY <1>1, StoreAssumption DEF Init, Told, Txns
<1> QED  BY <1>2, <1>3, <1>4, <1>5, <1>6, <1>7, <1>8, <1>9 DEF IInv

\* A transaction that ends gives its locks back.
LEMMA ReleaseLocks ==
  ASSUME IInv, NEW t \in Txns, Release(t), stage' = [stage EXCEPT ![t] = "idle"],
         want' = [want EXCEPT ![t] = None]
  PROVE  Locks'
<1>1. \A f \in Findings : rowLock'[f] # None => rowLock'[f] = rowLock[f] /\ rowLock[f] # t  BY DEF Release
<1>2. \A u \in Txns : stage'[u] = (IF u = t THEN "idle" ELSE stage[u])  BY DEF IInv, Locks
<1>3. rowLock' \in [Findings -> Txns \cup {None}]  BY DEF Release, IInv, Locks
<1>4. \A f \in Findings : rowLock'[f] # None => stage'[rowLock'[f]] \in {"applying", "submitted", "locking"}
  BY <1>1, <1>2, <1>3 DEF IInv, Locks
<1>5. /\ stage' \in [Txns -> {"idle", "applying", "submitted", "locking", "announced"}]
      /\ want' \in [Txns -> Findings \cup {None}]
      /\ \A u \in Txns : stage'[u] = "locking" <=> want'[u] # None
  BY DEF IInv, Locks
<1> QED  BY <1>3, <1>4, <1>5 DEF Locks

\* A transaction goes on while it holds what it holds.
LEMMA GoOn ==
  ASSUME IInv, NEW t \in Txns, NEW at \in {"applying", "submitted", "announced", "idle"},
         stage[t] \in {"idle", "applying", "submitted", "announced"},
         \A f \in Findings : rowLock[f] = t => at \in {"applying", "submitted"},
         stage' = [stage EXCEPT ![t] = at], UNCHANGED <<rowLock, want>>
  PROVE  Locks'
<1>1. \A u \in Txns : stage'[u] = (IF u = t THEN at ELSE stage[u])  BY DEF IInv, Locks
<1>2. \A f \in Findings : rowLock[f] # None => rowLock[f] \in Txns  BY DEF IInv, Locks
<1> QED  BY <1>1, <1>2 DEF IInv, Locks

\* A transaction names the row it is to lock next, and then locks it.
LEMMA LockOneRow ==
  ASSUME IInv, NEW t \in Txns, NEW f \in Findings,
         stage[t] \in {"applying", "submitted"}, stage' = [stage EXCEPT ![t] = "locking"],
         want' = [want EXCEPT ![t] = f], UNCHANGED rowLock
  PROVE  Locks'
<1>1. \A u \in Txns : stage'[u] = (IF u = t THEN "locking" ELSE stage[u])  BY DEF IInv, Locks
<1>2. \A u \in Txns : want'[u] = (IF u = t THEN f ELSE want[u])  BY DEF IInv, Locks
<1> QED  BY <1>1, <1>2, StoreAssumption DEF IInv, Locks

LEMMA RowLocked ==
  ASSUME IInv, NEW t \in Txns, Lock(t), NEW at \in {"applying", "submitted"},
         stage' = [stage EXCEPT ![t] = at], want' = [want EXCEPT ![t] = None]
  PROVE  Locks' /\ want[t] \in Findings
<1>1. want[t] \in Findings /\ stage[t] = "locking"  BY DEF Lock, IInv, Locks
<1>2. \A u \in Txns : stage'[u] = (IF u = t THEN at ELSE stage[u])  BY DEF IInv, Locks
<1>3. \A u \in Txns : want'[u] = (IF u = t THEN None ELSE want[u])  BY DEF IInv, Locks
<1>4. \A f \in Findings : rowLock'[f] = (IF f = want[t] THEN t ELSE rowLock[f])  BY DEF Lock, IInv, Locks
<1>5. rowLock' \in [Findings -> Txns \cup {None}]  BY DEF Lock, IInv, Locks
<1>6. /\ stage' \in [Txns -> {"idle", "applying", "submitted", "locking", "announced"}]
      /\ want' \in [Txns -> Findings \cup {None}]
  BY DEF IInv, Locks
<1> QED  BY <1>1, <1>2, <1>3, <1>4, <1>5, <1>6 DEF IInv, Locks

----------------------------------------------------------------------------
(* What a review and a decision make of a row *)

LEMMA ObservedRow ==
  ASSUME NEW row \in Rows, NEW w \in Windows
  PROVE  /\ Observed(row, w) \in Rows /\ Observed(row, w).status = row.status
         /\ Observed(row, w).version = row.version + 1
         /\ Observed(row, w).first = (IF row.first > w THEN w ELSE row.first)
         /\ Observed(row, w).last = (IF row.last < w THEN w ELSE row.last)
         /\ Observed(row, w).detail = (IF row.last <= w THEN w ELSE row.detail)
<1> DEFINE first == IF row.first > w THEN w ELSE row.first
           last == IF row.last < w THEN w ELSE row.last
           detail == IF row.last <= w THEN w ELSE row.detail
<1>1. first \in Windows \cup {0} /\ last \in Windows \cup {0} /\ detail \in Windows \cup {0}
  BY DEF Rows
<1>2. row.status \in Statuses /\ row.version + 1 \in Nat  BY DEF Rows
<1> DEFINE next == row.version + 1
<1>3. Observed(row, w) = [row EXCEPT !.first = first, !.last = last, !.detail = detail, !.version = next]
  BY Zenon DEF Observed
<1> HIDE DEF first, last, detail, next
<1>4. /\ Observed(row, w).first = first /\ Observed(row, w).last = last
      /\ Observed(row, w).detail = detail /\ Observed(row, w).version = next
      /\ Observed(row, w).status = row.status
  BY <1>3 DEF Rows
<1>5. Observed(row, w) \in Rows
  <2>1. next \in Nat  BY <1>2 DEF next
  <2> QED  BY <1>1, <1>2, <1>3, <2>1 DEF Rows
<1> QED  BY <1>4, <1>5 DEF first, last, detail, next

LEMMA OneDecisionMore ==
  ASSUME NEW turns \in Seq(Event), NEW version \in Nat, Chain(turns, version),
         NEW turn \in Event, turn.version = version + 1,
         turn.from = Before(turns, Len(turns) + 1), turn.to # turn.from
  PROVE  LET more == Append(turns, turn)
         IN  /\ more \in Seq(Event) /\ Len(more) = Len(turns) + 1 /\ Len(turns) \in Nat
             /\ Chain(more, version + 1) /\ Before(more, Len(more) + 1) = turn.to
<1> DEFINE more == Append(turns, turn)
<1>1. /\ more \in Seq(Event) /\ Len(turns) \in Nat /\ Len(more) = Len(turns) + 1
      /\ \A i \in 1..Len(turns) : more[i] = turns[i]
      /\ more[Len(turns) + 1] = turn
  BY AppendProperties, LenProperties
<1> HIDE DEF more
<1>2. \A i \in 1..Len(turns) + 1 : Before(more, i) = Before(turns, i)
  <2> SUFFICES ASSUME NEW i \in 1..Len(turns) + 1 PROVE Before(more, i) = Before(turns, i)  OBVIOUS
  <2>1. i = 1 \/ i - 1 \in 1..Len(turns)  BY <1>1
  <2> QED  BY <2>1, <1>1 DEF Before
<1>3. \A i \in 1..Len(more) : i \in 1..Len(turns) \/ i = Len(turns) + 1  BY <1>1
<1>4. \A i \in 1..Len(turns) : turns[i].version \in Nat /\ turns[i].version <= version
  <2>1. \A i \in 1..Len(turns) : turns[i] \in Event  BY ElementOfSeq
  <2> QED  BY <2>1 DEF Event, Chain
<1>5. ASSUME NEW i \in 1..Len(more)
      PROVE  more[i].from = Before(more, i) /\ more[i].to # more[i].from /\ more[i].version <= version + 1
  <2>1. CASE i \in 1..Len(turns)  BY <2>1, <1>1, <1>2, <1>4 DEF Chain
  <2>2. CASE i = Len(turns) + 1  BY <2>2, <1>1, <1>2
  <2> QED  BY <2>1, <2>2, <1>3
<1>6. ASSUME NEW i \in 1..Len(more), NEW j \in 1..Len(more), i < j
      PROVE  more[i].version < more[j].version
  <2>1. i \in 1..Len(turns)  BY <1>6, <1>1
  <2>2. CASE j \in 1..Len(turns)  BY <2>1, <2>2, <1>1, <1>6 DEF Chain
  <2>3. CASE j = Len(turns) + 1  BY <2>1, <2>3, <1>1, <1>4
  <2> QED  BY <2>2, <2>3, <1>3
<1>7. Before(more, Len(more) + 1) = turn.to
  <2>1. Len(more) + 1 # 1 /\ Len(more) + 1 - 1 = Len(turns) + 1  BY <1>1
  <2> QED  BY <2>1, <1>1 DEF Before
<1>8. Chain(more, version + 1)  BY <1>5, <1>6 DEF Chain
<1> QED  BY <1>1, <1>7, <1>8 DEF more

\* A row that keeps its version keeps what was observed and decided of it.
LEMMA RequestsStay ==
  ASSUME IInv, Existing \subseteq Existing',
         \A f \in Existing :
           /\ incident[f].version \in Nat /\ incident'[f].version \in Nat
           /\ incident'[f].version >= incident[f].version
           /\ incident'[f].version = incident[f].version =>
                observations'[f] = observations[f] /\ events'[f] = events[f],
         \A o \in Operators : request'[o] = request[o] \/ request'[o] = NoRequest
  PROVE  RequestsAreShown'
<1>1. ASSUME NEW c, Shown(c) PROVE Shown(c)'
  <2>1. c.finding \in Existing /\ c.version \in Nat  BY <1>1 DEF Shown, Choice
  <2> QED  BY <1>1, <2>1 DEF Shown
<1>2. NoRequest.selection = {}  BY DEF NoRequest
<1> QED  BY <1>1, <1>2 DEF IInv, RequestsAreShown

----------------------------------------------------------------------------
(* The worker's steps *)

LEMMA BeginStep == ASSUME IInv, NEW w \in Windows, BeginIngest(w) PROVE IInv'
<1>1. /\ stage[Worker] = "idle" /\ stage' = [stage EXCEPT ![Worker] = "applying"]
      /\ ingesting' = [Idle EXCEPT !.window = w]
      /\ UNCHANGED data /\ UNCHANGED notices /\ UNCHANGED <<rowLock, want, request, created>>
  BY DEF BeginIngest, data
<1>2. stage'[Worker] = "applying"  BY <1>1 DEF IInv, Locks, Txns
<1>3. \A f \in Findings : rowLock[f] # Worker  BY <1>1 DEF IInv, Locks, Worker, None
<1>4. Locks'  BY <1>1, <1>3, GoOn DEF Txns
<1>5. Applying'
  <2>1. ingesting'.done = {} /\ ingesting'.new = <<>> /\ ingesting'.window = w  BY <1>1 DEF Idle
  <2>2. InSeq(<<>>) = {} /\ Injective(<<>>) /\ <<>> \in Seq(Findings)  BY EmptySeq DEF InSeq, Injective
  <2> QED  BY <1>2, <2>1, <2>2 DEF Applying
<1> QED  BY <1>1, <1>2, <1>4, <1>5, SameTables, SameRequests, SameTold DEF IInv

LEMMA NextFindingStep == ASSUME IInv, NEW f \in Findings, NextFinding(f) PROVE IInv'
<1>1. /\ stage[Worker] = "applying" /\ stage' = [stage EXCEPT ![Worker] = "locking"]
      /\ f \notin ingesting.done /\ want' = [want EXCEPT ![Worker] = f]
      /\ UNCHANGED data /\ UNCHANGED notices /\ UNCHANGED <<rowLock, ingesting, request, created>>
  BY DEF NextFinding, data
<1>2. stage'[Worker] = "locking" /\ want'[Worker] = f  BY <1>1 DEF IInv, Locks, Txns
<1>3. Locks'  BY <1>1, LockOneRow DEF Txns
<1>4. Applying'  BY <1>1, <1>2 DEF IInv, Applying, Existing
<1> QED  BY <1>1, <1>2, <1>3, <1>4, SameTables, SameRequests, SameTold DEF IInv

LEMMA ApplyFindingStep == ASSUME IInv, ApplyFinding PROVE IInv'
<1> DEFINE f == want[Worker]
<1>1. /\ Lock(Worker) /\ stage[Worker] = "locking" /\ stage' = [stage EXCEPT ![Worker] = "applying"]
      /\ want' = [want EXCEPT ![Worker] = None]
      /\ ingesting' = [ingesting EXCEPT !.done = @ \cup {f},
                                        !.new = IF f \in Existing THEN @ ELSE Append(@, f)]
      /\ UNCHANGED data /\ UNCHANGED notices /\ UNCHANGED <<request, created>>
  BY DEF ApplyFinding, Lock, data
<1>2. Locks' /\ f \in Findings  BY <1>1, RowLocked DEF Txns
<1>3. stage'[Worker] = "applying"  BY <1>1 DEF IInv, Locks, Txns
<1>4. f \notin ingesting.done  BY <1>1 DEF IInv, Applying
<1> HIDE DEF f
<1>5. /\ ingesting'.done = ingesting.done \cup {f} /\ ingesting'.window = ingesting.window
      /\ ingesting'.new = (IF f \in Existing THEN ingesting.new ELSE Append(ingesting.new, f))
  BY <1>1 DEF IInv, Applying
<1>6. Applying'
  <2>1. Existing' = Existing  BY <1>1 DEF Existing
  <2>2. CASE f \in Existing  BY <2>1, <2>2, <1>1, <1>2, <1>3, <1>5 DEF IInv, Applying
  <2>3. CASE f \notin Existing
    <3>1. InSeq(ingesting.new) \cap {f} = {}  BY <1>4 DEF IInv, Applying
    <3>2. /\ ingesting'.new \in Seq(Findings) /\ Injective(ingesting'.new)
          /\ InSeq(ingesting'.new) = InSeq(ingesting.new) \cup {f}
      BY <3>1, <2>3, <1>2, <1>5, OneIsAdded DEF IInv, Applying
    <3> QED  BY <2>1, <2>3, <3>2, <1>1, <1>2, <1>3, <1>5 DEF IInv, Applying
  <2> QED  BY <2>2, <2>3
<1> QED  BY <1>1, <1>2, <1>3, <1>6, SameTables, SameRequests, SameTold DEF IInv

\* What a review's window makes of the rows it found.
LEMMA IngestedRow ==
  ASSUME Tables, RowTellsObservations, NEW f \in Findings, NEW w \in Windows
  PROVE  LET row == Ingested(f, w)
             seen == observations[f] \cup {w}
         IN  /\ row \in Rows /\ {row.first, row.last} \subseteq seen
             /\ \A v \in seen : row.first <= v /\ v <= row.last
             /\ row.detail = row.last
             /\ f \in Existing => row.status = incident[f].status /\ row.version >= incident[f].version
             /\ f \in Existing /\ row.version = incident[f].version => seen = observations[f]
             /\ f \notin Existing => row.status = "open"
<1> DEFINE row == Ingested(f, w)
           seen == observations[f] \cup {w}
           fresh == [status |-> "open", version |-> 1, first |-> w, last |-> w, detail |-> w]
<1>1. /\ incident[f] \in Rows /\ observations[f] \subseteq Windows /\ Windows \subseteq Nat
  BY StoreAssumption DEF Tables
<1>2. f \in Existing <=> observations[f] # {}  BY DEF RowTellsObservations
<1>3. CASE w \in observations[f]
  <2>1. row = incident[f] /\ seen = observations[f] /\ f \in Existing
    BY <1>2, <1>3, Zenon DEF Ingested
  <2>2. /\ {incident[f].first, incident[f].last} \subseteq observations[f]
        /\ \A v \in observations[f] : incident[f].first <= v /\ v <= incident[f].last
        /\ incident[f].detail = incident[f].last
    BY <2>1 DEF RowTellsObservations
  <2>3. incident[f].version >= incident[f].version  BY <1>1 DEF Rows
  <2> HIDE DEF row, seen
  <2>4. /\ row \in Rows /\ {row.first, row.last} \subseteq seen
        /\ \A v \in seen : row.first <= v /\ v <= row.last
        /\ row.detail = row.last
    BY <2>1, <2>2, <1>1
  <2> QED  BY <2>1, <2>3, <2>4 DEF row, seen
<1>4. CASE w \notin observations[f] /\ f \in Existing
  <2>1. row = Observed(incident[f], w)  BY <1>4, Zenon DEF Ingested
  <2>2. /\ {incident[f].first, incident[f].last} \subseteq observations[f]
        /\ \A v \in observations[f] : incident[f].first <= v /\ v <= incident[f].last
        /\ incident[f].detail = incident[f].last
    BY <1>4 DEF RowTellsObservations
  <2> HIDE DEF row
  <2>3. /\ row \in Rows /\ row.status = incident[f].status
        /\ row.version = incident[f].version + 1 /\ incident[f].version \in Nat
        /\ row.first = (IF incident[f].first > w THEN w ELSE incident[f].first)
        /\ row.last = (IF incident[f].last < w THEN w ELSE incident[f].last)
        /\ row.detail = (IF incident[f].last <= w THEN w ELSE incident[f].detail)
    BY <2>1, <1>1, ObservedRow DEF Rows
  <2>4. /\ {row.first, row.last} \subseteq seen
        /\ \A v \in seen : row.first <= v /\ v <= row.last
        /\ row.detail = row.last
    <3>1. /\ incident[f].first \in Nat /\ incident[f].last \in Nat /\ w \in Nat
          /\ \A v \in observations[f] : v \in Nat
      BY <2>2, <1>1
    <3>2. row.first \in seen /\ row.last \in seen  BY <2>2, <2>3
    <3>3. \A v \in seen : row.first <= v /\ v <= row.last
      <4>1. row.first <= w /\ w <= row.last  BY <2>3, <3>1
      <4>2. \A v \in observations[f] : row.first <= v /\ v <= row.last  BY <2>2, <2>3, <3>1
      <4> QED  BY <4>1, <4>2
    <3>4. row.detail = row.last  BY <2>2, <2>3, <3>1
    <3> QED  BY <3>2, <3>3, <3>4
  <2>5. row.version >= incident[f].version /\ row.version # incident[f].version  BY <2>3
  <2> QED  BY <1>4, <2>3, <2>4, <2>5 DEF row
<1>5. CASE f \notin Existing
  <2>1. observations[f] = {} /\ w \notin observations[f]  BY <1>2, <1>5
  <2>2. row = Observed(fresh, w)  BY <2>1, <1>5, Zenon DEF Ingested
  <2>3. fresh \in Rows  BY DEF Rows, Statuses
  <2>4. fresh.first = w /\ fresh.last = w /\ fresh.detail = w /\ fresh.status = "open"  OBVIOUS
  <2> HIDE DEF row, fresh
  <2>5. /\ row \in Rows /\ row.status = "open" /\ row.first = w /\ row.last = w /\ row.detail = w
    BY <2>2, <2>3, <2>4, <1>1, ObservedRow
  <2>6. {row.first, row.last} \subseteq seen /\ \A v \in seen : row.first <= v /\ v <= row.last
    BY <2>1, <2>5, <1>1
  <2> QED  BY <1>5, <2>5, <2>6 DEF row
<1> QED  BY <1>3, <1>4, <1>5

LEMMA CommitStep == ASSUME IInv, CommitIngest PROVE IInv'
<1> DEFINE w == ingesting.window
           found == ingesting.done
<1>1. /\ stage[Worker] = "applying" /\ found = report[w]
      /\ incident' = [f \in Findings |-> IF f \in found THEN Ingested(f, w) ELSE incident[f]]
      /\ observations' = [f \in Findings |-> IF f \in found THEN observations[f] \cup {w} ELSE observations[f]]
      /\ created' = created \o ingesting.new /\ ingested' = ingested \cup {w}
      /\ Release(Worker) /\ stage' = [stage EXCEPT ![Worker] = "idle"] /\ ingesting' = Idle
      /\ UNCHANGED <<report, events, notified, want, request>> /\ UNCHANGED notices
  BY DEF CommitIngest
<1>2. w \in Windows /\ found \subseteq Findings  BY <1>1 DEF IInv, Applying
<1>3. stage'[Worker] = "idle"  BY <1>1 DEF IInv, Locks, Txns
<1> HIDE DEF w, found
<1>4. /\ created' \in Seq(Findings) /\ Injective(created') /\ Existing' = Existing \cup found
      /\ Len(created') = Len(created) + Len(ingesting.new)
      /\ Len(created) \in Nat /\ Len(ingesting.new) \in Nat
      /\ \A i \in 1..Len(created) : created'[i] = created[i]
      /\ \A i \in Len(created) + 1..Len(created) + Len(ingesting.new) : created'[i] \in found \ Existing
  <2>1. /\ created \in Seq(Findings) /\ Injective(created)
        /\ ingesting.new \in Seq(Findings) /\ Injective(ingesting.new)
        /\ InSeq(ingesting.new) = found \ Existing /\ Existing = InSeq(created)
    BY DEF IInv, Ids, Applying, Existing, found
  <2>2. InSeq(created) \cap InSeq(ingesting.new) = {}  BY <2>1
  <2>3. Existing' = InSeq(created')  BY DEF Existing
  <2> QED  BY <2>1, <2>2, <2>3, <1>1, TwoAreJoined
<1>5. \A f \in Findings : f \in found =>
        LET row == incident'[f]
            seen == observations'[f]
        IN  /\ seen = observations[f] \cup {w} /\ row \in Rows /\ {row.first, row.last} \subseteq seen
            /\ \A v \in seen : row.first <= v /\ v <= row.last
            /\ row.detail = row.last
            /\ f \in Existing => row.status = incident[f].status /\ row.version >= incident[f].version
            /\ f \in Existing /\ row.version = incident[f].version => seen = observations[f]
            /\ f \notin Existing => row.status = "open"
  <2> SUFFICES ASSUME NEW f \in Findings, f \in found
               PROVE  LET row == incident'[f]
                          seen == observations'[f]
                      IN  /\ seen = observations[f] \cup {w} /\ row \in Rows /\ {row.first, row.last} \subseteq seen
                          /\ \A v \in seen : row.first <= v /\ v <= row.last
                          /\ row.detail = row.last
                          /\ f \in Existing => row.status = incident[f].status /\ row.version >= incident[f].version
                          /\ f \in Existing /\ row.version = incident[f].version => seen = observations[f]
                          /\ f \notin Existing => row.status = "open"
    OBVIOUS
  <2>1. incident'[f] = Ingested(f, w) /\ observations'[f] = observations[f] \cup {w}  BY <1>1
  <2>2. Tables /\ RowTellsObservations  BY DEF IInv
  <2> QED  BY <2>1, <2>2, <1>2, IngestedRow
<1>6. \A f \in Findings : f \notin found => incident'[f] = incident[f] /\ observations'[f] = observations[f]
  BY <1>1
<1>7. \A f \in Findings : incident[f] \in Rows /\ observations[f] \subseteq Windows  BY DEF IInv, Tables
<1>8. Tables'
  <2>1. \A f \in Findings : incident'[f] \in Rows /\ observations'[f] \subseteq Windows
    BY <1>2, <1>5, <1>6, <1>7
  <2>2. incident' \in [Findings -> Rows] /\ observations' \in [Findings -> SUBSET Windows]
    BY <2>1, <1>1
  <2> QED  BY <2>2, <1>1, <1>2 DEF IInv, Tables
<1>9. Ids'  BY <1>4 DEF Ids
<1>10. Locks'
  <2>1. Worker \in Txns /\ want[Worker] = None  BY <1>1 DEF IInv, Locks, Txns
  <2>2. want' = [want EXCEPT ![Worker] = None]  BY <2>1, <1>1 DEF IInv, Locks
  <2> QED  BY <2>1, <2>2, <1>1, ReleaseLocks
<1>11. Applying'
  <2>1. ingesting'.done = {} /\ ingesting'.new = <<>>  BY <1>1 DEF Idle
  <2>2. InSeq(<<>>) = {} /\ Injective(<<>>) /\ <<>> \in Seq(Findings)  BY EmptySeq DEF InSeq, Injective
  <2> QED  BY <1>3, <2>1, <2>2 DEF Applying
<1>12. RowTellsObservations'
  <2> SUFFICES ASSUME NEW f \in Findings
               PROVE  /\ observations'[f] = {v \in ingested' : f \in report'[v]}
                      /\ (f \in Existing') = (observations'[f] # {})
                      /\ f \in Existing' =>
                           /\ {incident'[f].first, incident'[f].last} \subseteq observations'[f]
                           /\ \A v \in observations'[f] : incident'[f].first <= v /\ v <= incident'[f].last
                           /\ incident'[f].detail = incident'[f].last
    BY DEF RowTellsObservations
  <2>1. /\ observations[f] = {v \in ingested : f \in report[v]}
        /\ (f \in Existing) <=> (observations[f] # {})
    BY DEF IInv, RowTellsObservations
  <2>2. CASE f \in found
    <3>1. observations'[f] = {v \in ingested' : f \in report'[v]}  BY <2>1, <2>2, <1>1, <1>5
    <3>2. (f \in Existing') <=> (observations'[f] # {})  BY <2>2, <1>4, <1>5
    <3> QED  BY <3>1, <3>2, <2>2, <1>5
  <2>3. CASE f \notin found
    <3>1. observations'[f] = {v \in ingested' : f \in report'[v]}  BY <2>1, <2>3, <1>1, <1>6
    <3>2. (f \in Existing') <=> (f \in Existing)  BY <2>3, <1>4
    <3> QED  BY <3>1, <3>2, <2>1, <2>3, <1>6 DEF IInv, RowTellsObservations
  <2> QED  BY <2>2, <2>3
<1>13. Decided'
  <2> SUFFICES ASSUME NEW f \in Findings
               PROVE  /\ Chain(events'[f], incident'[f].version)
                      /\ IF f \in Existing' THEN incident'[f].status = Before(events'[f], Len(events'[f]) + 1)
                         ELSE events'[f] = <<>>
    BY DEF Decided
  <2>1. /\ Chain(events[f], incident[f].version) /\ events' = events
        /\ IF f \in Existing THEN incident[f].status = Before(events[f], Len(events[f]) + 1)
           ELSE events[f] = <<>>
    BY <1>1 DEF IInv, Decided
  <2>2. CASE f \notin found  BY <2>1, <2>2, <1>4, <1>6
  <2>3. CASE f \in found /\ f \in Existing
    <3>1. /\ incident'[f].status = incident[f].status /\ incident'[f].version >= incident[f].version
          /\ incident'[f].version \in Nat /\ incident[f].version \in Nat
      BY <2>3, <1>5, <1>7 DEF Rows
    <3>2. \A i \in 1..Len(events[f]) : events[f][i].version \in Nat
      <4>1. \A i \in 1..Len(events[f]) : events[f][i] \in Event  BY ElementOfSeq DEF IInv, Tables
      <4> QED  BY <4>1 DEF Event
    <3>3. Chain(events[f], incident'[f].version)  BY <2>1, <3>1, <3>2 DEF Chain
    <3> QED  BY <2>1, <2>3, <3>1, <3>3, <1>4
  <2>4. CASE f \in found /\ f \notin Existing
    <3>1. events[f] = <<>> /\ Len(<<>>) = 0 /\ incident'[f].status = "open"  BY <2>1, <2>4, <1>5, EmptySeq
    <3> QED  BY <3>1, <2>1, <2>4, <1>4 DEF Chain, Before
  <2> QED  BY <2>2, <2>3, <2>4
<1>14. RequestsAreShown'
  <2>1. Existing \subseteq Findings  BY ExistingTyped
  <2>2. ASSUME NEW f \in Existing
        PROVE  /\ incident[f].version \in Nat /\ incident'[f].version \in Nat
               /\ incident'[f].version >= incident[f].version
               /\ incident'[f].version = incident[f].version =>
                    observations'[f] = observations[f] /\ events'[f] = events[f]
    <3>1. incident[f].version \in Nat /\ incident'[f].version \in Nat
      BY <2>1, <1>8, <1>7 DEF Tables, Rows
    <3>2. CASE f \in found  BY <2>1, <3>1, <3>2, <1>1, <1>5
    <3>3. CASE f \notin found  BY <2>1, <3>1, <3>3, <1>1, <1>6
    <3> QED  BY <3>2, <3>3
  <2> QED  BY <2>2, <1>1, <1>4, RequestsStay
<1>15. Told'
  <2>1. /\ notified' = notified /\ notice' = notice /\ lost' = lost /\ announced' = announced
    BY <1>1 DEF notices
  <2>2. ASSUME NEW i \in 1..Len(created')
        PROVE  IF i <= notified' THEN announced'[created'[i]] >= 1 /\ announced'[created'[i]] <= 1 + lost'
               ELSE announced'[created'[i]] <= lost'
    <3>1. CASE i <= Len(created)
      <4>1. i \in 1..Len(created)  BY <3>1, <1>4
      <4> QED  BY <4>1, <2>1, <1>1, <1>4 DEF IInv, Told
    <3>2. CASE i > Len(created)
      <4>1. created'[i] \in Findings \ Existing /\ ~(i <= notified)  BY <3>2, <1>2, <1>4 DEF IInv, Told
      <4> QED  BY <4>1, <2>1 DEF IInv, Told
    <3> QED  BY <3>1, <3>2, <1>4
  <2>3. notified' \in 0..Len(created') /\ notice' \in 0..Len(created') /\ lost' \in 0..MaxLost
    BY <2>1, <1>4 DEF IInv, Told
  <2>4. announced' \in [Findings -> Nat] /\ \A f \in Findings : f \notin Existing' => announced'[f] = 0
    BY <2>1, <1>4 DEF IInv, Told
  <2> QED  BY <2>2, <2>3, <2>4, <1>3 DEF Told
<1> QED  BY <1>8, <1>9, <1>10, <1>11, <1>12, <1>13, <1>14, <1>15 DEF IInv

LEMMA SendStep == ASSUME IInv, SendNotice PROVE IInv'
<1>1. /\ stage[Worker] = "idle" /\ stage' = [stage EXCEPT ![Worker] = "announced"] /\ notice' = Len(created)
      /\ announced' = [f \in Findings |->
           announced[f] + Cardinality({i \in 1..Len(created) : Counted(i) /\ created[i] = f})]
      /\ UNCHANGED data /\ UNCHANGED <<rowLock, ingesting, want, request, lost, created, notified>>
  BY DEF SendNotice, data
<1>2. stage'[Worker] = "announced"  BY <1>1 DEF IInv, Locks, Txns
<1>3. \A f \in Findings : rowLock[f] # Worker  BY <1>1 DEF IInv, Locks, Worker, None
<1>4. Locks'  BY <1>1, <1>3, GoOn DEF Txns
<1>5. Applying'  BY <1>1, <1>2, SameApplying
<1>6. ASSUME NEW i \in 1..Len(created)
      PROVE  announced'[created[i]] = announced[created[i]] + (IF i <= notified THEN 0 ELSE 1)
  <2>1. created[i] \in Findings  BY ElementOfSeq DEF IInv, Ids
  <2> DEFINE news == {j \in 1..Len(created) : Counted(j) /\ created[j] = created[i]}
  <2>2. announced'[created[i]] = announced[created[i]] + Cardinality(news)  BY <2>1, <1>1
  <2>3. \A j \in news : j = i /\ i > notified  BY DEF Counted, IInv, Ids, Injective
  <2>4. i > notified => i \in news  BY DEF Counted
  <2>5. (i <= notified => ~(i > notified)) /\ (~(i <= notified) => i > notified)  BY DEF IInv, Told
  <2>6. CASE i <= notified
    <3>1. news = {}  BY <2>3, <2>5, <2>6
    <3> QED  BY <2>2, <2>6, <3>1, FS_EmptySet
  <2>7. CASE ~(i <= notified)
    <3>1. news = {i}  BY <2>3, <2>4, <2>5, <2>7
    <3> QED  BY <2>2, <2>7, <3>1, FS_Singleton
  <2> QED  BY <2>6, <2>7
<1>7. ASSUME NEW f \in Findings, f \notin Existing PROVE announced'[f] = 0
  <2>1. {i \in 1..Len(created) : Counted(i) /\ created[i] = f} = {}  BY <1>7 DEF Existing, InSeq
  <2> QED  BY <2>1, <1>1, <1>7, FS_EmptySet DEF IInv, Told
<1>8. announced' \in [Findings -> Nat]
  <2>1. \A f \in Findings : announced'[f] \in Nat
    <3> SUFFICES ASSUME NEW f \in Findings PROVE announced'[f] \in Nat  OBVIOUS
    <3>1. CASE f \in Existing
      <4>1. PICK i \in 1..Len(created) : created[i] = f  BY <3>1 DEF Existing, InSeq
      <4>2. announced[f] \in Nat /\ announced'[f] = announced[f] + (IF i <= notified THEN 0 ELSE 1)
        BY <4>1, <1>6 DEF IInv, Told
      <4> QED  BY <4>2
    <3>2. CASE f \notin Existing  BY <3>2, <1>7
    <3> QED  BY <3>1, <3>2
  <2> QED  BY <2>1, <1>1
<1>9. ASSUME NEW i \in 1..Len(created)
      PROVE  announced'[created[i]] >= 1 /\ announced'[created[i]] <= 1 + lost
  <2>1. created[i] \in Findings /\ announced[created[i]] \in Nat /\ lost \in Nat /\ notified \in Nat
    BY ElementOfSeq, StoreAssumption DEF IInv, Ids, Told
  <2>2. stage[Worker] # "announced"  BY <1>1
  <2>3. IF i <= notified THEN announced[created[i]] >= 1 /\ announced[created[i]] <= 1 + lost
        ELSE announced[created[i]] <= lost
    BY <2>2 DEF IInv, Told
  <2>4. announced'[created[i]] = announced[created[i]] + (IF i <= notified THEN 0 ELSE 1)  BY <1>6
  <2> QED  BY <2>1, <2>3, <2>4
<1>10. Told'
  <2>1. Len(created) \in Nat  BY LenProperties DEF IInv, Ids
  <2>2. notified' \in 0..Len(created') /\ notice' \in 0..Len(created') /\ lost' \in 0..MaxLost
        /\ notice' = Len(created') /\ Existing' = Existing
    BY <2>1, <1>1 DEF IInv, Told, Existing
  <2> QED  BY <2>2, <1>1, <1>2, <1>7, <1>8, <1>9 DEF Told
<1> QED  BY <1>1, <1>4, <1>5, <1>10, SameTables, SameRequests DEF IInv

\* The worker has been heard, or has not: the cursor passes what was told, or one
\* message more was lost.
LEMMA AnswerStep == ASSUME IInv, Acknowledge \/ LoseNotice PROVE IInv'
<1>1. /\ stage[Worker] = "announced" /\ stage' = [stage EXCEPT ![Worker] = "idle"] /\ notice' = 0
      /\ UNCHANGED <<report, created, incident, observations, events, ingested, rowLock, ingesting, want,
                     request, announced>>
      /\ \/ /\ notified' = (IF notified < notice THEN notice ELSE notified) /\ lost' = lost
         \/ notified' = notified /\ lost' = lost + 1 /\ lost < MaxLost
  BY DEF Acknowledge, LoseNotice, data
<1>2. stage'[Worker] = "idle"  BY <1>1 DEF IInv, Locks, Txns
<1>3. \A f \in Findings : rowLock[f] # Worker  BY <1>1 DEF IInv, Locks, Worker, None
<1>4. Locks'  BY <1>1, <1>3, GoOn DEF Txns
<1>5. Applying'  BY <1>1, <1>2, SameApplying
<1>6. Tables' /\ Ids' /\ RowTellsObservations' /\ Decided' /\ Existing' = Existing
  <2>1. Existing' = Existing  BY <1>1 DEF Existing
  <2>2. Tables' /\ Ids'  BY <1>1 DEF IInv, Tables, Ids
  <2>3. RowTellsObservations'  BY <1>1, <2>1 DEF IInv, RowTellsObservations
  <2>4. Decided'  BY <1>1, <2>1 DEF IInv, Decided
  <2> QED  BY <2>1, <2>2, <2>3, <2>4
<1>7. RequestsAreShown'
  <2>1. \A f \in Existing : incident[f].version \in Nat  BY ExistingTyped DEF IInv, Tables, Rows
  <2>2. \A f \in Existing : incident[f].version >= incident[f].version  BY <2>1
  <2> QED  BY <2>1, <2>2, <1>1, <1>6, RequestsStay
<1>8. Told'
  <2>1. /\ Len(created) \in Nat /\ notified \in 0..Len(created) /\ notice = Len(created)
        /\ lost \in 0..MaxLost /\ MaxLost \in Nat
    BY <1>1, LenProperties, StoreAssumption DEF IInv, Ids, Told
  <2>2. lost' \in 0..MaxLost /\ notified' \in 0..Len(created') /\ notice' \in 0..Len(created')
    BY <1>1, <2>1
  <2>3. ASSUME NEW i \in 1..Len(created')
        PROVE  IF i <= notified' THEN announced'[created'[i]] >= 1 /\ announced'[created'[i]] <= 1 + lost'
               ELSE announced'[created'[i]] <= lost'
    <3>1. /\ announced[created[i]] >= 1 /\ announced[created[i]] <= 1 + lost
          /\ announced[created[i]] \in Nat /\ i \in 1..Len(created)
      <4>1. created[i] \in Findings  BY <1>1, ElementOfSeq DEF IInv, Ids
      <4> QED  BY <4>1, <1>1 DEF IInv, Told
    <3>2. announced'[created'[i]] = announced[created[i]]  BY <1>1
    <3>3. CASE notified' = (IF notified < notice THEN notice ELSE notified) /\ lost' = lost
      <4>1. notified' = Len(created)  BY <2>1, <3>3
      <4> QED  BY <4>1, <3>1, <3>2, <3>3, <2>1
    <3>4. CASE notified' = notified /\ lost' = lost + 1  BY <3>1, <3>2, <3>4, <2>1
    <3> QED  BY <3>3, <3>4, <1>1
  <2>4. announced' \in [Findings -> Nat] /\ \A f \in Findings : f \notin Existing' => announced'[f] = 0
    BY <1>1, <1>6 DEF IInv, Told
  <2> QED  BY <2>2, <2>3, <2>4, <1>2 DEF Told
<1> QED  BY <1>4, <1>5, <1>6, <1>7, <1>8 DEF IInv

----------------------------------------------------------------------------
(* The operators' steps *)

LEMMA NotTheWorker == \A o \in Operators : o \in Txns /\ o # Worker /\ o # None
  BY StoreAssumption DEF Txns

LEMMA DecideStep ==
  ASSUME IInv, NEW o \in Operators, NEW chosen \in SUBSET Findings, NEW s \in {"open", "closed"},
         Decide(o, chosen, s)
  PROVE  IInv'
<1> DEFINE picked == {[finding |-> f, version |-> incident[f].version,
                       saw |-> <<observations[f], Len(events[f])>>] : f \in chosen}
<1>1. /\ stage[o] = "idle" /\ stage' = [stage EXCEPT ![o] = "submitted"] /\ chosen \subseteq Existing
      /\ request' = [request EXCEPT ![o] = [selection |-> picked, status |-> s]]
      /\ UNCHANGED data /\ UNCHANGED notices /\ UNCHANGED <<rowLock, ingesting, want, created>>
  BY DEF Decide, data
<1>2. stage'[Worker] = stage[Worker]  BY <1>1, NotTheWorker DEF IInv, Locks, Txns
<1>3. Locks'
  <2>1. \A f \in Findings : rowLock[f] # o  BY <1>1, NotTheWorker DEF IInv, Locks
  <2> QED  BY <2>1, <1>1, GoOn, NotTheWorker
<1>4. Applying'  BY <1>1, <1>2, SameApplying
<1>5. Existing' = Existing /\ UNCHANGED <<incident, observations, events>>  BY <1>1 DEF Existing, data
<1>6. ASSUME NEW c \in picked PROVE Shown(c)'
  <2>1. PICK f \in chosen : c = [finding |-> f, version |-> incident[f].version,
                                 saw |-> <<observations[f], Len(events[f])>>]
    OBVIOUS
  <2>2. /\ f \in Findings /\ f \in Existing /\ incident[f].version \in Nat
        /\ observations[f] \subseteq Windows /\ Len(events[f]) \in Nat
    <3>1. incident[f] \in Rows /\ events[f] \in Seq(Event) /\ observations[f] \subseteq Windows
      BY DEF IInv, Tables
    <3> QED  BY <3>1, <1>1, LenProperties DEF Rows
  <2>3. /\ c.finding = f /\ c.version = incident[f].version
        /\ c.saw = <<observations[f], Len(events[f])>>
    BY <2>1
  <2>4. c \in Choice  BY <2>1, <2>2 DEF Choice
  <2>5. c.version <= incident[f].version  BY <2>2, <2>3
  <2> QED  BY <2>2, <2>3, <2>4, <2>5, <1>5 DEF Shown
<1>7. RequestsAreShown'
  <2> HIDE DEF picked
  <2>1. \A c : Shown(c) => Shown(c)'  BY <1>5 DEF Shown
  <2>2. \A p \in Operators : p # o => request'[p] = request[p]  BY <1>1
  <2>3. request'[o] = request[o] \/ request'[o] = [selection |-> picked, status |-> s]  BY <1>1
  <2>4. ASSUME NEW p \in Operators
        PROVE  /\ \A c \in request'[p].selection : Shown(c)'
               /\ request'[p].selection # {} => request'[p].status \in {"open", "closed"}
    <3>1. CASE request'[p] = request[p]  BY <3>1, <2>1 DEF IInv, RequestsAreShown
    <3>2. CASE p = o /\ request'[o] = [selection |-> picked, status |-> s]
      <4>1. request'[p].selection = picked /\ request'[p].status = s  BY <3>2
      <4> QED  BY <4>1, <1>6
    <3> QED  BY <3>1, <3>2, <2>2, <2>3
  <2> QED  BY <2>4 DEF RequestsAreShown
<1> QED  BY <1>1, <1>2, <1>3, <1>4, <1>7, SameTables, SameTold DEF IInv

LEMMA LockNextStep == ASSUME IInv, NEW o \in Operators, LockNext(o) PROVE IInv'
<1>1. /\ stage[o] = "submitted" /\ stage' = [stage EXCEPT ![o] = "locking"]
      /\ \E i \in 1..Len(created) : want' = [want EXCEPT ![o] = created[i]]
      /\ UNCHANGED data /\ UNCHANGED notices /\ UNCHANGED <<rowLock, ingesting, request, created>>
  BY DEF LockNext, data
<1>2. \E f \in Findings : want' = [want EXCEPT ![o] = f]  BY <1>1, ElementOfSeq DEF IInv, Ids
<1>3. stage'[Worker] = stage[Worker] /\ want'[Worker] = want[Worker]
  BY <1>1, <1>2, NotTheWorker DEF IInv, Locks, Txns
<1>4. Locks'  BY <1>1, <1>2, LockOneRow, NotTheWorker
<1>5. Applying'  BY <1>1, <1>3, SameApplying
<1> QED  BY <1>1, <1>3, <1>4, <1>5, SameTables, SameRequests, SameTold DEF IInv

LEMMA LockRowStep == ASSUME IInv, NEW o \in Operators, LockRow(o) PROVE IInv'
<1>1. /\ Lock(o) /\ stage' = [stage EXCEPT ![o] = "submitted"] /\ want' = [want EXCEPT ![o] = None]
      /\ UNCHANGED data /\ UNCHANGED notices /\ UNCHANGED <<ingesting, request, created>>
  BY DEF LockRow, data
<1>2. stage'[Worker] = stage[Worker] /\ want'[Worker] = want[Worker]
  BY <1>1, NotTheWorker DEF IInv, Locks, Txns
<1>3. Locks'  BY <1>1, RowLocked, NotTheWorker
<1>4. Applying'  BY <1>1, <1>2, SameApplying
<1> QED  BY <1>1, <1>2, <1>3, <1>4, SameTables, SameRequests, SameTold DEF IInv

\* A request is answered: its locks are given back and it is over.
LEMMA RespondStep ==
  ASSUME IInv, NEW o \in Operators, Respond(o), stage[o] = "submitted"
  PROVE  /\ Locks' /\ Applying' /\ Ids' /\ Existing' = Existing
         /\ Told' /\ \A p \in Operators : request'[p] = request[p] \/ request'[p] = NoRequest
<1>1. /\ Release(o) /\ stage' = [stage EXCEPT ![o] = "idle"] /\ want' = [want EXCEPT ![o] = None]
      /\ request' = [request EXCEPT ![o] = NoRequest]
      /\ UNCHANGED <<created, notified, ingesting>> /\ UNCHANGED notices
  BY DEF Respond
<1>2. stage'[Worker] = stage[Worker] /\ want'[Worker] = want[Worker]
  BY <1>1, NotTheWorker DEF IInv, Locks, Txns
<1>3. Existing' = Existing  BY <1>1 DEF Existing
<1>4. Told'  BY <1>1, <1>2, <1>3 DEF IInv, Told, notices
<1>5. \A p \in Operators : request'[p] = request[p] \/ request'[p] = NoRequest  BY <1>1
<1> QED  BY <1>1, <1>2, <1>3, <1>4, <1>5, ReleaseLocks, SameApplying, NotTheWorker DEF IInv, Ids

\* The rows a decision changes, and what it was based on.
LEMMA ChangedRows ==
  ASSUME IInv, NEW o \in Operators, Transition(o)
  PROVE  /\ Changed(o) \subseteq Existing
         /\ Changed(o) # {} => request[o].status \in {"open", "closed"}
         /\ \A f \in Findings \ Changed(o) : incident'[f] = incident[f] /\ events'[f] = events[f]
         /\ \A f \in Changed(o) :
              /\ incident'[f] = [incident[f] EXCEPT !.status = request[o].status, !.version = incident[f].version + 1]
              /\ events'[f] = Append(events[f], [version |-> incident[f].version + 1,
                                                 from |-> incident[f].status, to |-> request[o].status])
              /\ incident[f].status # request[o].status
<1>1. /\ incident' = [f \in Findings |->
           IF f \in Changed(o) THEN [incident[f] EXCEPT !.status = request[o].status, !.version = @ + 1]
           ELSE incident[f]]
      /\ events' = [f \in Findings |->
           IF f \in Changed(o)
           THEN Append(events[f], [version |-> incident[f].version + 1,
                                   from |-> incident[f].status, to |-> request[o].status])
           ELSE events[f]]
  BY DEF Transition
<1>2. Changed(o) \subseteq Existing  BY DEF Changed, Selected, Shown, IInv, RequestsAreShown
<1>3. Changed(o) # {} => request[o].status \in {"open", "closed"}
  BY DEF Changed, Selected, IInv, RequestsAreShown
<1>4. Existing \subseteq Findings  BY ExistingTyped
<1> QED  BY <1>1, <1>2, <1>3, <1>4, Zenon DEF Changed

LEMMA TransitionStep == ASSUME IInv, NEW o \in Operators, Transition(o) PROVE IInv'
<1>1. /\ stage[o] = "submitted" /\ Respond(o) /\ UNCHANGED <<report, ingested, observations>>
      /\ DOMAIN incident' = Findings /\ DOMAIN events' = Findings
      /\ incident' = [f \in Findings |-> incident'[f]] /\ events' = [f \in Findings |-> events'[f]]
  BY DEF Transition, Respond
<1>2. /\ Locks' /\ Applying' /\ Ids' /\ Existing' = Existing
      /\ Told' /\ \A p \in Operators : request'[p] = request[p] \/ request'[p] = NoRequest
  BY <1>1, RespondStep
<1>3. \A f \in Findings : incident[f] \in Rows /\ events[f] \in Seq(Event)  BY DEF IInv, Tables
<1>4. ASSUME NEW f \in Findings
      PROVE  /\ incident'[f] \in Rows /\ events'[f] \in Seq(Event)
             /\ incident'[f].first = incident[f].first /\ incident'[f].last = incident[f].last
             /\ incident'[f].detail = incident[f].detail
             /\ incident'[f].version >= incident[f].version
             /\ incident'[f].version = incident[f].version => events'[f] = events[f]
             /\ Chain(events'[f], incident'[f].version)
             /\ IF f \in Existing THEN incident'[f].status = Before(events'[f], Len(events'[f]) + 1)
                ELSE events'[f] = <<>>
  <2>1. /\ Chain(events[f], incident[f].version)
        /\ IF f \in Existing THEN incident[f].status = Before(events[f], Len(events[f]) + 1)
           ELSE events[f] = <<>>
    BY DEF IInv, Decided
  <2>2. CASE f \notin Changed(o)
    <3>1. incident'[f] = incident[f] /\ events'[f] = events[f]  BY <2>2, ChangedRows
    <3>2. incident[f].version >= incident[f].version  BY <1>3 DEF Rows
    <3> QED  BY <3>1, <3>2, <2>1, <1>3
  <2>3. CASE f \in Changed(o)
    <3> DEFINE s == request[o].status
               v == incident[f].version
               turn == [version |-> v + 1, from |-> incident[f].status, to |-> s]
    <3>1. /\ f \in Existing /\ s \in {"open", "closed"} /\ v \in Nat /\ incident[f].status # s
          /\ incident'[f] = [incident[f] EXCEPT !.status = s, !.version = v + 1]
          /\ events'[f] = Append(events[f], turn)
      <4>1. Changed(o) # {} /\ v \in Nat  BY <2>3, <1>3 DEF Rows
      <4> QED  BY <4>1, <2>3, ChangedRows, Zenon
    <3>2. incident[f].status \in {"open", "closed"}
      <4>1. incident[f].status = Before(events[f], Len(events[f]) + 1)  BY <3>1, <2>1
      <4>2. Len(events[f]) \in Nat  BY <1>3, LenProperties
      <4>3. CASE Len(events[f]) = 0  BY <4>1, <4>3 DEF Before
      <4>4. CASE Len(events[f]) # 0
        <5>1. Len(events[f]) + 1 # 1 /\ Len(events[f]) + 1 - 1 = Len(events[f])
              /\ Len(events[f]) \in 1..Len(events[f])
          BY <4>2, <4>4
        <5>2. events[f][Len(events[f])] \in Event  BY <5>1, <1>3, ElementOfSeq
        <5> QED  BY <4>1, <5>1, <5>2 DEF Before, Event
      <4> QED  BY <4>3, <4>4
    <3> HIDE DEF s, v
    <3>3. turn \in Event /\ turn.version = v + 1 /\ turn.from = incident[f].status /\ turn.to = s
      BY <3>1, <3>2 DEF Event
    <3> HIDE DEF turn
    <3>4. /\ events'[f] \in Seq(Event) /\ Chain(events'[f], v + 1)
          /\ Before(events'[f], Len(events'[f]) + 1) = s
      <4>1. Chain(events[f], v) /\ turn.from = Before(events[f], Len(events[f]) + 1) /\ turn.to # turn.from
        BY <2>1, <3>1, <3>3 DEF v
      <4> QED  BY <4>1, <3>1, <3>3, <1>3, OneDecisionMore
    <3>5. /\ incident'[f] \in Rows /\ incident'[f].status = s /\ incident'[f].version = v + 1
          /\ incident'[f].first = incident[f].first /\ incident'[f].last = incident[f].last
          /\ incident'[f].detail = incident[f].detail
      <4>1. v + 1 \in Nat /\ s \in Statuses  BY <3>1 DEF Statuses
      <4> QED  BY <4>1, <3>1, <1>3 DEF Rows
    <3>6. v + 1 >= v /\ v + 1 # v  BY <3>1
    <3> QED  BY <3>1, <3>4, <3>5, <3>6 DEF v
  <2> QED  BY <2>2, <2>3
<1>5. Tables'
  <2>1. incident' \in [Findings -> Rows]  BY <1>1, <1>4, Zenon
  <2>2. events' \in [Findings -> Seq(Event)]  BY <1>1, <1>4, Zenon
  <2> QED  BY <2>1, <2>2, <1>1 DEF IInv, Tables
<1>6. RowTellsObservations'  BY <1>1, <1>2, <1>4 DEF IInv, RowTellsObservations
<1>7. Decided'  BY <1>2, <1>4 DEF Decided
<1>8. RequestsAreShown'
  <2>1. Existing \subseteq Findings  BY ExistingTyped
  <2>2. \A f \in Existing :
          /\ incident[f].version \in Nat /\ incident'[f].version \in Nat
          /\ incident'[f].version >= incident[f].version
          /\ incident'[f].version = incident[f].version =>
               observations'[f] = observations[f] /\ events'[f] = events[f]
    BY <2>1, <1>1, <1>3, <1>4 DEF Rows
  <2> QED  BY <2>2, <1>2, RequestsStay
<1> QED  BY <1>2, <1>5, <1>6, <1>7, <1>8 DEF IInv

LEMMA ConflictStep == ASSUME IInv, NEW o \in Operators, Conflict(o) PROVE IInv'
<1>1. Respond(o) /\ stage[o] = "submitted" /\ UNCHANGED data  BY DEF Conflict, Respond, data
<1> QED  BY <1>1, RespondStep, SameTables, SameRequests DEF IInv

LEMMA AbortStep == ASSUME IInv, NEW t \in Txns, Abort(t) PROVE IInv'
<1>1. /\ stage[t] \in {"applying", "locking", "submitted"} /\ Release(t)
      /\ stage' = [stage EXCEPT ![t] = "idle"] /\ want' = [want EXCEPT ![t] = None]
      /\ ingesting' = (IF t = Worker THEN Idle ELSE ingesting)
      /\ request' = [o \in Operators |-> IF o = t THEN NoRequest ELSE request[o]]
      /\ UNCHANGED data /\ UNCHANGED notices /\ created' = created
  BY DEF Abort, data
<1>2. \A u \in Txns : stage'[u] = (IF u = t THEN "idle" ELSE stage[u]) /\ (u # t => want'[u] = want[u])
  BY <1>1 DEF IInv, Locks
<1>3. Worker \in Txns  BY DEF Txns
<1>4. Locks'  BY <1>1, ReleaseLocks
<1>5. Applying'
  <2>1. CASE t = Worker
    <3>1. ingesting'.done = {} /\ ingesting'.new = <<>> /\ stage'[Worker] = "idle"
      BY <1>1, <1>2, <1>3, <2>1 DEF Idle
    <3>2. InSeq(<<>>) = {} /\ Injective(<<>>) /\ <<>> \in Seq(Findings)  BY EmptySeq DEF InSeq, Injective
    <3> QED  BY <3>1, <3>2 DEF Applying
  <2>2. CASE t # Worker
    <3>1. UNCHANGED <<created, ingesting>> /\ stage'[Worker] = stage[Worker] /\ want'[Worker] = want[Worker]
      BY <1>1, <1>2, <1>3, <2>2
    <3> QED  BY <3>1, SameApplying
  <2> QED  BY <2>1, <2>2
<1>6. stage'[Worker] = "announced" <=> stage[Worker] = "announced"  BY <1>1, <1>2, <1>3
<1>7. \A o \in Operators : request'[o] = request[o] \/ request'[o] = NoRequest  BY <1>1
<1> QED  BY <1>1, <1>4, <1>5, <1>6, <1>7, SameTables, SameRequests, SameTold DEF IInv

----------------------------------------------------------------------------

LEMMA StutterStep == ASSUME IInv, UNCHANGED vars PROVE IInv'
<1>1. UNCHANGED data /\ UNCHANGED notices /\ UNCHANGED <<created, rowLock, stage, ingesting, want, request>>
  BY DEF vars, data
<1>2. Locks'  BY <1>1 DEF IInv, Locks
<1>3. Applying'  BY <1>1, SameApplying
<1> QED  BY <1>1, <1>2, <1>3, SameTables, SameRequests, SameTold DEF IInv

LEMMA NextIInv == IInv /\ [Next]_vars => IInv'
<1> SUFFICES ASSUME IInv, [Next]_vars PROVE IInv'  OBVIOUS
<1>1. CASE Ingesting
  BY <1>1, ApplyFindingStep, CommitStep, NextFindingStep DEF Ingesting
<1>2. CASE SendNotice \/ Acknowledge \/ LoseNotice  BY <1>2, SendStep, AnswerStep
<1>3. CASE \E w \in Windows : BeginIngest(w)  BY <1>3, BeginStep
<1>4. CASE \E o \in Operators : Request(o)
  BY <1>4, LockNextStep, LockRowStep, TransitionStep, ConflictStep DEF Request
<1>5. CASE \E o \in Operators, chosen \in SUBSET Findings, s \in {"open", "closed"} : Decide(o, chosen, s)
  BY <1>5, DecideStep
<1>6. CASE \E t \in Txns : Abort(t)  BY <1>6, AbortStep
<1>7. CASE UNCHANGED vars  BY <1>7, StutterStep
<1> QED  BY <1>1, <1>2, <1>3, <1>4, <1>5, <1>6, <1>7 DEF Next

LEMMA Consequences == IInv => IncidentsAreTrue
<1> SUFFICES ASSUME IInv PROVE IncidentsAreTrue  OBVIOUS
<1>1. TypeOK
  <2>1. \A f \in Findings : events[f] \in Seq([version : Nat, from : {"open", "closed"}, to : {"open", "closed"}])
    BY DEF IInv, Tables, Event
  <2>2. \A t \in Txns : (stage[t] = "locking") = (want[t] # None)  BY DEF IInv, Locks
  <2> QED  BY <2>1, <2>2 DEF IInv, Tables, Ids, Locks, Told, Injective, TypeOK, Rows, Statuses
<1>2. EventsTellStatus
  <2> SUFFICES ASSUME NEW f \in Existing
               PROVE  LET turns == events[f]
                          before(i) == IF i = 1 THEN "open" ELSE turns[i - 1].to
                      IN  /\ \A i \in 1..Len(turns) : turns[i].from = before(i) /\ turns[i].to # turns[i].from
                          /\ \A i, j \in 1..Len(turns) : i < j => turns[i].version < turns[j].version
                          /\ incident[f].status = before(Len(turns) + 1)
    BY DEF EventsTellStatus
  <2>1. /\ Chain(events[f], incident[f].version)
        /\ incident[f].status = Before(events[f], Len(events[f]) + 1)
    BY ExistingTyped DEF IInv, Decided
  <2> QED  BY <2>1 DEF Chain, Before
<1>3. AnnouncedOnce
  <2> SUFFICES ASSUME NEW i \in 1..Len(created)
               PROVE  (i <= notified => announced[created[i]] >= 1) /\ announced[created[i]] <= 1 + lost
    BY DEF AnnouncedOnce
  <2>1. created[i] \in Findings  BY ElementOfSeq DEF IInv, Ids
  <2>2. announced[created[i]] \in Nat /\ lost \in Nat  BY <2>1, StoreAssumption DEF IInv, Told
  <2> QED  BY <2>2 DEF IInv, Told
<1> QED  BY <1>1, <1>2, <1>3 DEF IInv, IncidentsAreTrue

\* store.py, fleet.py: in whatever order reviews are ingested, retried and aborted and
\* operators decide, the rows tell the observations, the events explain the status and
\* incidents are announced once unless an answer was lost: for any findings, windows,
\* operators and bounds.
THEOREM IncidentsAreTrueHolds == Spec => []IncidentsAreTrue
BY InitIInv, NextIInv, Consequences, PTL DEF Spec

\* store.py: a decision that turns an incident's status was made on what the incident was
\* when it was made, and its whole selection is turned with it.
THEOREM DecisionsAreInformedHolds == Spec => DecisionsAreInformed
<1> DEFINE Informed ==
      \A f \in Existing :
        incident'[f].status # incident[f].status =>
          \E o \in Operators :
            /\ f \in Selected(o)
            /\ \A c \in request[o].selection :
                 /\ c.saw = <<observations[c.finding], Len(events[c.finding])>>
                 /\ incident'[c.finding].status = request[o].status
<1>1. ASSUME IInv, [Next]_vars PROVE [Informed]_vars
  <2> SUFFICES ASSUME NEW f \in Existing, incident'[f].status # incident[f].status
               PROVE  \E o \in Operators :
                        /\ f \in Selected(o)
                        /\ \A c \in request[o].selection :
                             /\ c.saw = <<observations[c.finding], Len(events[c.finding])>>
                             /\ incident'[c.finding].status = request[o].status
    BY Zenon
  <2>1. f \in Findings  BY <1>1, ExistingTyped
  <2>2. ~CommitIngest
    <3> SUFFICES ASSUME CommitIngest PROVE FALSE  OBVIOUS
    <3>1. incident'[f] = (IF f \in ingesting.done THEN Ingested(f, ingesting.window) ELSE incident[f])
      BY <2>1 DEF CommitIngest
    <3>2. ingesting.window \in Windows  BY <1>1 DEF CommitIngest, IInv, Applying
    <3>3. Tables /\ RowTellsObservations  BY <1>1 DEF IInv
    <3>4. Ingested(f, ingesting.window).status = incident[f].status  BY <2>1, <3>2, <3>3, IngestedRow
    <3> QED  BY <3>1, <3>4
  <2>3. \E o \in Operators : Transition(o)
    <3>1. incident' # incident  OBVIOUS
    <3> QED  BY <1>1, <2>2, <3>1 DEF Next, Ingesting, Request, ApplyFinding, NextFinding, SendNotice,
                 Acknowledge, LoseNotice, BeginIngest, LockNext, LockRow, Conflict, Decide, Abort, data, vars
  <2>4. PICK o \in Operators : Transition(o)  BY <2>3
  <2>5. f \in Changed(o)  BY <1>1, <2>1, <2>4, ChangedRows
  <2>6. f \in Selected(o)  BY <2>5 DEF Changed
  <2>7. ASSUME NEW c \in request[o].selection
        PROVE  /\ c.saw = <<observations[c.finding], Len(events[c.finding])>>
               /\ incident'[c.finding].status = request[o].status
    <3>1. Shown(c) /\ c.finding \in Existing  BY <1>1 DEF IInv, RequestsAreShown, Shown
    <3>2. c.version = incident[c.finding].version  BY <2>4 DEF Transition, Current
    <3>3. c.finding \in Findings /\ incident[c.finding] \in Rows  BY <3>1, <1>1, ExistingTyped DEF IInv, Tables
    <3>4. c.finding \in Selected(o)  BY DEF Selected
    <3>5. CASE c.finding \in Changed(o)
      <4>1. incident'[c.finding] = [incident[c.finding] EXCEPT !.status = request[o].status,
                                                               !.version = incident[c.finding].version + 1]
        BY <1>1, <2>4, <3>5, ChangedRows
      <4>2. incident'[c.finding].status = request[o].status  BY <4>1, <3>3 DEF Rows
      <4> QED  BY <3>1, <3>2, <4>2 DEF Shown
    <3>6. CASE c.finding \notin Changed(o)
      <4>1. incident'[c.finding] = incident[c.finding]  BY <1>1, <2>4, <3>3, <3>6, ChangedRows
      <4>2. incident[c.finding].status = request[o].status  BY <3>4, <3>6 DEF Changed
      <4> QED  BY <3>1, <3>2, <4>1, <4>2 DEF Shown
    <3> QED  BY <3>5, <3>6
  <2> QED  BY <2>6, <2>7
<1>2. IInv /\ [Next]_vars => [Informed]_vars  BY <1>1
<1>3. Spec => [][Informed]_vars
  <2> HIDE DEF Informed
  <2> QED  BY <1>2, InitIInv, NextIInv, PTL DEF Spec
<1> QED  BY <1>3 DEF DecisionsAreInformed

----------------------------------------------------------------------------
(* Requests take their rows in the order of id: of the rows of a request, those it holds *)
(* come before those it does not hold yet, and it waits for the first of these.          *)

InOrder(o) ==
  /\ \A f \in Findings : rowLock[f] = o => f \in Selected(o)
  /\ \A i, j \in 1..Len(created) : created[i] \in Unlocked(o) /\ rowLock[created[j]] = o => j < i
  /\ stage[o] = "locking" =>
       /\ want[o] \in Unlocked(o)
       /\ \A i, j \in 1..Len(created) : created[i] = want[o] /\ created[j] \in Unlocked(o) => i <= j

Ordered == \A o \in Operators : InOrder(o)

LEMMA SelectedExist ==
  ASSUME IInv, NEW o \in Operators
  PROVE  Selected(o) \subseteq Existing /\ Unlocked(o) \subseteq Existing
BY DEF Selected, Unlocked, IInv, RequestsAreShown, Shown

\* A request that nobody touches stays in order, whatever is appended to the incidents.
LEMMA UntouchedInOrder ==
  ASSUME IInv, NEW o \in Operators, InOrder(o),
         \A f \in Findings : rowLock'[f] = o <=> rowLock[f] = o,
         request'[o] = request[o], stage'[o] = stage[o], want'[o] = want[o],
         Len(created) \in Nat, Len(created') \in Nat, Len(created) <= Len(created'),
         \A i \in 1..Len(created) : created'[i] = created[i],
         \A i \in 1..Len(created') : created'[i] \in Findings /\ (i > Len(created) => created'[i] \notin Existing)
  PROVE  InOrder(o)'
<1>1. Selected(o)' = Selected(o)  BY DEF Selected
<1>2. Unlocked(o)' = Unlocked(o)
  <2>1. Selected(o) \subseteq Findings  BY SelectedExist, ExistingTyped
  <2> QED  BY <1>1, <2>1 DEF Unlocked
<1>3. ASSUME NEW i \in 1..Len(created'), created'[i] \in Selected(o)
      PROVE  i \in 1..Len(created) /\ created'[i] = created[i]
  BY <1>3, SelectedExist
<1>4. \A i \in 1..Len(created') : rowLock'[created'[i]] = o => created'[i] \in Selected(o)
  BY DEF InOrder
<1>5. ASSUME NEW i \in 1..Len(created'), NEW j \in 1..Len(created'),
             created'[i] \in Unlocked(o), rowLock'[created'[j]] = o
      PROVE  j < i
  <2>1. created'[i] \in Selected(o) /\ created'[j] \in Selected(o)  BY <1>4, <1>5 DEF Unlocked
  <2>2. i \in 1..Len(created) /\ j \in 1..Len(created) /\ created'[i] = created[i] /\ created'[j] = created[j]
    BY <1>3, <2>1
  <2>3. rowLock[created[j]] = o  BY <1>5, <2>2
  <2> QED  BY <1>5, <2>2, <2>3 DEF InOrder
<1>6. ASSUME stage'[o] = "locking", NEW i \in 1..Len(created'), NEW j \in 1..Len(created'),
             created'[i] = want'[o], created'[j] \in Unlocked(o)
      PROVE  i <= j
  <2>1. created'[i] \in Selected(o) /\ created'[j] \in Selected(o)  BY <1>6 DEF InOrder, Unlocked
  <2>2. i \in 1..Len(created) /\ j \in 1..Len(created) /\ created'[i] = created[i] /\ created'[j] = created[j]
    BY <1>3, <2>1
  <2> QED  BY <1>6, <2>2 DEF InOrder
<1> QED  BY <1>1, <1>2, <1>5, <1>6 DEF InOrder

\* The incidents stay as they are.
LEMMA SameInOrder ==
  ASSUME IInv, NEW o \in Operators, InOrder(o), created' = created,
         \A f \in Findings : rowLock'[f] = o <=> rowLock[f] = o,
         request'[o] = request[o], stage'[o] = stage[o], want'[o] = want[o]
  PROVE  InOrder(o)'
<1>1. /\ Len(created) \in Nat /\ Len(created) <= Len(created')
      /\ \A i \in 1..Len(created') : created'[i] \in Findings /\ ~(i > Len(created))
  BY LenProperties, ElementOfSeq DEF IInv, Ids
<1> QED  BY <1>1, UntouchedInOrder

\* A request that is over, or not begun, holds nothing.
LEMMA IdleInOrder ==
  ASSUME NEW o \in Operators, \A f \in Findings : rowLock'[f] # o, stage'[o] # "locking",
         \A i \in 1..Len(created') : created'[i] \in Findings
  PROVE  InOrder(o)'
BY DEF InOrder

LEMMA CreatedTyped == IInv => \A i \in 1..Len(created) : created[i] \in Findings
BY ElementOfSeq DEF IInv, Ids

LEMMA InitOrdered == Init => Ordered
<1> SUFFICES ASSUME Init, NEW o \in Operators PROVE InOrder(o)  BY DEF Ordered
<1>1. Len(created) = 0 /\ created = <<>>  BY EmptySeq DEF Init
<1>2. \A f \in Findings : rowLock[f] # o  BY StoreAssumption DEF Init
<1>3. stage[o] = "idle"  BY DEF Init, Txns
<1> QED  BY <1>1, <1>2, <1>3 DEF InOrder

\* The worker's steps, and those of other operators.
LEMMA OthersOrdered ==
  ASSUME IInv, Ordered, NEW t \in Txns, NEW o \in Operators, o # t, created' = created,
         \A f \in Findings : rowLock'[f] # rowLock[f] => rowLock'[f] \in {t, None} /\ rowLock[f] \in {t, None},
         \A u \in Txns : u # t => stage'[u] = stage[u] /\ want'[u] = want[u], request'[o] = request[o]
  PROVE  InOrder(o)'
<1>1. o \in Txns /\ o # None  BY NotTheWorker
<1>2. \A f \in Findings : rowLock'[f] = o <=> rowLock[f] = o  BY <1>1
<1> QED  BY <1>1, <1>2, SameInOrder DEF Ordered

LEMMA WorkerOrdered ==
  ASSUME IInv, Ordered,
         \/ Ingesting \/ SendNotice \/ Acknowledge \/ LoseNotice
         \/ \E w \in Windows : BeginIngest(w)
  PROVE  Ordered'
<1> SUFFICES ASSUME NEW o \in Operators PROVE InOrder(o)'  BY DEF Ordered
<1>1. /\ Worker \in Txns /\ o # Worker /\ o \in Txns /\ o # None
      /\ \A f \in Findings : rowLock[f] \in Txns \cup {None}
      /\ stage \in [Txns -> {"idle", "applying", "submitted", "locking", "announced"}]
      /\ want \in [Txns -> Findings \cup {None}] /\ rowLock \in [Findings -> Txns \cup {None}]
  BY NotTheWorker DEF Txns, IInv, Locks
<1>2. request' = request
  BY DEF Ingesting, ApplyFinding, CommitIngest, NextFinding, SendNotice, Acknowledge, LoseNotice, BeginIngest
<1>3. CASE CommitIngest
  <2>1. /\ created' = created \o ingesting.new
        /\ \A f \in Findings : rowLock'[f] = (IF rowLock[f] = Worker THEN None ELSE rowLock[f])
        /\ stage'[o] = stage[o] /\ want'[o] = want[o]
    BY <1>1, <1>3 DEF CommitIngest, Release
  <2>2. /\ created \in Seq(Findings) /\ Injective(created)
        /\ ingesting.new \in Seq(Findings) /\ Injective(ingesting.new)
        /\ InSeq(created) \cap InSeq(ingesting.new) = {}
    BY DEF IInv, Ids, Applying, Existing
  <2>3. /\ Len(created') = Len(created) + Len(ingesting.new)
        /\ Len(created) \in Nat /\ Len(ingesting.new) \in Nat
        /\ \A i \in 1..Len(created) : created'[i] = created[i]
        /\ \A i \in Len(created) + 1..Len(created) + Len(ingesting.new) : created'[i] \in InSeq(ingesting.new)
        /\ created' \in Seq(Findings)
    BY <2>1, <2>2, TwoAreJoined
  <2>4. \A i \in 1..Len(created') :
          created'[i] \in Findings /\ (i > Len(created) => created'[i] \notin Existing)
    <3>1. \A i \in 1..Len(created') : created'[i] \in Findings  BY <2>3, ElementOfSeq
    <3>2. ASSUME NEW i \in 1..Len(created'), i > Len(created) PROVE created'[i] \notin Existing
      <4>1. i \in Len(created) + 1..Len(created) + Len(ingesting.new)  BY <2>3, <3>2
      <4>2. created'[i] \in InSeq(ingesting.new)  BY <2>3, <4>1
      <4> QED  BY <2>2, <4>2 DEF Existing
    <3> QED  BY <3>1, <3>2
  <2>5. Len(created') \in Nat /\ Len(created) <= Len(created')  BY <2>3
  <2>6. \A f \in Findings : rowLock'[f] = o <=> rowLock[f] = o  BY <2>1, <1>1
  <2>7. InOrder(o)  BY DEF Ordered
  <2> QED  BY <1>2, <2>1, <2>3, <2>4, <2>5, <2>6, <2>7, UntouchedInOrder
<1>4. CASE ApplyFinding \/ (\E f \in Findings : NextFinding(f)) \/ SendNotice \/ Acknowledge \/ LoseNotice
           \/ \E w \in Windows : BeginIngest(w)
  <2>1. created' = created
    BY <1>4 DEF ApplyFinding, NextFinding, SendNotice, Acknowledge, LoseNotice, BeginIngest, data
  <2>2. \A u \in Txns : u # Worker => stage'[u] = stage[u] /\ want'[u] = want[u]
    BY <1>1, <1>4 DEF ApplyFinding, NextFinding, SendNotice, Acknowledge, LoseNotice, BeginIngest
  <2>3. \A f \in Findings : rowLock'[f] # rowLock[f] => rowLock'[f] \in {Worker, None} /\ rowLock[f] \in {Worker, None}
    BY <1>1, <1>4 DEF ApplyFinding, Lock, NextFinding, SendNotice, Acknowledge, LoseNotice, BeginIngest
  <2> QED  BY <1>1, <1>2, <2>1, <2>2, <2>3, OthersOrdered
<1> QED  BY <1>3, <1>4 DEF Ingesting

LEMMA DecideOrdered ==
  ASSUME IInv, Ordered, NEW o \in Operators, NEW chosen \in SUBSET Findings, NEW s \in {"open", "closed"},
         Decide(o, chosen, s)
  PROVE  Ordered'
<1>1. /\ stage[o] = "idle" /\ stage' = [stage EXCEPT ![o] = "submitted"] /\ created' = created
      /\ UNCHANGED <<rowLock, want>> /\ \A p \in Operators : p # o => request'[p] = request[p]
  BY DEF Decide, data
<1>2. \A u \in Txns : stage'[u] = (IF u = o THEN "submitted" ELSE stage[u])  BY <1>1 DEF IInv, Locks
<1>3. InOrder(o)'
  <2>1. \A f \in Findings : rowLock'[f] # o  BY <1>1, NotTheWorker DEF IInv, Locks
  <2>2. stage'[o] # "locking"  BY <1>2, NotTheWorker
  <2> QED  BY <1>1, <2>1, <2>2, CreatedTyped, IdleInOrder
<1>4. \A p \in Operators : p # o => InOrder(p)'  BY <1>1, <1>2, NotTheWorker, OthersOrdered
<1> QED  BY <1>3, <1>4 DEF Ordered

\* A request that ends.
LEMMA EndOrdered ==
  ASSUME IInv, Ordered, NEW t \in Txns, Release(t), created' = created,
         stage' = [stage EXCEPT ![t] = "idle"], want' = [want EXCEPT ![t] = None],
         \A p \in Operators : p # t => request'[p] = request[p]
  PROVE  Ordered'
<1>1. \A f \in Findings : rowLock'[f] = (IF rowLock[f] = t THEN None ELSE rowLock[f])  BY DEF Release
<1>2. \A u \in Txns : stage'[u] = (IF u = t THEN "idle" ELSE stage[u]) /\ want'[u] = (IF u = t THEN None ELSE want[u])
  BY DEF IInv, Locks
<1>3. \A p \in Operators : p # t => InOrder(p)'  BY <1>1, <1>2, OthersOrdered
<1>4. t \in Operators => InOrder(t)'
  <2> SUFFICES ASSUME t \in Operators PROVE InOrder(t)'  OBVIOUS
  <2>1. (\A f \in Findings : rowLock'[f] # t) /\ stage'[t] # "locking"  BY <1>1, <1>2, NotTheWorker
  <2> QED  BY <2>1, CreatedTyped, IdleInOrder
<1> QED  BY <1>3, <1>4 DEF Ordered

LEMMA LockNextOrdered ==
  ASSUME IInv, Ordered, NEW o \in Operators, LockNext(o)
  PROVE  Ordered'
<1>1. /\ stage[o] = "submitted" /\ stage' = [stage EXCEPT ![o] = "locking"] /\ created' = created
      /\ UNCHANGED <<rowLock, request>>
  BY DEF LockNext, data
<1>2. PICK k \in 1..Len(created) :
        /\ created[k] \in Unlocked(o) /\ \A j \in 1..k - 1 : created[j] \notin Unlocked(o)
        /\ want' = [want EXCEPT ![o] = created[k]]
  BY DEF LockNext
<1>3. \A u \in Txns : /\ stage'[u] = (IF u = o THEN "locking" ELSE stage[u])
                      /\ want'[u] = (IF u = o THEN created[k] ELSE want[u])
  BY <1>1, <1>2 DEF IInv, Locks
<1>4. InOrder(o)'
  <2>1. Selected(o)' = Selected(o) /\ Unlocked(o)' = Unlocked(o)  BY <1>1 DEF Selected, Unlocked
  <2>2. want'[o] = created[k] /\ stage'[o] = "locking"  BY <1>3, NotTheWorker
  <2>3. \A i, j \in 1..Len(created) : created[i] = created[k] /\ created[j] \in Unlocked(o) => i <= j
    <3> SUFFICES ASSUME NEW i \in 1..Len(created), NEW j \in 1..Len(created),
                        created[i] = created[k], created[j] \in Unlocked(o)
                 PROVE  i <= j
      OBVIOUS
    <3>1. i = k /\ Len(created) \in Nat  BY LenProperties DEF IInv, Ids, Injective
    <3>2. j \notin 1..k - 1  BY <1>2
    <3> QED  BY <3>1, <3>2
  <2> QED  BY <1>1, <1>2, <2>1, <2>2, <2>3 DEF InOrder, Ordered
<1>5. \A p \in Operators : p # o => InOrder(p)'  BY <1>1, <1>3, NotTheWorker, OthersOrdered
<1> QED  BY <1>4, <1>5 DEF Ordered

LEMMA LockRowOrdered ==
  ASSUME IInv, Ordered, NEW o \in Operators, LockRow(o)
  PROVE  Ordered'
<1>1. /\ stage[o] = "locking" /\ stage' = [stage EXCEPT ![o] = "submitted"] /\ created' = created
      /\ want' = [want EXCEPT ![o] = None] /\ rowLock[want[o]] = None
      /\ rowLock' = [rowLock EXCEPT ![want[o]] = o] /\ UNCHANGED request
  BY DEF LockRow, Lock, data
<1>2. \A u \in Txns : /\ stage'[u] = (IF u = o THEN "submitted" ELSE stage[u])
                      /\ want'[u] = (IF u = o THEN None ELSE want[u])
  BY <1>1 DEF IInv, Locks
<1>3. /\ want[o] \in Unlocked(o) /\ want[o] \in Selected(o) /\ want[o] \in Findings
      /\ \A f \in Findings : rowLock'[f] = (IF f = want[o] THEN o ELSE rowLock[f])
  <2>1. want[o] \in Unlocked(o)  BY <1>1 DEF Ordered, InOrder
  <2>2. want[o] \in Findings  BY <2>1, SelectedExist, ExistingTyped
  <2> QED  BY <1>1, <2>1, <2>2 DEF Unlocked, IInv, Locks
<1>4. InOrder(o)'
  <2>1. Selected(o)' = Selected(o)  BY <1>1 DEF Selected
  <2>2. Unlocked(o)' = Unlocked(o) \ {want[o]}
    <3>1. Selected(o) \subseteq Findings  BY SelectedExist, ExistingTyped
    <3> QED  BY <2>1, <3>1, <1>3 DEF Unlocked
  <2>3. \A f \in Findings : rowLock'[f] = o => f \in Selected(o)  BY <1>3 DEF Ordered, InOrder
  <2>4. ASSUME NEW i \in 1..Len(created), NEW j \in 1..Len(created),
               created[i] \in Unlocked(o)', rowLock'[created[j]] = o
        PROVE  j < i
    <3>1. created[i] \in Unlocked(o) /\ created[i] # want[o] /\ created[j] \in Findings
      BY <2>2, <2>4, CreatedTyped
    <3>2. CASE created[j] = want[o]
      <4>1. j <= i  BY <1>1, <3>1, <3>2 DEF Ordered, InOrder
      <4>2. j # i  BY <3>1, <3>2
      <4> QED  BY <4>1, <4>2
    <3>3. CASE created[j] # want[o]
      <4>1. rowLock[created[j]] = o  BY <1>3, <2>4, <3>1, <3>3
      <4> QED  BY <3>1, <4>1 DEF Ordered, InOrder
    <3> QED  BY <3>2, <3>3
  <2>5. stage'[o] # "locking"  BY <1>2, NotTheWorker
  <2> QED  BY <1>1, <2>1, <2>3, <2>4, <2>5 DEF InOrder
<1>5. \A p \in Operators : p # o => InOrder(p)'
  <2>1. \A f \in Findings : rowLock'[f] # rowLock[f] => rowLock'[f] \in {o, None} /\ rowLock[f] \in {o, None}
    BY <1>1, <1>3
  <2> QED  BY <1>1, <1>2, <2>1, NotTheWorker, OthersOrdered
<1> QED  BY <1>4, <1>5 DEF Ordered

LEMMA NextOrdered == IInv /\ Ordered /\ [Next]_vars => Ordered'
<1> SUFFICES ASSUME IInv, Ordered, [Next]_vars PROVE Ordered'  OBVIOUS
<1>1. ASSUME NEW o \in Operators, Transition(o) \/ Conflict(o) PROVE Ordered'
  <2>1. Respond(o)  BY <1>1 DEF Transition, Conflict
  <2>2. /\ Release(o) /\ stage' = [stage EXCEPT ![o] = "idle"] /\ want' = [want EXCEPT ![o] = None]
        /\ created' = created
        /\ \A p \in Operators : p # o => request'[p] = request[p]
    BY <2>1 DEF Respond
  <2> QED  BY <2>2, EndOrdered, NotTheWorker
<1>2. ASSUME NEW t \in Txns, Abort(t) PROVE Ordered'
  <2>1. /\ Release(t) /\ stage' = [stage EXCEPT ![t] = "idle"] /\ want' = [want EXCEPT ![t] = None]
        /\ created' = created
        /\ \A p \in Operators : p # t => request'[p] = request[p]
    BY <1>2 DEF Abort, data
  <2> QED  BY <2>1, EndOrdered
<1>3. CASE UNCHANGED vars
  <2> SUFFICES ASSUME NEW o \in Operators PROVE InOrder(o)'  BY DEF Ordered
  <2>1. created' = created /\ UNCHANGED <<rowLock, request, stage, want>>  BY <1>3 DEF vars, data
  <2> QED  BY <2>1, SameInOrder DEF Ordered
<1>4. CASE \E o \in Operators : Request(o)
  BY <1>1, <1>4, LockNextOrdered, LockRowOrdered DEF Request
<1> QED  BY <1>2, <1>3, <1>4, WorkerOrdered, DecideOrdered DEF Next

\* In a circle of requests there would be, for every row that is waited for, a later one.
LEMMA NoCircle == IInv /\ Ordered => OperatorsDoNotDeadlock
<1> SUFFICES ASSUME IInv, Ordered, NEW circle \in (SUBSET Operators) \ {{}},
                    \A o \in circle : Blocker(o) \in circle
             PROVE  FALSE
  BY DEF OperatorsDoNotDeadlock
<1> DEFINE Waited(i) == \E o \in circle : want[o] = created[i]
           n == Len(created)
           left == {k \in Nat : \E i \in 1..n : Waited(i) /\ k = n - i}
<1>1. n \in Nat  BY LenProperties DEF IInv, Ids
<1>2. ASSUME NEW o \in circle
      PROVE  /\ stage[o] = "locking" /\ rowLock[want[o]] \in circle
             /\ \E i \in 1..n : want[o] = created[i]
  <2>1. o \in Operators /\ None \notin circle  BY NotTheWorker
  <2>2. stage[o] = "locking" /\ rowLock[want[o]] \in circle  BY <2>1 DEF Blocker
  <2>3. want[o] \in Existing  BY <2>1, <2>2, SelectedExist DEF Ordered, InOrder
  <2> QED  BY <2>2, <2>3 DEF Existing, InSeq
<1>3. ASSUME NEW i \in 1..n, Waited(i) PROVE \E k \in 1..n : Waited(k) /\ i < k
  <2>1. PICK o \in circle : want[o] = created[i]  BY <1>3
  <2>2. PICK p \in circle : rowLock[created[i]] = p  BY <1>2, <2>1
  <2>3. PICK k \in 1..n : want[p] = created[k]  BY <1>2
  <2>4. created[k] \in Unlocked(p)  BY <1>2, <2>3 DEF Ordered, InOrder
  <2>5. i < k  BY <2>2, <2>4 DEF Ordered, InOrder
  <2> QED  BY <2>3, <2>5
<1>4. left # {} /\ left \subseteq Nat
  <2>1. PICK o \in circle : TRUE  OBVIOUS
  <2>2. PICK i \in 1..n : want[o] = created[i]  BY <1>2
  <2>3. n - i \in Nat  BY <1>1
  <2> QED  BY <2>2, <2>3
<1> HIDE DEF Waited, n, left
<1>5. PICK least \in left : \A k \in left : ~(<<k, least>> \in OpToRel(<, Nat))
  BY <1>4, NatLessThanWellFounded, WFMin
<1>6. PICK i \in 1..n : Waited(i) /\ least = n - i  BY DEF left
<1>7. PICK k \in 1..n : Waited(k) /\ i < k  BY <1>3, <1>6
<1>8. n - k \in left /\ n - k < least  BY <1>1, <1>6, <1>7 DEF left
<1>9. <<n - k, least>> \in OpToRel(<, Nat)  BY <1>4, <1>8 DEF OpToRel
<1> QED  BY <1>5, <1>8, <1>9

\* store.py: requests on any number of incidents, by any number of operators, never wait
\* for each other in a circle, because each locks its rows in the order of id.
THEOREM OperatorsDoNotDeadlockHolds == Spec => []OperatorsDoNotDeadlock
BY InitIInv, NextIInv, InitOrdered, NextOrdered, NoCircle, PTL DEF Spec

----------------------------------------------------------------------------
(* Sequences of messages in the order of their timestamps *)

Increasing(s) == \A i, j \in 1..Len(s) : i < j => s[i] < s[j]

\* A message of a sequence of them.
LEMMA Elements == ASSUME NEW s \in Seq(Nat), NEW i \in 1..Len(s) PROVE s[i] \in Nat
OBVIOUS

\* A later message goes to the end.
LEMMA Appended ==
  ASSUME NEW s \in Seq(Nat), Increasing(s), NEW m \in Nat, \A x \in Members(s) : x < m
  PROVE  /\ Append(s, m) \in Seq(Nat) /\ Increasing(Append(s, m))
         /\ Members(Append(s, m)) = Members(s) \cup {m}
<1>1. /\ Append(s, m) \in Seq(Nat) /\ Len(Append(s, m)) = Len(s) + 1 /\ Append(s, m)[Len(s) + 1] = m
      /\ \A i \in 1..Len(s) : Append(s, m)[i] = s[i]
  OBVIOUS
<1>2. Increasing(Append(s, m))
  <2> SUFFICES ASSUME NEW i \in 1..Len(s) + 1, NEW j \in 1..Len(s) + 1, i < j
               PROVE  Append(s, m)[i] < Append(s, m)[j]
    BY <1>1 DEF Increasing
  <2>1. i \in 1..Len(s) /\ Append(s, m)[i] = s[i]  BY <1>1
  <2>2. CASE j = Len(s) + 1  BY <2>1, <2>2, <1>1 DEF Members
  <2>3. CASE j \in 1..Len(s)  BY <2>1, <2>3, <1>1 DEF Increasing
  <2> QED  BY <2>2, <2>3
<1>3. Members(Append(s, m)) = Members(s) \cup {m}
  <2>1. ASSUME NEW x \in Members(Append(s, m)) PROVE x \in Members(s) \cup {m}
    <3>1. PICK i \in 1..Len(s) + 1 : x = Append(s, m)[i]  BY <1>1 DEF Members
    <3> QED  BY <3>1, <1>1 DEF Members
  <2>2. ASSUME NEW x \in Members(s) PROVE x \in Members(Append(s, m))
    <3>1. PICK i \in 1..Len(s) : x = s[i]  BY DEF Members
    <3>2. i \in 1..Len(Append(s, m)) /\ x = Append(s, m)[i]  BY <3>1, <1>1
    <3> QED  BY <3>2 DEF Members
  <2>3. m \in Members(Append(s, m))
    <3>1. Len(s) + 1 \in 1..Len(Append(s, m))  BY <1>1
    <3> QED  BY <3>1, <1>1 DEF Members
  <2> QED  BY <2>1, <2>2, <2>3
<1> QED  BY <1>1, <1>2, <1>3

\* So do later messages.
LEMMA Joined ==
  ASSUME NEW s \in Seq(Nat), NEW t \in Seq(Nat), Increasing(s), Increasing(t),
         \A x \in Members(s), y \in Members(t) : x < y
  PROVE  s \o t \in Seq(Nat) /\ Increasing(s \o t) /\ Members(s \o t) = Members(s) \cup Members(t)
<1>1. /\ s \o t \in Seq(Nat) /\ Len(s \o t) = Len(s) + Len(t)
      /\ \A i \in 1..Len(s) : (s \o t)[i] = s[i]
      /\ \A i \in 1..Len(t) : (s \o t)[Len(s) + i] = t[i]
  OBVIOUS
<1>2. \A i \in 1..Len(s) + Len(t) :
        IF i <= Len(s) THEN i \in 1..Len(s) /\ (s \o t)[i] = s[i]
        ELSE i - Len(s) \in 1..Len(t) /\ (s \o t)[i] = t[i - Len(s)]
  <2>1. TAKE i \in 1..Len(s) + Len(t)
  <2>2. CASE i <= Len(s)  BY <2>2, <1>1
  <2>3. CASE ~(i <= Len(s))
    <3>1. i - Len(s) \in 1..Len(t) /\ Len(s) + (i - Len(s)) = i  BY <2>3
    <3> QED  BY <3>1, <2>3, <1>1
  <2> QED  BY <2>2, <2>3
<1>3. Increasing(s \o t)
  <2> SUFFICES ASSUME NEW i \in 1..Len(s) + Len(t), NEW j \in 1..Len(s) + Len(t), i < j
               PROVE  (s \o t)[i] < (s \o t)[j]
    BY <1>1 DEF Increasing
  <2>1. CASE j <= Len(s)
    <3>1. i <= Len(s)  BY <2>1
    <3> QED  BY <2>1, <3>1, <1>2 DEF Increasing
  <2>2. CASE ~(j <= Len(s)) /\ i <= Len(s)
    <3>1. (s \o t)[i] \in Members(s) /\ (s \o t)[j] \in Members(t)  BY <2>2, <1>2 DEF Members
    <3> QED  BY <3>1
  <2>3. CASE ~(i <= Len(s))
    <3>1. ~(j <= Len(s))  BY <2>3
    <3>2. i - Len(s) < j - Len(s)  OBVIOUS
    <3> QED  BY <2>3, <3>1, <3>2, <1>2 DEF Increasing
  <2> QED  BY <2>1, <2>2, <2>3
<1>4. Members(s \o t) = Members(s) \cup Members(t)
  <2>1. ASSUME NEW x \in Members(s \o t) PROVE x \in Members(s) \cup Members(t)
    <3>1. PICK i \in 1..Len(s) + Len(t) : x = (s \o t)[i]  BY <1>1 DEF Members
    <3> QED  BY <3>1, <1>2 DEF Members
  <2>2. ASSUME NEW x \in Members(s) PROVE x \in Members(s \o t)
    <3>1. PICK i \in 1..Len(s) : x = s[i]  BY DEF Members
    <3>2. i \in 1..Len(s \o t) /\ x = (s \o t)[i]  BY <3>1, <1>1
    <3> QED  BY <3>2 DEF Members
  <2>3. ASSUME NEW x \in Members(t) PROVE x \in Members(s \o t)
    <3>1. PICK i \in 1..Len(t) : x = t[i]  BY DEF Members
    <3>2. Len(s) + i \in 1..Len(s \o t) /\ x = (s \o t)[Len(s) + i]  BY <3>1, <1>1
    <3> QED  BY <3>2 DEF Members
  <2> QED  BY <2>1, <2>2, <2>3
<1> QED  BY <1>1, <1>3, <1>4

\* The earliest message is the first.
LEMMA Beheaded ==
  ASSUME NEW s \in Seq(Nat), Increasing(s), s # <<>>
  PROVE  /\ Head(s) \in Members(s) /\ Tail(s) \in Seq(Nat) /\ Increasing(Tail(s))
         /\ Members(Tail(s)) = Members(s) \ {Head(s)}
         /\ \A x \in Members(Tail(s)) : Head(s) < x
<1>1. /\ Len(s) \in Nat \ {0} /\ Head(s) = s[1] /\ 1 \in 1..Len(s)
      /\ Tail(s) \in Seq(Nat) /\ Len(Tail(s)) = Len(s) - 1
      /\ \A i \in 1..Len(s) - 1 : Tail(s)[i] = s[i + 1]
  OBVIOUS
<1>2. Head(s) \in Members(s)  BY <1>1 DEF Members
<1>3. Increasing(Tail(s))
  <2> SUFFICES ASSUME NEW i \in 1..Len(s) - 1, NEW j \in 1..Len(s) - 1, i < j PROVE Tail(s)[i] < Tail(s)[j]
    BY <1>1 DEF Increasing
  <2>1. i + 1 \in 1..Len(s) /\ j + 1 \in 1..Len(s) /\ i + 1 < j + 1  OBVIOUS
  <2> QED  BY <2>1, <1>1 DEF Increasing
<1>4. \A x \in Members(Tail(s)) : x \in Members(s) /\ Head(s) < x
  <2>1. TAKE x \in Members(Tail(s))
  <2>2. PICK i \in 1..Len(s) - 1 : x = s[i + 1]  BY <1>1 DEF Members
  <2>3. i + 1 \in 1..Len(s) /\ 1 < i + 1  OBVIOUS
  <2> QED  BY <2>2, <2>3, <1>1 DEF Members, Increasing
<1>5. \A x \in Members(s) \ {Head(s)} : x \in Members(Tail(s))
  <2>1. TAKE x \in Members(s) \ {Head(s)}
  <2>2. PICK i \in 1..Len(s) : x = s[i]  BY DEF Members
  <2>3. i - 1 \in 1..Len(Tail(s)) /\ (i - 1) + 1 = i  BY <2>2, <1>1
  <2>4. x = Tail(s)[i - 1]  BY <2>2, <2>3, <1>1
  <2> QED  BY <2>3, <2>4 DEF Members
<1>6. Head(s) \notin Members(Tail(s))
  <2>1. Head(s) \in Nat  BY <1>1
  <2> QED  BY <2>1, <1>4
<1> QED  BY <1>1, <1>2, <1>3, <1>4, <1>5, <1>6

\* A set of numbers that is not empty has a least one.
LEMMA LeastOne ==
  ASSUME NEW T, T \subseteq Nat, T # {}
  PROVE  \E k \in T : \A i \in T : k <= i
<1>1. PICK k \in T : \A i \in T : ~(<<i, k>> \in OpToRel(<, Nat))
  BY NatLessThanWellFounded, WFMin
<1>2. ASSUME NEW i \in T PROVE k <= i
  <2>1. SUFFICES ASSUME i < k PROVE FALSE  OBVIOUS
  <2>2. <<i, k>> \in OpToRel(<, Nat)  BY <2>1 DEF OpToRel
  <2> QED  BY <2>2, <1>1
<1> QED  BY <1>2

\* What Kept computes of the first messages, of which s has some number.
Computes(kept, s, S, n) ==
  kept = [k \in 0..n |-> IF k = 0 THEN <<>> ELSE IF s[k] \in S THEN Append(kept[k - 1], s[k]) ELSE kept[k - 1]]

\* The definition of Kept defines something ...
LEMMA KeptIsComputed ==
  ASSUME NEW s \in Seq(Nat), NEW S
  PROVE  \E kept : Computes(kept, s, S, Len(s)) /\ Kept(s, S) = kept[Len(s)]
<1> DEFINE Undefined == {n \in 0..Len(s) : ~\E kept : Computes(kept, s, S, n)}
<1>1. Undefined = {}
  <2> SUFFICES ASSUME Undefined # {} PROVE FALSE  OBVIOUS
  <2>1. PICK n \in Undefined : \A i \in Undefined : n <= i
    <3>1. Undefined \subseteq Nat  OBVIOUS
    <3> QED  BY <3>1, LeastOne
  <2>2. CASE n = 0
    <3>1. Computes([k \in 0..0 |-> <<>>], s, S, 0)  BY DEF Computes
    <3> QED  BY <2>2, <3>1
  <2>3. CASE n # 0
    <3>1. n - 1 \in 0..Len(s) /\ n - 1 \notin Undefined  BY <2>1, <2>3
    <3>2. PICK kept : Computes(kept, s, S, n - 1)  BY <3>1
    <3>3. PICK last : last = IF s[n] \in S THEN Append(kept[n - 1], s[n]) ELSE kept[n - 1]  OBVIOUS
    <3>4. PICK more : more = [k \in 0..n |-> IF k = n THEN last ELSE kept[k]]  OBVIOUS
    <3>5. \A k \in 0..n : more[k] = IF k = 0 THEN <<>> ELSE IF s[k] \in S THEN Append(more[k - 1], s[k]) ELSE more[k - 1]
      <4>1. TAKE k \in 0..n
      <4>2. CASE k = n  BY <4>2, <2>3, <3>3, <3>4
      <4>3. CASE k # n
        <5>1. k \in 0..n - 1 /\ more[k] = kept[k] /\ (k # 0 => more[k - 1] = kept[k - 1])  BY <4>3, <3>4
        <5>2. kept[k] = IF k = 0 THEN <<>> ELSE IF s[k] \in S THEN Append(kept[k - 1], s[k]) ELSE kept[k - 1]
          BY <5>1, <3>2 DEF Computes
        <5> QED  BY <5>1, <5>2
      <4> QED  BY <4>2, <4>3
    <3>6. Computes(more, s, S, n)  BY <3>4, <3>5 DEF Computes
    <3> QED  BY <3>6
  <2> QED  BY <2>2, <2>3
<1>2. Len(s) \notin Undefined  BY <1>1
<1>3. \E kept : Computes(kept, s, S, Len(s))  BY <1>2
<1>4. PICK kept : kept = CHOOSE f : Computes(f, s, S, Len(s))  OBVIOUS
<1>5. Computes(kept, s, S, Len(s))  BY <1>3, <1>4
<1>6. Kept(s, S) = kept[Len(s)]  BY <1>4 DEF Kept, Computes
<1> QED  BY <1>5, <1>6

\* ... which are the messages of S, in their order.
LEMMA KeptFacts ==
  ASSUME NEW s \in Seq(Nat), Increasing(s), NEW S
  PROVE  Kept(s, S) \in Seq(Nat) /\ Increasing(Kept(s, S)) /\ Members(Kept(s, S)) = Members(s) \cap S
<1>1. PICK kept : Computes(kept, s, S, Len(s)) /\ Kept(s, S) = kept[Len(s)]  BY KeptIsComputed
<1> DEFINE First(n) == {s[i] : i \in 1..n}
           Good(n) == kept[n] \in Seq(Nat) /\ Increasing(kept[n]) /\ Members(kept[n]) = First(n) \cap S
           Bad == {n \in 0..Len(s) : ~Good(n)}
<1>2. Bad = {}
  <2> SUFFICES ASSUME Bad # {} PROVE FALSE  OBVIOUS
  <2>1. PICK n \in Bad : \A i \in Bad : n <= i
    <3>1. Bad \subseteq Nat  OBVIOUS
    <3> QED  BY <3>1, LeastOne
  <2>2. n # 0
    <3>1. kept[0] = <<>>  BY <1>1 DEF Computes
    <3>2. <<>> \in Seq(Nat) /\ Increasing(<<>>) /\ Members(<<>>) = {} /\ First(0) = {}  BY DEF Increasing, Members
    <3> QED  BY <3>1, <3>2
  <2>3. n - 1 \in 0..Len(s) /\ n \in 1..Len(s)  BY <2>2
  <2>4. kept[n] = IF s[n] \in S THEN Append(kept[n - 1], s[n]) ELSE kept[n - 1]  BY <1>1, <2>2 DEF Computes
  <2>5. Good(n - 1)
    <3>1. ~(n <= n - 1)  BY <2>3
    <3>2. n - 1 \notin Bad  BY <2>1, <3>1
    <3> QED  BY <2>3, <3>2
  <2>6. First(n) = First(n - 1) \cup {s[n]}
    <3>1. 1..n = (1..n - 1) \cup {n}  BY <2>3
    <3> QED  BY <3>1
  <2>7. s[n] \in Nat /\ \A x \in First(n - 1) : x < s[n]
    <3>1. \A i \in 1..n - 1 : i \in 1..Len(s) /\ i < n  BY <2>3
    <3> QED  BY <3>1, <2>3 DEF Increasing
  <2>8. CASE s[n] \in S
    <3>1. PICK before : before = kept[n - 1]  OBVIOUS
    <3>2. PICK m : m = s[n]  OBVIOUS
    <3>3. /\ before \in Seq(Nat) /\ Increasing(before) /\ Members(before) = First(n - 1) \cap S
          /\ m \in Nat /\ kept[n] = Append(before, m)
      BY <3>1, <3>2, <2>4, <2>5, <2>7, <2>8
    <3>4. \A x \in Members(before) : x < m  BY <3>2, <3>3, <2>7
    <3>5. /\ kept[n] \in Seq(Nat) /\ Increasing(kept[n])
          /\ Members(kept[n]) = (First(n - 1) \cap S) \cup {m}
      BY <3>3, <3>4, Appended
    <3> QED  BY <3>2, <3>5, <2>6, <2>8
  <2>9. CASE s[n] \notin S  BY <2>4, <2>5, <2>6, <2>9
  <2> QED  BY <2>8, <2>9
<1>3. Good(Len(s))
  <2>1. Len(s) \in 0..Len(s)  OBVIOUS
  <2> QED  BY <1>2, <2>1
<1>4. First(Len(s)) = Members(s)  BY DEF Members
<1> QED  BY <1>1, <1>3, <1>4

\* Messages by timestamp.
LEMMA ListedInOrder ==
  ASSUME NEW n \in Nat, NEW S, S \subseteq 1..n
  PROVE  LET s == Kept([m \in 1..n |-> m], S) IN s \in Seq(Nat) /\ Increasing(s) /\ Members(s) = S
<1>1. PICK all : all = [m \in 1..n |-> m]  OBVIOUS
<1>2. all \in Seq(Nat) /\ Len(all) = n  BY <1>1
<1>3. Increasing(all) /\ Members(all) = 1..n  BY <1>1, <1>2 DEF Increasing, Members
<1>4. Members(all) \cap S = S  BY <1>3
<1> QED  BY <1>1, <1>2, <1>3, <1>4, KeptFacts

\* Of two sequences, the one that has the earliest messages of the other is its beginning.
LEMMA Beginning ==
  ASSUME NEW s \in Seq(Nat), NEW t \in Seq(Nat), Increasing(s), Increasing(t),
         Members(s) \subseteq Members(t),
         \A m \in Members(t), n \in Members(s) : m <= n => m \in Members(s)
  PROVE  Len(s) <= Len(t) /\ \A i \in 1..Len(s) : s[i] = t[i]
<1> DEFINE Bad == {i \in 1..Len(s) : ~(i <= Len(t) /\ s[i] = t[i])}
<1>1. Bad = {}
  <2> SUFFICES ASSUME Bad # {} PROVE FALSE  OBVIOUS
  <2>1. PICK i \in Bad : \A j \in Bad : i <= j
    <3>1. Bad \subseteq Nat  OBVIOUS
    <3> QED  BY <3>1, LeastOne
  <2>0. i \in 1..Len(s)  BY <2>1
  <2>2. \A j \in 1..i - 1 : j \in 1..Len(s) /\ j <= Len(t) /\ s[j] = t[j]  BY <2>1
  <2>3. PICK k \in 1..Len(t) : t[k] = s[i]  BY DEF Members
  <2>4. i <= k
    <3> SUFFICES ASSUME k < i PROVE FALSE  OBVIOUS
    <3>1. k \in 1..Len(s) /\ s[k] = s[i] /\ s[k] < s[i]  BY <2>2, <2>3 DEF Increasing
    <3> QED  BY <3>1
  <2>5. i < k  BY <2>3, <2>4
  <2>6. i \in 1..Len(t) /\ t[i] < s[i]  BY <2>3, <2>5 DEF Increasing
  <2>7. t[i] \in Members(s)
    <3>1. t[i] \in Members(t) /\ s[i] \in Members(s) /\ t[i] <= s[i]  BY <2>6 DEF Members
    <3> QED  BY <3>1
  <2>8. PICK j \in 1..Len(s) : s[j] = t[i]  BY <2>7 DEF Members
  <2>9. j < i
    <3> SUFFICES ASSUME i <= j PROVE FALSE  OBVIOUS
    <3>1. i \in 1..Len(s) /\ j \in 1..Len(s) /\ s[i] \in Nat /\ s[j] \in Nat  BY <2>0, <2>8, Elements
    <3>2. i = j \/ i < j  BY <3>1
    <3>3. s[i] <= s[j]  BY <3>1, <3>2 DEF Increasing
    <3>4. s[j] < s[i]  BY <2>6, <2>8
    <3> HIDE DEF Bad
    <3> QED  BY <3>1, <3>3, <3>4
  <2>10. t[j] = t[i] /\ t[j] < t[i]  BY <2>2, <2>6, <2>8, <2>9 DEF Increasing
  <2>11. t[i] \in Nat  BY <2>6, Elements
  <2> QED  BY <2>10, <2>11
<1> QED
  <2>1. \A i \in 1..Len(s) : i <= Len(t) /\ s[i] = t[i]  BY <1>1
  <2>2. CASE Len(s) = 0  BY <2>1, <2>2
  <2>3. CASE Len(s) # 0
    <3>1. Len(s) \in 1..Len(s)  BY <2>3
    <3> QED  BY <2>1, <3>1
  <2> QED  BY <2>2, <2>3

----------------------------------------------------------------------------
(* The invariant *)

Deliveries == {Nil, "sending", "posted", "rejected", "uncertain"}
Call == [request : Requests, body : Bodies]

Slack ==
  /\ threaded \in BOOLEAN /\ sent \in 0..MaxMessages /\ steering \subseteq 1..sent
  /\ status \in {"new", "ok", "read_failed", "scan_incomplete", "delivery_failed"} /\ crashes \in 0..MaxCrashes

\* Where each user is, of whom the one that scans or sends has the lock.
Places ==
  /\ pc \in [Users -> {"idle", "lock", "scan", "deliver", "mark", "sending", "posted"}]
  /\ pc[Boundary] \notin {"sending", "posted"}
  /\ \A u \in Resters : pc[u] \in {"idle", "lock", "scan"}
  /\ \A e \in Escalators : pc[e] \in {"idle", "lock", "sending", "posted"}
  /\ lock \in Users \cup {Nil}
  /\ \A u \in Users : pc[u] \in {"scan", "sending", "posted"} <=> lock = u
  /\ asked \in [Escalators -> {NoAsk} \cup Call]
  /\ \A e \in Escalators : pc[e] # "idle" => asked[e] \in Call

\* What is being sent is in the outbox, and was posted if Slack took it: there is one
\* call at a time that may post it, and none posts it again.
Sending ==
  /\ outbox \in [Requests -> [body : Bodies \cup {Nil}, status : Deliveries]]
  /\ posts \in [Requests -> 0..1]
  /\ \A r \in Requests :
       /\ outbox[r].status = Nil => posts[r] = 0
       /\ outbox[r].status = "posted" => posts[r] = 1
  /\ \A e \in Escalators :
       /\ pc[e] \in {"sending", "posted"} => outbox[asked[e].request].status = "sending"
       /\ pc[e] = "sending" => posts[asked[e].request] = 0
       /\ pc[e] = "posted" => posts[asked[e].request] = 1

\* A scan has the messages of the pages it has read, and of no others: of a thread all up
\* to the next page, of a channel all down to it.
Scanned ==
  /\ scan \in [pages : Nat, got : SUBSET (1..sent), next : 0..sent]
  /\ lock \notin Pollers => scan = NoScan
  /\ IF threaded THEN scan.got = 1..scan.next
     ELSE IF scan.pages = 0 THEN scan.got = {}
     ELSE \E top \in 1..sent : 1 <= scan.next /\ scan.next <= top /\ scan.got = scan.next..top

\* The inbox has the messages up to the cursor, in their order.
Received ==
  /\ cursor \in 0..sent /\ inbox \in Seq(Nat) /\ Increasing(inbox)
  /\ Members(inbox) = {m \in steering : m <= cursor}

Pending == Members(inbox) \ delivered

\* The earliest messages of the inbox are delivered, and then those of the batch come.  The
\* session has what is delivered, and may have the first of the others before it is marked.
Delivering ==
  /\ delivered \subseteq Members(inbox)
  /\ \A m \in delivered, n \in Pending : m < n
  /\ batch \in Seq(Nat) /\ Increasing(batch) /\ Members(batch) \subseteq Pending
  /\ \A m \in Members(batch), n \in Pending : n < m => n \in Members(batch)
  /\ session \in Seq(Nat) /\ Increasing(session)
  /\ delivered \subseteq Members(session) /\ Members(session) \subseteq Members(inbox)
  /\ \A m \in Members(session) \ delivered, n \in Pending : m <= n
  /\ pc[Boundary] = "mark" => batch # <<>> /\ Head(batch) \in Members(session)

SteeringInv == Slack /\ Places /\ Sending /\ Scanned /\ Received /\ Delivering

LEMMA Frames ==
  ASSUME SteeringInv
  PROVE  /\ UNCHANGED <<threaded, sent, steering, status, crashes>> => Slack'
         /\ UNCHANGED <<pc, lock, asked>> => Places'
         /\ UNCHANGED <<outbox, posts>>
            /\ (\A e \in Escalators : pc'[e] \in {"sending", "posted"} => pc'[e] = pc[e] /\ asked'[e] = asked[e])
            => Sending'
         /\ UNCHANGED <<threaded, sent, scan>> /\ (lock' \notin Pollers => scan = NoScan) => Scanned'
         /\ UNCHANGED <<sent, steering, cursor, inbox>> => Received'
         /\ UNCHANGED <<delivered, inbox, batch, session>> /\ (pc'[Boundary] = "mark" => pc[Boundary] = "mark")
            => Delivering'
<1>1. UNCHANGED <<threaded, sent, steering, status, crashes>> => Slack'  BY DEF SteeringInv, Slack
<1>2. UNCHANGED <<pc, lock, asked>> => Places'  BY DEF SteeringInv, Places
<1>3. UNCHANGED <<outbox, posts>>
      /\ (\A e \in Escalators : pc'[e] \in {"sending", "posted"} => pc'[e] = pc[e] /\ asked'[e] = asked[e])
      => Sending'
  BY DEF SteeringInv, Sending
<1>4. UNCHANGED <<threaded, sent, scan>> /\ (lock' \notin Pollers => scan = NoScan) => Scanned'
  BY DEF SteeringInv, Scanned
<1>5. UNCHANGED <<sent, steering, cursor, inbox>> => Received'  BY DEF SteeringInv, Received
<1>6. UNCHANGED <<delivered, inbox, batch, session>> /\ (pc'[Boundary] = "mark" => pc[Boundary] = "mark")
      => Delivering'
  BY DEF SteeringInv, Delivering, Pending
<1> QED  BY <1>1, <1>2, <1>3, <1>4, <1>5, <1>6

LEMMA InitSteering == SteeringInit => SteeringInv
<1> SUFFICES ASSUME SteeringInit PROVE SteeringInv  OBVIOUS
<1> USE SteeringAssumption DEF SteeringInit
<1>1. Slack  BY DEF Slack
<1>2. Places  BY DEF Places, Users, Pollers, NoAsk, Nil
<1>3. Sending  BY DEF Sending, Deliveries, NoEntry, Nil, Users
<1>4. Scanned  BY DEF Scanned, NoScan
<1>5. <<>> \in Seq(Nat) /\ Increasing(<<>>) /\ Members(<<>>) = {}  BY DEF Increasing, Members
<1>6. Received  BY <1>5 DEF Received
<1>7. Delivering  BY <1>5 DEF Delivering, Pending, Users, Pollers
<1> QED  BY <1>1, <1>2, <1>3, <1>4, <1>6, <1>7 DEF SteeringInv

LEMMA WriteIInv == ASSUME SteeringInv, Write PROVE SteeringInv'
<1>1. /\ sent \in Nat /\ sent' = sent + 1 /\ sent' \in 0..MaxMessages /\ steering \subseteq 1..sent
      /\ steering \subseteq steering' /\ steering' \subseteq steering \cup {sent + 1}
      /\ UNCHANGED file /\ UNCHANGED <<threaded, posts, session, lock, pc, scan, asked, batch, crashes>>
  BY SteeringAssumption DEF Write, SteeringInv, Slack
<1>2. 1..sent \subseteq 1..sent' /\ 0..sent \subseteq 0..sent'  BY <1>1
<1>3. Slack'
  <2>1. steering' \subseteq 1..sent'  BY <1>1, <1>2
  <2> QED  BY <1>1, <2>1 DEF SteeringInv, Slack, file
<1>4. Scanned'
  <2>1. scan \in [pages : Nat, got : SUBSET (1..sent'), next : 0..sent']  BY <1>2 DEF SteeringInv, Scanned
  <2> QED  BY <1>1, <1>2, <2>1 DEF SteeringInv, Scanned
<1>5. Received'
  <2>1. cursor' = cursor /\ inbox' = inbox  BY <1>1 DEF file
  <2>2. cursor \in 0..sent /\ inbox \in Seq(Nat) /\ Increasing(inbox) /\ Members(inbox) = {m \in steering : m <= cursor}
    BY DEF SteeringInv, Received
  <2>3. \A m \in steering' : m <= cursor => m \in steering
    <3>1. cursor \in Nat /\ cursor <= sent  BY <1>1, <2>2
    <3> QED  BY <3>1, <1>1
  <2>4. {m \in steering' : m <= cursor} = {m \in steering : m <= cursor}  BY <1>1, <2>3
  <2> QED  BY <1>2, <2>1, <2>2, <2>4 DEF Received
<1> QED  BY <1>1, <1>3, <1>4, <1>5, Frames DEF SteeringInv, file

\* The lock is asked for.
LEMMA WantPollIInv == ASSUME SteeringInv, NEW p \in Pollers, WantPoll(p) PROVE SteeringInv'
<1>1. /\ pc[p] = "idle" /\ pc' = [pc EXCEPT ![p] = "lock"]
      /\ UNCHANGED slack /\ UNCHANGED file /\ UNCHANGED <<session, lock, scan, asked, batch, crashes>>
  BY DEF WantPoll, Waits
<1>2. p \in Users /\ p \notin Escalators  BY SteeringAssumption DEF Users, Pollers
<1>3. Places'  BY <1>1, <1>2 DEF SteeringInv, Places, Users, Pollers
<1>4. \A e \in Escalators : pc'[e] = pc[e]  BY <1>1, <1>2 DEF SteeringInv, Places, Users
<1>5. pc'[Boundary] = "mark" => pc[Boundary] = "mark"  BY <1>1, <1>2 DEF SteeringInv, Places, Users, Pollers
<1>6. lock' \notin Pollers => scan = NoScan  BY <1>1 DEF SteeringInv, Scanned
<1> QED  BY <1>1, <1>3, <1>4, <1>5, <1>6, Frames DEF SteeringInv, slack, file

LEMMA StartScanIInv == ASSUME SteeringInv, NEW p \in Pollers, StartScan(p) PROVE SteeringInv'
<1>1. /\ pc[p] = "lock" /\ lock = Nil /\ lock' = p /\ scan' = NoScan /\ pc' = [pc EXCEPT ![p] = "scan"]
      /\ UNCHANGED slack /\ UNCHANGED file /\ UNCHANGED <<session, asked, batch, crashes>>
  BY DEF StartScan
<1>2. p \in Users /\ p \notin Escalators /\ Nil \notin Users  BY SteeringAssumption DEF Users, Pollers
<1>3. Places'
  <2>1. \A u \in Users : pc[u] \notin {"scan", "sending", "posted"}  BY <1>1, <1>2 DEF SteeringInv, Places
  <2> QED  BY <1>1, <1>2, <2>1 DEF SteeringInv, Places, Users, Pollers
<1>4. \A e \in Escalators : pc'[e] = pc[e]  BY <1>1, <1>2 DEF SteeringInv, Places, Users
<1>5. pc'[Boundary] = "mark" => pc[Boundary] = "mark"  BY <1>1, <1>2 DEF SteeringInv, Places, Users, Pollers
<1>6. Scanned'
  <2>1. UNCHANGED <<threaded, sent>> /\ sent \in Nat  BY <1>1, SteeringAssumption DEF slack, SteeringInv, Slack
  <2> QED  BY <1>1, <2>1 DEF Scanned, NoScan
<1> QED  BY <1>1, <1>3, <1>4, <1>5, <1>6, Frames DEF SteeringInv, slack, file

\* A poll that ends: the boundary goes on with what the inbox now has, if that is as it
\* should be and new messages are later than those it had.
LEMMA EndPollIInv ==
  ASSUME SteeringInv, NEW p \in Pollers, pc[p] = "scan", EndPoll(p),
         status' \in {"ok", "read_failed", "scan_incomplete"}, Received', Members(inbox) \subseteq Members(inbox'),
         \A m \in Members(inbox), n \in Members(inbox') \ Members(inbox) : m < n
  PROVE  SteeringInv'
<1>1. /\ lock' = Nil /\ scan' = NoScan
      /\ pc' = [pc EXCEPT ![p] = IF p = Boundary THEN "deliver" ELSE "idle"]
      /\ batch' = IF p = Boundary THEN Kept(inbox', Members(inbox') \ delivered) ELSE batch
      /\ UNCHANGED slack /\ UNCHANGED <<delivered, outbox, session, asked, crashes>>
  BY DEF EndPoll
<1>2. p \in Users /\ p \notin Escalators /\ Nil \notin Users /\ lock = p
  BY SteeringAssumption DEF Users, Pollers, SteeringInv, Places
<1>3. Slack'  BY <1>1 DEF SteeringInv, Slack, slack
<1>4. Places'
  <2>1. \A u \in Users \ {p} : pc[u] \notin {"scan", "sending", "posted"}  BY <1>2 DEF SteeringInv, Places
  <2>2. PICK place : place = IF p = Boundary THEN "deliver" ELSE "idle"  OBVIOUS
  <2>3. pc' = [pc EXCEPT ![p] = place] /\ place \in {"deliver", "idle"} /\ (p # Boundary => place = "idle")
    BY <1>1, <2>2
  <2>4. \A u \in Users : pc'[u] = IF u = p THEN place ELSE pc[u]  BY <1>2, <2>3 DEF SteeringInv, Places
  <2>5. pc' \in [Users -> {"idle", "lock", "scan", "deliver", "mark", "sending", "posted"}]
    BY <2>3 DEF SteeringInv, Places
  <2>6. \A u \in Users : pc'[u] \notin {"scan", "sending", "posted"}  BY <2>1, <2>3, <2>4
  <2>7. \A u \in Resters : pc'[u] \in {"idle", "lock", "scan"}
    BY <2>3, <2>4, SteeringAssumption DEF SteeringInv, Places, Users, Pollers
  <2>8. \A e \in Escalators : pc'[e] = pc[e]  BY <1>2, <2>4 DEF Users
  <2> QED  BY <1>1, <1>2, <2>5, <2>6, <2>7, <2>8 DEF SteeringInv, Places, Users, Pollers
<1>5. \A e \in Escalators : pc'[e] = pc[e]  BY <1>1, <1>2 DEF SteeringInv, Places, Users
<1>6. Scanned'
  <2>1. UNCHANGED <<threaded, sent>> /\ sent \in Nat  BY <1>1, SteeringAssumption DEF slack, SteeringInv, Slack
  <2> QED  BY <1>1, <2>1 DEF Scanned, NoScan
<1>7. inbox' \in Seq(Nat) /\ Increasing(inbox')  BY DEF Received
<1>8. /\ pc'[Boundary] = "mark" => pc[Boundary] = "mark" /\ p # Boundary
      /\ p = Boundary => batch' = Kept(inbox', Members(inbox') \ delivered)
      /\ p # Boundary => batch' = batch
  BY <1>1, <1>2 DEF SteeringInv, Places, Users, Pollers
<1>9. Delivering'
  <2>1. \A m \in Members(inbox), n \in Members(inbox') \ Members(inbox) : m \in Nat /\ n \in Nat /\ m < n
    <3>1. \A m \in Members(inbox') : m \in Nat  BY <1>7, Elements DEF Members
    <3> QED  BY <3>1
  <2>2. Pending' = Pending \cup (Members(inbox') \ Members(inbox))
    BY <1>1 DEF Pending, SteeringInv, Delivering
  <2>3. batch' \in Seq(Nat) /\ Increasing(batch')
    <3>1. CASE p = Boundary  BY <3>1, <1>7, <1>8, KeptFacts
    <3>2. CASE p # Boundary  BY <3>2, <1>8 DEF SteeringInv, Delivering
    <3> QED  BY <3>1, <3>2
  <2>4. /\ Members(batch') \subseteq Pending'
        /\ \A m \in Members(batch'), n \in Pending' : n < m => n \in Members(batch')
    <3>1. CASE p = Boundary
      <4>1. Members(batch') = Pending'  BY <3>1, <1>1, <1>7, <1>8, KeptFacts DEF Pending
      <4> QED  BY <4>1
    <3>2. CASE p # Boundary
      <4>1. batch' = batch  BY <3>2, <1>8
      <4>2. Members(batch) \subseteq Pending /\ Pending \subseteq Members(inbox)  BY DEF SteeringInv, Delivering, Pending
      <4>3. \A m \in Members(batch), n \in Members(inbox') \ Members(inbox) : ~(n < m)  BY <4>2, <2>1
      <4>4. \A m \in Members(batch), n \in Pending : n < m => n \in Members(batch)  BY DEF SteeringInv, Delivering
      <4> QED  BY <4>1, <4>2, <4>3, <4>4, <2>2
    <3> QED  BY <3>1, <3>2
  <2>5. \A m \in delivered, n \in Pending' : m < n
    BY <2>1, <2>2 DEF SteeringInv, Delivering
  <2>6. \A m \in Members(session) \ delivered, n \in Pending' : m <= n
    BY <2>1, <2>2 DEF SteeringInv, Delivering
  <2>7. pc'[Boundary] = "mark" => batch' # <<>> /\ Head(batch') \in Members(session)
    BY <1>8 DEF SteeringInv, Delivering
  <2> QED  BY <1>1, <2>3, <2>4, <2>5, <2>6, <2>7 DEF Delivering, SteeringInv
<1> QED  BY <1>1, <1>3, <1>4, <1>5, <1>6, <1>9, Frames DEF SteeringInv, slack, file

\* The page comes after what the scan has of a thread, and before what it has of a channel.
Continues == IF threaded THEN scan.next + 1 ELSE IF scan.pages = 0 THEN sent ELSE scan.next - 1

LEMMA PageIs ==
  ASSUME SteeringInv
  PROVE  /\ Page \subseteq 1..sent /\ PageSize \in Nat \ {0} /\ sent \in Nat
         /\ scan.pages \in Nat /\ scan.got \subseteq 1..sent /\ scan.next \in 0..sent
         /\ threaded => Page = {m \in 1..sent : scan.next < m /\ m <= scan.next + PageSize}
         /\ ~threaded => Page = {m \in 1..sent : m <= Continues /\ Continues < m + PageSize}
BY SteeringAssumption DEF SteeringInv, Slack, Scanned, Page, Continues

\* With its last page a scan has all messages since the cursor up to the last one it has.
LEMMA LastPageFacts ==
  ASSUME SteeringInv, LastPage
  PROVE  \E top \in 0..sent :
           /\ \A m \in scan.got \cup Page : m <= top
           /\ \A m \in 1..sent : cursor < m /\ m <= top => m \in scan.got \cup Page
<1> USE PageIs
<1>1. cursor \in 0..sent  BY DEF SteeringInv, Received
<1>2. CASE threaded
  <2>1. scan.got = 1..scan.next  BY <1>2 DEF SteeringInv, Scanned
  <2>2. Page = {} \/ \E m \in Page : ~(m < sent)  BY <1>2 DEF LastPage, MorePages
  <2>3. sent <= scan.next + PageSize
    <3>1. CASE Page = {}
      <4>1. scan.next + 1 \notin Page  BY <3>1
      <4>2. ~(scan.next + 1 <= sent)  BY <4>1, <1>2
      <4> QED  BY <4>2
    <3>2. CASE \E m \in Page : ~(m < sent)  BY <3>2, <1>2
    <3> QED  BY <2>2, <3>1, <3>2
  <2>4. \A m \in 1..sent : m \in scan.got \cup Page  BY <2>1, <2>3, <1>2
  <2>5. \A m \in scan.got \cup Page : m <= sent  OBVIOUS
  <2> QED  BY <2>4, <2>5
<1>3. CASE ~threaded
  <2>1. PICK top \in 0..sent : /\ \A m \in scan.got : m <= top
                               /\ Continues \in 0..top
                               /\ \A m \in 1..sent : Continues < m /\ m <= top => m \in scan.got
    <3>1. CASE scan.pages = 0
      <4>1. scan.got = {} /\ Continues = sent  BY <1>3, <3>1 DEF SteeringInv, Scanned, Continues
      <4>2. \A m \in 1..sent : ~(sent < m)  OBVIOUS
      <4> QED  BY <4>1, <4>2
    <3>2. CASE scan.pages # 0
      <4>1. PICK top \in 1..sent : 1 <= scan.next /\ scan.next <= top /\ scan.got = scan.next..top
        BY <1>3, <3>2 DEF SteeringInv, Scanned
      <4>2. Continues = scan.next - 1  BY <1>3, <3>2 DEF Continues
      <4>3. top \in 0..sent /\ Continues \in 0..top  BY <4>1, <4>2
      <4>4. \A m \in scan.got : m <= top  BY <4>1
      <4>5. \A m \in 1..sent : Continues < m /\ m <= top => m \in scan.got  BY <4>1, <4>2
      <4> QED  BY <4>3, <4>4, <4>5
    <3> QED  BY <3>1, <3>2
  <2>2. Page = {} \/ \E m \in Page : m <= 1 \/ m <= cursor  BY <1>3 DEF LastPage, MorePages
  <2>3. \A m \in 1..sent : cursor < m /\ m <= Continues => m \in Page
    <3>1. CASE Page = {}
      <4>1. Continues \notin Page  BY <3>1
      <4>2. ~(Continues \in 1..sent)  BY <4>1, <1>3
      <4>3. Continues = 0  BY <4>2, <2>1
      <4> QED  BY <4>3
    <3>2. CASE \E m \in Page : m <= 1 \/ m <= cursor
      <4>1. PICK first \in Page : first <= 1 \/ first <= cursor  BY <3>2
      <4>2. first \in 1..sent /\ Continues < first + PageSize  BY <4>1, <1>3
      <4>3. ASSUME NEW m \in 1..sent, cursor < m, m <= Continues PROVE m \in Page
        <5>1. first <= m  BY <4>1, <4>2, <4>3, <1>1
        <5>2. Continues < m + PageSize  BY <4>2, <5>1, <2>1
        <5> QED  BY <4>3, <5>2, <1>3
      <4> QED  BY <4>3
    <3> QED  BY <2>2, <3>1, <3>2
  <2>4. \A m \in Page : m <= top  BY <2>1, <1>3
  <2>5. \A m \in 1..sent : cursor < m /\ m <= top => m \in scan.got \cup Page  BY <2>1, <2>3
  <2> QED  BY <2>1, <2>4, <2>5
<1> QED  BY <1>2, <1>3

\* With any other page it goes on where the page ends.
LEMMA NextPageFacts ==
  ASSUME SteeringInv, ~LastPage, UNCHANGED <<threaded, sent>>, lock \in Pollers, lock' = lock,
         scan' = [pages |-> scan.pages + 1, got |-> scan.got \cup Page,
                  next |-> CHOOSE m \in Page : \A n \in Page : IF threaded THEN n <= m ELSE n >= m]
  PROVE  Scanned'
<1> USE PageIs
<1>1. Page # {}  BY DEF LastPage, MorePages
<1>2. PICK last \in Page : \A n \in Page : IF threaded THEN n <= last ELSE n >= last
  <2>1. CASE threaded
    <3>1. scan.next < sent  BY <1>1, <2>1
    <3>2. PICK last : last = IF scan.next + PageSize <= sent THEN scan.next + PageSize ELSE sent  OBVIOUS
    <3>3. last \in 1..sent /\ scan.next < last /\ last <= scan.next + PageSize  BY <3>1, <3>2
    <3>4. last \in Page  BY <3>3, <2>1
    <3>5. \A n \in Page : n <= last  BY <3>2, <2>1
    <3> QED  BY <3>4, <3>5, <2>1
  <2>2. CASE ~threaded
    <3>1. Page \subseteq Nat  OBVIOUS
    <3>2. PICK last \in Page : \A n \in Page : last <= n  BY <3>1, <1>1, LeastOne
    <3> QED  BY <3>1, <3>2, <2>2
  <2> QED  BY <2>1, <2>2
<1>3. PICK next : next = CHOOSE m \in Page : \A n \in Page : IF threaded THEN n <= m ELSE n >= m  OBVIOUS
<1>4. next \in Page /\ \A n \in Page : IF threaded THEN n <= next ELSE n >= next  BY <1>2, <1>3
<1>5. scan' = [pages |-> scan.pages + 1, got |-> scan.got \cup Page, next |-> next]  BY <1>3
<1>6. scan' \in [pages : Nat, got : SUBSET (1..sent), next : 0..sent]  BY <1>4, <1>5
<1>7. CASE threaded
  <2>1. scan.got = 1..scan.next  BY <1>7 DEF SteeringInv, Scanned
  <2>2. scan.got \cup Page = 1..next
    <3>1. scan.next < next /\ next <= scan.next + PageSize /\ next \in 1..sent  BY <1>4, <1>7
    <3>2. ASSUME NEW m \in 1..next PROVE m \in scan.got \cup Page
      <4>1. m \in 1..sent  BY <3>1
      <4>2. CASE m <= scan.next  BY <4>1, <4>2, <2>1
      <4>3. CASE ~(m <= scan.next)  BY <4>1, <4>3, <3>1, <1>7
      <4> QED  BY <4>2, <4>3
    <3>3. ASSUME NEW m \in scan.got \cup Page PROVE m \in 1..next
      <4>1. CASE m \in scan.got  BY <4>1, <2>1, <3>1
      <4>2. CASE m \in Page  BY <4>2, <1>4, <1>7
      <4> QED  BY <4>1, <4>2
    <3> QED  BY <3>2, <3>3
  <2> QED  BY <1>5, <1>6, <1>7, <2>2 DEF Scanned
<1>8. CASE ~threaded
  <2>1. PICK top \in 1..sent : Continues <= top /\ Continues \in Nat /\ scan.got = Continues + 1..top
    <3>1. CASE scan.pages = 0
      <4>1. scan.got = {} /\ Continues = sent  BY <1>8, <3>1 DEF SteeringInv, Scanned, Continues
      <4>2. sent \in 1..sent /\ sent + 1..sent = {} /\ sent <= sent /\ sent \in Nat  BY <1>1
      <4>3. Continues <= sent /\ Continues \in Nat /\ scan.got = Continues + 1..sent  BY <4>1, <4>2
      <4> QED  BY <4>2, <4>3
    <3>2. CASE scan.pages # 0
      <4>1. PICK top \in 1..sent : 1 <= scan.next /\ scan.next <= top /\ scan.got = scan.next..top
        BY <1>8, <3>2 DEF SteeringInv, Scanned
      <4>2. Continues = scan.next - 1  BY <1>8, <3>2 DEF Continues
      <4>3. Continues \in Nat /\ Continues + 1 = scan.next /\ Continues <= top
        <5>1. PICK place : place = scan.next  OBVIOUS
        <5>2. place \in Nat /\ 1 <= place /\ place <= top /\ top \in Nat  BY <5>1, <4>1
        <5>3. Continues = place - 1  BY <5>1, <4>2
        <5>4. place - 1 \in Nat /\ (place - 1) + 1 = place /\ place - 1 <= top  BY <5>2
        <5> QED  BY <5>1, <5>3, <5>4
      <4>4. scan.got = Continues + 1..top  BY <4>1, <4>3
      <4> QED  BY <4>3, <4>4
    <3> QED  BY <3>1, <3>2
  <2>2. next \in 1..sent /\ next <= Continues /\ Continues < next + PageSize  BY <1>4, <1>8
  <2>3. scan.got \cup Page = next..top
    <3>1. ASSUME NEW m \in next..top PROVE m \in scan.got \cup Page
      <4>1. m \in 1..sent  BY <2>1, <2>2
      <4>2. CASE m <= Continues
        <5>1. Continues < m + PageSize  BY <2>1, <2>2
        <5> QED  BY <4>1, <4>2, <5>1, <1>8
      <4>3. CASE ~(m <= Continues)  BY <4>3, <2>1
      <4> QED  BY <4>2, <4>3
    <3>2. ASSUME NEW m \in scan.got \cup Page PROVE m \in next..top
      <4>1. CASE m \in scan.got  BY <4>1, <2>1, <2>2
      <4>2. CASE m \in Page
        <5>1. m \in 1..sent /\ m <= Continues  BY <4>2, <1>8
        <5>2. next <= m  BY <4>2, <1>4, <1>8, <5>1
        <5> QED  BY <5>1, <5>2, <2>1, <2>2
      <4> QED  BY <4>1, <4>2
    <3> QED  BY <3>1, <3>2
  <2>4. scan.pages + 1 # 0 /\ 1 <= next /\ next <= top
    <3>1. scan.pages + 1 # 0  OBVIOUS
    <3>2. next \in Nat /\ top \in Nat /\ Continues \in Nat /\ 1 <= next  BY <2>1, <2>2
    <3>3. next <= Continues /\ Continues <= top  BY <2>1, <2>2
    <3> QED  BY <3>1, <3>2, <3>3
  <2>5. scan'.got = next..top /\ scan'.next = next /\ scan'.pages = scan.pages + 1  BY <1>5, <2>3
  <2> QED  BY <1>6, <1>8, <2>4, <2>5 DEF Scanned
<1> QED  BY <1>7, <1>8

\* What the last page leaves in the inbox: all up to the new cursor.
LEMMA ReadPageIInv == ASSUME SteeringInv, NEW p \in Pollers, ReadPage(p) PROVE SteeringInv'
<1>1. p \in Users /\ lock = p  BY DEF Users, Pollers, SteeringInv, Places, ReadPage
<1>2. CASE ~LastPage
  <2>1. /\ UNCHANGED slack /\ UNCHANGED file /\ UNCHANGED <<session, lock, pc, asked, batch, crashes>>
        /\ scan' = [pages |-> scan.pages + 1, got |-> scan.got \cup Page,
                    next |-> CHOOSE m \in Page : \A n \in Page : IF threaded THEN n <= m ELSE n >= m]
    BY <1>2 DEF ReadPage
  <2>2. Scanned'  BY <1>1, <1>2, <2>1, NextPageFacts DEF slack
  <2> QED  BY <2>1, <2>2, Frames DEF SteeringInv, slack, file
<1>3. CASE LastPage
  <2>1. PICK got : got = scan.got \cup Page  OBVIOUS
  <2>2. /\ inbox' = inbox \o Added(got) /\ cursor' = Newest(got) /\ status' = "ok" /\ EndPoll(p)
        /\ pc[p] = "scan" /\ sent' = sent /\ steering' = steering
    BY <1>3, <2>1 DEF ReadPage, EndPoll, slack
  <2>3. PICK top \in 0..sent : (\A m \in got : m <= top)
                               /\ \A m \in 1..sent : cursor < m /\ m <= top => m \in got
    BY <1>3, <2>1, LastPageFacts
  <2>4. /\ got \subseteq 1..sent /\ sent \in Nat /\ steering \subseteq 1..sent
        /\ cursor \in 0..sent /\ inbox \in Seq(Nat) /\ Increasing(inbox)
        /\ Members(inbox) = {m \in steering : m <= cursor}
    BY <2>1, PageIs DEF SteeringInv, Slack, Received
  <2>5. cursor' \in got \cup {cursor} /\ \A n \in got \cup {cursor} : n <= cursor'
    <3>1. \E m \in got \cup {cursor} : \A n \in got \cup {cursor} : n <= m
      <4>1. PICK back : back = {k \in Nat : \E m \in got \cup {cursor} : k = sent - m}  OBVIOUS
      <4>2. sent - cursor \in back /\ back \subseteq Nat  BY <4>1, <2>4
      <4>3. PICK k \in back : \A i \in back : k <= i  BY <4>2, LeastOne
      <4>4. PICK m \in got \cup {cursor} : k = sent - m  BY <4>1, <4>3
      <4>5. ASSUME NEW n \in got \cup {cursor} PROVE n <= m
        <5>1. n \in 0..sent /\ m \in 0..sent /\ sent \in Nat  BY <2>4
        <5>2. sent - n \in Nat  BY <5>1
        <5>3. sent - n \in back  BY <4>1, <5>2
        <5>4. sent - m <= sent - n  BY <4>3, <4>4, <5>3
        <5> QED  BY <5>1, <5>4
      <4> QED  BY <4>5
    <3> QED  BY <3>1, <2>2 DEF Newest
  <2>6. PICK new : new = {m \in got \cap steering : m > cursor /\ m \notin Members(inbox)}  OBVIOUS
  <2>7. Added(got) \in Seq(Nat) /\ Increasing(Added(got)) /\ Members(Added(got)) = new
    <3>1. Added(got) = Kept([m \in 1..sent |-> m], new)  BY <2>6 DEF Added, Sorted
    <3>2. new \subseteq 1..sent  BY <2>4, <2>6
    <3> QED  BY <3>1, <3>2, <2>4, ListedInOrder
  <2>8. \A m \in Members(inbox), n \in new : m < n
    <3>1. ASSUME NEW m \in Members(inbox), NEW n \in new PROVE m < n
      <4>1. m \in 1..sent /\ m <= cursor /\ cursor \in 0..sent  BY <2>4
      <4>2. n \in 1..sent /\ cursor < n  BY <2>4, <2>6
      <4> QED  BY <4>1, <4>2, <2>4
    <3> QED  BY <3>1
  <2>9. /\ inbox' \in Seq(Nat) /\ Increasing(inbox') /\ Members(inbox') = Members(inbox) \cup new
    BY <2>2, <2>4, <2>7, <2>8, Joined
  <2>10. Members(inbox') = {m \in steering' : m <= cursor'}
    <3>1. ASSUME NEW m \in Members(inbox) \cup new PROVE m \in steering /\ m <= cursor'
      <4>1. CASE m \in Members(inbox)
        <5>0. m \in steering /\ m <= cursor  BY <4>1, <2>4
        <5>1. m \in 1..sent /\ m <= cursor /\ cursor \in Nat  BY <5>0, <2>4
        <5>2. cursor' \in Nat /\ cursor <= cursor'  BY <2>4, <2>5
        <5> QED  BY <4>1, <5>1, <5>2, <2>4
      <4>2. CASE m \in new  BY <4>2, <2>5, <2>6
      <4> QED  BY <4>1, <4>2
    <3>2. ASSUME NEW m \in steering, m <= cursor' PROVE m \in Members(inbox) \cup new
      <4>1. CASE m <= cursor  BY <4>1, <2>4
      <4>2. CASE ~(m <= cursor)
        <5>1. m \in 1..sent /\ cursor < m /\ cursor' \in Nat  BY <4>2, <2>4, <2>5
        <5>2. cursor' \in got  BY <5>1, <3>2, <2>5, <4>2
        <5>3. cursor' <= top /\ top \in Nat  BY <5>2, <2>3
        <5>4. m \in got  BY <5>1, <5>3, <3>2, <2>3
        <5>5. m \notin Members(inbox)  BY <4>2, <2>4
        <5> QED  BY <5>1, <5>4, <5>5, <2>6
      <4> QED  BY <4>1, <4>2
    <3> QED  BY <3>1, <3>2, <2>2, <2>9
  <2>11. Received'
    <3>1. cursor' \in 0..sent  BY <2>4, <2>5
    <3> QED  BY <3>1, <2>2, <2>9, <2>10 DEF Received
  <2> QED  BY <2>2, <2>8, <2>9, <2>11, EndPollIInv
<1> QED  BY <1>2, <1>3

\* A read that fails and a scan that is incomplete leave the cursor and the inbox.
LEMMA PollFailsIInv == ASSUME SteeringInv, NEW p \in Pollers, ReadFails(p) \/ ScanIncomplete(p) PROVE SteeringInv'
<1>1. /\ pc[p] = "scan" /\ EndPoll(p) /\ status' \in {"read_failed", "scan_incomplete"}
      /\ UNCHANGED <<cursor, inbox>>
  BY DEF ReadFails, ScanIncomplete
<1>2. Received'  BY <1>1, Frames DEF EndPoll, slack
<1> QED  BY <1>1, <1>2, EndPollIInv

----------------------------------------------------------------------------
(* Delivery *)

\* The first message of a batch is the first that is not delivered, and all the session can
\* have that is not.
LEMMA FirstOfBatch ==
  ASSUME SteeringInv, batch # <<>>
  PROVE  /\ Head(batch) \in Pending /\ Head(batch) \in Nat
         /\ \A n \in Pending : Head(batch) <= n
         /\ Members(session) \subseteq delivered \cup {Head(batch)}
         /\ \A m \in delivered : m < Head(batch)
<1>1. /\ batch \in Seq(Nat) /\ Increasing(batch) /\ Members(batch) \subseteq Pending
      /\ \A m \in Members(batch), n \in Pending : n < m => n \in Members(batch)
      /\ session \in Seq(Nat) /\ Members(session) \subseteq Members(inbox)
      /\ \A m \in Members(session) \ delivered, n \in Pending : m <= n
      /\ \A m \in delivered, n \in Pending : m < n
  BY DEF SteeringInv, Delivering
<1>2. /\ Head(batch) \in Members(batch) /\ Members(Tail(batch)) = Members(batch) \ {Head(batch)}
      /\ \A x \in Members(Tail(batch)) : Head(batch) < x
  BY <1>1, Beheaded
<1>3. Head(batch) \in Pending  BY <1>1, <1>2
<1>4. \A n \in Members(inbox) : n \in Nat
  <2>1. inbox \in Seq(Nat)  BY DEF SteeringInv, Received
  <2> QED  BY <2>1, Elements DEF Members
<1>5. Head(batch) \in Nat  BY <1>3, <1>4 DEF Pending
<1>6. ASSUME NEW n \in Pending PROVE Head(batch) <= n
  <2>1. n \in Nat  BY <1>4 DEF Pending
  <2>2. SUFFICES ASSUME n < Head(batch) PROVE FALSE  BY <2>1, <1>5
  <2>3. n \in Members(batch)  BY <1>1, <1>2, <2>2
  <2>4. n = Head(batch) \/ Head(batch) < n  BY <2>3, <1>2
  <2> QED  BY <2>1, <2>2, <2>4, <1>5
<1>7. ASSUME NEW m \in Members(session), m \notin delivered PROVE m = Head(batch)
  <2>1. m \in Pending /\ m \in Nat  BY <1>1, <1>4, <1>7 DEF Pending
  <2>2. m <= Head(batch) /\ Head(batch) <= m  BY <1>1, <1>3, <1>6, <1>7, <2>1
  <2> QED  BY <2>1, <2>2, <1>5
<1> QED  BY <1>1, <1>3, <1>5, <1>6, <1>7

\* Where the boundary goes changes nothing else of the users.
LEMMA BoundaryGoes ==
  ASSUME SteeringInv, NEW place \in {"deliver", "mark", "idle"}, pc[Boundary] \in {"deliver", "mark"},
         pc' = [pc EXCEPT ![Boundary] = place], UNCHANGED <<lock, asked>>
  PROVE  Places' /\ pc'[Boundary] = place /\ \A e \in Escalators : pc'[e] = pc[e]
<1>1. Boundary \in Users /\ Boundary \notin Resters \cup Escalators  BY SteeringAssumption DEF Users, Pollers
<1>2. \A u \in Users : pc'[u] = IF u = Boundary THEN place ELSE pc[u]  BY <1>1 DEF SteeringInv, Places
<1>3. pc' \in [Users -> {"idle", "lock", "scan", "deliver", "mark", "sending", "posted"}]
  BY DEF SteeringInv, Places
<1>4. /\ \A u \in Resters : u \in Users /\ pc'[u] = pc[u]
      /\ \A e \in Escalators : e \in Users /\ pc'[e] = pc[e]
  BY <1>1, <1>2 DEF Users, Pollers
<1>5. \A u \in Users : pc'[u] \in {"scan", "sending", "posted"} <=> lock' = u
  BY <1>1, <1>2 DEF SteeringInv, Places
<1> QED  BY <1>1, <1>2, <1>3, <1>4, <1>5 DEF SteeringInv, Places

LEMMA AddEnvelopeIInv == ASSUME SteeringInv, AddEnvelope PROVE SteeringInv'
<1>1. /\ pc[Boundary] = "deliver" /\ batch # <<>> /\ pc' = [pc EXCEPT ![Boundary] = "mark"]
      /\ session' = IF Head(batch) \in Members(session) THEN session ELSE Append(session, Head(batch))
      /\ UNCHANGED slack /\ UNCHANGED file /\ UNCHANGED <<lock, scan, asked, batch, crashes>>
  BY DEF AddEnvelope
<1>2. Places' /\ pc'[Boundary] = "mark" /\ \A e \in Escalators : pc'[e] = pc[e]  BY <1>1, BoundaryGoes
<1>3. /\ session \in Seq(Nat) /\ Increasing(session) /\ delivered \subseteq Members(session)
      /\ Members(session) \subseteq Members(inbox)
  BY DEF SteeringInv, Delivering
<1>4. /\ session' \in Seq(Nat) /\ Increasing(session')
      /\ Members(session') = Members(session) \cup {Head(batch)}
  <2>1. CASE Head(batch) \in Members(session)  BY <2>1, <1>1, <1>3
  <2>2. CASE Head(batch) \notin Members(session)
    <3>1. \A m \in Members(session) : m < Head(batch)  BY <2>2, <1>1, FirstOfBatch
    <3>2. Head(batch) \in Nat  BY <1>1, FirstOfBatch
    <3> QED  BY <2>2, <3>1, <3>2, <1>1, <1>3, Appended
  <2> QED  BY <2>1, <2>2
<1>5. UNCHANGED <<delivered, inbox, batch>> /\ Pending' = Pending  BY <1>1 DEF file, Pending
<1>6. Delivering'
  <2>1. \A m \in Members(session') \ delivered, n \in Pending : m <= n  BY <1>1, <1>4, FirstOfBatch
  <2>2. Head(batch) \in Members(inbox)  BY <1>1, FirstOfBatch DEF Pending
  <2> QED  BY <1>1, <1>3, <1>4, <1>5, <2>1, <2>2 DEF SteeringInv, Delivering
<1>7. lock' \notin Pollers => scan = NoScan  BY <1>1 DEF SteeringInv, Scanned
<1> QED  BY <1>1, <1>2, <1>6, <1>7, Frames DEF SteeringInv, slack, file

LEMMA MarkDeliveredIInv == ASSUME SteeringInv, MarkDelivered PROVE SteeringInv'
<1>1. /\ pc[Boundary] = "mark" /\ pc' = [pc EXCEPT ![Boundary] = "deliver"]
      /\ delivered' = delivered \cup {Head(batch)} /\ batch' = Tail(batch)
      /\ UNCHANGED slack /\ UNCHANGED <<cursor, inbox, status, outbox, session, lock, scan, asked, crashes>>
  BY DEF MarkDelivered
<1>2. Places' /\ pc'[Boundary] = "deliver" /\ \A e \in Escalators : pc'[e] = pc[e]  BY <1>1, BoundaryGoes
<1>3. batch # <<>> /\ Head(batch) \in Members(session)  BY <1>1 DEF SteeringInv, Delivering
<1>4. /\ Head(batch) \in Pending /\ Head(batch) \in Nat /\ \A n \in Pending : Head(batch) <= n
      /\ Members(session) \subseteq delivered'
      /\ \A m \in delivered : m < Head(batch)
  BY <1>1, <1>3, FirstOfBatch
<1>5. /\ batch \in Seq(Nat) /\ Increasing(batch) /\ Members(batch) \subseteq Pending
      /\ \A m \in Members(batch), n \in Pending : n < m => n \in Members(batch)
  BY DEF SteeringInv, Delivering
<1>6. /\ batch' \in Seq(Nat) /\ Increasing(batch') /\ Members(batch') = Members(batch) \ {Head(batch)}
  BY <1>1, <1>3, <1>5, Beheaded
<1>7. Pending' = Pending \ {Head(batch)}  BY <1>1 DEF Pending
<1>8. Delivering'
  <2>1. delivered' \subseteq Members(inbox')  BY <1>1, <1>4 DEF SteeringInv, Delivering, Pending
  <2>2. \A m \in delivered', n \in Pending' : m < n
    <3>1. ASSUME NEW n \in Pending' PROVE Head(batch) < n /\ \A m \in delivered : m < n
      <4>1. n \in Pending /\ n # Head(batch) /\ Head(batch) <= n  BY <1>4, <1>7
      <4>2. n \in Nat
        <5>1. inbox \in Seq(Nat)  BY DEF SteeringInv, Received
        <5> QED  BY <4>1, <5>1, Elements DEF Members, Pending
      <4> QED  BY <4>1, <4>2, <1>4 DEF SteeringInv, Delivering
    <3> QED  BY <3>1, <1>1
  <2>3. Members(batch') \subseteq Pending'  BY <1>5, <1>6, <1>7
  <2>4. \A m \in Members(batch'), n \in Pending' : n < m => n \in Members(batch')  BY <1>5, <1>6, <1>7
  <2>5. delivered' \subseteq Members(session)  BY <1>1, <1>3 DEF SteeringInv, Delivering
  <2>6. Members(session) \ delivered' = {}  BY <1>4
  <2> QED  BY <1>1, <1>2, <1>6, <2>1, <2>2, <2>3, <2>4, <2>5, <2>6 DEF SteeringInv, Delivering
<1>9. lock' \notin Pollers => scan = NoScan  BY <1>1 DEF SteeringInv, Scanned
<1> QED  BY <1>1, <1>2, <1>8, <1>9, Frames DEF SteeringInv, slack, file

LEMMA CallModelIInv == ASSUME SteeringInv, CallModel PROVE SteeringInv'
<1>1. /\ pc[Boundary] = "deliver" /\ pc' = [pc EXCEPT ![Boundary] = "idle"]
      /\ UNCHANGED slack /\ UNCHANGED file /\ UNCHANGED <<session, lock, scan, asked, batch, crashes>>
  BY DEF CallModel
<1>2. Places' /\ pc'[Boundary] = "idle" /\ \A e \in Escalators : pc'[e] = pc[e]  BY <1>1, BoundaryGoes
<1>3. lock' \notin Pollers => scan = NoScan  BY <1>1 DEF SteeringInv, Scanned
<1> QED  BY <1>1, <1>2, <1>3, Frames DEF SteeringInv, slack, file

----------------------------------------------------------------------------
(* Escalation *)

LEMMA WantEscalateIInv ==
  ASSUME SteeringInv, NEW e \in Escalators, NEW r \in Requests, NEW b \in Bodies, WantEscalate(e, r, b)
  PROVE  SteeringInv'
<1>1. /\ pc[e] = "idle" /\ pc' = [pc EXCEPT ![e] = "lock"]
      /\ asked' = [asked EXCEPT ![e] = [request |-> r, body |-> b]]
      /\ UNCHANGED slack /\ UNCHANGED file /\ UNCHANGED <<session, lock, scan, batch, crashes>>
  BY DEF WantEscalate, Waits
<1>2. /\ e \in Users /\ e # Boundary /\ Boundary \in Users /\ e \notin Resters
      /\ Resters \subseteq Users /\ Escalators \subseteq Users
  BY SteeringAssumption DEF Users, Pollers
<1>3. [request |-> r, body |-> b] \in Call  BY DEF Call
<1>4. \A u \in Users : pc'[u] = IF u = e THEN "lock" ELSE pc[u]  BY <1>1, <1>2 DEF SteeringInv, Places
<1>5. \A d \in Escalators : asked'[d] = IF d = e THEN [request |-> r, body |-> b] ELSE asked[d]
  BY <1>1 DEF SteeringInv, Places
<1>6. Places'
  <2>1. pc' \in [Users -> {"idle", "lock", "scan", "deliver", "mark", "sending", "posted"}]
    BY <1>1 DEF SteeringInv, Places
  <2>2. asked' \in [Escalators -> {NoAsk} \cup Call]  BY <1>1, <1>3 DEF SteeringInv, Places
  <2>3. \A d \in Escalators : pc'[d] # "idle" => asked'[d] \in Call  BY <1>2, <1>3, <1>4, <1>5 DEF SteeringInv, Places
  <2> QED  BY <1>1, <1>2, <1>4, <2>1, <2>2, <2>3 DEF SteeringInv, Places
<1>7. \A d \in Escalators : pc'[d] \in {"sending", "posted"} => pc'[d] = pc[d] /\ asked'[d] = asked[d]
  BY <1>2, <1>4, <1>5
<1>8. pc'[Boundary] = pc[Boundary]  BY <1>2, <1>4
<1>9. lock' \notin Pollers => scan = NoScan  BY <1>1 DEF SteeringInv, Scanned
<1> QED  BY <1>1, <1>6, <1>7, <1>8, <1>9, Frames DEF SteeringInv, slack, file

\* A call that is answered, and one that has done what it came for.
LEMMA CallReturns ==
  ASSUME SteeringInv, NEW e \in Escalators, pc' = [pc EXCEPT ![e] = "idle"], asked' = [asked EXCEPT ![e] = NoAsk],
         lock' = IF pc[e] \in {"sending", "posted"} THEN Nil ELSE lock
  PROVE  /\ Places' /\ pc'[Boundary] = pc[Boundary] /\ pc'[e] = "idle"
         /\ \A d \in Escalators \ {e} : pc'[d] = pc[d] /\ asked'[d] = asked[d]
<1>1. /\ e \in Users /\ e # Boundary /\ Boundary \in Users /\ e \notin Resters
      /\ Resters \subseteq Users /\ Escalators \subseteq Users /\ Nil \notin Users
  BY SteeringAssumption DEF Users, Pollers
<1>2. \A u \in Users : pc'[u] = IF u = e THEN "idle" ELSE pc[u]  BY <1>1 DEF SteeringInv, Places
<1>3. \A d \in Escalators : asked'[d] = IF d = e THEN NoAsk ELSE asked[d]  BY DEF SteeringInv, Places
<1>4. pc' \in [Users -> {"idle", "lock", "scan", "deliver", "mark", "sending", "posted"}]  BY DEF SteeringInv, Places
<1>5. asked' \in [Escalators -> {NoAsk} \cup Call]  BY DEF SteeringInv, Places
<1>6. \A u \in Users : pc'[u] \in {"scan", "sending", "posted"} <=> lock' = u
  <2>1. \A u \in Users : pc[u] \in {"scan", "sending", "posted"} <=> lock = u  BY DEF SteeringInv, Places
  <2>2. CASE lock = e
    <3>1. pc[e] \in {"sending", "posted"}  BY <2>1, <2>2, <1>1 DEF SteeringInv, Places
    <3> QED  BY <3>1, <2>1, <2>2, <1>1, <1>2
  <2>3. CASE lock # e
    <3>1. pc[e] \notin {"sending", "posted"}  BY <2>1, <2>3, <1>1
    <3> QED  BY <3>1, <2>1, <2>3, <1>1, <1>2
  <2> QED  BY <2>2, <2>3
<1>7. lock' \in Users \cup {Nil}  BY DEF SteeringInv, Places
<1> QED  BY <1>1, <1>2, <1>3, <1>4, <1>5, <1>6, <1>7 DEF SteeringInv, Places

LEMMA AnswerIInv == ASSUME SteeringInv, NEW e \in Escalators, Answer(e) PROVE SteeringInv'
<1>1. /\ pc[e] = "lock" /\ pc' = [pc EXCEPT ![e] = "idle"] /\ asked' = [asked EXCEPT ![e] = NoAsk]
      /\ UNCHANGED slack /\ UNCHANGED file /\ UNCHANGED <<session, lock, scan, batch, crashes>>
  BY DEF Answer
<1>2. /\ Places' /\ pc'[Boundary] = pc[Boundary] /\ pc'[e] = "idle"
      /\ \A d \in Escalators \ {e} : pc'[d] = pc[d] /\ asked'[d] = asked[d]
  BY <1>1, CallReturns
<1>3. \A d \in Escalators : pc'[d] \in {"sending", "posted"} => pc'[d] = pc[d] /\ asked'[d] = asked[d]
  BY <1>2
<1>4. lock' \notin Pollers => scan = NoScan  BY <1>1 DEF SteeringInv, Scanned
<1> QED  BY <1>1, <1>2, <1>3, <1>4, Frames DEF SteeringInv, slack, file

\* Nobody else sends when one takes the lock.
LEMMA EscalateIInv == ASSUME SteeringInv, NEW e \in Escalators, Escalate(e) PROVE SteeringInv'
<1>1. /\ pc[e] = "lock" /\ lock = Nil /\ outbox[asked[e].request] = NoEntry /\ lock' = e
      /\ outbox' = [outbox EXCEPT ![asked[e].request] = [body |-> asked[e].body, status |-> "sending"]]
      /\ pc' = [pc EXCEPT ![e] = "sending"]
      /\ UNCHANGED slack /\ UNCHANGED <<cursor, inbox, delivered, status, session, scan, asked, batch, crashes>>
  BY DEF Escalate, Recorded, Entry
<1>2. /\ e \in Users /\ e # Boundary /\ Boundary \in Users /\ e \notin Resters /\ e \notin Pollers
      /\ Resters \subseteq Users /\ Escalators \subseteq Users /\ Nil \notin Users
  BY SteeringAssumption DEF Users, Pollers
<1>3. asked[e] \in Call  BY <1>1 DEF SteeringInv, Places
<1>4. PICK r \in Requests : r = asked[e].request  BY <1>3 DEF Call
<1>5. PICK entry : entry = [body |-> asked[e].body, status |-> "sending"]  OBVIOUS
<1>6. entry \in [body : Bodies \cup {Nil}, status : Deliveries] /\ entry.status = "sending"
  BY <1>3, <1>5 DEF Call, Deliveries
<1>7. \A u \in Users : pc[u] \notin {"scan", "sending", "posted"}  BY <1>1, <1>2 DEF SteeringInv, Places
<1>8. \A u \in Users : pc'[u] = IF u = e THEN "sending" ELSE pc[u]  BY <1>1, <1>2 DEF SteeringInv, Places
<1>9. Places'
  <2>1. pc' \in [Users -> {"idle", "lock", "scan", "deliver", "mark", "sending", "posted"}]
    BY <1>1 DEF SteeringInv, Places
  <2>2. \A u \in Users : pc'[u] \in {"scan", "sending", "posted"} <=> lock' = u  BY <1>1, <1>2, <1>7, <1>8
  <2>3. \A d \in Escalators : pc'[d] # "idle" => asked'[d] \in Call  BY <1>1, <1>2, <1>3, <1>8 DEF SteeringInv, Places
  <2> QED  BY <1>1, <1>2, <1>8, <2>1, <2>2, <2>3 DEF SteeringInv, Places
<1>10. Sending'
  <2>1. outbox' = [outbox EXCEPT ![r] = entry]  BY <1>1, <1>4, <1>5
  <2>2. /\ outbox' \in [Requests -> [body : Bodies \cup {Nil}, status : Deliveries]]
        /\ \A q \in Requests : outbox'[q] = IF q = r THEN entry ELSE outbox[q]
    BY <2>1, <1>6 DEF SteeringInv, Sending
  <2>3. posts[r] = 0  BY <1>1, <1>4 DEF SteeringInv, Sending, NoEntry
  <2>4. \A d \in Escalators : pc'[d] \in {"sending", "posted"} => d = e  BY <1>2, <1>7, <1>8
  <2>5. posts' = posts /\ asked' = asked  BY <1>1 DEF slack
  <2>6. \A q \in Requests : /\ outbox'[q].status = Nil => posts[q] = 0
                            /\ outbox'[q].status = "posted" => posts[q] = 1
    <3>1. "sending" # Nil /\ "sending" # "posted"  BY DEF Nil
    <3> QED  BY <3>1, <2>2, <1>6 DEF SteeringInv, Sending
  <2>7. pc'[e] = "sending" /\ outbox'[asked'[e].request].status = "sending" /\ posts'[asked'[e].request] = 0
    BY <1>2, <1>4, <1>6, <1>8, <2>2, <2>3, <2>5
  <2> QED  BY <2>2, <2>4, <2>5, <2>6, <2>7 DEF SteeringInv, Sending
<1>11. pc'[Boundary] = pc[Boundary]  BY <1>2, <1>8
<1>12. scan = NoScan  BY <1>1, <1>2 DEF SteeringInv, Scanned, Users
<1> QED  BY <1>1, <1>9, <1>10, <1>11, <1>12, Frames DEF SteeringInv, slack

LEMMA PostedIInv == ASSUME SteeringInv, NEW e \in Escalators, Posted(e) PROVE SteeringInv'
<1>1. /\ pc[e] = "sending" /\ pc' = [pc EXCEPT ![e] = "posted"]
      /\ posts' = [posts EXCEPT ![asked[e].request] = @ + 1]
      /\ UNCHANGED file /\ UNCHANGED <<threaded, sent, steering, session, lock, scan, asked, batch, crashes>>
  BY DEF Posted
<1>2. /\ e \in Users /\ e # Boundary /\ Boundary \in Users /\ e \notin Resters
      /\ Resters \subseteq Users /\ Escalators \subseteq Users
  BY SteeringAssumption DEF Users, Pollers
<1>3. asked[e] \in Call  BY <1>1 DEF SteeringInv, Places
<1>4. PICK r \in Requests : r = asked[e].request  BY <1>3 DEF Call
<1>5. \A u \in Users : pc'[u] = IF u = e THEN "posted" ELSE pc[u]  BY <1>1, <1>2 DEF SteeringInv, Places
<1>6. \A u \in Users \ {e} : pc[u] \notin {"scan", "sending", "posted"}  BY <1>1, <1>2 DEF SteeringInv, Places
<1>7. Places'
  <2>1. pc' \in [Users -> {"idle", "lock", "scan", "deliver", "mark", "sending", "posted"}]
    BY <1>1 DEF SteeringInv, Places
  <2>2. \A u \in Users : pc'[u] \in {"scan", "sending", "posted"} <=> lock' = u
    BY <1>1, <1>2, <1>5 DEF SteeringInv, Places
  <2> QED  BY <1>1, <1>2, <1>3, <1>5, <2>1, <2>2 DEF SteeringInv, Places
<1>8. Sending'
  <2>1. posts[r] = 0 /\ outbox[r].status = "sending"  BY <1>1, <1>4 DEF SteeringInv, Sending
  <2>2. /\ posts' = [posts EXCEPT ![r] = 1] /\ posts' \in [Requests -> 0..1]
        /\ \A q \in Requests : posts'[q] = IF q = r THEN 1 ELSE posts[q]
    BY <1>1, <1>4, <2>1 DEF SteeringInv, Sending
  <2>3. \A d \in Escalators : pc'[d] \in {"sending", "posted"} => d = e  BY <1>2, <1>5, <1>6
  <2>4. outbox' = outbox /\ asked' = asked  BY <1>1 DEF file
  <2>5. \A q \in Requests : /\ outbox[q].status = Nil => posts'[q] = 0
                            /\ outbox[q].status = "posted" => posts'[q] = 1
    <3>1. "sending" # Nil  BY DEF Nil
    <3> QED  BY <3>1, <2>1, <2>2 DEF SteeringInv, Sending
  <2>6. /\ pc'[e] = "posted" /\ outbox'[asked'[e].request].status = "sending"
        /\ posts'[asked'[e].request] = 1
    BY <1>2, <1>4, <1>5, <2>1, <2>2, <2>4
  <2> QED  BY <2>2, <2>3, <2>4, <2>5, <2>6 DEF SteeringInv, Sending
<1>9. pc'[Boundary] = pc[Boundary]  BY <1>2, <1>5
<1>10. lock' \notin Pollers => scan = NoScan  BY <1>1 DEF SteeringInv, Scanned
<1> QED  BY <1>1, <1>7, <1>8, <1>9, <1>10, Frames DEF SteeringInv, file

LEMMA SettleIInv == ASSUME SteeringInv, NEW e \in Escalators, Settle(e) PROVE SteeringInv'
<1>1. PICK outcome \in Outcomes(e) :
        /\ pc[e] \in {"sending", "posted"} /\ pc' = [pc EXCEPT ![e] = "idle"] /\ asked' = [asked EXCEPT ![e] = NoAsk]
        /\ outbox' = [outbox EXCEPT ![asked[e].request] = [body |-> asked[e].body, status |-> outcome]]
        /\ lock' = Nil /\ UNCHANGED slack
        /\ UNCHANGED <<cursor, inbox, delivered, status, session, scan, batch, crashes>>
  BY DEF Settle
<1>2. /\ Places' /\ pc'[Boundary] = pc[Boundary] /\ pc'[e] = "idle"
      /\ \A d \in Escalators \ {e} : pc'[d] = pc[d] /\ asked'[d] = asked[d]
  BY <1>1, CallReturns
<1>3. e \in Users /\ e \notin Pollers /\ Escalators \subseteq Users  BY SteeringAssumption DEF Users, Pollers
<1>4. lock = e /\ asked[e] \in Call  BY <1>1, <1>3 DEF SteeringInv, Places
<1>5. PICK r \in Requests : r = asked[e].request  BY <1>4 DEF Call
<1>6. PICK entry : entry = [body |-> asked[e].body, status |-> outcome]  OBVIOUS
<1>7. /\ entry \in [body : Bodies \cup {Nil}, status : Deliveries] /\ entry.status # Nil
      /\ entry.status = "posted" => posts[r] = 1
  <2>1. outcome \in {"rejected", "uncertain", "posted"} /\ (outcome = "posted" => pc[e] = "posted")
    BY <1>1 DEF Outcomes
  <2>2. pc[e] = "posted" => posts[r] = 1  BY <1>5 DEF SteeringInv, Sending
  <2> QED  BY <2>1, <2>2, <1>4, <1>6 DEF Call, Deliveries, Nil
<1>8. Sending'
  <2>1. outbox' = [outbox EXCEPT ![r] = entry]  BY <1>1, <1>5, <1>6
  <2>2. /\ outbox' \in [Requests -> [body : Bodies \cup {Nil}, status : Deliveries]]
        /\ \A q \in Requests : outbox'[q] = IF q = r THEN entry ELSE outbox[q]
    BY <2>1, <1>7 DEF SteeringInv, Sending
  <2>3. \A d \in Escalators : pc'[d] \notin {"sending", "posted"}
    <3>1. \A d \in Escalators \ {e} : pc[d] \notin {"sending", "posted"}  BY <1>3, <1>4 DEF SteeringInv, Places
    <3> QED  BY <3>1, <1>2
  <2>4. posts' = posts  BY <1>1 DEF slack
  <2>5. \A q \in Requests : /\ outbox'[q].status = Nil => posts[q] = 0
                            /\ outbox'[q].status = "posted" => posts[q] = 1
    BY <2>2, <1>7 DEF SteeringInv, Sending
  <2>6. \A d \in Escalators :
          /\ pc'[d] \in {"sending", "posted"} => outbox'[asked'[d].request].status = "sending"
          /\ pc'[d] = "sending" => posts'[asked'[d].request] = 0
          /\ pc'[d] = "posted" => posts'[asked'[d].request] = 1
    BY <2>3
  <2> QED  BY <2>2, <2>4, <2>5, <2>6 DEF SteeringInv, Sending
<1>9. scan = NoScan  BY <1>3, <1>4 DEF SteeringInv, Scanned
<1> QED  BY <1>1, <1>2, <1>8, <1>9, Frames DEF SteeringInv, slack

\* The scan of a tool that is interrupted is given up.
LEMMA CancelToolIInv == ASSUME SteeringInv, NEW u \in Users, CancelTool(u) PROVE SteeringInv'
<1>1. /\ u # Boundary /\ pc[u] # "idle" /\ pc' = [pc EXCEPT ![u] = "idle"]
      /\ IF lock = u THEN lock' = Nil /\ scan' = NoScan ELSE lock' = lock /\ scan' = scan
      /\ asked' = [e \in Escalators |-> IF e = u THEN NoAsk ELSE asked[e]]
      /\ UNCHANGED slack /\ UNCHANGED file /\ UNCHANGED <<session, batch, crashes>>
  BY DEF CancelTool
<1>2. /\ Boundary \in Users /\ Resters \subseteq Users /\ Escalators \subseteq Users /\ Nil \notin Users
  BY SteeringAssumption DEF Users, Pollers
<1>3. \A v \in Users : pc'[v] = IF v = u THEN "idle" ELSE pc[v]  BY <1>1 DEF SteeringInv, Places
<1>4. \A v \in Users : pc[v] \in {"scan", "sending", "posted"} <=> lock = v  BY DEF SteeringInv, Places
<1>5. Places'
  <2>1. pc' \in [Users -> {"idle", "lock", "scan", "deliver", "mark", "sending", "posted"}]
    BY <1>1 DEF SteeringInv, Places
  <2>2. asked' \in [Escalators -> {NoAsk} \cup Call]
    <3>1. \A e \in Escalators : (IF e = u THEN NoAsk ELSE asked[e]) \in {NoAsk} \cup Call  BY DEF SteeringInv, Places
    <3> QED  BY <3>1, <1>1
  <2>3. \A e \in Escalators : pc'[e] # "idle" => asked'[e] \in Call  BY <1>1, <1>2, <1>3 DEF SteeringInv, Places
  <2>4. \A v \in Users : pc'[v] \in {"scan", "sending", "posted"} <=> lock' = v
    <3>1. CASE lock = u  BY <3>1, <1>1, <1>2, <1>3, <1>4
    <3>2. CASE lock # u  BY <3>2, <1>1, <1>2, <1>3, <1>4
    <3> QED  BY <3>1, <3>2
  <2>5. lock' \in Users \cup {Nil}  BY <1>1 DEF SteeringInv, Places
  <2>6. pc'[Boundary] \notin {"sending", "posted"}  BY <1>1, <1>2, <1>3 DEF SteeringInv, Places
  <2>7. \A v \in Resters : pc'[v] \in {"idle", "lock", "scan"}  BY <1>2, <1>3 DEF SteeringInv, Places
  <2>8. \A e \in Escalators : pc'[e] \in {"idle", "lock", "sending", "posted"}  BY <1>2, <1>3 DEF SteeringInv, Places
  <2> QED  BY <2>1, <2>2, <2>3, <2>4, <2>5, <2>6, <2>7, <2>8 DEF Places
<1>6. \A e \in Escalators : pc'[e] \in {"sending", "posted"} => pc'[e] = pc[e] /\ asked'[e] = asked[e]
  BY <1>1, <1>2, <1>3
<1>7. pc'[Boundary] = pc[Boundary]  BY <1>1, <1>2, <1>3
<1>8. Scanned'
  <2>1. UNCHANGED <<threaded, sent>> /\ sent \in Nat  BY <1>1, SteeringAssumption DEF slack, SteeringInv, Slack
  <2>2. CASE lock = u
    <3>1. scan' = NoScan  BY <1>1, <2>2
    <3> QED  BY <2>1, <3>1 DEF Scanned, NoScan
  <2>3. CASE lock # u  BY <2>1, <2>3, <1>1 DEF SteeringInv, Scanned
  <2> QED  BY <2>2, <2>3
<1> QED  BY <1>1, <1>5, <1>6, <1>7, <1>8, Frames DEF SteeringInv, slack, file

\* A new process knows of what is being sent that it may have been posted.
LEMMA StartAgainIInv ==
  ASSUME SteeringInv, StartAgain, UNCHANGED slack, UNCHANGED <<cursor, inbox, delivered, session>>,
         status' \in {status, "delivery_failed"}
  PROVE  SteeringInv'
<1>1. /\ crashes < MaxCrashes /\ crashes' = crashes + 1 /\ outbox' = Loaded
      /\ lock' = Nil /\ pc' = [u \in Users |-> "idle"] /\ scan' = NoScan
      /\ asked' = [e \in Escalators |-> NoAsk] /\ batch' = <<>>
  BY DEF StartAgain
<1>2. Boundary \in Users /\ Resters \subseteq Users /\ Escalators \subseteq Users /\ Nil \notin Users
  BY SteeringAssumption DEF Users, Pollers
<1>3. Slack'
  <2>1. crashes' \in 0..MaxCrashes  BY <1>1, SteeringAssumption DEF SteeringInv, Slack
  <2> QED  BY <2>1 DEF SteeringInv, Slack, slack
<1>4. Places'  BY <1>1, <1>2 DEF Places
<1>5. Sending'
  <2>1. \A r \in Requests : /\ outbox'[r] \in [body : Bodies \cup {Nil}, status : Deliveries]
                            /\ outbox'[r].status = IF outbox[r].status = "sending" THEN "uncertain" ELSE outbox[r].status
    <3>1. TAKE r \in Requests
    <3>2. outbox[r] \in [body : Bodies \cup {Nil}, status : Deliveries]  BY DEF SteeringInv, Sending
    <3>3. outbox'[r] = IF outbox[r].status = "sending" THEN [outbox[r] EXCEPT !.status = "uncertain"] ELSE outbox[r]
      BY <1>1 DEF Loaded
    <3> QED  BY <3>2, <3>3 DEF Deliveries
  <2>2. outbox' \in [Requests -> [body : Bodies \cup {Nil}, status : Deliveries]]  BY <1>1, <2>1 DEF Loaded
  <2>3. posts' = posts  BY DEF slack
  <2>4. \A r \in Requests : /\ outbox'[r].status = Nil => posts[r] = 0
                            /\ outbox'[r].status = "posted" => posts[r] = 1
    <3>1. "uncertain" # Nil /\ "uncertain" # "posted"  BY DEF Nil
    <3> QED  BY <3>1, <2>1 DEF SteeringInv, Sending
  <2>5. \A e \in Escalators : pc'[e] = "idle"  BY <1>1, <1>2
  <2> QED  BY <2>2, <2>3, <2>4, <2>5 DEF SteeringInv, Sending
<1>6. Scanned'
  <2>1. UNCHANGED <<threaded, sent>> /\ sent \in Nat  BY SteeringAssumption DEF slack, SteeringInv, Slack
  <2> QED  BY <2>1, <1>1 DEF Scanned, NoScan
<1>7. Received'  BY Frames DEF slack
<1>8. Delivering'
  <2>1. <<>> \in Seq(Nat) /\ Increasing(<<>>) /\ Members(<<>>) = {}  BY DEF Increasing, Members
  <2>2. pc'[Boundary] # "mark"  BY <1>1, <1>2
  <2> QED  BY <1>1, <2>1, <2>2 DEF SteeringInv, Delivering, Pending
<1> QED  BY <1>3, <1>4, <1>5, <1>6, <1>7, <1>8 DEF SteeringInv

LEMMA NextSteering == SteeringInv /\ [SteeringNext]_steeringVars => SteeringInv'
<1> SUFFICES ASSUME SteeringInv, [SteeringNext]_steeringVars PROVE SteeringInv'  OBVIOUS
<1>1. CASE Write  BY <1>1, WriteIInv
<1>2. CASE Deliver  BY <1>2, AddEnvelopeIInv, MarkDeliveredIInv, CallModelIInv DEF Deliver
<1>3. CASE Crash \/ DeliveryFails
  <2>1. StartAgain /\ UNCHANGED slack /\ UNCHANGED <<cursor, inbox, delivered, session>>
        /\ status' \in {status, "delivery_failed"}
    BY <1>3 DEF Crash, DeliveryFails
  <2> QED  BY <2>1, StartAgainIInv
<1>4. ASSUME NEW p \in Pollers, WantPoll(p) \/ Poll(p) PROVE SteeringInv'
  BY <1>4, WantPollIInv, StartScanIInv, ReadPageIInv, PollFailsIInv DEF Poll
<1>5. ASSUME NEW u \in Users, CancelTool(u) PROVE SteeringInv'  BY <1>5, CancelToolIInv
<1>6. ASSUME NEW e \in Escalators, Escalation(e) PROVE SteeringInv'
  BY <1>6, AnswerIInv, EscalateIInv, PostedIInv, SettleIInv DEF Escalation
<1>7. ASSUME NEW e \in Escalators, NEW r \in Requests, NEW b \in Bodies, WantEscalate(e, r, b) PROVE SteeringInv'
  BY <1>7, WantEscalateIInv
<1>8. CASE UNCHANGED steeringVars
  BY <1>8, Frames DEF SteeringInv, Scanned, steeringVars, slack, file
<1> QED  BY <1>1, <1>2, <1>3, <1>4, <1>5, <1>6, <1>7, <1>8 DEF SteeringNext

\* The invariant is what SteeringIsTrue says, and more.
LEMMA SteeringConsequences == SteeringInv => SteeringIsTrue
<1> SUFFICES ASSUME SteeringInv PROVE SteeringIsTrue  OBVIOUS
<1>1. \A s \in Seq(Nat) : Members(s) \subseteq steering => s \in Seq(steering)
  <2>1. TAKE s \in Seq(Nat)
  <2>2. SUFFICES ASSUME Members(s) \subseteq steering PROVE s \in Seq(steering)  OBVIOUS
  <2>3. \A i \in 1..Len(s) : s[i] \in steering  BY <2>2 DEF Members
  <2> QED  BY <2>3
<1>2. Members(inbox) \subseteq steering /\ Members(batch) \subseteq steering /\ Members(session) \subseteq steering
  BY DEF SteeringInv, Received, Delivering, Pending
<1>3. inbox \in Seq(steering) /\ batch \in Seq(steering) /\ session \in Seq(steering)
  BY <1>1, <1>2 DEF SteeringInv, Received, Delivering
<1>4. SteeringTypeOK
  <2>1. \A u \in Users : (pc[u] \in {"scan", "sending", "posted"}) = (lock = u)  BY DEF SteeringInv, Places
  <2>2. posts \in [Requests -> Nat]  BY DEF SteeringInv, Sending
  <2>3. asked \in [Escalators -> {NoAsk} \cup [request : Requests, body : Bodies]]  BY DEF SteeringInv, Places, Call
  <2>4. outbox \in [Requests -> [body : Bodies \cup {Nil}, status : {Nil, "sending", "posted", "rejected", "uncertain"}]]
    BY DEF SteeringInv, Sending, Deliveries
  <2>5. scan # NoScan => lock \in Pollers  BY DEF SteeringInv, Scanned
  <2> QED  BY <1>3, <2>1, <2>2, <2>3, <2>4, <2>5 DEF SteeringTypeOK, SteeringInv, Slack, Received, Delivering
<1>5. PostedOnce  BY DEF PostedOnce, SteeringInv, Sending
<1>6. OutboxIsTrue  BY DEF OutboxIsTrue, NoEntry, SteeringInv, Sending
<1>7. NothingSkipped  BY DEF NothingSkipped, SteeringInv, Received
<1> QED  BY <1>4, <1>5, <1>6, <1>7 DEF SteeringIsTrue

\* steering.py: whatever fails, is retried, interrupted or stopped, and however many pages
\* there are to read, an escalation is posted at most once, the outbox vouches for Slack, and
\* no poll leaves a message behind.
THEOREM SteeringIsTrueHolds == SteeringSpec => []SteeringIsTrue
BY InitSteering, NextSteering, SteeringConsequences, PTL DEF SteeringSpec

----------------------------------------------------------------------------
(* The channel: what the operators write is the messages of steering in the order of their *)
(* timestamps, and the session is always the beginning of that.                             *)

LEMMA SameSequence ==
  ASSUME NEW s \in Seq(Nat), NEW t \in Seq(Nat), Increasing(s), Increasing(t), Members(s) = Members(t)
  PROVE  s = t
<1>1. Len(s) <= Len(t) /\ \A i \in 1..Len(s) : s[i] = t[i]  BY Beginning
<1>2. Len(t) <= Len(s)  BY Beginning
<1>3. Len(s) = Len(t)
  <2>1. Len(s) \in Nat /\ Len(t) \in Nat  OBVIOUS
  <2> QED  BY <1>1, <1>2, <2>1
<1>4. s = [i \in 1..Len(s) |-> s[i]] /\ t = [i \in 1..Len(t) |-> t[i]]  OBVIOUS
<1>5. [i \in 1..Len(s) |-> s[i]] = [i \in 1..Len(t) |-> t[i]]  BY <1>1, <1>3
<1> QED  BY <1>4, <1>5

LEMMA WrittenFacts ==
  ASSUME SteeringInv
  PROVE  Sorted(steering) \in Seq(Nat) /\ Increasing(Sorted(steering)) /\ Members(Sorted(steering)) = steering
<1>1. sent \in Nat /\ steering \subseteq 1..sent  BY SteeringAssumption DEF SteeringInv, Slack
<1> QED  BY <1>1, ListedInOrder DEF Sorted

\* No message comes to the session before an earlier one.
LEMMA SessionHasTheFirst ==
  ASSUME SteeringInv, NEW m \in steering, NEW n \in Members(session), m <= n
  PROVE  m \in Members(session)
<1>1. /\ Members(inbox) = {k \in steering : k <= cursor} /\ cursor \in Nat /\ steering \subseteq Nat
      /\ delivered \subseteq Members(session) /\ Members(session) \subseteq Members(inbox)
      /\ \A k \in Members(session) \ delivered, l \in Pending : k <= l
      /\ \A k \in delivered, l \in Pending : k < l
  BY SteeringAssumption DEF SteeringInv, Slack, Received, Delivering
<1>2. m \in Nat /\ n \in Nat /\ n <= cursor  BY <1>1
<1>3. m \in Members(inbox)  BY <1>1, <1>2
<1>4. CASE m \in delivered  BY <1>1, <1>4
<1>5. CASE m \notin delivered
  <2>1. m \in Pending  BY <1>3, <1>5 DEF Pending
  <2>2. n \notin delivered  BY <2>1, <1>1, <1>2
  <2>3. n <= m  BY <2>1, <2>2, <1>1
  <2>4. m = n  BY <2>3, <1>2
  <2> QED  BY <2>4
<1> QED  BY <1>4, <1>5

LEMMA WriteIsWrite == ASSUME SteeringInv, Write PROVE Channel!Write \/ UNCHANGED Channel!vars
<1>1. /\ sent \in Nat /\ sent' = sent + 1 /\ sent' \in 1..MaxMessages /\ steering \subseteq 1..sent
      /\ steering' \in {steering, steering \cup {sent'}} /\ session' = session
  BY SteeringAssumption DEF Write, SteeringInv, Slack
<1>2. PICK w : w = Sorted(steering)  OBVIOUS
<1>3. PICK v : v = Kept([m \in 1..sent' |-> m], steering')  OBVIOUS
<1>4. w \in Seq(Nat) /\ Increasing(w) /\ Members(w) = steering  BY <1>2, WrittenFacts
<1>5. v \in Seq(Nat) /\ Increasing(v) /\ Members(v) = steering'
  <2>1. steering' \subseteq 1..sent' /\ sent' \in Nat  BY <1>1
  <2> QED  BY <2>1, <1>3, ListedInOrder
<1>6. Sorted(steering)' = v  BY <1>3 DEF Sorted
<1>7. CASE steering' = steering
  <2>1. v = w  BY <1>4, <1>5, <1>7, SameSequence
  <2> QED  BY <2>1, <1>1, <1>2, <1>6 DEF Channel!vars
<1>8. CASE steering' = steering \cup {sent'}
  <2>1. ASSUME NEW x \in Members(w) PROVE x < sent'
    <3>1. x \in 1..sent  BY <1>1, <1>4
    <3> QED  BY <3>1, <1>1
  <2>2. /\ Append(w, sent') \in Seq(Nat) /\ Increasing(Append(w, sent'))
        /\ Members(Append(w, sent')) = steering'
    BY <1>1, <1>4, <1>8, <2>1, Appended
  <2>3. v = Append(w, sent')  BY <2>2, <1>5, SameSequence
  <2> QED  BY <2>3, <1>1, <1>2, <1>6 DEF Channel!Write
<1> QED  BY <1>1, <1>7, <1>8

LEMMA AddEnvelopeIsReceive == ASSUME SteeringInv, AddEnvelope PROVE Channel!Receive \/ UNCHANGED Channel!vars
<1>1. /\ batch # <<>> /\ sent' = sent /\ steering' = steering
      /\ session' = IF Head(batch) \in Members(session) THEN session ELSE Append(session, Head(batch))
  BY DEF AddEnvelope, slack
<1>2. PICK w : w = Sorted(steering)  OBVIOUS
<1>3. w \in Seq(Nat) /\ Increasing(w) /\ Members(w) = steering  BY <1>2, WrittenFacts
<1>4. Sorted(steering)' = w  BY <1>1, <1>2 DEF Sorted
<1>5. CASE session' = session  BY <1>2, <1>4, <1>5 DEF Channel!vars
<1>6. CASE Head(batch) \notin Members(session) /\ session' = Append(session, Head(batch))
  <2>1. PICK h : h = Head(batch)  OBVIOUS
  <2>2. /\ h \in Pending /\ h \in Nat /\ \A n \in Pending : h <= n
        /\ Members(session) \subseteq delivered /\ \A m \in delivered : m < h
    BY <2>1, <1>1, <1>6, FirstOfBatch
  <2>3. session \in Seq(Nat) /\ Increasing(session) /\ delivered \subseteq Members(session)
    BY DEF SteeringInv, Delivering
  <2>4. PICK more : more = Append(session, h)  OBVIOUS
  <2>5. /\ more \in Seq(Nat) /\ Increasing(more) /\ Members(more) = Members(session) \cup {h}
        /\ Len(more) = Len(session) + 1 /\ more[Len(session) + 1] = h
    BY <2>2, <2>3, <2>4, Appended
  <2>6. /\ Members(inbox) = {m \in steering : m <= cursor} /\ cursor \in Nat /\ steering \subseteq Nat
        /\ Members(session) \subseteq Members(inbox)
    BY SteeringAssumption DEF SteeringInv, Slack, Received, Delivering
  <2>7. Members(more) \subseteq Members(w)  BY <2>2, <2>5, <2>6, <1>3 DEF Pending
  <2>8. ASSUME NEW m \in Members(w), NEW n \in Members(more), m <= n PROVE m \in Members(more)
    <3>1. m \in steering /\ m \in Nat  BY <2>6, <1>3
    <3>2. CASE n \in Members(session)  BY <3>1, <3>2, <2>5, <2>8, SessionHasTheFirst
    <3>3. CASE n = h
      <4>1. h <= cursor  BY <2>2, <2>6 DEF Pending
      <4>2. m \in Members(inbox)  BY <3>1, <3>3, <4>1, <2>2, <2>6, <2>8
      <4>3. CASE m \in delivered  BY <4>3, <2>3, <2>5
      <4>4. CASE m \notin delivered
        <5>1. h <= m  BY <4>2, <4>4, <2>2 DEF Pending
        <5>2. m = h  BY <5>1, <3>1, <3>3, <2>2, <2>8
        <5> QED  BY <5>2, <2>5
      <4> QED  BY <4>3, <4>4
    <3> QED  BY <3>2, <3>3, <2>5
  <2>9. Len(more) <= Len(w) /\ \A i \in 1..Len(more) : more[i] = w[i]  BY <2>5, <2>7, <2>8, <1>3, Beginning
  <2>10. Len(session) < Len(w) /\ h = w[Len(session) + 1]
    <3>1. Len(session) \in Nat /\ Len(w) \in Nat /\ Len(session) + 1 \in 1..Len(more)  BY <2>3, <2>5, <1>3
    <3> QED  BY <3>1, <2>5, <2>9
  <2> QED  BY <2>1, <2>10, <1>2, <1>4, <1>6 DEF Channel!Receive
<1> QED  BY <1>1, <1>5, <1>6

LEMMA NextIsNext == SteeringInv /\ [SteeringNext]_steeringVars => [Channel!Next]_(Channel!vars)
<1> SUFFICES ASSUME SteeringInv, [SteeringNext]_steeringVars PROVE Channel!Next \/ UNCHANGED Channel!vars
  OBVIOUS
<1>1. CASE Write  BY <1>1, WriteIsWrite DEF Channel!Next
<1>2. CASE AddEnvelope  BY <1>2, AddEnvelopeIsReceive DEF Channel!Next
<1>3. CASE UNCHANGED <<sent, steering, session>>
  <2>1. Sorted(steering)' = Sorted(steering)  BY <1>3 DEF Sorted
  <2> QED  BY <2>1, <1>3 DEF Channel!vars
<1>4. CASE MarkDelivered \/ CallModel  BY <1>3, <1>4 DEF MarkDelivered, CallModel, slack
<1>5. CASE Crash \/ DeliveryFails  BY <1>3, <1>5 DEF Crash, DeliveryFails, slack
<1>6. ASSUME NEW p \in Pollers, WantPoll(p) \/ Poll(p) PROVE UNCHANGED <<sent, steering, session>>
  <2>1. CASE WantPoll(p) \/ StartScan(p)  BY <2>1 DEF WantPoll, StartScan, slack
  <2>2. CASE ReadPage(p)
    <3>1. CASE LastPage  BY <2>2, <3>1 DEF ReadPage, EndPoll, slack
    <3>2. CASE ~LastPage  BY <2>2, <3>2 DEF ReadPage, slack
    <3> QED  BY <3>1, <3>2
  <2>3. CASE ReadFails(p) \/ ScanIncomplete(p)  BY <2>3 DEF ReadFails, ScanIncomplete, EndPoll, slack
  <2> QED  BY <1>6, <2>1, <2>2, <2>3 DEF Poll
<1>7. ASSUME NEW u \in Users, CancelTool(u) PROVE UNCHANGED <<sent, steering, session>>
  BY <1>7 DEF CancelTool, slack
<1>8. ASSUME NEW e \in Escalators, Escalation(e) PROVE UNCHANGED <<sent, steering, session>>
  <2>1. CASE Answer(e) \/ Escalate(e)  BY <2>1 DEF Answer, Escalate, slack
  <2>2. CASE Posted(e) \/ Settle(e)  BY <2>2 DEF Posted, Settle, slack
  <2> QED  BY <1>8, <2>1, <2>2 DEF Escalation
<1>9. ASSUME NEW e \in Escalators, NEW r \in Requests, NEW b \in Bodies, WantEscalate(e, r, b)
      PROVE  UNCHANGED <<sent, steering, session>>
  BY <1>9 DEF WantEscalate, slack
<1>10. CASE UNCHANGED steeringVars  BY <1>3, <1>10 DEF steeringVars, slack
<1> QED  BY <1>1, <1>2, <1>3, <1>4, <1>5, <1>6, <1>7, <1>8, <1>9, <1>10 DEF SteeringNext, Deliver

\* steering.py, openai_agents_sdk.py: whatever is read twice, fails or is cut off between two
\* writes, the session receives the operators' messages once each and in order.
THEOREM ChannelIsImplemented == SteeringSpec => ChannelSpec
<1>1. SteeringInit => Channel!Init
  <2> SUFFICES ASSUME SteeringInit PROVE Sorted(steering) = <<>> /\ session = <<>>  BY DEF Channel!Init
  <2>1. SteeringInv /\ steering = {} /\ session = <<>>  BY InitSteering DEF SteeringInit
  <2>2. <<>> \in Seq(Nat) /\ Increasing(<<>>) /\ Members(<<>>) = {}  BY DEF Increasing, Members
  <2> QED  BY <2>1, <2>2, WrittenFacts, SameSequence
<1> QED  BY <1>1, InitSteering, NextSteering, NextIsNext, PTL DEF SteeringSpec, ChannelSpec, Channel!Spec

----------------------------------------------------------------------------
(* Pages *)

\* What the page will list: the incidents behind the one it starts from.
Behind(i) == position = 0 \/ Sooner(position, i)

PagesTypeOK ==
  /\ open \subseteq Incidents /\ running \subseteq Workloads /\ fleet \subseteq Workloads /\ items \subseteq Incidents
  /\ position \in Incidents \cup {0} /\ shown \in [Incidents -> Nat] /\ reader \in {"wait", "page", "end"}
  /\ stayed \subseteq open /\ moved \in BOOLEAN

\* What was shown ends at the cursor, and what stayed is shown or behind it.
SeenSoFar ==
  /\ reader = "end" => position = 0
  /\ reader # "end" /\ position = 0 => \A i \in Incidents : shown[i] = 0
  /\ ~moved /\ position # 0 =>
       /\ foremost = running
       /\ \A i \in Incidents : shown[i] <= 1 /\ (shown[i] = 1 => i = position \/ Sooner(i, position))
       /\ \A i \in stayed : shown[i] = 1 \/ Sooner(position, i)

\* The page: what it has read comes before what it has yet to list, and there is nothing
\* in between.
ReadSoFar ==
  reader = "page" /\ ~moved =>
    /\ foremost = running /\ after \in {0, position} /\ Cardinality(items) <= ListSize + 1
    /\ position # 0 => \A w \in fleet : w = Where[position] \/ Precedes(Where[position], w, foremost)
    /\ position # 0 /\ after = 0 => Where[position] \notin fleet
    /\ after # 0 => Where[position] \in fleet
    /\ \A j \in items : Behind(j) /\ \A w \in fleet : w # Where[j] /\ Precedes(Where[j], w, foremost)
    /\ \A i \in stayed :
         \/ shown[i] = 1 \/ i \in items \/ (Where[i] \in fleet /\ Behind(i))
         \/ Cardinality(items) > ListSize /\ \A j \in items : Sooner(j, i)

PagesInv == PagesTypeOK /\ SeenSoFar /\ ReadSoFar /\ PagesShowEveryIncident

LEMMA WorkloadsInOrder ==
  ASSUME NEW run
  PROVE  /\ \A v, w \in Workloads : ~(Precedes(v, w, run) /\ Precedes(w, v, run))
         /\ \A v, w \in Workloads : v # w => Precedes(v, w, run) \/ Precedes(w, v, run)
         /\ \A u, v, w \in Workloads : Precedes(u, v, run) /\ Precedes(v, w, run) => Precedes(u, w, run)
<1>1. Workloads \subseteq Nat
  BY PagesAssumption
<1> QED BY <1>1 DEF Precedes

\* Incidents are numbered, and those of a workload that precedes another come first.
LEMMA SoonerIsAnOrder ==
  /\ \A i, j \in Incidents : ~(Sooner(i, j) /\ Sooner(j, i))
  /\ \A i, j \in Incidents : i # j => Sooner(i, j) \/ Sooner(j, i)
  /\ \A i, j, k \in Incidents : Sooner(i, j) /\ Sooner(j, k) => Sooner(i, k)
<1>1. /\ Incidents \subseteq Nat \ {0} /\ \A i \in Incidents : Where[i] \in Workloads
  BY PagesAssumption
<1>2. \A i, j \in Incidents : ~(Sooner(i, j) /\ Sooner(j, i))
  BY <1>1, WorkloadsInOrder DEF Sooner
<1>3. \A i, j \in Incidents : i # j => Sooner(i, j) \/ Sooner(j, i)
  BY <1>1, WorkloadsInOrder DEF Sooner
<1>4. \A i, j, k \in Incidents : Sooner(i, j) /\ Sooner(j, k) => Sooner(i, k)
  <2> SUFFICES ASSUME NEW i \in Incidents, NEW j \in Incidents, NEW k \in Incidents, Sooner(i, j), Sooner(j, k)
               PROVE  Sooner(i, k)
    OBVIOUS
  <2>1. Where[i] \in Workloads /\ Where[j] \in Workloads /\ Where[k] \in Workloads /\ i \in Nat /\ j \in Nat /\ k \in Nat
    BY <1>1
  <2>2. CASE Where[i] = Where[j]
    BY <2>1, <2>2 DEF Sooner
  <2>3. CASE Where[i] # Where[j] /\ Where[j] = Where[k]
    BY <2>1, <2>3 DEF Sooner
  <2>4. CASE Where[i] # Where[j] /\ Where[j] # Where[k]
    <3>1. Precedes(Where[i], Where[j], foremost) /\ Precedes(Where[j], Where[k], foremost)
      BY <2>4 DEF Sooner
    <3>2. Precedes(Where[i], Where[k], foremost) /\ Where[i] # Where[k]
      BY <2>1, <3>1, WorkloadsInOrder
    <3> QED BY <3>2 DEF Sooner
  <2> QED BY <2>2, <2>3, <2>4
<1> QED BY <1>2, <1>3, <1>4

LEMMA IncidentsAreFinite == \A S \in SUBSET Incidents : IsFiniteSet(S) /\ Cardinality(S) \in Nat
BY PagesAssumption, FS_Subset, FS_CardinalityType

\* The places of a list are in its order.
LEMMA PlacesOnAPage ==
  ASSUME NEW S \in SUBSET Incidents
  PROVE  /\ \A i \in S : Place(i, S) \in 0..(Cardinality(S) - 1)
         /\ \A i, j \in S : Sooner(i, j) <=> Place(i, S) < Place(j, S)
         /\ \A i, j \in S : Place(i, S) = Place(j, S) => i = j
<1> DEFINE before(i) == {j \in S : Sooner(j, i)}
<1>1. IsFiniteSet(S) /\ Cardinality(S) \in Nat
  BY IncidentsAreFinite
<1>2. \A i \in S : IsFiniteSet(before(i)) /\ Cardinality(before(i)) \in Nat /\ Place(i, S) = Cardinality(before(i))
  BY IncidentsAreFinite DEF Place
<1>3. ASSUME NEW i \in S PROVE Place(i, S) \in 0..(Cardinality(S) - 1)
  <2>1. before(i) \in SUBSET S /\ before(i) # S
    BY SoonerIsAnOrder
  <2>2. Cardinality(before(i)) <= Cardinality(S) /\ Cardinality(before(i)) # Cardinality(S)
    BY <1>1, <2>1, FS_Subset
  <2> QED BY <1>1, <1>2, <2>2
<1>4. ASSUME NEW i \in S, NEW j \in S, Sooner(i, j) PROVE Place(i, S) < Place(j, S)
  <2>1. before(i) \in SUBSET before(j) /\ i \in before(j) /\ i \notin before(i)
    BY <1>4, SoonerIsAnOrder
  <2>2. Cardinality(before(i)) <= Cardinality(before(j)) /\ Cardinality(before(i)) # Cardinality(before(j))
    BY <1>2, <2>1, FS_Subset
  <2> QED BY <1>2, <2>2
<1>5. \A i \in S : Place(i, S) \in Nat
  BY <1>2
<1>6. \A i, j \in S : Sooner(i, j) <=> Place(i, S) < Place(j, S)
  <2> SUFFICES ASSUME NEW i \in S, NEW j \in S, Place(i, S) < Place(j, S) PROVE Sooner(i, j)
    BY <1>4
  <2>1. i # j /\ ~Sooner(j, i)
    BY <1>4, <1>5
  <2> QED BY <2>1, SoonerIsAnOrder
<1>7. ASSUME NEW i \in S, NEW j \in S, Place(i, S) = Place(j, S) PROVE i = j
  <2>1. ~Sooner(i, j) /\ ~Sooner(j, i)
    BY <1>5, <1>6, <1>7
  <2> QED BY <2>1, SoonerIsAnOrder
<1> QED BY <1>3, <1>6, <1>7

\* The first few are as many as may be when any is left, and all that are left come later.
LEMMA FirstFew ==
  ASSUME NEW S \in SUBSET Incidents, NEW n \in Nat
  PROVE  /\ FirstOf(S, n) \subseteq S /\ Cardinality(FirstOf(S, n)) <= n
         /\ \A i \in S \ FirstOf(S, n) : Cardinality(FirstOf(S, n)) = n /\ \A j \in FirstOf(S, n) : Sooner(j, i)
<1> DEFINE F == FirstOf(S, n)
           places == 0..(n - 1)
<1>1. F \subseteq S
  BY DEF FirstOf
<1>2. /\ \A i \in S : Place(i, S) \in 0..(Cardinality(S) - 1)
      /\ \A i, j \in S : Sooner(i, j) <=> Place(i, S) < Place(j, S)
      /\ \A i, j \in S : Place(i, S) = Place(j, S) => i = j
  BY PlacesOnAPage
<1>3. \A i \in S : i \in F <=> Place(i, S) < n
  BY DEF FirstOf
<1>4. IsFiniteSet(places) /\ Cardinality(places) = n
  <2>1. 0 \in Int /\ n - 1 \in Int /\ (0 > n - 1 => n = 0) /\ (n - 1) - 0 + 1 = n
    OBVIOUS
  <2>2. IsFiniteSet(0..(n - 1)) /\ Cardinality(0..(n - 1)) = IF 0 > n - 1 THEN 0 ELSE (n - 1) - 0 + 1
    BY <2>1, FS_Interval
  <2> QED BY <2>1, <2>2
<1> DEFINE place == [i \in F |-> Place(i, S)]
<1>5. place \in Injection(F, places)
  <2>1. \A i \in F : Place(i, S) \in places
    BY <1>1, <1>2, <1>3
  <2>2. \A i, j \in F : Place(i, S) = Place(j, S) => i = j
    BY <1>1, <1>2
  <2> HIDE DEF F, places
  <2> QED BY <2>1, <2>2 DEF Injection, IsInjective
<1>6. Cardinality(F) <= n
  BY <1>4, <1>5, FS_Injection
<1>7. ASSUME NEW i \in S \ F PROVE Cardinality(F) = n /\ \A j \in F : Sooner(j, i)
  <2>1. Place(i, S) \in Nat /\ ~(Place(i, S) < n) /\ \A j \in F : Place(j, S) \in Nat /\ Place(j, S) < n
    BY <1>1, <1>2, <1>3
  <2>2. \A j \in F : Sooner(j, i)
    BY <1>1, <1>2, <2>1
  \* Every place before that of i is taken.
  <2>3. place \in Surjection(F, places)
    <3> DEFINE all == 0..(Cardinality(S) - 1)
               whole == [j \in S |-> Place(j, S)]
    <3>1. IsFiniteSet(S) /\ Cardinality(S) \in Nat
      BY IncidentsAreFinite
    <3>2. whole \in Injection(S, all)
      BY <1>2 DEF Injection, IsInjective
    <3>3. IsFiniteSet(all) /\ Cardinality(all) = Cardinality(S)
      <4>1. Cardinality(S) - 1 \in Int /\ (0 > Cardinality(S) - 1 => Cardinality(S) = 0)
            /\ (Cardinality(S) - 1) - 0 + 1 = Cardinality(S) /\ 0 \in Int
        BY <3>1
      <4>2. IsFiniteSet(all) /\ Cardinality(all) = IF 0 > Cardinality(S) - 1 THEN 0 ELSE (Cardinality(S) - 1) - 0 + 1
        BY <4>1, FS_Interval
      <4> QED BY <4>1, <4>2
    <3>4. whole \in Surjection(S, all)
      <4> HIDE DEF whole, all
      <4> QED BY <3>1, <3>2, <3>3, FS_Injection
    <3>5. \A m \in all : \E j \in S : Place(j, S) = m
      BY <3>4 DEF Surjection
    <3>6. places \subseteq all
      BY <1>2, <2>1, <3>1
    <3>7. \A m \in places : \E j \in F : Place(j, S) = m
      BY <1>3, <3>5, <3>6
    <3> HIDE DEF F, places, all, whole
    <3>8. \A m \in places : \E j \in F : place[j] = m
      BY <3>7
    <3>9. place \in [F -> places]
      BY <1>5 DEF Injection
    <3> QED BY <3>8, <3>9 DEF Surjection
  <2>4. Cardinality(F) = n
    BY <1>4, <1>5, <2>3, FS_Injection
  <2> QED BY <2>2, <2>4
<1> QED BY <1>1, <1>6, <1>7

LEMMA PagesBegin == PagesInit => PagesInv
<1> SUFFICES ASSUME PagesInit PROVE PagesInv
  OBVIOUS
<1>1. PagesTypeOK
  BY DEF PagesInit, PagesTypeOK
<1>2. SeenSoFar /\ ReadSoFar /\ PagesShowEveryIncident
  BY DEF PagesInit, SeenSoFar, ReadSoFar, PagesShowEveryIncident
<1> QED BY <1>1, <1>2 DEF PagesInv

LEMMA ChangeKeepsPages == ASSUME PagesInv, Change PROVE PagesInv'
<1>1. /\ UNCHANGED <<fleet, foremost, after, items, position, shown, reader>>
      /\ stayed' \subseteq stayed
      /\ moved' \/ (moved' = moved /\ running' = running)
  BY DEF Change
<1>2. PagesTypeOK'
  <2>1. open' \subseteq Incidents /\ running' \subseteq Workloads /\ stayed' \subseteq open' /\ moved' \in BOOLEAN
    BY DEF Change, PagesInv, PagesTypeOK
  <2> QED BY <1>1, <2>1 DEF PagesInv, PagesTypeOK
<1>3. SeenSoFar'
  BY <1>1 DEF PagesInv, SeenSoFar, Sooner
<1>4. ReadSoFar'
  BY <1>1 DEF PagesInv, ReadSoFar, Sooner, Behind
<1>5. PagesShowEveryIncident'
  BY <1>1 DEF PagesInv, PagesShowEveryIncident
<1> QED BY <1>2, <1>3, <1>4, <1>5 DEF PagesInv

LEMMA OpenPageStartsBehind == ASSUME PagesInv, OpenPage PROVE PagesInv'
<1>1. /\ reader = "wait" /\ reader' = "page" /\ items' = {} /\ foremost' = running /\ after' = position
      /\ fleet' = {w \in Workloads : position = 0 \/ Where[position] = w \/ Precedes(Where[position], w, running)}
      /\ UNCHANGED <<open, running, position, shown>>
  BY DEF OpenPage
<1>2. Cardinality({}) = 0 /\ ListSize \in Nat
  BY FS_EmptySet, PagesAssumption
<1>3. PagesTypeOK'
  BY <1>1 DEF PagesInv, PagesTypeOK, OpenPage
<1>4. CASE position = 0
  <2>1. stayed' = open /\ moved' = FALSE /\ \A i \in Incidents : shown[i] = 0
    BY <1>1, <1>4 DEF OpenPage, PagesInv, SeenSoFar
  <2>2. SeenSoFar'
    BY <1>1, <1>4, <2>1 DEF SeenSoFar
  <2>3. ReadSoFar'
    <3>1. \A i \in stayed' : i \in Incidents /\ Where[i] \in fleet'
      BY <1>1, <1>4, <2>1, PagesAssumption DEF PagesInv, PagesTypeOK
    <3> QED BY <1>1, <1>2, <1>4, <3>1 DEF ReadSoFar, Behind
  <2>4. PagesShowEveryIncident'
    BY <1>1, <2>1 DEF PagesShowEveryIncident
  <2> QED BY <1>3, <2>2, <2>3, <2>4 DEF PagesInv
<1>5. CASE position # 0
  <2>1. UNCHANGED <<stayed, moved>>
    BY <1>5 DEF OpenPage
  <2>2. PagesShowEveryIncident'
    BY <1>1, <2>1 DEF PagesInv, PagesShowEveryIncident
  <2>3. CASE moved
    BY <1>1, <1>3, <1>5, <2>1, <2>2, <2>3 DEF PagesInv, SeenSoFar, ReadSoFar
  <2>4. CASE ~moved
    <3>1. foremost' = foremost
      BY <1>1, <1>5, <2>4 DEF PagesInv, SeenSoFar
    <3>2. SeenSoFar'
      BY <1>1, <2>1, <3>1 DEF PagesInv, SeenSoFar, Sooner
    <3>3. position \in Incidents /\ Where[position] \in Workloads
      BY <1>5, PagesAssumption DEF PagesInv, PagesTypeOK
    <3>4. \A i \in stayed : shown[i] = 1 \/ (Where[i] \in fleet' /\ Sooner(position, i))
      <4> SUFFICES ASSUME NEW i \in stayed, shown[i] # 1 PROVE Where[i] \in fleet' /\ Sooner(position, i)
        OBVIOUS
      <4>1. Sooner(position, i) /\ Where[i] \in Workloads
        BY <1>5, <2>4, PagesAssumption DEF PagesInv, SeenSoFar, PagesTypeOK
      <4>2. Where[position] = Where[i] \/ Precedes(Where[position], Where[i], running)
        BY <1>1, <3>1, <4>1 DEF Sooner
      <4> QED BY <1>1, <4>1, <4>2
    <3>5. /\ \A w \in fleet' : w = Where[position] \/ Precedes(Where[position], w, running)
          /\ Where[position] \in fleet'
      BY <1>1, <1>5, <3>3
    <3>6. ReadSoFar'
      <4>1. \A i \in stayed' : shown'[i] = 1 \/ (Where[i] \in fleet' /\ Behind(i)')
        BY <1>1, <2>1, <3>1, <3>4 DEF Behind, Sooner
      <4> QED BY <1>1, <1>2, <1>5, <3>5, <4>1 DEF ReadSoFar
    <3> QED BY <1>3, <2>2, <3>2, <3>6 DEF PagesInv
  <2> QED BY <2>3, <2>4
<1> QED BY <1>4, <1>5

LEMMA ListReadsInOrder == ASSUME PagesInv, NEW w \in Workloads, List(w) PROVE PagesInv'
<1> DEFINE S == {i \in open : Where[i] = w /\ i > after}
           limit == ListSize + 1 - Cardinality(items)
           L == FirstOf(S, limit)
<1>1. /\ reader = "page" /\ w \in fleet /\ \A v \in fleet \ {w} : Precedes(w, v, foremost)
      /\ Cardinality(items) <= ListSize
      /\ items' = items \cup L /\ fleet' = fleet \ {w} /\ after' = 0
      /\ UNCHANGED <<open, running, foremost, position, shown, reader, stayed, moved>>
  BY DEF List, Listed
<1>2. S \in SUBSET Incidents /\ items \in SUBSET Incidents
  BY DEF PagesInv, PagesTypeOK
<1>3. limit \in Nat /\ ListSize \in Nat /\ Cardinality(items) \in Nat /\ IsFiniteSet(items)
  BY <1>1, <1>2, IncidentsAreFinite, PagesAssumption
<1>4. /\ L \subseteq S /\ Cardinality(L) <= limit
      /\ \A i \in S \ L : Cardinality(L) = limit /\ \A j \in L : Sooner(j, i)
  <2> HIDE DEF S, limit
  <2> QED BY <1>2, <1>3, FirstFew
<1>5. \A i \in S : i \in Incidents /\ Where[i] = w /\ i > after /\ i \in open
  BY <1>2
<1>6. \A i \in open : Where[i] = w /\ i > after => i \in S
  OBVIOUS
<1> HIDE DEF S, limit
<1>7. PagesTypeOK'
  <2>1. items' \subseteq Incidents
    BY <1>1, <1>2, <1>4
  <2> QED BY <1>1, <2>1 DEF PagesInv, PagesTypeOK
<1>8. SeenSoFar' /\ PagesShowEveryIncident'
  BY <1>1 DEF PagesInv, SeenSoFar, PagesShowEveryIncident, Sooner
<1>9. CASE moved
  BY <1>1, <1>7, <1>8, <1>9 DEF PagesInv, ReadSoFar
<1>10. CASE ~moved
  <2>1. /\ foremost = running /\ after \in {0, position}
        /\ position # 0 => \A v \in fleet : v = Where[position] \/ Precedes(Where[position], v, foremost)
        /\ position # 0 /\ after = 0 => Where[position] \notin fleet
        /\ after # 0 => Where[position] \in fleet
        /\ \A j \in items : Behind(j) /\ \A v \in fleet : v # Where[j] /\ Precedes(Where[j], v, foremost)
        /\ \A i \in stayed : \/ shown[i] = 1 \/ i \in items \/ (Where[i] \in fleet /\ Behind(i))
                             \/ Cardinality(items) > ListSize /\ \A j \in items : Sooner(j, i)
    BY <1>1, <1>10 DEF PagesInv, ReadSoFar
  <2>2. position \in Incidents \cup {0} /\ position \in Nat /\ (position # 0 => Where[position] \in Workloads)
        /\ Incidents \subseteq Nat \ {0}
    BY PagesAssumption DEF PagesInv, PagesTypeOK
  \* It lists what is behind the cursor of the first workload.
  <2>3. ASSUME NEW i \in Incidents, Where[i] = w PROVE Behind(i) <=> i > after
    <3>1. CASE position = 0
      BY <2>1, <2>2, <3>1 DEF Behind
    <3>2. CASE position # 0 /\ after = 0
      <4>1. Where[position] # w /\ Precedes(Where[position], w, foremost)
        BY <1>1, <2>1, <3>2
      <4>2. Sooner(position, i)
        BY <2>3, <4>1 DEF Sooner
      <4> QED BY <2>2, <3>2, <4>2 DEF Behind
    <3>3. CASE position # 0 /\ after = position
      <4>1. Where[position] = w
        BY <1>1, <2>1, <2>2, <3>3, WorkloadsInOrder
      <4>2. Sooner(position, i) <=> position < i
        BY <2>3, <4>1 DEF Sooner
      <4> QED BY <2>2, <3>3, <4>2 DEF Behind
    <3> QED BY <2>1, <3>1, <3>2, <3>3
  <2>4. \A i \in L : Behind(i) /\ i \in Incidents /\ Where[i] = w
    BY <1>4, <1>5, <2>3
  <2>5. items \cap L = {}
    BY <1>1, <2>1, <2>4
  <2>6. Cardinality(items') = Cardinality(items) + Cardinality(L) /\ Cardinality(L) \in Nat
    <3>1. L \in SUBSET Incidents
      BY <1>2, <1>4
    <3>2. IsFiniteSet(L) /\ Cardinality(L) \in Nat
      BY <3>1, IncidentsAreFinite
    <3>3. Cardinality(items \cap L) = 0
      BY <2>5, FS_EmptySet
    <3>4. Cardinality(items \cup L) = Cardinality(items) + Cardinality(L) - Cardinality(items \cap L)
      BY <1>3, <3>2, FS_Union
    <3> HIDE DEF L
    <3> QED BY <1>1, <1>3, <3>2, <3>3, <3>4
  <2>7. Cardinality(items') <= ListSize + 1
    BY <1>3, <1>4, <2>6 DEF limit
  <2>8. \A j \in items' : Behind(j) /\ \A v \in fleet' : v # Where[j] /\ Precedes(Where[j], v, foremost)
    BY <1>1, <2>1, <2>4
  <2>9. ASSUME NEW i \in stayed
        PROVE  \/ shown[i] = 1 \/ i \in items' \/ (Where[i] \in fleet' /\ Behind(i))
               \/ Cardinality(items') > ListSize /\ \A j \in items' : Sooner(j, i)
    <3>1. i \in open /\ i \in Incidents
      BY <2>9 DEF PagesInv, PagesTypeOK
    <3>2. shown[i] = 1 \/ i \in items \/ (Where[i] \in fleet /\ Behind(i))
      BY <1>1, <1>3, <2>1, <2>9
    <3>3. CASE Where[i] = w /\ Behind(i) /\ i \notin L
      <4>1. i \in S
        BY <1>6, <2>3, <3>1, <3>3
      <4>2. Cardinality(L) = limit /\ \A j \in L : Sooner(j, i)
        BY <1>4, <3>3, <4>1
      <4>3. Cardinality(items') > ListSize
        BY <1>3, <2>6, <4>2 DEF limit
      <4>4. \A j \in items : Sooner(j, i)
        BY <1>1, <2>1, <3>3 DEF Sooner
      <4> QED BY <1>1, <4>2, <4>3, <4>4
    <3> QED BY <1>1, <3>2, <3>3
  <2>10. position # 0 => /\ Where[position] \notin fleet'
                         /\ \A v \in fleet' : v = Where[position] \/ Precedes(Where[position], v, foremost)
    <3>1. ASSUME position # 0, Where[position] \in fleet, Where[position] # w PROVE FALSE
      BY <1>1, <2>1, <2>2, <3>1, WorkloadsInOrder
    <3> QED BY <1>1, <2>1, <3>1
  <2>11. \A i : Behind(i)' <=> Behind(i)
    BY <1>1 DEF Behind, Sooner
  <2>12. \A i, j : Sooner(i, j)' <=> Sooner(i, j)
    BY <1>1 DEF Sooner
  <2> HIDE DEF L
  <2>13. ReadSoFar'
    <3>1. \A i \in stayed' : \/ shown'[i] = 1 \/ i \in items' \/ (Where[i] \in fleet' /\ Behind(i)')
                             \/ Cardinality(items') > ListSize /\ \A j \in items' : Sooner(j, i)'
      BY <1>1, <2>9, <2>11, <2>12
    <3>2. \A j \in items' : Behind(j)' /\ \A v \in fleet' : v # Where[j] /\ Precedes(Where[j], v, foremost')
      BY <1>1, <2>8, <2>11
    <3>3. foremost' = running' /\ after' = 0
      BY <1>1, <2>1
    <3> QED BY <1>1, <2>7, <2>10, <3>1, <3>2, <3>3 DEF ReadSoFar
  <2> QED BY <1>7, <1>8, <2>13 DEF PagesInv
<1> QED BY <1>9, <1>10 DEF PagesInv, PagesTypeOK

LEMMA ShowShowsTheNext == ASSUME PagesInv, Show PROVE PagesInv'
<1> DEFINE F == FirstOf(items, ListSize)
<1>1. /\ reader = "page" /\ (fleet = {} \/ Cardinality(items) > ListSize)
      /\ shown' = [i \in Incidents |-> IF i \in F THEN shown[i] + 1 ELSE shown[i]]
      /\ items' = {} /\ fleet' = {} /\ after' = 0
      /\ UNCHANGED <<open, running, foremost, stayed, moved>>
  BY DEF Show
<1>2. \/ /\ Cardinality(items) > ListSize /\ reader' = "wait"
         /\ position' \in items /\ Place(position', items) = ListSize - 1
      \/ ~(Cardinality(items) > ListSize) /\ position' = 0 /\ reader' = "end"
  BY DEF Show, LastShown
<1>3. /\ items \in SUBSET Incidents /\ ListSize \in Nat \ {0} /\ Cardinality(items) \in Nat
      /\ Incidents \subseteq Nat \ {0} /\ \A i \in Incidents : Where[i] \in Workloads
  BY IncidentsAreFinite, PagesAssumption DEF PagesInv, PagesTypeOK
<1>4. /\ \A i \in items : Place(i, items) \in 0..(Cardinality(items) - 1)
      /\ \A i, j \in items : Sooner(i, j) <=> Place(i, items) < Place(j, items)
      /\ \A i, j \in items : Place(i, items) = Place(j, items) => i = j
  BY <1>3, PlacesOnAPage
<1>5. F \subseteq items /\ \A i \in items : i \in F <=> Place(i, items) < ListSize
  BY DEF FirstOf
<1> HIDE DEF F
<1>6. PagesTypeOK'
  <2>1. shown' \in [Incidents -> Nat]
    BY <1>1 DEF PagesInv, PagesTypeOK
  <2>2. position' \in Incidents \cup {0} /\ reader' \in {"wait", "page", "end"}
    BY <1>2, <1>3
  <2> QED BY <1>1, <2>1, <2>2 DEF PagesInv, PagesTypeOK
<1>7. ReadSoFar'
  BY <1>2 DEF ReadSoFar
<1>8. reader' # "end" => position' # 0
  BY <1>2, <1>3
<1>9. CASE moved
  <2>1. SeenSoFar' /\ PagesShowEveryIncident'
    BY <1>1, <1>2, <1>8, <1>9 DEF SeenSoFar, PagesShowEveryIncident
  <2> QED BY <1>6, <1>7, <2>1 DEF PagesInv
<1>10. CASE ~moved
  <2>1. /\ foremost = running /\ \A j \in items : Behind(j) /\ \A w \in fleet : w # Where[j] /\ Precedes(Where[j], w, foremost)
        /\ \A i \in stayed : \/ shown[i] = 1 \/ i \in items \/ (Where[i] \in fleet /\ Behind(i))
                             \/ Cardinality(items) > ListSize /\ \A j \in items : Sooner(j, i)
    BY <1>1, <1>10 DEF PagesInv, ReadSoFar
  <2>2. \A i \in Incidents : shown[i] \in {0, 1} /\ (shown[i] = 1 => position # 0 /\ (i = position \/ Sooner(i, position)))
    <3>1. CASE position = 0
      BY <1>1, <3>1 DEF PagesInv, SeenSoFar
    <3>2. CASE position # 0
      BY <1>10, <3>2 DEF PagesInv, SeenSoFar, PagesTypeOK
    <3> QED BY <3>1, <3>2
  <2>3. position \in Incidents \cup {0}
    BY DEF PagesInv, PagesTypeOK
  \* What is read was not shown, and comes behind what was.
  <2>4. ASSUME NEW i \in Incidents, shown[i] = 1, NEW j \in items PROVE i # j /\ Sooner(i, j)
    <3>1. position # 0 /\ position \in Incidents /\ Sooner(position, j) /\ j \in Incidents
      BY <1>3, <2>1, <2>2, <2>3, <2>4 DEF Behind
    <3>2. i = position \/ Sooner(i, position)
      BY <2>2, <2>4
    <3> QED BY <3>1, <3>2, SoonerIsAnOrder
  <2>5. \A i \in Incidents : shown'[i] \in {0, 1} /\ (shown'[i] = 1 <=> shown[i] = 1 \/ i \in F)
    <3> SUFFICES ASSUME NEW i \in Incidents PROVE shown'[i] \in {0, 1} /\ (shown'[i] = 1 <=> shown[i] = 1 \/ i \in F)
      OBVIOUS
    <3>1. i \in F => shown[i] = 0
      BY <1>5, <2>2, <2>4
    <3> QED BY <1>1, <2>2, <3>1
  <2>6. stayed \subseteq Incidents
    BY DEF PagesInv, PagesTypeOK
  <2>7. CASE Cardinality(items) > ListSize
    <3>1. PICK p \in items : p = position' /\ Place(p, items) = ListSize - 1 /\ reader' = "wait"
      BY <1>2, <2>7
    <3>2. p \in F /\ p \in Incidents
      BY <1>3, <1>5, <3>1
    <3>3. ASSUME NEW i \in Incidents, shown'[i] = 1 PROVE i = p \/ Sooner(i, p)
      <4>1. CASE shown[i] = 1
        BY <2>4, <4>1
      <4>2. CASE i \in F
        <5>1. Place(i, items) \in Nat /\ Place(i, items) < ListSize /\ i \in items
          BY <1>4, <1>5, <4>2
        <5>2. Place(i, items) < Place(p, items) \/ Place(i, items) = Place(p, items)
          BY <1>3, <3>1, <5>1
        <5> QED BY <1>4, <5>1, <5>2
      <4> QED BY <2>5, <3>3, <4>1, <4>2
    <3>4. ASSUME NEW i \in stayed, shown'[i] # 1 PROVE Sooner(p, i)
      <4>1. i \in Incidents /\ shown[i] # 1 /\ i \notin F
        BY <2>5, <2>6, <3>4
      <4>2. CASE i \in items
        <5>1. Place(i, items) \in Nat /\ ~(Place(i, items) < ListSize)
          BY <1>4, <1>5, <4>1, <4>2
        <5>2. Place(p, items) < Place(i, items)
          BY <1>3, <3>1, <5>1
        <5> QED BY <1>4, <4>2, <5>2
      <4>3. CASE Where[i] \in fleet
        BY <2>1, <4>3 DEF Sooner
      <4>4. CASE \A j \in items : Sooner(j, i)
        BY <4>4
      <4> QED BY <2>1, <4>1, <4>2, <4>3, <4>4
    <3>5. SeenSoFar'
      <4>1. /\ \A i \in Incidents : shown'[i] <= 1 /\ (shown'[i] = 1 => i = p \/ Sooner(i, p))
            /\ \A i \in stayed' : shown'[i] = 1 \/ Sooner(p, i)
        BY <1>1, <2>5, <3>3, <3>4
      <4>2. reader' = "wait" /\ position' = p /\ p # 0 /\ foremost' = foremost /\ foremost' = running'
        BY <1>1, <1>8, <2>1, <3>1
      <4> QED BY <4>1, <4>2 DEF SeenSoFar, Sooner
    <3>6. PagesShowEveryIncident'
      BY <2>5, <3>1 DEF PagesShowEveryIncident
    <3> QED BY <1>6, <1>7, <3>5, <3>6 DEF PagesInv
  <2>8. CASE ~(Cardinality(items) > ListSize)
    <3>1. position' = 0 /\ reader' = "end" /\ fleet = {}
      BY <1>1, <1>2, <2>8
    <3>2. items \subseteq F
      <4> SUFFICES ASSUME NEW i \in items PROVE Place(i, items) < ListSize
        BY <1>5
      <4>1. Place(i, items) \in 0..(Cardinality(items) - 1)
        BY <1>4
      <4> QED BY <1>3, <2>8, <4>1
    <3>3. \A i \in stayed : shown'[i] = 1
      BY <2>1, <2>5, <2>6, <2>8, <3>1, <3>2
    <3>4. SeenSoFar'
      BY <3>1 DEF SeenSoFar
    <3>5. PagesShowEveryIncident'
      BY <1>1, <2>5, <3>3 DEF PagesShowEveryIncident
    <3> QED BY <1>6, <1>7, <3>4, <3>5 DEF PagesInv
  <2> QED BY <2>7, <2>8
<1> QED BY <1>9, <1>10 DEF PagesInv, PagesTypeOK

LEMMA UnavailableLosesNothing == ASSUME PagesInv, Unavailable PROVE PagesInv'
<1>1. /\ reader = "page" /\ reader' = "wait" /\ items' = {} /\ fleet' = {}
      /\ UNCHANGED <<open, running, foremost, position, shown, stayed, moved>>
  BY DEF Unavailable
<1>2. PagesTypeOK'
  BY <1>1 DEF PagesInv, PagesTypeOK
<1>3. SeenSoFar'
  BY <1>1 DEF PagesInv, SeenSoFar, Sooner
<1>4. ReadSoFar' /\ PagesShowEveryIncident'
  BY <1>1 DEF PagesInv, ReadSoFar, PagesShowEveryIncident
<1> QED BY <1>2, <1>3, <1>4 DEF PagesInv

LEMMA PagesKeep == PagesInv /\ [PagesNext]_pagesVars => PagesInv'
<1> SUFFICES ASSUME PagesInv, [PagesNext]_pagesVars PROVE PagesInv'
  OBVIOUS
<1>1. CASE UNCHANGED pagesVars
  BY <1>1 DEF pagesVars, PagesInv, PagesTypeOK, SeenSoFar, ReadSoFar, PagesShowEveryIncident, Sooner, Behind
<1>2. CASE Change
  BY <1>2, ChangeKeepsPages
<1>3. CASE OpenPage
  BY <1>3, OpenPageStartsBehind
<1>4. CASE \E w \in Workloads : List(w)
  BY <1>4, ListReadsInOrder
<1>5. CASE Show
  BY <1>5, ShowShowsTheNext
<1>6. CASE Unavailable
  BY <1>6, UnavailableLosesNothing
<1> QED BY <1>1, <1>2, <1>3, <1>4, <1>5, <1>6 DEF PagesNext

\* web.py, index: for any fleet, incidents and size of a page, and whatever opens and closes
\* within and between the pages, a reader who turns them all sees each incident once at most,
\* and once exactly if it stayed.
THEOREM PagesShowEveryIncidentHolds == PagesSpec => []PagesShowEveryIncident
<1>1. PagesSpec => []PagesInv
  BY PagesBegin, PagesKeep, PTL DEF PagesSpec
<1>2. PagesInv => PagesShowEveryIncident
  BY DEF PagesInv
<1> QED BY <1>1, <1>2, PTL
=============================================================================
