------------------------------ MODULE WorkProofs ------------------------------
(***************************************************************************)
(* Proofs about what an agent's turn is made of: for any agents, callers,  *)
(* briefs and cancellations, background briefs and the turns of Codex are  *)
(* accounted for, and a request tells the whole conversation; for any      *)
(* metrics, pods, readings and failures, what was measured or found is     *)
(* kept.                                                                   *)
(***************************************************************************)
EXTENDS CodexTurns, CodingBriefs, Compaction, ResourceMonitor, RunpodInventory,
        FiniteSetTheorems, SequenceTheorems, WellFoundedInduction, TLAPS

----------------------------------------------------------------------------
(* Turns of Codex *)

Places == {"new", "opening", "asking", "streaming", "sleeping", "stopping", "closing", "closed"}

TurnTypes ==
  /\ reported \in Nat /\ pc \in [Briefs -> Places] /\ known \in [Briefs -> BOOLEAN]
  /\ reading \in [Briefs -> {"none", "on", "done", "cut"}] /\ attempts \in [Briefs -> Nat]
  /\ result \in [Briefs -> {"none", "returned", "raised"}]
  /\ native \in [Briefs -> {"none", "running", "ended", "killed"}] /\ DOMAIN status = Briefs
  /\ spent \in [Briefs -> Nat] /\ seen \in [Briefs -> Nat] /\ latest \in [Briefs -> Nat] /\ booked \in [Briefs -> Nat]

Busy(b) == pc[b] \notin {"new", "closed"}

\* The one brief that is under way booked what it has seen, which is all that the agent
\* has reported; one that is over has booked what it had seen.
Booked ==
  /\ \A b, c \in Briefs : Busy(b) /\ Busy(c) => b = c
  /\ \A b \in Briefs :
       /\ booked[b] = seen[b] /\ latest[b] = seen[b] /\ seen[b] <= spent[b]
       /\ Busy(b) => reported = seen[b]
       /\ pc[b] = "new" => seen[b] = 0

\* A turn is read as long as it is held, and a brief goes to its end with a turn
\* that was read to its end, that is excused, or that it never held.
Accounted ==
  \A b \in Briefs :
    /\ pc[b] \in {"new", "opening", "asking", "sleeping"} => ~known[b] /\ reading[b] # "on"
    /\ pc[b] \in {"streaming", "stopping"} =>
         /\ known[b] /\ native[b] \in {"running", "ended"} /\ reading[b] \in {"on", "done"}
         /\ reading[b] = "done" => native[b] = "ended" /\ seen[b] = spent[b]
    /\ pc[b] \in {"closing", "closed"} => reading[b] # "on" /\ (native[b] = "running" => b \in excused \/ ~known[b])
    /\ pc[b] = "closed" => native[b] # "running" /\ (native[b] = "killed" => b \in excused \/ ~known[b])
    /\ native[b] = "killed" => pc[b] = "closed"
    /\ result[b] = "returned" => pc[b] \in {"closing", "closed"} /\ native[b] = "ended" /\ seen[b] = spent[b]

TurnInv == TurnTypes /\ Booked /\ Accounted

LEMMA TurnInvStarts == Init => TurnInv
<1> SUFFICES ASSUME Init PROVE TurnInv
  OBVIOUS
<1> USE DEF Init, Zero
<1>1. TurnTypes
  BY DEF TurnTypes, Places
<1>2. Booked
  BY DEF Booked, Busy
<1>3. Accounted
  BY DEF Accounted
<1> QED
  BY <1>1, <1>2, <1>3 DEF TurnInv

LEMMA TurnTypesHold == TurnTypes /\ [Next]_vars => TurnTypes'
<1> SUFFICES ASSUME TurnTypes, [Next]_vars PROVE TurnTypes'
  OBVIOUS
<1> USE DEF TurnTypes, Places, usage, server, Goto
<1>1. ASSUME NEW b \in Briefs, App(b) PROVE TurnTypes'
  <2>1. CASE Accept(b)
    BY <2>1 DEF Accept
  <2>2. CASE Spend(b)
    BY <2>2 DEF Spend
  <2>3. CASE TurnEnds(b)
    BY <2>3 DEF TurnEnds
  <2> QED
    BY <1>1, <2>1, <2>2, <2>3 DEF App
<1>2. ASSUME NEW b \in Briefs, Execute(b) PROVE TurnTypes'
  <2>1. CASE Start(b) \/ Open(b)
    BY <2>1 DEF Start, Before, Open
  <2>2. CASE Ask(b)
    BY <2>2 DEF Ask
  <2>3. CASE Refused(b) \/ ReadEnd(b) \/ StreamBreaks(b)
    BY <2>3 DEF Refused, ReadEnd, StreamBreaks
  <2>4. CASE ReadUsage(b)
    BY <2>4 DEF ReadUsage, ReportUsage, Increment
  <2>5. CASE Settle(b) \/ Wake(b)
    BY <2>5 DEF Settle, Wake
  <2>6. CASE Cancel(b) \/ CancelAgain(b)
    BY <2>6 DEF Cancel, WayOut, CancelAgain, After
  <2>7. CASE Stopped(b) \/ StopTimeout(b)
    BY <2>7 DEF Stopped, StopTimeout, GivesUp
  <2>8. CASE Close(b)
    BY <2>8 DEF Close, ReportUsage, Increment
  <2> QED
    BY <1>2, <2>1, <2>2, <2>3, <2>4, <2>5, <2>6, <2>7, <2>8 DEF Execute
<1>3. CASE UNCHANGED vars
  BY <1>3 DEF vars
<1> QED
  BY <1>1, <1>2, <1>3 DEF Next

\* A brief that is read is under way.
LEMMA ReadersAreBusy == TurnInv => \A b \in Briefs : reading[b] = "on" => Busy(b)
BY DEF TurnInv, TurnTypes, Places, Accounted, Busy

LEMMA BookedHolds == ASSUME ~Parallel PROVE TurnInv /\ [Next]_vars => Booked'
<1> SUFFICES ASSUME TurnInv, [Next]_vars PROVE Booked'
  OBVIOUS
<1>r. \A b \in Briefs : reading[b] = "on" => Busy(b)
  BY ReadersAreBusy
<1> USE DEF TurnInv, Booked, TurnTypes, Places, Busy, usage, server, Goto
<1>1. ASSUME NEW b \in Briefs, App(b) PROVE Booked'
  <2>1. CASE Accept(b) \/ TurnEnds(b)
    BY <2>1 DEF Accept, TurnEnds
  <2>2. CASE Spend(b)
    BY <2>2 DEF Spend
  <2> QED
    BY <1>1, <2>1, <2>2 DEF App
<1>2. ASSUME NEW b \in Briefs, Execute(b) PROVE Booked'
  <2>1. CASE Start(b)
    BY <2>1 DEF Start, Before
  <2>2. CASE Open(b) \/ Ask(b) \/ Refused(b) \/ ReadEnd(b) \/ StreamBreaks(b)
    BY <1>r, <2>2 DEF Open, Ask, Refused, ReadEnd, StreamBreaks
  <2>4. CASE ReadUsage(b)
    <3>1. Busy(b)
      BY <1>r, <2>4 DEF ReadUsage
    <3>2. PICK total \in 1..spent[b] :
            /\ ReportUsage(b, total)
            /\ seen' = [seen EXCEPT ![b] = IF total > @ THEN total ELSE @]
      BY <2>4 DEF ReadUsage
    <3>3. reported = seen[b] /\ booked[b] = seen[b] /\ spent[b] \in Nat /\ total \in Nat /\ seen[b] \in Nat
      BY <3>1
    <3>4. reported' = seen'[b] /\ booked'[b] = seen'[b] /\ latest'[b] = seen'[b] /\ seen'[b] <= spent[b]
      BY <2>4, <3>2, <3>3 DEF ReadUsage, ReportUsage, Increment
    <3>5. \A c \in Briefs \ {b} : booked'[c] = booked[c] /\ seen'[c] = seen[c] /\ latest'[c] = latest[c]
      BY <2>4, <3>2 DEF ReadUsage, ReportUsage
    <3> QED
      BY <2>4, <3>1, <3>4, <3>5 DEF ReadUsage
  <2>5. CASE Settle(b) \/ Wake(b)
    BY <2>5 DEF Settle, Wake
  <2>6. CASE Cancel(b) \/ CancelAgain(b)
    BY <2>6 DEF Cancel, WayOut, CancelAgain, After
  <2>7. CASE Stopped(b) \/ StopTimeout(b)
    BY <2>7 DEF Stopped, StopTimeout, GivesUp
  <2>8. CASE Close(b)
    <3>1. reported = latest[b] /\ latest[b] \in Nat /\ booked[b] \in Nat
      BY <2>8 DEF Close
    <3>2. booked' = booked /\ reported' = reported
      BY <2>8, <3>1 DEF Close, ReportUsage, Increment
    <3> QED
      BY <2>8, <3>2 DEF Close
  <2> QED
    BY <1>2, <2>1, <2>2, <2>4, <2>5, <2>6, <2>7, <2>8 DEF Execute
<1>3. CASE UNCHANGED vars
  BY <1>3 DEF vars
<1> QED
  BY <1>1, <1>2, <1>3 DEF Next

LEMMA AccountedHolds == TurnInv /\ [Next]_vars => Accounted'
<1> SUFFICES ASSUME TurnInv, [Next]_vars PROVE Accounted'
  OBVIOUS
<1> USE DEF TurnInv, Accounted, TurnTypes, Places, usage, server, Goto
<1>0. \A b \in Briefs : seen[b] <= spent[b] /\ seen[b] \in Nat /\ spent[b] \in Nat
  BY DEF Booked
<1>1. ASSUME NEW b \in Briefs, App(b) PROVE Accounted'
  <2>1. CASE Accept(b)
    BY <2>1 DEF Accept
  <2>2. CASE Spend(b)
    BY <2>2 DEF Spend
  <2>3. CASE TurnEnds(b)
    BY <2>3 DEF TurnEnds
  <2> QED
    BY <1>1, <2>1, <2>2, <2>3 DEF App
<1>2. ASSUME NEW b \in Briefs, Execute(b) PROVE Accounted'
  <2>1. CASE Start(b) \/ Open(b)
    BY <2>1 DEF Start, Open
  <2>2. CASE Ask(b)
    BY <2>2 DEF Ask
  <2>3. CASE Refused(b) \/ ReadEnd(b) \/ StreamBreaks(b)
    BY <2>3 DEF Refused, ReadEnd, StreamBreaks
  <2>4. CASE ReadUsage(b)
    BY <1>0, <2>4 DEF ReadUsage
  <2>5. CASE Settle(b)
    BY <2>5 DEF Settle
  <2>w. CASE Wake(b)
    BY <2>w DEF Wake
  <2>6. CASE Cancel(b)
    BY <2>6 DEF Cancel, WayOut
  <2>a. CASE CancelAgain(b)
    BY <2>a DEF CancelAgain, After
  <2>7. CASE Stopped(b) \/ StopTimeout(b)
    BY <2>7 DEF Stopped, StopTimeout, GivesUp
  <2>8. CASE Close(b)
    BY <2>8 DEF Close
  <2> QED
    BY <1>2, <2>1, <2>2, <2>3, <2>4, <2>5, <2>w, <2>6, <2>a, <2>7, <2>8 DEF Execute
<1>3. CASE UNCHANGED vars
  BY <1>3 DEF vars
<1> QED
  BY <1>1, <1>2, <1>3 DEF Next

\* coding_agents.py: one brief of an agent at a time, whatever is retried or cancelled, books
\* its usage once, and no turn goes on behind the back of the brief that started it.
THEOREM TurnsAreAccountedForHolds == ASSUME ~Parallel PROVE Spec => []TurnsAreAccountedFor
<1>1. Init => TurnInv
  BY TurnInvStarts
<1>2. TurnInv /\ [Next]_vars => TurnInv'
  BY TurnTypesHold, BookedHolds, AccountedHolds DEF TurnInv
<1>3. TurnInv => TurnsAreAccountedFor
  BY DEF TurnInv, TurnTypes, Booked, Accounted, TurnsAreAccountedFor, UsageIsBookedOnce, NoTurnOutlivesItsBrief
<1> QED
  BY <1>1, <1>2, <1>3, PTL DEF Spec

----------------------------------------------------------------------------
(* Background briefs *)

BriefTypes ==
  /\ turn \in {"idle", "running", "ending", "failing"}
  /\ worker \in [BriefIds -> {"none", "running", "stopping", "done", "failed", "cancelled"}]
  /\ task \in [Names -> 0..MaxBriefs] /\ stopped \in [Names -> 0..MaxBriefs]
  /\ waiting \in [Callers -> BriefIds \cup {NoBrief}]
  /\ left \subseteq Names /\ awaited \subseteq BriefIds /\ twice \in BOOLEAN
  /\ \A r \in reports \cup remaining : r \in BriefIds \X {"done", "failed", "cancelled"}

\* The briefs of an agent are the first ones.
Begun ==
  \A n \in Names : \E m \in 0..MaxBriefs : \A k \in 1..MaxBriefs : worker[<<n, k>>] # "none" <=> k <= m

\* The brief an agent is at runs or has ended, the last that was stopped had been; an agent has
\* one of them at most.  What runs is what an agent is at.
AtWork ==
  /\ \A n \in Names :
       /\ task[n] # None => worker[<<n, task[n]>>] \in {"running", "done", "failed"} /\ stopped[n] = None
       /\ stopped[n] # None => worker[<<n, stopped[n]>>] \in {"stopping", "cancelled"}
  /\ \A b \in BriefIds : worker[b] = "running" => task[b[1]] = b[2] /\ turn \in {"running", "ending"}

\* What is being stopped is waited for, unless a cancellation came again.
Stopping ==
  /\ \A b \in BriefIds : worker[b] = "stopping" => twice \/ b \in awaited
  /\ awaited # {} => turn = "failing"
  /\ \A b, c \in awaited : b[1] = c[1] => b = c

\* The end of a turn collects from every agent that is at a brief.
Ending ==
  /\ turn = "ending" => \A n \in Names : task[n] # None <=> n \in left
  /\ turn # "ending" => remaining = {}

Lossless == NoOutcomeIsLost

Truthful ==
  \A r \in reports \cup remaining :
    worker[r[1]] = r[2] \/ (twice /\ worker[r[1]] = "stopping" /\ r[2] = "cancelled")

BriefInv == BriefTypes /\ Begun /\ AtWork /\ Stopping /\ Ending /\ Lossless /\ Truthful

\* The next brief of an agent has not begun.
LEMMA NextBrief ==
  ASSUME BriefTypes, Begun, NEW n \in Names, Started(n) < MaxBriefs
  PROVE  /\ Started(n) \in Nat /\ Started(n) + 1 \in 1..MaxBriefs
         /\ \A k \in 1..MaxBriefs : worker[<<n, k>>] # "none" <=> k <= Started(n)
<1> DEFINE S == {k \in 1..MaxBriefs : worker[<<n, k>>] # "none"}
<1>1. PICK m \in 0..MaxBriefs : \A k \in 1..MaxBriefs : worker[<<n, k>>] # "none" <=> k <= m
  BY DEF Begun
<1>2. MaxBriefs \in Nat /\ m \in Nat
  BY BriefAssumption
<1>3. S = 1..m
  BY <1>1, <1>2
<1>4. Cardinality(1..m) = m
  BY <1>2, FS_Interval, 1 \in Int, m \in Int
<1>5. Started(n) = Cardinality(S)
  BY DEF Started
<1>6. Started(n) = m
  BY <1>3, <1>4, <1>5
<1> QED
  BY <1>1, <1>2, <1>6

LEMMA BriefInvStarts == BriefInit => BriefInv
<1> SUFFICES ASSUME BriefInit PROVE BriefInv
  OBVIOUS
<1> USE BriefAssumption DEF BriefInit, Nobody, None
<1>1. BriefTypes
  <2>1. 0 \in 0..MaxBriefs
    OBVIOUS
  <2> QED
    BY <2>1 DEF BriefTypes
<1>2. Begun
  BY DEF Begun, BriefIds
<1>3. AtWork
  BY DEF AtWork
<1>4. Stopping /\ Ending /\ Lossless /\ Truthful
  BY DEF Stopping, Ending, Lossless, NoOutcomeIsLost, IsDone, Truthful
<1> QED
  BY <1>1, <1>2, <1>3, <1>4 DEF BriefInv

LEMMA BeginTurnKeeps == BriefInv /\ BeginTurn => BriefInv'
BY DEF BriefInv, BeginTurn, ended, BriefTypes, Begun, AtWork, Stopping, Ending, Lossless, NoOutcomeIsLost, IsDone, Truthful

LEMMA WorkKeeps == ASSUME NEW b \in BriefIds, BriefInv, Work(b) \/ Fail(b) PROVE BriefInv'
<1> USE DEF BriefInv, Active, ended
<1>w. /\ worker[b] \in {"running", "stopping"}
      /\ worker' = [worker EXCEPT ![b] = worker'[b]]
      /\ worker[b] = "running" => worker'[b] \in {"done", "failed"}
      /\ worker[b] = "stopping" => worker'[b] = "cancelled"
      /\ UNCHANGED <<turn, task, stopped, waiting, reports, ended>>
  BY DEF Work, Fail, BriefTypes
<1>1. BriefTypes'
  BY <1>w DEF BriefTypes
<1>2. Begun'
  <2> SUFFICES ASSUME NEW n \in Names PROVE \A k \in 1..MaxBriefs : worker'[<<n, k>>] # "none" <=> worker[<<n, k>>] # "none"
    BY DEF Begun
  <2> QED
    BY <1>w DEF BriefTypes, BriefIds
<1>3. AtWork'
  BY <1>w DEF AtWork, BriefTypes, BriefIds, None
<1>4. Stopping'
  BY <1>w DEF Stopping, BriefTypes
<1>5. Ending'
  BY <1>w DEF Ending
<1>6. Lossless'
  <2> SUFFICES ASSUME NEW c \in BriefIds, (IsDone(c) \/ worker[c] = "stopping")'
               PROVE  \/ c[2] \in {task'[c[1]], stopped'[c[1]]}
                      \/ \E r \in reports' \cup remaining' : r[1] = c
                      \/ c \in dropped'
    BY DEF Lossless, NoOutcomeIsLost
  <2>1. UNCHANGED <<task, stopped, reports, remaining, dropped>>
    BY <1>w
  <2>2. CASE c = b /\ worker[b] = "running"
    BY <1>w, <2>1, <2>2 DEF AtWork
  <2>3. CASE ~(c = b /\ worker[b] = "running")
    BY <1>w, <2>1, <2>3 DEF Lossless, NoOutcomeIsLost, IsDone, BriefTypes
  <2> QED
    BY <2>2, <2>3
<1>7. Truthful'
  <2> SUFFICES ASSUME NEW r \in reports \cup remaining
               PROVE  worker'[r[1]] = r[2] \/ (twice /\ worker'[r[1]] = "stopping" /\ r[2] = "cancelled")
    BY <1>w DEF Truthful
  <2>1. r[1] \in BriefIds /\ r[2] \in {"done", "failed", "cancelled"}
    BY DEF BriefTypes
  <2> QED
    BY <1>w, <2>1 DEF Truthful, BriefTypes
<1> QED
  BY <1>1, <1>2, <1>3, <1>4, <1>5, <1>6, <1>7

LEMMA StartBriefKeeps == ASSUME NEW c \in Callers, NEW n \in Names, BriefInv, StartBrief(c, n) PROVE BriefInv'
<1> USE DEF BriefInv, ended
<1>a. turn = "running" /\ task[n] = None /\ Started(n) < MaxBriefs
  BY DEF StartBrief, Free, MayStart
<1>b. PICK j : j = Started(n) + 1
  OBVIOUS
<1>c. /\ j \in 1..MaxBriefs /\ j # None /\ <<n, j>> \in BriefIds /\ worker[<<n, j>>] = "none"
      /\ \A k \in 1..MaxBriefs : worker[<<n, k>>] # "none" <=> k < j
  <2>1. j \in 1..MaxBriefs /\ MaxBriefs \in Nat /\ \A k \in 1..MaxBriefs : worker[<<n, k>>] # "none" <=> k <= Started(n)
    BY <1>a, <1>b, NextBrief, BriefAssumption
  <2>2. Started(n) \in Nat
    BY <1>a, NextBrief
  <2> QED
    BY <1>b, <2>1, <2>2 DEF None, BriefIds
<1>d. /\ worker' = [worker EXCEPT ![<<n, j>>] = "running"] /\ task' = [task EXCEPT ![n] = j]
      /\ stopped' = [stopped EXCEPT ![n] = None]
      /\ UNCHANGED <<turn, waiting, left, remaining, awaited, dropped, stops, twice>>
  BY <1>b DEF StartBrief
<1>e. reports' = reports \cup Previous(n)
  BY DEF StartBrief
<1>f. \A r \in Previous(n) : r = <<<<n, stopped[n]>>, "cancelled">> /\ stopped[n] # None
  BY DEF Previous
<1>g. stopped[n] # None => <<<<n, stopped[n]>>, "cancelled">> \in Previous(n)
  BY DEF Previous
<1>h. awaited = {}
  BY <1>a DEF Stopping
<1>i. stopped[n] # None => <<n, stopped[n]>> \in BriefIds /\ worker[<<n, stopped[n]>>] \in {"stopping", "cancelled"}
  <2>1. stopped[n] \in 0..MaxBriefs /\ MaxBriefs \in Nat
    BY BriefAssumption DEF BriefTypes
  <2>2. stopped[n] # None => stopped[n] \in 1..MaxBriefs
    BY <2>1 DEF None
  <2> QED
    BY <2>2 DEF AtWork, BriefIds
<1>1. BriefTypes'
  <2>1. j \in 0..MaxBriefs /\ None \in 0..MaxBriefs
    BY <1>c, BriefAssumption DEF None
  <2>2. worker' \in [BriefIds -> {"none", "running", "stopping", "done", "failed", "cancelled"}]
    BY <1>d DEF BriefTypes
  <2>3. task' \in [Names -> 0..MaxBriefs] /\ stopped' \in [Names -> 0..MaxBriefs]
    BY <1>d, <2>1 DEF BriefTypes
  <2>4. \A r \in reports' \cup remaining' : r \in BriefIds \X {"done", "failed", "cancelled"}
    BY <1>d, <1>e, <1>f, <1>i DEF BriefTypes
  <2> QED
    BY <1>d, <2>2, <2>3, <2>4 DEF BriefTypes
<1>2. Begun'
  <2> SUFFICES ASSUME NEW l \in Names
               PROVE  \E m \in 0..MaxBriefs : \A k \in 1..MaxBriefs : worker'[<<l, k>>] # "none" <=> k <= m
    BY DEF Begun
  <2>1. CASE l = n
    <3>1. \A k \in 1..MaxBriefs : worker'[<<l, k>>] # "none" <=> k <= j
      BY <1>c, <1>d, <2>1, BriefAssumption DEF BriefTypes, BriefIds
    <3> QED
      BY <1>c, <3>1, BriefAssumption
  <2>2. CASE l # n
    <3>1. \A k \in 1..MaxBriefs : worker'[<<l, k>>] = worker[<<l, k>>]
      BY <1>d, <2>2 DEF BriefTypes, BriefIds
    <3> QED
      BY <3>1 DEF Begun
  <2> QED
    BY <2>1, <2>2
<1>3. AtWork'
  <2>1. \A l \in Names : /\ task'[l] # None => worker'[<<l, task'[l]>>] \in {"running", "done", "failed"} /\ stopped'[l] = None
                         /\ stopped'[l] # None => worker'[<<l, stopped'[l]>>] \in {"stopping", "cancelled"}
    <3> SUFFICES ASSUME NEW l \in Names
                 PROVE  /\ task'[l] # None => worker'[<<l, task'[l]>>] \in {"running", "done", "failed"} /\ stopped'[l] = None
                        /\ stopped'[l] # None => worker'[<<l, stopped'[l]>>] \in {"stopping", "cancelled"}
      OBVIOUS
    <3>1. CASE l = n
      BY <1>c, <1>d, <3>1 DEF BriefTypes
    <3>2. CASE l # n
      BY <1>c, <1>d, <3>2, BriefAssumption DEF AtWork, BriefTypes, BriefIds, None
    <3> QED
      BY <3>1, <3>2
  <2>2. \A b \in BriefIds : worker'[b] = "running" => task'[b[1]] = b[2] /\ turn' \in {"running", "ending"}
    <3> SUFFICES ASSUME NEW b \in BriefIds, worker'[b] = "running" PROVE task'[b[1]] = b[2]
      BY <1>a, <1>d
    <3>1. CASE b = <<n, j>>
      BY <1>d, <3>1 DEF BriefTypes
    <3>2. CASE b # <<n, j>>
      <4>1. worker[b] = "running" /\ b[1] \in Names /\ b[2] \in 1..MaxBriefs
        BY <1>c, <1>d, <3>2 DEF BriefTypes, BriefIds
      <4>2. task[b[1]] = b[2]
        BY <4>1 DEF AtWork
      <4>3. b[1] # n
        BY <1>a, <4>1, <4>2, BriefAssumption DEF None
      <4> QED
        BY <1>d, <4>1, <4>2, <4>3 DEF BriefTypes
    <3> QED
      BY <3>1, <3>2
  <2> QED
    BY <2>1, <2>2 DEF AtWork
<1>4. Stopping'
  BY <1>d, <1>h DEF Stopping, BriefTypes
<1>5. Ending'
  BY <1>a, <1>d DEF Ending
<1>6. Lossless'
  <2> SUFFICES ASSUME NEW b \in BriefIds, (IsDone(b) \/ worker[b] = "stopping")'
               PROVE  \/ b[2] \in {task'[b[1]], stopped'[b[1]]}
                      \/ \E r \in reports' \cup remaining' : r[1] = b
                      \/ b \in dropped'
    BY DEF Lossless, NoOutcomeIsLost
  <2>1. b # <<n, j>> /\ b[1] \in Names /\ b[2] \in 1..MaxBriefs /\ b = <<b[1], b[2]>> /\ b[2] # None
    BY <1>d, BriefAssumption DEF IsDone, BriefTypes, BriefIds, None
  <2>2. \/ b[2] \in {task[b[1]], stopped[b[1]]}
        \/ \E r \in reports \cup remaining : r[1] = b
        \/ b \in dropped
    BY <1>d, <2>1 DEF Lossless, NoOutcomeIsLost, IsDone, BriefTypes
  <2>3. CASE b[1] = n /\ b[2] = stopped[n]
    BY <1>e, <1>g, <2>1, <2>3
  <2>4. CASE ~(b[1] = n /\ b[2] = stopped[n])
    BY <1>a, <1>d, <1>e, <2>1, <2>2, <2>4 DEF BriefTypes
  <2> QED
    BY <2>3, <2>4
<1>7. Truthful'
  <2> SUFFICES ASSUME NEW r \in reports' \cup remaining
               PROVE  worker'[r[1]] = r[2] \/ (twice /\ worker'[r[1]] = "stopping" /\ r[2] = "cancelled")
    BY <1>d DEF Truthful
  <2>1. CASE r \in reports \cup remaining
    <3>1. r[1] \in BriefIds /\ r[2] \in {"done", "failed", "cancelled"}
      BY <2>1 DEF BriefTypes
    <3>2. worker[r[1]] = r[2] \/ (twice /\ worker[r[1]] = "stopping" /\ r[2] = "cancelled")
      BY <2>1 DEF Truthful
    <3> QED
      BY <1>c, <1>d, <3>1, <3>2 DEF BriefTypes
  <2>2. CASE r \in Previous(n)
    <3>1. r[1] = <<n, stopped[n]>> /\ r[2] = "cancelled" /\ r[1] \in BriefIds /\ worker[r[1]] \in {"stopping", "cancelled"}
      BY <1>f, <1>i, <2>2
    <3>2. worker[r[1]] = "stopping" => twice
      BY <1>h, <3>1 DEF Stopping
    <3> QED
      BY <1>c, <1>d, <3>1, <3>2 DEF BriefTypes
  <2> QED
    BY <1>e, <2>1, <2>2
<1> QED
  BY <1>1, <1>2, <1>3, <1>4, <1>5, <1>6, <1>7

\* A brief that is collected is told of with what became of it.
LEMMA CollectingKeeps ==
  ASSUME BriefInv, NEW b \in BriefIds, IsDone(b), Collect(b), UNCHANGED <<worker, turn, awaited, dropped, twice>>,
         reports' \cup remaining' = reports \cup remaining \cup Outcome(b)
  PROVE  /\ task' \in [Names -> 0..MaxBriefs] /\ stopped' = stopped
         /\ \A n \in Names : task'[n] \in {None, task[n]}
         /\ \A r \in reports' \cup remaining' : r \in BriefIds \X {"done", "failed", "cancelled"}
         /\ Begun' /\ AtWork' /\ Stopping' /\ Lossless' /\ Truthful'
<1> USE DEF BriefInv
<1>a. /\ b[1] \in Names /\ b[2] \in 1..MaxBriefs /\ b = <<b[1], b[2]>> /\ worker[b] \in {"done", "failed", "cancelled"}
      /\ task' = [task EXCEPT ![b[1]] = Collected(b)] /\ stopped' = stopped /\ None \in 0..MaxBriefs
      /\ Collected(b) = IF task[b[1]] = b[2] THEN None ELSE task[b[1]]
  BY BriefAssumption DEF BriefIds, IsDone, Collect, Collected, None
<1>1. task' \in [Names -> 0..MaxBriefs]
  BY <1>a DEF BriefTypes
<1>2. \A n \in Names : task'[n] = IF n = b[1] /\ task[n] = b[2] THEN None ELSE task[n]
  BY <1>a DEF BriefTypes
<1>3. \A r \in reports' \cup remaining' : r \in reports \cup remaining \/ r = <<b, worker[b]>>
  BY DEF Outcome
<1>4. \A r \in reports' \cup remaining' : r \in BriefIds \X {"done", "failed", "cancelled"}
  BY <1>3, <1>a DEF BriefTypes
<1>5. Begun'
  BY DEF Begun
<1>6. AtWork'
  BY <1>2, <1>a DEF AtWork, BriefIds
<1>7. Stopping'
  BY DEF Stopping
<1>8. Lossless'
  <2> SUFFICES ASSUME NEW c \in BriefIds, (IsDone(c) \/ worker[c] = "stopping")'
               PROVE  \/ c[2] \in {task'[c[1]], stopped'[c[1]]}
                      \/ \E r \in reports' \cup remaining' : r[1] = c
                      \/ c \in dropped'
    BY DEF Lossless, NoOutcomeIsLost
  <2>0. c[1] \in Names /\ c = <<c[1], c[2]>>
    BY DEF BriefIds
  <2>1. \/ c[2] \in {task[c[1]], stopped[c[1]]}
        \/ \E r \in reports \cup remaining : r[1] = c
        \/ c \in dropped
    BY DEF Lossless, NoOutcomeIsLost, IsDone
  <2>2. CASE c = b
    <3>1. PICK r \in reports' \cup remaining' : r = <<b, worker[b]>>
      BY DEF Outcome
    <3>2. r[1] = c
      BY <2>2, <3>1
    <3> QED
      BY <3>2
  <2>3. CASE c # b
    BY <1>2, <1>a, <2>0, <2>1, <2>3
  <2> QED
    BY <2>2, <2>3
<1>9. Truthful'
  <2> SUFFICES ASSUME NEW r \in reports' \cup remaining'
               PROVE  worker[r[1]] = r[2] \/ (twice /\ worker[r[1]] = "stopping" /\ r[2] = "cancelled")
    BY DEF Truthful
  <2> QED
    BY <1>3 DEF Truthful
<1> QED
  BY <1>a, <1>1, <1>2, <1>4, <1>5, <1>6, <1>7, <1>8, <1>9

LEMMA ToolsKeep ==
  ASSUME NEW c \in Callers, BriefInv,
         WaitReturns(c) \/ \E n \in Names : ResultOfNone(c, n) \/ Result(c, n) \/ Wait(c, n)
  PROVE  BriefInv'
<1> USE DEF BriefInv, ended
<1>1. CASE WaitReturns(c)
  <2>1. PICK b : b = waiting[c]
    OBVIOUS
  <2>2. b \in BriefIds /\ waiting' = [waiting EXCEPT ![c] = NoBrief] /\ turn = "running" /\ UNCHANGED <<turn, worker, left, remaining, awaited, dropped, twice>>
    BY <1>1, <2>1 DEF WaitReturns, BriefTypes
  <2>3. waiting' \in [Callers -> BriefIds \cup {NoBrief}]
    BY <2>2 DEF BriefTypes
  <2>4. CASE IsDone(b)
    <3>1. Collect(b) /\ reports' = reports \cup Outcome(b)
      BY <1>1, <2>1, <2>4 DEF WaitReturns
    <3>2. reports' \cup remaining' = reports \cup remaining \cup Outcome(b)
      BY <2>2, <3>1
    <3>3. /\ task' \in [Names -> 0..MaxBriefs] /\ stopped' = stopped
          /\ \A n \in Names : task'[n] \in {None, task[n]}
          /\ \A r \in reports' \cup remaining' : r \in BriefIds \X {"done", "failed", "cancelled"}
          /\ Begun' /\ AtWork' /\ Stopping' /\ Lossless' /\ Truthful'
      BY <2>2, <2>4, <3>1, <3>2, CollectingKeeps
    <3>4. BriefTypes' /\ Ending'
      BY <2>2, <2>3, <3>3 DEF BriefTypes, Ending
    <3> QED
      BY <3>3, <3>4
  <2>5. CASE ~IsDone(b)
    <3>1. UNCHANGED <<task, stopped, reports>>
      BY <1>1, <2>1, <2>5 DEF WaitReturns
    <3> QED
      BY <2>2, <2>3, <3>1 DEF BriefTypes, Begun, AtWork, Stopping, Ending, Lossless, NoOutcomeIsLost, IsDone, Truthful
  <2> QED
    BY <2>4, <2>5
<1>2. ASSUME NEW n \in Names, ResultOfNone(c, n) PROVE BriefInv'
  <2>1. /\ turn = "running" /\ task[n] = None /\ stopped[n] # None
        /\ reports' = reports \cup {<<<<n, stopped[n]>>, "cancelled">>}
        /\ stopped' = [stopped EXCEPT ![n] = None]
        /\ UNCHANGED <<turn, worker, task, waiting, left, remaining, awaited, dropped, twice>>
    BY <1>2 DEF ResultOfNone, Free
  <2>2. PICK b : b = <<n, stopped[n]>>
    OBVIOUS
  <2>3. b \in BriefIds /\ worker[b] \in {"stopping", "cancelled"} /\ b[1] = n /\ b[2] = stopped[n] /\ None \in 0..MaxBriefs
    <3>1. stopped[n] \in 0..MaxBriefs /\ MaxBriefs \in Nat
      BY BriefAssumption DEF BriefTypes
    <3>2. stopped[n] \in 1..MaxBriefs
      BY <2>1, <3>1 DEF None
    <3>3. b \in BriefIds
      BY <2>2, <3>2 DEF BriefIds
    <3>4. worker[b] \in {"stopping", "cancelled"}
      BY <2>1, <2>2 DEF AtWork
    <3>5. None \in 0..MaxBriefs
      BY <3>1 DEF None
    <3> QED
      BY <2>2, <3>3, <3>4, <3>5
  <2>4. worker[b] = "stopping" => twice
    BY <2>1, <2>3 DEF Stopping
  <2>5. BriefTypes'
    BY <2>1, <2>2, <2>3 DEF BriefTypes
  <2>6. Begun' /\ AtWork' /\ Stopping' /\ Ending'
    BY <2>1 DEF Begun, AtWork, Stopping, Ending, BriefTypes
  <2>7. Lossless'
    <3> SUFFICES ASSUME NEW d \in BriefIds, IsDone(d) \/ worker[d] = "stopping"
                 PROVE  \/ d[2] \in {task[d[1]], stopped'[d[1]]}
                        \/ \E r \in reports' \cup remaining : r[1] = d
                        \/ d \in dropped
      BY <2>1 DEF Lossless, NoOutcomeIsLost, IsDone
    <3>0. d[1] \in Names /\ d = <<d[1], d[2]>>
      BY DEF BriefIds
    <3>1. \/ d[2] \in {task[d[1]], stopped[d[1]]}
          \/ \E r \in reports \cup remaining : r[1] = d
          \/ d \in dropped
      BY DEF Lossless, NoOutcomeIsLost
    <3>2. CASE d[1] = n /\ d[2] = stopped[n]
      <4>1. PICK r \in reports' : r = <<d, "cancelled">>
        BY <2>1, <3>0, <3>2
      <4>2. r[1] = d
        BY <4>1
      <4> QED
        BY <4>2
    <3>3. CASE ~(d[1] = n /\ d[2] = stopped[n])
      BY <2>1, <3>0, <3>1, <3>3 DEF BriefTypes
    <3> QED
      BY <3>2, <3>3
  <2>8. Truthful'
    <3> SUFFICES ASSUME NEW r \in reports \cup {<<b, "cancelled">>} \cup remaining
                 PROVE  worker[r[1]] = r[2] \/ (twice /\ worker[r[1]] = "stopping" /\ r[2] = "cancelled")
      BY <2>1, <2>2 DEF Truthful
    <3> QED
      BY <2>3, <2>4 DEF Truthful
  <2> QED
    BY <2>5, <2>6, <2>7, <2>8
<1>3. ASSUME NEW n \in Names, Result(c, n) PROVE BriefInv'
  <2>1. PICK b : b = <<n, task[n]>>
    OBVIOUS
  <2>2. /\ IsDone(b) /\ Collect(b) /\ reports' = reports \cup Outcome(b) /\ task[n] # None /\ turn = "running"
        /\ UNCHANGED <<turn, worker, waiting, left, remaining, awaited, dropped, twice>>
    BY <1>3, <2>1 DEF Result, Free
  <2>3. b \in BriefIds
    <3>1. task[n] \in 0..MaxBriefs /\ MaxBriefs \in Nat
      BY BriefAssumption DEF BriefTypes
    <3>2. task[n] \in 1..MaxBriefs
      BY <2>2, <3>1 DEF None
    <3> QED
      BY <2>1, <3>2 DEF BriefIds
  <2>4. reports' \cup remaining' = reports \cup remaining \cup Outcome(b)
    BY <2>2
  <2>5. /\ task' \in [Names -> 0..MaxBriefs] /\ stopped' = stopped
        /\ \A l \in Names : task'[l] \in {None, task[l]}
        /\ \A r \in reports' \cup remaining' : r \in BriefIds \X {"done", "failed", "cancelled"}
        /\ Begun' /\ AtWork' /\ Stopping' /\ Lossless' /\ Truthful'
    BY <2>2, <2>3, <2>4, CollectingKeeps
  <2>6. BriefTypes' /\ Ending'
    BY <2>2, <2>5 DEF BriefTypes, Ending
  <2> QED
    BY <2>5, <2>6
<1>4. ASSUME NEW n \in Names, Wait(c, n) PROVE BriefInv'
  <2>1. /\ waiting' = [waiting EXCEPT ![c] = <<n, task[n]>>] /\ task[n] # None
        /\ UNCHANGED <<turn, worker, task, stopped, reports, left, remaining, awaited, dropped, twice>>
    BY <1>4 DEF Wait
  <2>2. <<n, task[n]>> \in BriefIds
    <3>1. task[n] \in 0..MaxBriefs /\ MaxBriefs \in Nat
      BY BriefAssumption DEF BriefTypes
    <3>2. task[n] \in 1..MaxBriefs
      BY <2>1, <3>1 DEF None
    <3> QED
      BY <3>2 DEF BriefIds
  <2> QED
    BY <2>1, <2>2 DEF BriefTypes, Begun, AtWork, Stopping, Ending, Lossless, NoOutcomeIsLost, IsDone, Truthful
<1> QED
  BY <1>1, <1>2, <1>3, <1>4

LEMMA EndingKeeps ==
  ASSUME BriefInv, EndTurn \/ Return \/ \E n \in Names : CollectLeft(n)
  PROVE  BriefInv'
<1> USE DEF BriefInv
<1>1. CASE EndTurn
  BY <1>1 DEF EndTurn, BriefTypes, Begun, AtWork, Stopping, Ending, Lossless, NoOutcomeIsLost, IsDone, Truthful
<1>2. CASE Return
  <2>1. /\ turn = "ending" /\ left = {} /\ turn' = "idle" /\ reports' = reports \cup remaining /\ remaining' = {}
        /\ UNCHANGED <<worker, task, stopped, waiting, left, awaited, dropped, twice>>
    BY <1>2 DEF Return
  <2>2. reports' \cup remaining' = reports \cup remaining
    BY <2>1
  <2>3. \A b \in BriefIds : worker[b] # "running"
    <3> SUFFICES ASSUME NEW b \in BriefIds, worker[b] = "running" PROVE FALSE
      OBVIOUS
    <3>1. b[1] \in Names /\ task[b[1]] # None
      BY BriefAssumption DEF AtWork, BriefIds, None
    <3> QED
      BY <2>1, <3>1 DEF Ending
  <2>4. BriefTypes'
    BY <2>1, <2>2 DEF BriefTypes
  <2>5. Begun' /\ AtWork' /\ Stopping' /\ Ending'
    BY <2>1, <2>3 DEF Begun, AtWork, Stopping, Ending
  <2>6. Lossless' /\ Truthful'
    BY <2>1, <2>2 DEF Lossless, NoOutcomeIsLost, IsDone, Truthful
  <2> QED
    BY <2>4, <2>5, <2>6
<1>3. ASSUME NEW n \in Names, CollectLeft(n) PROVE BriefInv'
  <2>1. PICK b : b = <<n, task[n]>>
    OBVIOUS
  <2>2. /\ IsDone(b) /\ Collect(b) /\ remaining' = remaining \cup Outcome(b) /\ turn = "ending" /\ n \in left /\ left' = left \ {n}
        /\ UNCHANGED <<turn, worker, waiting, reports, awaited, dropped, twice>>
    BY <1>3, <2>1 DEF CollectLeft, Ready
  <2>3. b \in BriefIds
    <3>1. task[n] \in 0..MaxBriefs /\ MaxBriefs \in Nat /\ task[n] # None
      BY <2>2, BriefAssumption DEF BriefTypes, Ending
    <3>2. task[n] \in 1..MaxBriefs
      BY <3>1 DEF None
    <3> QED
      BY <2>1, <3>2 DEF BriefIds
  <2>4. reports' \cup remaining' = reports \cup remaining \cup Outcome(b)
    BY <2>2
  <2>5. /\ task' \in [Names -> 0..MaxBriefs] /\ stopped' = stopped
        /\ \A l \in Names : task'[l] \in {None, task[l]}
        /\ \A r \in reports' \cup remaining' : r \in BriefIds \X {"done", "failed", "cancelled"}
        /\ Begun' /\ AtWork' /\ Stopping' /\ Lossless' /\ Truthful'
    BY <2>2, <2>3, <2>4, CollectingKeeps
  <2>6. task' = [task EXCEPT ![n] = None]
    BY <2>1, <2>2 DEF Collect, Collected
  <2>7. BriefTypes' /\ Ending'
    BY <2>2, <2>5, <2>6 DEF BriefTypes, Ending
  <2> QED
    BY <2>5, <2>7
<1> QED
  BY <1>1, <1>2, <1>3

LEMMA InterruptKeeps == ASSUME BriefInv, Interrupt PROVE BriefInv'
<1> USE DEF BriefInv
<1> DEFINE atWork == {b \in BriefIds : worker[b] = "running"}
           names == {b[1] : b \in atWork}
<1>0. \A b \in BriefIds : b[1] \in Names /\ b[2] \in 1..MaxBriefs /\ b = <<b[1], b[2]>> /\ b[2] # None /\ b[2] \in 0..MaxBriefs
  BY BriefAssumption DEF BriefIds, None
<1>a. {b \in BriefIds : task[b[1]] = b[2] /\ worker[b] = "running"} = atWork
  BY DEF AtWork
<1>b. /\ worker' = [b \in BriefIds |-> IF b \in atWork THEN "stopping" ELSE worker[b]]
      /\ stopped' = [n \in Names |-> IF n \in names THEN task[n] ELSE stopped[n]]
      /\ task' = [n \in Names |-> IF n \in names THEN None ELSE task[n]]
      /\ awaited' = atWork
  BY <1>a DEF Interrupt, Awaited
<1>c. /\ turn \in {"running", "ending"} /\ turn' = "failing" /\ waiting' = [c \in Callers |-> NoBrief]
      /\ left' = {} /\ remaining' = {} /\ dropped' = dropped \cup {r[1] : r \in remaining}
      /\ reports' = reports /\ twice' = twice
  BY DEF Interrupt
<1>d. awaited = {}
  BY <1>c DEF Stopping
<1>e. \A b \in atWork : b \in BriefIds /\ b[1] \in names /\ task[b[1]] = b[2] /\ stopped[b[1]] = None
  BY <1>0 DEF AtWork
<1>f. \A b \in BriefIds : b[1] \in names /\ b[2] = task[b[1]] => b \in atWork
  BY <1>0, <1>e
<1> HIDE DEF atWork, names
<1>g. atWork \subseteq BriefIds /\ \A b \in BriefIds : b \in atWork <=> worker[b] = "running"
  BY DEF atWork
<1>h. \A n \in names : \E b \in atWork : n = b[1]
  BY DEF names
<1>1. BriefTypes'
  <2>1. None \in 0..MaxBriefs
    BY BriefAssumption DEF None
  <2>2. task' \in [Names -> 0..MaxBriefs] /\ stopped' \in [Names -> 0..MaxBriefs]
    BY <1>b, <2>1 DEF BriefTypes
  <2> QED
    BY <1>b, <1>c, <1>g, <2>2 DEF BriefTypes
<1>2. Begun'
  <2>1. \A n \in Names, k \in 1..MaxBriefs : worker'[<<n, k>>] # "none" <=> worker[<<n, k>>] # "none"
    <3> SUFFICES ASSUME NEW n \in Names, NEW k \in 1..MaxBriefs PROVE worker'[<<n, k>>] # "none" <=> worker[<<n, k>>] # "none"
      OBVIOUS
    <3>1. <<n, k>> \in BriefIds
      BY DEF BriefIds
    <3> QED
      BY <1>b, <1>g, <3>1
  <2> SUFFICES ASSUME NEW n \in Names
               PROVE  \E m \in 0..MaxBriefs : \A k \in 1..MaxBriefs : worker'[<<n, k>>] # "none" <=> k <= m
    BY DEF Begun
  <2>2. PICK m \in 0..MaxBriefs : \A k \in 1..MaxBriefs : worker[<<n, k>>] # "none" <=> k <= m
    BY DEF Begun
  <2> QED
    BY <2>1, <2>2
<1>3. AtWork'
  <2>1. ASSUME NEW n \in Names
        PROVE /\ task'[n] # None => worker'[<<n, task'[n]>>] \in {"running", "done", "failed"} /\ stopped'[n] = None
              /\ stopped'[n] # None => worker'[<<n, stopped'[n]>>] \in {"stopping", "cancelled"}
    <3>0. /\ task[n] # None => <<n, task[n]>> \in BriefIds
          /\ stopped[n] # None => <<n, stopped[n]>> \in BriefIds
      <4>1. task[n] \in 0..MaxBriefs /\ stopped[n] \in 0..MaxBriefs /\ MaxBriefs \in Nat
        BY BriefAssumption DEF BriefTypes
      <4>2. (task[n] # None => task[n] \in 1..MaxBriefs) /\ (stopped[n] # None => stopped[n] \in 1..MaxBriefs)
        BY <4>1 DEF None
      <4> QED
        BY <4>2 DEF BriefIds
    <3>1. CASE n \in names
      <4>1. PICK b \in atWork : n = b[1]
        BY <1>h, <3>1
      <4>2. b = <<n, task[n]>> /\ b \in BriefIds
        BY <1>0, <1>e, <4>1
      <4> QED
        BY <1>b, <3>1, <4>1, <4>2
    <3>2. CASE n \notin names
      <4>1. task'[n] = task[n] /\ stopped'[n] = stopped[n]
        BY <1>b, <3>2
      <4>2. task[n] # None => <<n, task[n]>> \notin atWork
        BY <1>e, <3>0, <3>2
      <4>3. stopped[n] # None => <<n, stopped[n]>> \notin atWork
        BY <1>g, <3>0 DEF AtWork
      <4> QED
        BY <1>b, <3>0, <4>1, <4>2, <4>3 DEF AtWork
    <3> QED
      BY <3>1, <3>2
  <2>2. \A b \in BriefIds : worker'[b] # "running"
    BY <1>b, <1>g
  <2> QED
    BY <2>1, <2>2 DEF AtWork
<1>4. Stopping'
  <2>1. \A b \in BriefIds : worker'[b] = "stopping" => twice \/ b \in atWork
    BY <1>b, <1>d DEF Stopping
  <2>2. \A b, c \in atWork : b[1] = c[1] => b = c
    BY <1>0, <1>e
  <2> QED
    BY <1>b, <1>c, <2>1, <2>2 DEF Stopping
<1>5. Ending'
  BY <1>c DEF Ending
<1>6. Lossless'
  <2> SUFFICES ASSUME NEW c \in BriefIds, (IsDone(c) \/ worker[c] = "stopping")'
               PROVE  \/ c[2] \in {task'[c[1]], stopped'[c[1]]}
                      \/ \E r \in reports' \cup remaining' : r[1] = c
                      \/ c \in dropped'
    BY DEF Lossless, NoOutcomeIsLost
  <2>1. CASE c \in atWork
    BY <1>0, <1>b, <1>e, <2>1
  <2>2. CASE c \notin atWork
    <3>1. \/ c[2] \in {task[c[1]], stopped[c[1]]}
          \/ \E r \in reports \cup remaining : r[1] = c
          \/ c \in dropped
      BY <1>b, <2>2 DEF Lossless, NoOutcomeIsLost, IsDone
    <3>2. CASE c[2] = task[c[1]]
      BY <1>0, <1>b, <1>f, <2>2, <3>2
    <3>3. CASE c[2] = stopped[c[1]]
      <4>1. c[1] \notin names
        BY <1>0, <1>e, <1>h, <3>3
      <4> QED
        BY <1>0, <1>b, <3>3, <4>1
    <3>4. CASE \E r \in reports \cup remaining : r[1] = c
      BY <1>c, <3>4
    <3>5. CASE c \in dropped
      BY <1>c, <3>5
    <3> QED
      BY <3>1, <3>2, <3>3, <3>4, <3>5
  <2> QED
    BY <2>1, <2>2
<1>7. Truthful'
  <2> SUFFICES ASSUME NEW r \in reports
               PROVE  worker'[r[1]] = r[2] \/ (twice /\ worker'[r[1]] = "stopping" /\ r[2] = "cancelled")
    BY <1>c DEF Truthful
  <2>1. r[1] \in BriefIds /\ r[2] \in {"done", "failed", "cancelled"}
    BY DEF BriefTypes
  <2>2. worker[r[1]] = r[2] \/ (twice /\ worker[r[1]] = "stopping" /\ r[2] = "cancelled")
    BY DEF Truthful
  <2> QED
    BY <1>b, <1>g, <2>1, <2>2
<1> QED
  BY <1>1, <1>2, <1>3, <1>4, <1>5, <1>6, <1>7

LEMMA RaisingKeeps == ASSUME BriefInv, Raise \/ InterruptAgain PROVE BriefInv'
<1> USE DEF BriefInv
<1>1. /\ turn = "failing" /\ turn' = "idle" /\ awaited' = {} /\ twice' \in BOOLEAN /\ (twice => twice')
      /\ UNCHANGED <<worker, task, stopped, waiting, left, remaining, reports, dropped>>
      /\ twice' \/ \A b \in awaited : IsDone(b)
  BY DEF Raise, InterruptAgain, BriefTypes
<1>2. BriefTypes'
  BY <1>1 DEF BriefTypes
<1>3. Begun' /\ AtWork' /\ Ending' /\ Truthful'
  BY <1>1 DEF Begun, AtWork, Ending, Truthful
<1>4. Lossless'
  BY <1>1 DEF Lossless, NoOutcomeIsLost, IsDone
<1>5. Stopping'
  BY <1>1 DEF Stopping, IsDone
<1> QED
  BY <1>2, <1>3, <1>4, <1>5

\* An agent has one active brief at most.
LEMMA OneActive ==
  ASSUME BriefInv, ~twice, NEW n \in Names
  PROVE  Cardinality({k \in 1..MaxBriefs : Active(<<n, k>>)}) <= 1
<1> DEFINE S == {k \in 1..MaxBriefs : Active(<<n, k>>)}
<1> USE DEF BriefInv
<1>0. \A k \in 1..MaxBriefs : <<n, k>> \in BriefIds /\ <<n, k>>[1] = n /\ <<n, k>>[2] = k
  BY DEF BriefIds
<1>1. ASSUME NEW k \in S, NEW l \in S PROVE k = l
  <2>1. worker[<<n, k>>] \in {"running", "stopping"} /\ worker[<<n, l>>] \in {"running", "stopping"}
    BY DEF Active
  <2>2. CASE worker[<<n, k>>] = "running" /\ worker[<<n, l>>] = "running"
    BY <1>0, <2>2 DEF AtWork
  <2>3. CASE worker[<<n, k>>] = "stopping" /\ worker[<<n, l>>] = "stopping"
    <3>1. <<n, k>> = <<n, l>>
      BY <1>0, <2>3 DEF Stopping
    <3> QED
      BY <3>1
  <2>4. ASSUME \E b \in BriefIds : worker[b] = "running", \E b \in BriefIds : worker[b] = "stopping" PROVE FALSE
    BY <2>4 DEF AtWork, Stopping
  <2> QED
    BY <1>0, <2>1, <2>2, <2>3, <2>4
<1>2. CASE S = {}
  <2>1. Cardinality({}) = 0
    BY FS_EmptySet
  <2>2. Cardinality(S) = 0
    BY <1>2, <2>1
  <2> QED
    BY <2>2
<1>3. CASE S # {}
  <2>1. PICK k \in S : TRUE
    BY <1>3
  <2>2. S = {k}
    BY <1>1, <2>1
  <2>3. Cardinality(S) = 1
    BY <2>2, FS_Singleton
  <2> QED
    BY <2>3
<1> QED
  BY <1>2, <1>3

LEMMA BriefInvAnswers == BriefInv => BriefsAreAccountedFor
<1> SUFFICES ASSUME BriefInv PROVE BriefsAreAccountedFor
  OBVIOUS
<1>1. turn = "idle" => twice \/ \A b \in BriefIds : ~Active(b)
  BY DEF BriefInv, AtWork, Stopping, Active
<1>2. \A n \in Names : Cardinality({k \in 1..MaxBriefs : Active(<<n, k>>)}) <= 1 \/ twice
  BY OneActive
<1>3. NoOutcomeIsLost /\ ReportsAreTrue
  BY DEF BriefInv, Lossless, Truthful, ReportsAreTrue
<1> QED
  BY <1>1, <1>2, <1>3 DEF BriefsAreAccountedFor, NobodyWorksUnseen

\* openai_agents_sdk.py: whoever starts, collects or stops them, background briefs are worked
\* on one at a time and never behind a turn's back, and what became of each is told, truly.
THEOREM BriefsAreAccountedForHolds == BriefSpec => []BriefsAreAccountedFor
<1>1. BriefInit => BriefInv
  BY BriefInvStarts
<1>2. BriefInv /\ [BriefNext]_briefVars => BriefInv'
  <2> SUFFICES ASSUME BriefInv, [BriefNext]_briefVars PROVE BriefInv'
    OBVIOUS
  <2>1. CASE BriefNext
    BY <2>1, BeginTurnKeeps, WorkKeeps, StartBriefKeeps, ToolsKeep, EndingKeeps, InterruptKeeps, RaisingKeeps DEF BriefNext
  <2>2. CASE UNCHANGED briefVars
    BY <2>2 DEF briefVars, BriefInv, BriefTypes, Begun, AtWork, Stopping, Ending, Lossless, NoOutcomeIsLost, IsDone, Truthful
  <2> QED
    BY <2>1, <2>2
<1>3. BriefInv => BriefsAreAccountedFor
  BY BriefInvAnswers
<1> QED
  BY <1>1, <1>2, <1>3, PTL DEF BriefSpec

----------------------------------------------------------------------------
(* Measurements *)

\* A metric of the snapshot is its last measurement, and one that the newest snapshot
\* lacked has its own time.
Measurements ==
  \A k \in Metrics :
    IF k \in DOMAIN metrics
    THEN /\ metrics[k] \in [value : Nat, as_of : Nat, stale : BOOLEAN]
         /\ metrics[k].value = measured[k].value
         /\ IF metrics[k].stale THEN metrics[k].as_of # 0 /\ measured[k].at = metrics[k].as_of
            ELSE metrics[k].as_of = 0 /\ measured[k].at = as_of
    ELSE measured[k] = [at |-> 0, value |-> 0]

Kept ==
  /\ reads \in Nat /\ as_of \in Nat /\ pending \in BOOLEAN /\ (pending => reads # 0)
  /\ truth \in [Metrics -> Nat] /\ measured \in [Metrics -> [at : Nat, value : Nat]]
  /\ DOMAIN metrics \subseteq Metrics
  /\ as_of = 0 => DOMAIN metrics = {}
  /\ freshness \in {"fresh", "cached"} /\ ~pending => as_of = reads
  /\ Measurements

LEMMA ReadingsKeep ==
  ASSUME Kept, NEW found \in SUBSET Metrics, Answer(found)
  PROVE  Kept'
<1> USE DEF Kept
<1>1. CASE Incomplete(found)
  <2>1. /\ pending' = FALSE /\ freshness' \in {"stale", "unavailable"}
        /\ UNCHANGED <<truth, reads, metrics, as_of, measured>>
    BY <1>1 DEF Answer, Failed
  <2> QED
    BY <2>1 DEF Measurements
<1>2. CASE ~Incomplete(found)
  <2>1. PICK read : read = [k \in found |-> [value |-> truth[k], as_of |-> 0, stale |-> FALSE]]
    OBVIOUS
  <2>2. /\ pending' = FALSE /\ metrics' = Merged(read) /\ as_of' = reads /\ freshness' = "fresh" /\ reads # 0
        /\ measured' = [k \in Metrics |-> IF k \in found THEN [at |-> reads, value |-> truth[k]] ELSE measured[k]]
        /\ UNCHANGED <<truth, reads>>
    BY <1>2, <2>1 DEF Answer, Succeed
  <2>3. /\ DOMAIN metrics' = DOMAIN metrics \cup found
        /\ \A k \in found : metrics'[k] = [value |-> truth[k], as_of |-> 0, stale |-> FALSE]
        /\ \A k \in DOMAIN metrics \ found : metrics'[k] = Retained(k)
    BY <2>1, <2>2 DEF Merged
  <2>4. measured' \in [Metrics -> [at : Nat, value : Nat]]
    BY <2>2
  <2>5. ASSUME NEW k \in found
        PROVE  /\ metrics'[k] \in [value : Nat, as_of : Nat, stale : BOOLEAN]
               /\ metrics'[k].value = measured'[k].value /\ ~metrics'[k].stale
               /\ metrics'[k].as_of = 0 /\ measured'[k].at = as_of'
    <3>1. metrics'[k] = [value |-> truth[k], as_of |-> 0, stale |-> FALSE]
      BY <2>3
    <3>2. measured'[k] = [at |-> reads, value |-> truth[k]] /\ truth[k] \in Nat
      BY <2>2
    <3> QED
      BY <2>2, <3>1, <3>2
  <2>6. ASSUME NEW k \in DOMAIN metrics \ found
        PROVE  /\ metrics'[k] \in [value : Nat, as_of : Nat, stale : BOOLEAN]
               /\ metrics'[k].value = measured'[k].value /\ metrics'[k].stale
               /\ metrics'[k].as_of # 0 /\ measured'[k].at = metrics'[k].as_of
    <3>1. measured'[k] = measured[k] /\ as_of # 0 /\ metrics[k] \in [value : Nat, as_of : Nat, stale : BOOLEAN]
      BY <2>2 DEF Measurements
    <3>2. metrics'[k] = [metrics[k] EXCEPT !.as_of = IF @ = 0 THEN as_of ELSE @, !.stale = TRUE]
      BY <2>3 DEF Retained
    <3>3. /\ metrics'[k].value = metrics[k].value /\ metrics'[k].stale = TRUE
          /\ metrics'[k].as_of = IF metrics[k].as_of = 0 THEN as_of ELSE metrics[k].as_of
          /\ metrics'[k] \in [value : Nat, as_of : Nat, stale : BOOLEAN]
      BY <3>1, <3>2
    <3> QED
      BY <3>1, <3>3 DEF Measurements
  <2>7. ASSUME NEW k \in Metrics, k \notin DOMAIN metrics' PROVE measured'[k] = [at |-> 0, value |-> 0]
    BY <2>2, <2>3, <2>7 DEF Measurements
  <2> QED
    <3>1. Measurements'
      BY <2>3, <2>5, <2>6, <2>7 DEF Measurements
    <3> QED
      BY <2>2, <2>3, <2>4, <3>1
<1> QED
  BY <1>1, <1>2

\* resources.py: for any metrics, limits and readings, however often the provider failed or left
\* one out, a metric is told with its last measurement, and a limit that was reached stays reached.
THEOREM LastKnownIsKeptHolds == MonitorSpec => []LastKnownIsKept
<1>1. MonitorInit => Kept
  <2> SUFFICES ASSUME MonitorInit PROVE Kept
    OBVIOUS
  <2>1. DOMAIN metrics = {}
    BY DEF MonitorInit, NoMetrics
  <2>2. Measurements
    BY <2>1 DEF MonitorInit, Measurements
  <2> QED
    BY <2>1, <2>2 DEF MonitorInit, Kept
<1>2. Kept /\ [MonitorNext]_monitorVars => Kept'
  <2> SUFFICES ASSUME Kept, [MonitorNext]_monitorVars PROVE Kept'
    OBVIOUS
  <2>1. CASE Early
    BY <2>1 DEF Kept, Early, Measurements
  <2>2. CASE Refresh
    BY <2>2 DEF Kept, Refresh, Measurements
  <2>3. CASE Error
    BY <2>3 DEF Kept, Error, Failed, Measurements
  <2>4. ASSUME NEW k \in Metrics, Grow(k) PROVE Kept'
    BY <2>4 DEF Kept, Grow, Measurements
  <2>5. CASE UNCHANGED monitorVars
    BY <2>5 DEF Kept, monitorVars, Measurements
  <2> QED
    BY <2>1, <2>2, <2>3, <2>4, <2>5, ReadingsKeep DEF MonitorNext
<1>3. Kept => LastKnownIsKept
  <2> SUFFICES ASSUME Kept PROVE LastKnownIsKept
    OBVIOUS
  <2>1. ASSUME NEW k \in Metrics
        PROVE  /\ Told(k).at = measured[k].at /\ Told(k).value = measured[k].value
               /\ Told(k).known => measured[k].at = as_of
               /\ measured[k].at # 0 => k \in DOMAIN metrics /\ metrics[k].value = measured[k].value
    <3>1. CASE k \in DOMAIN metrics
      <4>1. /\ metrics[k].stale \in BOOLEAN /\ metrics[k].value = measured[k].value
            /\ IF metrics[k].stale THEN metrics[k].as_of # 0 /\ measured[k].at = metrics[k].as_of
               ELSE metrics[k].as_of = 0 /\ measured[k].at = as_of
        BY <3>1 DEF Kept, Measurements
      <4> QED
        BY <3>1, <4>1 DEF Told
    <3>2. CASE k \notin DOMAIN metrics
      <4>1. measured[k] = [at |-> 0, value |-> 0]
        BY <3>2 DEF Kept, Measurements
      <4> QED
        BY <3>2, <4>1 DEF Told
    <3> QED
      BY <3>1, <3>2
  <2>2. freshness \in {"fresh", "cached"} /\ ~pending => as_of = reads
    BY DEF Kept
  <2>3. (\E k \in Metrics \cap DOMAIN Limits : measured[k].at # 0 /\ measured[k].value >= Limits[k]) => Exhausted
    BY <2>1 DEF Exhausted
  <2> QED
    BY <2>1, <2>2, <2>3 DEF LastKnownIsKept
<1> QED
  BY <1>1, <1>2, <1>3, PTL DEF MonitorSpec

----------------------------------------------------------------------------
(* Pods *)

\* Without an overlap one reading at most goes on, the last, and knows what the file has; each
\* knew what the ones before it knew.
Known ==
  /\ begun \in 0..MaxReadings
  /\ step \in [Readings -> {"none", "list", "more", "bill", "done", "failed"}]
  /\ DOMAIN ids = Readings /\ DOMAIN listed = Readings /\ DOMAIN costs = Readings
  /\ caller \in 0..begun /\ overlap \in BOOLEAN
  /\ \A r \in Readings : r > begun => step[r] = "none" /\ ids[r] = {} /\ listed[r] = {} /\ costs[r] = {}
  /\ ~overlap =>
       /\ \A r \in Readings : Runs(r) => r = begun /\ ids[r] = file
       /\ \A r \in Readings : listed[r] \subseteq ids[r] /\ costs[r] \subseteq ids[r] /\ ids[r] \subseteq file
       /\ \A q, r \in Readings : q < r /\ r <= begun => ids[q] \subseteq ids[r]
       /\ \A r \in Readings : costs[r] # {} => costs[r] = ids[r]
       /\ \A r \in Readings : Runs(r) => costs[r] = {}

LEMMA BeginKeepsKnown == Known /\ Begin => Known'
<1> SUFFICES ASSUME Known, Begin PROVE Known'
  OBVIOUS
<1> USE DEF Known, Readings, Runs
<1>1. PICK n : n = begun + 1
  OBVIOUS
<1>2. /\ n \in Readings /\ begun' = n /\ caller' = n /\ n = begun + 1 /\ begun \in Nat /\ MaxReadings \in Nat
      /\ step' = [step EXCEPT ![n] = "list"] /\ ids' = [ids EXCEPT ![n] = file]
      /\ (~overlap' => ~overlap /\ \A r \in Readings : ~Runs(r)) /\ overlap' \in BOOLEAN
      /\ UNCHANGED <<file, listed, costs>>
  <2>1. begun \in Nat /\ MaxReadings \in Nat /\ begun < MaxReadings
    BY InventoryAssumption DEF Begin
  <2>2. n \in Readings
    BY <1>1, <2>1
  <2> QED
    BY <1>1, <2>1, <2>2 DEF Begin, Loaded
<1>3. listed[n] = {} /\ costs[n] = {}
  BY <1>2
<1>4. /\ begun' \in 0..MaxReadings /\ caller' \in 0..begun'
      /\ step' \in [Readings -> {"none", "list", "more", "bill", "done", "failed"}]
      /\ DOMAIN ids' = Readings /\ DOMAIN listed' = Readings /\ DOMAIN costs' = Readings
  BY <1>2
<1>5. \A r \in Readings : r > n => step'[r] = "none" /\ ids'[r] = {} /\ listed'[r] = {} /\ costs'[r] = {}
  BY <1>2
<1>6. ASSUME ~overlap'
      PROVE  /\ \A r \in Readings : Runs(r)' => r = n /\ ids'[r] = file
             /\ \A r \in Readings : listed[r] \subseteq ids'[r] /\ costs[r] \subseteq ids'[r] /\ ids'[r] \subseteq file
             /\ \A q, r \in Readings : q < r /\ r <= n => ids'[q] \subseteq ids'[r]
             /\ \A r \in Readings : costs[r] # {} => costs[r] = ids'[r]
             /\ \A r \in Readings : Runs(r)' => costs[r] = {}
  <2>1. \A r \in Readings : r # n => step'[r] = step[r] /\ ids'[r] = ids[r] /\ ~Runs(r)
    BY <1>2, <1>6
  <2>2. step'[n] = "list" /\ ids'[n] = file
    BY <1>2
  <2>3. ASSUME NEW q \in Readings, NEW r \in Readings, q < r, r <= n PROVE ids'[q] \subseteq ids'[r]
    <3>1. CASE r = n
      BY <1>2, <1>6, <2>1, <2>2, <2>3, <3>1
    <3>2. CASE r # n
      BY <1>2, <1>6, <2>1, <2>3, <3>2
    <3> QED
      BY <3>1, <3>2
  <2> QED
    BY <1>2, <1>3, <1>6, <2>1, <2>2, <2>3
<1> QED
  BY <1>2, <1>4, <1>5, <1>6

LEMMA PagesKeepKnown ==
  ASSUME Known, NEW r \in Readings, Runs(r), NEW page, NEW then \in {"more", "bill"}, Page(r, page, then)
  PROVE  Known'
<1> USE DEF Known, Runs
<1>1. /\ listed' = [listed EXCEPT ![r] = @ \cup page] /\ ids' = [ids EXCEPT ![r] = @ \cup page]
      /\ file' = (IF page \subseteq ids[r] THEN file ELSE ids'[r]) /\ step' = [step EXCEPT ![r] = then]
      /\ UNCHANGED <<begun, caller, costs, overlap>>
  BY DEF Page
<1>2. r \in Nat /\ begun \in Nat /\ r <= begun
  BY InventoryAssumption DEF Readings
<1>3. \A p \in Readings : p # r => listed'[p] = listed[p] /\ ids'[p] = ids[p] /\ step'[p] = step[p]
  BY <1>1
<1>4. listed'[r] = listed[r] \cup page /\ ids'[r] = ids[r] \cup page /\ step'[r] = then
  BY <1>1
<1>5. ASSUME ~overlap
      PROVE  /\ file' = ids'[r] /\ file \subseteq file' /\ r = begun
             /\ \A p \in Readings : Runs(p)' => p = begun
             /\ \A p \in Readings : listed'[p] \subseteq ids'[p] /\ costs[p] \subseteq ids'[p] /\ ids'[p] \subseteq file'
             /\ \A p, q \in Readings : q < p /\ p <= begun => ids'[q] \subseteq ids'[p]
             /\ \A p \in Readings : costs[p] # {} => costs[p] = ids'[p]
             /\ \A p \in Readings : Runs(p)' => costs[p] = {}
  <2>1. file' = ids'[r] /\ file \subseteq file' /\ r = begun /\ costs[r] = {}
    BY <1>1, <1>4, <1>5
  <2>2. \A p \in Readings : p # r => ~Runs(p)
    BY <1>5, <2>1
  <2>3. ASSUME NEW p \in Readings, NEW q \in Readings, q < p, p <= begun PROVE ids'[q] \subseteq ids'[p]
    <3>1. q # r /\ ids[q] \subseteq ids[p] /\ ids[p] \subseteq ids'[p]
      BY <1>2, <1>3, <1>4, <1>5, <2>1, <2>3 DEF Readings
    <3> QED
      BY <1>3, <3>1
  <2> QED
    BY <1>3, <1>4, <1>5, <2>1, <2>2, <2>3
<1>6. \A p \in Readings : p > begun => p # r
  BY <1>2
<1>7. /\ step' \in [Readings -> {"none", "list", "more", "bill", "done", "failed"}]
      /\ DOMAIN ids' = Readings /\ DOMAIN listed' = Readings /\ DOMAIN costs' = Readings
  BY <1>1
<1>8. \A p \in Readings : p > begun => step'[p] = "none" /\ ids'[p] = {} /\ listed'[p] = {} /\ costs'[p] = {}
  BY <1>1, <1>3, <1>6
<1>9. ~overlap =>
        /\ \A p \in Readings : Runs(p)' => p = begun /\ ids'[p] = file'
        /\ \A p \in Readings : listed'[p] \subseteq ids'[p] /\ costs[p] \subseteq ids'[p] /\ ids'[p] \subseteq file'
        /\ \A q, p \in Readings : q < p /\ p <= begun => ids'[q] \subseteq ids'[p]
        /\ \A p \in Readings : costs[p] # {} => costs[p] = ids'[p]
        /\ \A p \in Readings : Runs(p)' => costs[p] = {}
  BY <1>5
<1> HIDE DEF Runs
<1> QED
  BY <1>1, <1>7, <1>8, <1>9

LEMMA EndsKeepKnown ==
  ASSUME Known, NEW r \in Readings, Bills(r) \/ Fails(r)
  PROVE  Known'
<1> USE DEF Known, Runs
<1>1. PICK then \in {"done", "failed"} : step' = [step EXCEPT ![r] = then]
  BY DEF Bills, Fails
<1>2. /\ Runs(r) /\ (\A p \in Readings : p # r => costs'[p] = costs[p]) /\ DOMAIN costs' = Readings /\ costs'[r] \in {costs[r], {}, ids[r]}
      /\ UNCHANGED <<file, begun, ids, listed, caller, overlap>>
  <2>1. CASE Bills(r)
    <3>1. (IF Complete(r) THEN ids[r] \cap billed ELSE {}) \in {{}, ids[r]}
      BY DEF Complete
    <3> QED
      BY <2>1, <3>1 DEF Bills
  <2>2. CASE Fails(r)
    BY <2>2 DEF Fails
  <2> QED
    BY <2>1, <2>2
<1>3. r \in Nat /\ begun \in Nat /\ r <= begun
  BY <1>2, InventoryAssumption DEF Readings
<1>4. \A p \in Readings : p # r => costs'[p] = costs[p] /\ step'[p] = step[p]
  BY <1>1, <1>2
<1>5. step'[r] = then /\ step' \in [Readings -> {"none", "list", "more", "bill", "done", "failed"}] /\ DOMAIN costs' = Readings
  BY <1>1, <1>2
<1>6. \A p \in Readings : p > begun => p # r
  BY <1>3
<1> QED
  BY <1>2, <1>4, <1>5, <1>6

\* external_resources.py: for any pods and readings, those that fail and those that are given up, a
\* pod that was found is in the file and in every later total, unless two readings overlap.
THEOREM FoundPodsAreCountedHolds == InventorySpec => []FoundPodsAreCounted
<1>1. InventoryInit => Known
  <2>1. 0 \in 0..MaxReadings
    BY InventoryAssumption
  <2>2. InventoryInit => \A r \in Readings : step[r] = "none" /\ ids[r] = {} /\ listed[r] = {} /\ costs[r] = {}
    BY DEF InventoryInit, Empty
  <2>3. InventoryInit => /\ step \in [Readings -> {"none", "list", "more", "bill", "done", "failed"}]
                         /\ DOMAIN ids = Readings /\ DOMAIN listed = Readings /\ DOMAIN costs = Readings
                         /\ file = {} /\ begun = 0 /\ caller = 0 /\ overlap = FALSE
    BY DEF InventoryInit, Empty
  <2> SUFFICES ASSUME InventoryInit PROVE Known
    OBVIOUS
  <2>4. begun \in 0..MaxReadings /\ caller \in 0..begun /\ overlap \in BOOLEAN
    <3>1. begun = 0 /\ caller = 0
      BY <2>3
    <3>2. 0 \in 0..0
      OBVIOUS
    <3>3. overlap \in BOOLEAN
      BY <2>3
    <3> QED
      BY <2>1, <3>1, <3>2, <3>3
  <2>5. \A r \in Readings : ~Runs(r) /\ ids[r] = {} /\ listed[r] = {} /\ costs[r] = {} /\ step[r] = "none"
    BY <2>2 DEF Runs
  <2>6. /\ \A r \in Readings : Runs(r) => r = begun /\ ids[r] = file
        /\ \A r \in Readings : listed[r] \subseteq ids[r] /\ costs[r] \subseteq ids[r] /\ ids[r] \subseteq file
        /\ \A q, r \in Readings : q < r /\ r <= begun => ids[q] \subseteq ids[r]
        /\ \A r \in Readings : costs[r] # {} => costs[r] = ids[r]
        /\ \A r \in Readings : Runs(r) => costs[r] = {}
    BY <2>5
  <2> QED
    BY <2>3, <2>4, <2>5, <2>6 DEF Known
<1>2. Known /\ [InventoryNext]_inventoryVars => Known'
  <2> SUFFICES ASSUME Known, [InventoryNext]_inventoryVars PROVE Known'
    OBVIOUS
  <2>1. ASSUME NEW p \in Pods, Create(p) \/ Bill(p) \/ Terminate(p) PROVE Known'
    BY <2>1 DEF Known, Create, Bill, Terminate, Runs
  <2>2. ASSUME NEW r \in Readings, FirstPage(r) \/ LastPage(r) PROVE Known'
    <3>1. CASE FirstPage(r)
      <4>1. PICK page \in SUBSET live : Page(r, page, "more")
        BY <3>1 DEF FirstPage
      <4>2. Runs(r)
        BY <3>1 DEF FirstPage, Runs
      <4> QED
        BY <4>1, <4>2, PagesKeepKnown
    <3>2. CASE LastPage(r)
      BY <3>2, PagesKeepKnown DEF LastPage, Runs
    <3> QED
      BY <2>2, <3>1, <3>2
  <2>3. CASE Returns \/ TimeOut
    <3>1. caller' = 0 /\ begun \in Nat /\ UNCHANGED <<file, begun, step, ids, listed, costs, overlap>>
      BY <2>3, InventoryAssumption DEF Returns, TimeOut, Known
    <3> QED
      BY <3>1 DEF Known, Runs
  <2>4. CASE UNCHANGED inventoryVars
    BY <2>4 DEF Known, inventoryVars, Runs
  <2> QED
    BY <2>1, <2>2, <2>3, <2>4, BeginKeepsKnown, EndsKeepKnown DEF InventoryNext
<1>3. Known => FoundPodsAreCounted
  <2> SUFFICES ASSUME Known, ~overlap PROVE FoundPodsAreCounted
    BY DEF FoundPodsAreCounted
  <2>1. \A r \in Readings : listed[r] \subseteq ids[r] /\ costs[r] \subseteq ids[r] /\ ids[r] \subseteq file
    BY DEF Known
  <2>2. ASSUME NEW q \in Readings, NEW r \in Readings, q < r, step[r] = "done", costs[r] # {}
        PROVE  listed[q] \cup costs[q] \subseteq costs[r]
    <3>1. begun \in Nat /\ r \in Nat
      BY InventoryAssumption DEF Known, Readings
    <3>2. r <= begun
      BY <2>2, <3>1 DEF Known
    <3>3. ids[q] \subseteq ids[r] /\ costs[r] = ids[r]
      BY <2>2, <3>2 DEF Known
    <3> QED
      BY <2>1, <3>3
  <2> QED
    BY <2>1, <2>2 DEF FoundPodsAreCounted
<1> QED
  BY <1>1, <1>2, <1>3, PTL DEF InventorySpec

----------------------------------------------------------------------------
(* Conversations and what model calls are shown of them *)

ItemKinds == {"task", "steering", "assistant", "call", "output"}
Items == [kind : ItemKinds, call : Nat, version : Nat]

ContextTypes ==
  /\ strategy \in {"persistent", "trim_recent", "compaction"}
  /\ history \in Seq(Items) /\ running \in BOOLEAN
  /\ stage \in {"none", "select", "summarize", "sent"} /\ (stage # "none" => running)
  /\ pinned \subseteq DOMAIN history /\ \A i \in pinned : IsUser(history[i])

\* Positions of a call and of its output.
Pair(i, j) == i < j /\ history[i].call = history[j].call /\ history[i].call # 0

\* Two items of one call are the call and its output, and no user speaks in between.
CallsAreWhole ==
  /\ \A i \in DOMAIN history : history[i].call <= Len(history)
  /\ \A i, j \in DOMAIN history : Pair(i, j) =>
       /\ history[i].kind = "call" /\ history[j].kind = "output"
       /\ \A k \in i..j : ~IsUser(history[k])

\* The summary in the checkpoint tells the items it was made of, in which no call waits.
CheckpointIsTrue ==
  /\ checkpoint.digest \in Seq(Items) /\ checkpoint.covered = Len(checkpoint.digest)
  /\ checkpoint.summary.told = checkpoint.digest
  /\ \A i \in DOMAIN checkpoint.digest : checkpoint.digest[i].kind = "call" =>
       \E k \in DOMAIN checkpoint.digest :
         checkpoint.digest[k].kind = "output" /\ checkpoint.digest[k].call = checkpoint.digest[i].call

\* So does the summary that is being extended, and there is a cut to extend it to.
SummaryIsTrue ==
  stage = "summarize" =>
    /\ strategy = "compaction" /\ covered \in 0..Len(history) /\ prefix.told = SubSeq(history, 1, covered)
    /\ Cuts(covered, prefix, extra) # {}

ContextInv == ContextTypes /\ CallsAreWhole /\ CheckpointIsTrue /\ SummaryIsTrue /\ RequestsTellEverything

LEMMA ItemsAreTyped ==
  ASSUME ContextTypes
  PROVE  /\ Len(history) \in Nat /\ DOMAIN history = 1..Len(history)
         /\ \A i \in DOMAIN history :
              history[i] \in Items /\ history[i].kind \in ItemKinds /\ history[i].call \in Nat /\ history[i].version \in Nat
<1>1. history \in Seq(Items)
  BY DEF ContextTypes
<1>2. \A i \in 1..Len(history) : history[i] \in Items
  BY <1>1, ElementOfSeq
<1>3. \A i \in DOMAIN history : history[i] \in Items
  BY <1>1, <1>2
<1> QED
  BY <1>1, <1>3 DEF Items

LEMMA ContextInvStarts == ContextInit => ContextInv
<1> SUFFICES ASSUME ContextInit PROVE ContextInv
  OBVIOUS
<1>1. history = <<>> /\ DOMAIN history = {} /\ Len(history) = 0 /\ history \in Seq(Items)
  BY DEF ContextInit
<1>2. CheckpointIsTrue
  BY DEF ContextInit, CheckpointIsTrue, NoFile, NoSummary
<1> QED
  BY <1>1, <1>2 DEF ContextInit, ContextInv, ContextTypes, CallsAreWhole, SummaryIsTrue, RequestsTellEverything

\* A set of numbers that is not empty has a least one, and one that is bounded a greatest.
LEMMA LeastNumber == ASSUME NEW S, S \subseteq Nat, S # {} PROVE Min(S) \in S /\ \A y \in S : Min(S) <= y
<1>1. \E a \in S : \A y \in S : a <= y
  <2>1. PICK a \in S : \A y \in S : ~(<<y, a>> \in OpToRel(<, Nat))
    BY NatLessThanWellFounded, WFMin
  <2>2. ASSUME NEW y \in S PROVE a <= y
    <3>1. y < a => <<y, a>> \in OpToRel(<, Nat)
      BY DEF OpToRel
    <3>2. ~(y < a)
      BY <2>1, <3>1
    <3> QED
      BY <3>2
  <2> QED
    BY <2>2
<1> QED
  BY <1>1 DEF Min

LEMMA GreatestNumber == ASSUME NEW n \in Nat, NEW S, S \subseteq 0..n, S # {} PROVE Max(S) \in S
<1> DEFINE T == {n - x : x \in S}
<1>1. T \subseteq Nat /\ T # {}
  <2>1. \A x \in S : n - x \in Nat
    OBVIOUS
  <2> QED
    BY <2>1
<1> HIDE DEF T
<1>2. Min(T) \in T /\ \A y \in T : Min(T) <= y
  BY <1>1, LeastNumber
<1>3. PICK a \in S : Min(T) = n - a
  BY <1>2 DEF T
<1>4. \A y \in S : y <= a
  <2> SUFFICES ASSUME NEW y \in S PROVE y <= a
    OBVIOUS
  <2>1. n - y \in T
    BY DEF T
  <2> QED
    BY <1>2, <1>3, <2>1
<1> QED
  BY <1>4 DEF Max

\* Cuts are boundaries beyond what is done.
LEMMA CutsAreAhead ==
  ASSUME NEW done, NEW summary, NEW room
  PROVE  Cuts(done, summary, room) \subseteq {i \in Boundaries : i > done /\ Fits(summary, i, room)}
BY DEF Cuts

\* Up to here no call waits for its output.
Closed(from) == \A i, j \in DOMAIN history : Pair(i, j) /\ i <= from => j <= from

LEMMA BoundariesAreClosed ==
  ASSUME ContextTypes, CallsAreWhole, NEW cut \in Boundaries
  PROVE  cut \in 1..Len(history) /\ Closed(cut)
<1>1. cut \in 1..Len(history) /\ Calls("call", cut) \subseteq Calls("output", cut)
  BY DEF Boundaries, ContextTypes
<1>2. ASSUME NEW i \in DOMAIN history, NEW j \in DOMAIN history, Pair(i, j), i <= cut PROVE j <= cut
  <2>1. i \in 1..cut /\ history[i].kind = "call" /\ history[j].kind = "output"
    BY <1>1, <1>2 DEF CallsAreWhole, ContextTypes
  <2>2. history[i].call \in Calls("call", cut)
    BY <2>1 DEF Calls
  <2>3. PICK k \in 1..cut : history[k].kind = "output" /\ history[k].call = history[i].call
    BY <1>1, <2>2 DEF Calls
  <2>4. k \in DOMAIN history /\ k # i
    BY <1>1, <2>1, <2>3 DEF ContextTypes
  <2>5. ~(k < j)
    <3> SUFFICES ASSUME k < j PROVE FALSE
      OBVIOUS
    <3>1. Pair(k, j)
      BY <1>2, <2>3 DEF Pair
    <3> QED
      BY <2>3, <2>4, <3>1 DEF CallsAreWhole
  <2>6. ~(j < k)
    <3> SUFFICES ASSUME j < k PROVE FALSE
      OBVIOUS
    <3>1. Pair(j, k)
      BY <1>2, <2>3 DEF Pair
    <3> QED
      BY <2>1, <2>4, <3>1 DEF CallsAreWhole
  <2> QED
    BY <1>1, <2>3, <2>5, <2>6 DEF ContextTypes
<1> QED
  BY <1>1, <1>2 DEF Closed

\* A request of the conversation from a closed place on tells everything if the summary
\* tells what comes before.
LEMMA SendTells ==
  ASSUME ContextTypes, CallsAreWhole, NEW summary, NEW from \in 0..Len(history), NEW room, Send(summary, from, room),
         UNCHANGED <<strategy, history, pinned>>, Closed(from),
         strategy # "trim_recent" => summary.told = SubSeq(history, 1, from)
  PROVE  RequestsTellEverything'
<1>1. /\ request'.summary = summary /\ request'.from = from /\ request'.pins = Pins(from)
      /\ Prompts' = Prompts
  BY DEF Send, Prompts
<1>2. Shown' = {i \in DOMAIN history : i > from} \cup Pins(from)
  BY <1>1 DEF Shown
<1>3. pinned \cup Prompts \subseteq Shown'
  BY <1>2 DEF Pins, ContextTypes, Prompts
<1>4. \A i \in Pins(from) : i \in DOMAIN history /\ IsUser(history[i])
  BY DEF Pins, ContextTypes, Prompts, IsUser
<1>5. ASSUME NEW i \in DOMAIN history, NEW j \in DOMAIN history, Pair(i, j) PROVE i \in Shown' <=> j \in Shown'
  <2>1. i \notin Pins(from) /\ j \notin Pins(from)
    BY <1>4, <1>5 DEF CallsAreWhole, IsUser
  <2>2. i > from <=> j > from
    BY <1>5 DEF Closed, Pair, ContextTypes
  <2> QED
    BY <1>2, <2>1, <2>2
<1>6. ASSUME NEW i \in DOMAIN history, NEW j \in DOMAIN history, history[i].call = history[j].call, history[i].call # 0
      PROVE  i \in Shown' <=> j \in Shown'
  <2>1. CASE i < j
    BY <1>5, <1>6, <2>1 DEF Pair
  <2>2. CASE j < i
    BY <1>5, <1>6, <2>2 DEF Pair
  <2>3. CASE i = j
    BY <2>3
  <2> QED
    BY <2>1, <2>2, <2>3 DEF ContextTypes
<1> QED
  BY <1>1, <1>3, <1>6 DEF RequestsTellEverything

LEMMA FirstKeptIsClosed ==
  ASSUME ContextTypes, CallsAreWhole, ContextAssumption
  PROVE  FirstKept \in 0..Len(history) /\ Closed(FirstKept)
<1> DEFINE n == Len(history)
           recent == UserIn(n - MaxTrim + 1 .. n)
           before == UserIn(1 .. n - MaxTrim)
<1>1. n \in Nat /\ DOMAIN history = 1..n /\ MaxTrim \in Nat
  BY DEF ContextTypes, ContextAssumption
<1>2. FirstKept = 0 \/ \E u \in 1..n : FirstKept = u - 1 /\ IsUser(history[u])
  <2>1. CASE n <= MaxTrim
    BY <2>1 DEF FirstKept
  <2>2. CASE n > MaxTrim /\ recent # {}
    <3>1. recent \subseteq Nat /\ recent \subseteq 1..n
      BY <1>1, <2>2 DEF UserIn
    <3>2. Min(recent) \in recent
      BY <2>2, <3>1, LeastNumber
    <3>3. FirstKept = Min(recent) - 1
      BY <1>1, <2>2 DEF FirstKept
    <3> QED
      BY <3>1, <3>2, <3>3 DEF UserIn
  <2>3. CASE n > MaxTrim /\ recent = {} /\ before # {}
    <3>1. before \subseteq 0..n /\ before \subseteq 1..n
      BY <1>1, <2>3 DEF UserIn
    <3>2. Max(before) \in before
      BY <1>1, <2>3, <3>1, GreatestNumber
    <3>3. FirstKept = Max(before) - 1
      BY <1>1, <2>3 DEF FirstKept
    <3> QED
      BY <3>1, <3>2, <3>3 DEF UserIn
  <2>4. CASE n > MaxTrim /\ recent = {} /\ before = {}
    BY <1>1, <2>4 DEF FirstKept
  <2> QED
    BY <1>1, <2>1, <2>2, <2>3, <2>4
<1>3. CASE FirstKept = 0
  BY <1>1, <1>3 DEF Closed
<1>4. ASSUME NEW u \in 1..n, FirstKept = u - 1, IsUser(history[u]) PROVE FirstKept \in 0..n /\ Closed(FirstKept)
  <2>1. ASSUME NEW i \in DOMAIN history, NEW j \in DOMAIN history, Pair(i, j), i <= u - 1, ~(j <= u - 1) PROVE FALSE
    <3>1. u \in i..j
      BY <1>1, <2>1
    <3> QED
      BY <1>4, <2>1, <3>1 DEF CallsAreWhole
  <2> QED
    BY <1>1, <1>4, <2>1 DEF Closed
<1> QED
  BY <1>2, <1>3, <1>4

\* What holds of the summary that a call starts with, and of the place it goes up to.
SoFar(summary, done) == done \in 0..Len(history) /\ summary.told = SubSeq(history, 1, done) /\ Closed(done)

LEMMA MatchesTell ==
  ASSUME ContextTypes, CallsAreWhole, CheckpointIsTrue
  PROVE  SoFar(IF Matches THEN checkpoint.summary ELSE NoSummary, IF Matches THEN checkpoint.covered ELSE 0)
<1>1. Len(history) \in Nat /\ DOMAIN history = 1..Len(history)
  BY DEF ContextTypes
<1>2. CASE Matches
  <2> DEFINE c == checkpoint.covered
  <2>1. /\ c \in 0..Len(history) /\ checkpoint.digest = SubSeq(history, 1, c) /\ checkpoint.summary.told = SubSeq(history, 1, c)
        /\ DOMAIN checkpoint.digest = 1..c
    BY <1>1, <1>2 DEF Matches, CheckpointIsTrue
  <2>2. \A i \in 1..c : checkpoint.digest[i] = history[i]
    BY <1>1, <2>1
  <2>3. ASSUME NEW i \in DOMAIN history, NEW j \in DOMAIN history, Pair(i, j), i <= c PROVE j <= c
    <3>1. i \in 1..c /\ history[i].kind = "call" /\ history[j].kind = "output"
      BY <1>1, <2>1, <2>3 DEF CallsAreWhole
    <3>2. PICK k \in 1..c : history[k].kind = "output" /\ history[k].call = history[i].call
      BY <2>1, <2>2, <3>1 DEF CheckpointIsTrue
    <3>3. k \in DOMAIN history /\ k # i
      BY <1>1, <2>1, <3>1, <3>2
    <3>4. ~(k < j)
      BY <2>3, <3>2, <3>3 DEF Pair, CallsAreWhole
    <3>5. ~(j < k)
      BY <2>3, <3>1, <3>2, <3>3 DEF Pair, CallsAreWhole
    <3> QED
      BY <1>1, <2>1, <3>2, <3>4, <3>5
  <2> QED
    BY <1>2, <2>1, <2>3 DEF SoFar, Closed
<1>3. CASE ~Matches
  <2>1. SubSeq(history, 1, 0) = <<>>
    BY SubSeqEmpty
  <2> QED
    BY <1>1, <1>3, <2>1 DEF SoFar, NoSummary, Closed
<1> QED
  BY <1>2, <1>3

\* What is sent or shortened further is true if the summary is.
LEMMA SendOrShortenKeeps ==
  ASSUME ContextInv, NEW summary, NEW done, NEW room, SoFar(summary, done), SendOrShorten(done, summary, room),
         UNCHANGED <<strategy, history>>, strategy = "compaction", stage # "sent", running, CheckpointIsTrue'
  PROVE  ContextInv'
<1> USE DEF ContextInv
<1>1. CASE Fits(summary, done, room)
  <2>1. Send(summary, done, room) /\ UNCHANGED <<running, pinned>> /\ stage' = "sent"
    BY <1>1 DEF SendOrShorten, Send
  <2>2. RequestsTellEverything'
    BY <2>1, SendTells DEF SoFar
  <2>3. ContextTypes' /\ CallsAreWhole' /\ SummaryIsTrue'
    BY <2>1 DEF ContextTypes, CallsAreWhole, SummaryIsTrue, IsUser, Pair
  <2> QED
    BY <2>2, <2>3
<1>2. CASE ~Fits(summary, done, room) /\ Cuts(done, summary, room) # {}
  <2>1. /\ covered' = done /\ prefix' = summary /\ extra' = room /\ stage' = "summarize" /\ UNCHANGED <<running, pinned, request>>
    BY <1>2 DEF SendOrShorten, Shorten
  <2>3. (Cuts(covered, prefix, extra))' # {}
    <3> DEFINE C == Cuts(covered, prefix, extra)
    <3>1. C' = Cuts(done, summary, room)
      BY <2>1 DEF Cuts, Boundaries, Fits, Size, Pins, Prompts, Calls, IsUser
    <3> QED
      BY <1>2, <3>1
  <2>4. ContextTypes' /\ CallsAreWhole' /\ SummaryIsTrue' /\ RequestsTellEverything'
    BY <2>1, <2>3 DEF ContextTypes, CallsAreWhole, SummaryIsTrue, IsUser, Pair, SoFar, RequestsTellEverything
  <2> QED
    BY <2>4
<1>3. CASE ~Fits(summary, done, room) /\ Cuts(done, summary, room) = {}
  <2>1. stage' = "none" /\ running' = FALSE /\ pinned' = {}
    BY <1>3 DEF SendOrShorten, Shorten
  <2> QED
    BY <2>1 DEF ContextTypes, CallsAreWhole, SummaryIsTrue, IsUser, Pair, RequestsTellEverything
<1> QED
  BY <1>1, <1>2, <1>3

LEMMA SummarizedKeeps == ASSUME ContextInv, NEW size, NEW room, Summarized(size, room) PROVE ContextInv'
<1> USE DEF ContextInv
<1> DEFINE cut == Min(Cuts(covered, prefix, extra))
           summary == Summary(cut, size)
<1>1. /\ stage = "summarize" /\ Save(cut, summary, Fits(summary, cut, room)) /\ SendOrShorten(cut, summary, room)
      /\ UNCHANGED <<strategy, history, changes>>
  BY DEF Summarized
<1>2. Cuts(covered, prefix, extra) \subseteq Nat /\ Cuts(covered, prefix, extra) # {}
  BY <1>1, CutsAreAhead DEF SummaryIsTrue, Boundaries, ContextTypes
<1>3. cut \in Cuts(covered, prefix, extra)
  BY <1>2, LeastNumber
<1> HIDE DEF cut
<1>4. cut \in Boundaries /\ cut > covered
  BY <1>3, CutsAreAhead
<1>5. cut \in 1..Len(history) /\ Closed(cut) /\ Calls("call", cut) \subseteq Calls("output", cut)
  BY <1>4, BoundariesAreClosed DEF Boundaries
<1>6. history \in Seq(Items) /\ Len(history) \in Nat /\ covered \in 0..Len(history) /\ prefix.told = SubSeq(history, 1, covered)
  BY <1>1 DEF ContextTypes, SummaryIsTrue
<1>7. SubSeq(history, 1, covered) \o SubSeq(history, covered + 1, cut) = SubSeq(history, 1, cut)
  BY <1>4, <1>5, <1>6, ConcatAdjacentSubSeq
<1>8. SoFar(summary, cut) /\ summary.told = SubSeq(history, 1, cut)
  BY <1>5, <1>6, <1>7 DEF Summary, SoFar
<1> HIDE DEF summary
<1> DEFINE digest == SubSeq(history, 1, cut)
<1>9. digest \in Seq(Items) /\ Len(digest) = cut /\ DOMAIN digest = 1..cut /\ \A i \in 1..cut : digest[i] = history[i]
  BY <1>5, <1>6
<1>10. \A i \in 1..cut : digest[i].kind = "call" => \E k \in 1..cut : digest[k].kind = "output" /\ digest[k].call = digest[i].call
  <2> SUFFICES ASSUME NEW i \in 1..cut, history[i].kind = "call"
               PROVE  \E k \in 1..cut : history[k].kind = "output" /\ history[k].call = history[i].call
    BY <1>9
  <2>1. history[i].call \in Calls("call", cut)
    BY DEF Calls
  <2> QED
    BY <1>5, <2>1 DEF Calls
<1> HIDE DEF digest
<1>11. CheckpointIsTrue'
  <2>1. CASE Fits(summary, cut, room)
    <3>1. checkpoint' = [covered |-> cut, digest |-> digest, summary |-> summary]
      BY <1>1, <2>1 DEF Save, digest
    <3>2. checkpoint'.digest = digest /\ checkpoint'.covered = cut /\ checkpoint'.summary.told = digest
      BY <1>8, <3>1 DEF digest
    <3> QED
      BY <1>9, <1>10, <3>2 DEF CheckpointIsTrue
  <2>2. CASE ~Fits(summary, cut, room)
    BY <1>1, <2>2 DEF Save, CheckpointIsTrue
  <2> QED
    BY <2>1, <2>2
<1> QED
  BY <1>1, <1>8, <1>11, SendOrShortenKeeps DEF SummaryIsTrue, ContextTypes

LEMMA SelectKeeps == ASSUME ContextInv, ContextAssumption, Select PROVE ContextInv'
<1> USE DEF ContextInv
<1> DEFINE from == IF strategy = "trim_recent" THEN FirstKept ELSE 0
<1>1. /\ Send(NoSummary, from, 0) /\ UNCHANGED <<strategy, history, running, pinned, checkpoint, changes>>
      /\ stage = "select" /\ strategy # "compaction"
  BY DEF Select
<1>2. from \in 0..Len(history) /\ Closed(from)
  BY FirstKeptIsClosed DEF Closed, ContextTypes
<1>3. SubSeq(history, 1, 0) = <<>>
  BY SubSeqEmpty
<1>4. strategy # "trim_recent" => NoSummary.told = SubSeq(history, 1, from)
  BY <1>3 DEF NoSummary
<1> HIDE DEF from
<1>5. RequestsTellEverything'
  BY <1>1, <1>2, <1>4, SendTells
<1>6. stage' = "sent"
  BY <1>1 DEF Send
<1> QED
  BY <1>1, <1>5, <1>6 DEF ContextTypes, CallsAreWhole, IsUser, Pair, CheckpointIsTrue, SummaryIsTrue

\* Adding to a conversation what keeps its calls whole.
LEMMA AddingKeeps ==
  ASSUME ContextInv, NEW added \in Seq(Items), history' = history \o added, stage' \in {"none", "select"},
         UNCHANGED <<strategy, checkpoint>>, running' \in BOOLEAN, stage' # "none" => running',
         pinned' \subseteq DOMAIN history', \A i \in pinned' : IsUser(history'[i]),
         \A i \in DOMAIN added : added[i].call = 0 \/ (Len(history) < added[i].call /\ added[i].call <= Len(history) + Len(added)),
         \A i, j \in DOMAIN added : i < j /\ added[i].call = added[j].call /\ added[i].call # 0 =>
           added[i].kind = "call" /\ added[j].kind = "output" /\ \A k \in i..j : ~IsUser(added[k])
  PROVE  ContextInv'
<1> USE DEF ContextInv
<1> DEFINE n == Len(history)
<1>1. n \in Nat /\ Len(added) \in Nat /\ DOMAIN history = 1..n /\ DOMAIN added = 1..Len(added)
  BY DEF ContextTypes
<1>2. /\ history' \in Seq(Items) /\ Len(history') = n + Len(added) /\ DOMAIN history' = 1..(n + Len(added))
      /\ \A i \in 1..n : history'[i] = history[i]
      /\ \A i \in n + 1 .. n + Len(added) : history'[i] = added[i - n]
  BY <1>1 DEF ContextTypes
<1>3. \A i \in 1..n + Len(added) : history'[i].call <= n + Len(added)
  <2> SUFFICES ASSUME NEW i \in 1..n + Len(added) PROVE history'[i].call <= n + Len(added)
    OBVIOUS
  <2>1. CASE i <= n
    <3>1. history[i].call <= n /\ history[i].call \in Nat
      BY <1>1, <2>1, ItemsAreTyped DEF CallsAreWhole
    <3> QED
      BY <1>1, <1>2, <2>1, <3>1
  <2>2. CASE i > n
    <3>1. i - n \in DOMAIN added /\ history'[i] = added[i - n]
      BY <1>1, <1>2, <2>2
    <3> QED
      BY <1>1, <3>1
  <2> QED
    BY <1>1, <2>1, <2>2
<1>4. ASSUME NEW i \in 1..n + Len(added), NEW j \in 1..n + Len(added),
             i < j, history'[i].call = history'[j].call, history'[i].call # 0
      PROVE  history'[i].kind = "call" /\ history'[j].kind = "output" /\ \A k \in i..j : ~IsUser(history'[k])
  <2>1. i < j /\ history'[i].call = history'[j].call /\ history'[i].call # 0
    BY <1>4
  <2>2. CASE j <= n
    <3>1. i \in 1..n /\ j \in 1..n /\ i..j \subseteq 1..n
      BY <1>1, <2>1, <2>2
    <3>2. Pair(i, j)
      BY <1>2, <2>1, <3>1 DEF Pair
    <3>3. history[i].kind = "call" /\ history[j].kind = "output" /\ \A k \in i..j : ~IsUser(history[k])
      BY <1>1, <3>1, <3>2 DEF CallsAreWhole
    <3>4. \A k \in 1..n : history'[k] = history[k]
      BY <1>2
    <3> QED
      BY <3>1, <3>3, <3>4
  <2>3. CASE i <= n /\ j > n
    <3>1. history[i].call <= n /\ history[i].call \in Nat
      BY <1>1, <2>3, ItemsAreTyped DEF CallsAreWhole
    <3>2. j - n \in DOMAIN added /\ history'[j] = added[j - n]
      BY <1>1, <1>2, <2>3
    <3>3. history'[i] = history[i]
      BY <1>1, <1>2, <2>3
    <3>4. added[j - n] \in Items
      BY <3>2
    <3>5. n < added[j - n].call
      BY <2>1, <3>1, <3>2, <3>3, <3>4 DEF Items
    <3> QED
      BY <1>1, <2>1, <3>1, <3>2, <3>3, <3>5
  <2>4. CASE i > n
    <3>1. /\ i - n \in DOMAIN added /\ j - n \in DOMAIN added /\ i - n < j - n
          /\ history'[i] = added[i - n] /\ history'[j] = added[j - n]
          /\ \A k \in i..j : k - n \in (i - n)..(j - n) /\ history'[k] = added[k - n]
      BY <1>1, <1>2, <2>1, <2>4
    <3>2. added[i - n].kind = "call" /\ added[j - n].kind = "output" /\ \A k \in (i - n)..(j - n) : ~IsUser(added[k])
      BY <2>1, <3>1
    <3> QED
      BY <3>1, <3>2
  <2> QED
    BY <1>1, <2>2, <2>3, <2>4
<1>5. CallsAreWhole'
  <2>1. \A i \in DOMAIN history' : history'[i].call <= Len(history')
    BY <1>2, <1>3
  <2>2. \A i, j \in DOMAIN history' : i < j /\ history'[i].call = history'[j].call /\ history'[i].call # 0 =>
          history'[i].kind = "call" /\ history'[j].kind = "output" /\ \A k \in i..j : ~IsUser(history'[k])
    BY <1>2, <1>4
  <2> QED
    BY <2>1, <2>2 DEF CallsAreWhole, IsUser, Pair
<1>6. ContextTypes'
  BY <1>2 DEF ContextTypes, IsUser
<1> QED
  BY <1>5, <1>6 DEF CheckpointIsTrue, SummaryIsTrue, RequestsTellEverything

LEMMA TalkKeeps == ASSUME ContextInv, Task \/ Steer \/ Reply PROVE ContextInv'
<1> USE DEF ContextInv
<1> DEFINE n == Len(history)
<1>0. n \in Nat /\ DOMAIN history = 1..n
  BY DEF ContextTypes
<1>1. PICK kind \in {"task", "steering", "assistant"} :
        /\ history' = Append(history, Item(kind, 0)) /\ stage' \in {"none", "select"} /\ UNCHANGED <<strategy, checkpoint>>
        /\ running' \in BOOLEAN /\ (stage' # "none" => running')
        /\ pinned' = {} \/ (pinned' = pinned \cup {n + 1} /\ kind = "steering")
  BY DEF Task, Steer, Reply, ContextTypes
<1> DEFINE added == <<Item(kind, 0)>>
<1>2. added \in Seq(Items) /\ Len(added) = 1 /\ DOMAIN added = 1..1 /\ added[1] = Item(kind, 0)
  BY DEF Item, Items, ItemKinds
<1>3. history' = history \o added
  BY <1>1, <1>2, AppendIsConcat DEF ContextTypes
<1>4. DOMAIN history' = 1..(n + 1) /\ history'[n + 1] = Item(kind, 0) /\ \A i \in 1..n : history'[i] = history[i]
  BY <1>0, <1>2, <1>3 DEF ContextTypes
<1>5. pinned' \subseteq DOMAIN history' /\ \A i \in pinned' : IsUser(history'[i])
  BY <1>0, <1>1, <1>4 DEF ContextTypes, IsUser, Item
<1>6. \A i \in DOMAIN added : added[i].call = 0
  BY <1>2 DEF Item
<1> HIDE DEF added
<1> QED
  BY <1>1, <1>2, <1>3, <1>5, <1>6, AddingKeeps

LEMMA CallToolsKeeps == ASSUME ContextInv, CallTools PROVE ContextInv'
<1> USE DEF ContextInv
<1> DEFINE n == Len(history)
<1>0. n \in Nat /\ DOMAIN history = 1..n
  BY DEF ContextTypes
<1>1. PICK batch \in Batches : history' = history \o batch
  BY DEF CallTools
<1>2. /\ batch \in Seq(Items) /\ Len(batch) \in 2..4 /\ DOMAIN batch = 1..Len(batch)
      /\ \A i \in DOMAIN batch : batch[i].call = 0 \/ (n < batch[i].call /\ batch[i].call <= n + Len(batch))
      /\ \A i, j \in DOMAIN batch : i < j /\ batch[i].call = batch[j].call /\ batch[i].call # 0 =>
           batch[i].kind = "call" /\ batch[j].kind = "output" /\ \A k \in i..j : ~IsUser(batch[k])
  <2>0. \A kind \in ItemKinds, c \in Nat : Item(kind, c) \in Items /\ Item(kind, c).kind = kind /\ Item(kind, c).call = c
    BY DEF Item, Items
  <2>a. /\ Call(1) \in Items /\ Call(1).kind = "call" /\ Call(1).call = n + 1
        /\ Call(2) \in Items /\ Call(2).kind = "call" /\ Call(2).call = n + 2
        /\ Output(1) \in Items /\ Output(1).kind = "output" /\ Output(1).call = n + 1
        /\ Output(2) \in Items /\ Output(2).kind = "output" /\ Output(2).call = n + 2
        /\ Item("assistant", 0) \in Items /\ Item("assistant", 0).kind = "assistant" /\ Item("assistant", 0).call = 0
    BY <1>0, <2>0 DEF Call, Output, ItemKinds
  <2>1. CASE batch = <<Call(1), Output(1)>>
    BY <1>0, <2>a, <2>1 DEF IsUser
  <2>2. CASE batch = <<Item("assistant", 0), Call(1), Output(1)>>
    <3>1. /\ Len(batch) = 3 /\ batch \in Seq(Items) /\ DOMAIN batch = 1..3
          /\ batch[1] = Item("assistant", 0) /\ batch[2] = Call(1) /\ batch[3] = Output(1)
      BY <2>a, <2>2
    <3>2. \A i \in 1..3 : batch[i].call = 0 \/ (n < batch[i].call /\ batch[i].call <= n + 3)
      BY <1>0, <2>a, <3>1
    <3>3. \A k \in 1..3 : ~IsUser(batch[k])
      BY <2>a, <3>1 DEF IsUser
    <3>4. \A i, j \in 1..3 : i < j /\ batch[i].call = batch[j].call /\ batch[i].call # 0 => i = 2 /\ j = 3
      BY <1>0, <2>a, <3>1
    <3> QED
      BY <2>a, <3>1, <3>2, <3>3, <3>4
  <2>3. CASE batch = <<Call(1), Call(2), Output(2), Output(1)>>
    <3>1. /\ Len(batch) = 4 /\ batch \in Seq(Items) /\ DOMAIN batch = 1..4
          /\ batch[1] = Call(1) /\ batch[2] = Call(2) /\ batch[3] = Output(2) /\ batch[4] = Output(1)
      BY <2>a, <2>3
    <3>2. \A i \in 1..4 : batch[i].call = 0 \/ (n < batch[i].call /\ batch[i].call <= n + 4)
      BY <1>0, <2>a, <3>1
    <3>3. \A k \in 1..4 : ~IsUser(batch[k])
      BY <2>a, <3>1 DEF IsUser
    <3>4. \A i, j \in 1..4 : i < j /\ batch[i].call = batch[j].call /\ batch[i].call # 0 => (i = 1 /\ j = 4) \/ (i = 2 /\ j = 3)
      BY <1>0, <2>a, <3>1
    <3> QED
      BY <2>a, <3>1, <3>2, <3>3, <3>4
  <2> QED
    BY <2>1, <2>2, <2>3 DEF Batches
<1>3. /\ stage = "sent" /\ stage' = "select" /\ UNCHANGED <<strategy, running, pinned, checkpoint>>
  BY DEF CallTools
<1>4. DOMAIN history' = 1..(n + Len(batch)) /\ \A i \in 1..n : history'[i] = history[i]
  BY <1>0, <1>1, <1>2 DEF ContextTypes
<1>5. pinned' \subseteq DOMAIN history' /\ \A i \in pinned' : IsUser(history'[i])
  BY <1>0, <1>2, <1>3, <1>4 DEF ContextTypes, IsUser
<1>6. running' \in BOOLEAN /\ running'
  BY <1>3 DEF ContextTypes
<1> QED
  BY <1>1, <1>2, <1>3, <1>5, <1>6, AddingKeeps

LEMMA ChangeKeeps == ASSUME ContextInv, Change PROVE ContextInv'
<1> USE DEF ContextInv
<1>1. PICK i \in DOMAIN history : history' = [history EXCEPT ![i].version = @ + 1]
  BY DEF Change
<1>2. /\ ~running /\ UNCHANGED <<strategy, running, pinned, stage, selecting, checkpoint, request>>
  BY DEF Change
<1>3. history[i] \in Items /\ [history[i] EXCEPT !.version = @ + 1] \in Items
  BY ItemsAreTyped DEF Items
<1>4. /\ history' \in Seq(Items) /\ Len(history') = Len(history) /\ DOMAIN history' = DOMAIN history
      /\ \A j \in DOMAIN history : history'[j].kind = history[j].kind /\ history'[j].call = history[j].call
  <2>1. history' = [history EXCEPT ![i] = [history[i] EXCEPT !.version = @ + 1]]
    BY <1>1
  <2>2. i \in 1..Len(history) /\ DOMAIN history = 1..Len(history)
    BY DEF ContextTypes
  <2>3. history' \in Seq(Items) /\ Len(history') = Len(history)
        /\ \A j \in 1..Len(history) : history'[j] = IF j = i THEN [history[i] EXCEPT !.version = @ + 1] ELSE history[j]
    BY <1>3, <2>1, <2>2, ExceptSeq DEF ContextTypes
  <2>4. DOMAIN history' = DOMAIN history
    BY <1>1
  <2> QED
    BY <1>3, <2>2, <2>3, <2>4 DEF Items
<1>5. ContextTypes'
  BY <1>2, <1>4 DEF ContextTypes, IsUser
<1>6. CallsAreWhole'
  <2>1. Len(history) \in Nat /\ DOMAIN history = 1..Len(history)
    BY DEF ContextTypes
  <2>2. \A j, k \in DOMAIN history : k \in DOMAIN history /\ j \in DOMAIN history => j..k \subseteq DOMAIN history
    BY <2>1
  <2> QED
    BY <1>4, <2>1, <2>2 DEF CallsAreWhole, IsUser, Pair
<1> QED
  BY <1>2, <1>5, <1>6 DEF ContextTypes, CheckpointIsTrue, SummaryIsTrue, RequestsTellEverything

LEMMA ContextInvHolds == ASSUME ContextInv, ContextAssumption, [ContextNext]_contextVars PROVE ContextInv'
<1>1. CASE Task \/ Steer \/ Reply
  BY <1>1, TalkKeeps
<1>2. CASE CallTools
  BY <1>2, CallToolsKeeps
<1>3. CASE StopRun
  BY <1>3 DEF StopRun, Over, ContextInv, ContextTypes, CallsAreWhole, IsUser, Pair, CheckpointIsTrue, SummaryIsTrue,
     RequestsTellEverything
<1>4. CASE Change
  BY <1>4, ChangeKeeps
<1>5. CASE Select
  BY <1>5, SelectKeeps
<1>6. ASSUME NEW room \in 0..1, SelectForCall(room) PROVE ContextInv'
  <2> DEFINE summary == IF Matches THEN checkpoint.summary ELSE NoSummary
             done == IF Matches THEN checkpoint.covered ELSE 0
  <2>1. stage = "select" /\ strategy = "compaction" /\ SendOrShorten(done, summary, room)
        /\ UNCHANGED <<strategy, history, checkpoint, changes>>
    BY <1>6 DEF SelectForCall
  <2>2. SoFar(summary, done) /\ running
    BY <2>1, MatchesTell DEF ContextInv, ContextTypes
  <2> HIDE DEF summary, done
  <2>3. CheckpointIsTrue'
    BY <2>1 DEF ContextInv, CheckpointIsTrue
  <2> QED
    BY <2>1, <2>2, <2>3, SendOrShortenKeeps
<1>7. ASSUME NEW size \in 1..2, NEW room \in 0..1, Summarized(size, room) PROVE ContextInv'
  BY <1>7, SummarizedKeeps
<1>8. CASE UNCHANGED contextVars
  <2>1. ContextTypes' /\ CallsAreWhole' /\ CheckpointIsTrue'
    BY <1>8 DEF contextVars, ContextInv, ContextTypes, CallsAreWhole, IsUser, Pair, CheckpointIsTrue
  <2>2. (Cuts(covered, prefix, extra))' = Cuts(covered, prefix, extra)
    BY <1>8 DEF contextVars, Cuts, Boundaries, Fits, Size, Pins, Prompts, Calls, IsUser
  <2>3. SummaryIsTrue'
    BY <1>8, <2>2 DEF contextVars, ContextInv, SummaryIsTrue
  <2>4. Shown' = Shown /\ Prompts' = Prompts
    BY <1>8 DEF contextVars, Shown, Prompts
  <2>5. RequestsTellEverything'
    BY <1>8, <2>4 DEF contextVars, ContextInv, RequestsTellEverything
  <2> QED
    BY <2>1, <2>3, <2>5 DEF ContextInv
<1> QED
  BY <1>1, <1>2, <1>3, <1>4, <1>5, <1>6, <1>7, <1>8 DEF ContextNext

\* What is sent, and what is kept of it.
CheckpointStep ==
  /\ strategy = "compaction" /\ stage # "sent" /\ stage' = "sent" =>
       request'.fits /\ (request'.summary # NoSummary => request'.summary = checkpoint'.summary)
  /\ checkpoint' # checkpoint => stage' = "sent" /\ checkpoint'.summary = request'.summary

LEMMA StepsUseCheckpoints == ASSUME [ContextNext]_contextVars PROVE CheckpointStep
<1>1. ASSUME NEW summary, NEW done, NEW room, SendOrShorten(done, summary, room)
      PROVE  IF Fits(summary, done, room) THEN stage' = "sent" /\ request'.summary = summary /\ request'.fits
             ELSE stage' # "sent"
  <2>1. CASE Fits(summary, done, room)
    <3>1. Send(summary, done, room) /\ Size(summary, done, room) < TokenLimit
      BY <1>1, <2>1 DEF SendOrShorten, Fits
    <3> QED
      BY <2>1, <3>1 DEF Send
  <2>2. CASE ~Fits(summary, done, room)
    BY <1>1, <2>2 DEF SendOrShorten, Shorten
  <2> QED
    BY <2>1, <2>2
<1>2. CASE Task \/ Steer \/ Reply \/ CallTools \/ StopRun \/ Change \/ Select
  BY <1>2 DEF Task, Steer, Reply, CallTools, StopRun, Change, Select, CheckpointStep
<1>3. ASSUME NEW room \in 0..1, SelectForCall(room) PROVE CheckpointStep
  <2> DEFINE summary == IF Matches THEN checkpoint.summary ELSE NoSummary
             done == IF Matches THEN checkpoint.covered ELSE 0
  <2>1. SendOrShorten(done, summary, room) /\ checkpoint' = checkpoint
    BY <1>3 DEF SelectForCall
  <2>2. summary # NoSummary => summary = checkpoint.summary
    OBVIOUS
  <2> HIDE DEF summary, done
  <2> QED
    BY <1>1, <2>1, <2>2 DEF CheckpointStep
<1>4. ASSUME NEW size \in 1..2, NEW room \in 0..1, Summarized(size, room) PROVE CheckpointStep
  <2> DEFINE cut == Min(Cuts(covered, prefix, extra))
             summary == Summary(cut, size)
  <2>1. SendOrShorten(cut, summary, room) /\ Save(cut, summary, Fits(summary, cut, room))
    BY <1>4 DEF Summarized
  <2> HIDE DEF summary, cut
  <2>2. CASE Fits(summary, cut, room)
    BY <1>1, <2>1, <2>2 DEF Save, CheckpointStep
  <2>3. CASE ~Fits(summary, cut, room)
    BY <1>1, <2>1, <2>3 DEF Save, CheckpointStep
  <2> QED
    BY <2>2, <2>3
<1>5. CASE UNCHANGED contextVars
  BY <1>5 DEF contextVars, CheckpointStep
<1> QED
  BY <1>2, <1>3, <1>4, <1>5 DEF ContextNext

\* For any conversation, limits and stops: whatever was cut off and however often it was
\* summarised, a request tells every item as it is now, with whole calls, the prompt and what
\* the operator said; and the checkpoint only changes for a request that fits
\* (context_strategies.py).
THEOREM NothingIsForgottenHolds == ContextSpec => NothingIsForgotten
<1>1. ContextInv => RequestsTellEverything
  BY DEF ContextInv
<1>2. ContextInv /\ [ContextNext]_contextVars => ContextInv'
  BY ContextInvHolds, ContextAssumption
<1>3. [ContextNext]_contextVars => [CheckpointStep]_contextVars
  BY StepsUseCheckpoints
<1>4. ContextSpec => []ContextInv
  BY <1>2, ContextInvStarts, PTL DEF ContextSpec
<1>5. ContextSpec => [][CheckpointStep]_contextVars
  BY <1>3, PTL DEF ContextSpec
<1>6. ContextSpec => CheckpointsAreUsed
  BY <1>5 DEF CheckpointsAreUsed, CheckpointStep
<1> QED
  BY <1>1, <1>4, <1>6, PTL DEF NothingIsForgotten
=============================================================================
