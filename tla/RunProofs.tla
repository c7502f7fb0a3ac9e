------------------------------ MODULE RunProofs ------------------------------
(***************************************************************************)
(* Proofs about a run, for any phases, limits and process starts, and      *)
(* about the tools of its workspace, for any calls and options of the rest *)
(* tool.  What a restart finds is what the process had, but for an         *)
(* iteration that has begun and the cost not yet saved (Agree); with that, *)
(* the history is read off the file and continued by the process.  That a  *)
(* command answers with all it printed needs to know that nothing is left  *)
(* that could print on (Silent); that the total bounds the rests, how much *)
(* each that rests may still add (Bounded).                                *)
(***************************************************************************)
EXTENDS PhasedLoop, Workbench, ScaffoldProcess, SequenceTheorems, FiniteSetTheorems, TLAPS

Records == [phase : 1..Phases, iteration : Nat \ {0}, completed : BOOLEAN, passed : BOOLEAN]

States == [phase : 1..Phases + 1, iteration : Nat, prompt : 0..MaxRecords,
           history : Seq(Records), used : Nat]

\* TypeOK, flatly.
Types ==
  /\ disk \in States /\ mem \in States
  /\ pc \in {"down", "top", "turn", "gates", "pause"}
  /\ disk.used <= mem.used /\ disk.iteration <= mem.iteration
  /\ prompted \in 0..MaxRecords
  /\ outcome \in {"none", "completed", "budget_exhausted", "iterations_exhausted",
                  "stopped", "failed", "killed"}
  /\ launches \in Nat /\ spent \in Nat /\ lost \in Nat /\ unread \subseteq 1..MaxRecords

\* The position after the first k records of a history.
After(h, k) ==
  IF k = 0 THEN <<1, 0>>
  ELSE IF h[k].passed THEN <<h[k].phase + 1, 0>> ELSE <<h[k].phase, h[k].iteration>>

\* Each record follows the one before.
Reads(h) ==
  \A i \in 1..Len(h) : h[i].phase = After(h, i - 1)[1] /\ h[i].iteration = After(h, i - 1)[2] + 1

Working == pc \in {"turn", "gates"}

\* The file and the process: of the same history, and nobody's when it is down.
Agree ==
  /\ mem.history = disk.history /\ mem.phase = disk.phase /\ mem.prompt = disk.prompt
  /\ mem.iteration = IF Working THEN disk.iteration + 1 ELSE disk.iteration
  /\ pc = "down" => mem.used = disk.used
  /\ mem.used + lost = spent

\* What an iteration that has begun relies on.
Begun ==
  /\ Working => mem.phase <= Phases /\ Len(mem.history) < MaxRecords /\ prompted = mem.prompt
  /\ pc # "down" => launches > 0

OneRun ==
  /\ After(disk.history, Len(disk.history)) = <<disk.phase, disk.iteration>>
  /\ Reads(disk.history)

\* The next iteration, or the one at work, is within the limit, or one beyond it for
\* each time an exhausted run was started.
Room ==
  disk.phase <= Phases /\ MaxIterations[disk.phase] # 0 =>
    IF pc = "down" THEN disk.iteration < MaxIterations[disk.phase] + launches
    ELSE disk.iteration + 1 < MaxIterations[disk.phase] + launches

\* What is recorded is of the phases so far, and what could not be read was recorded.
Behind ==
  /\ \A i \in 1..Len(disk.history) : disk.history[i].phase <= disk.phase
  /\ unread \subseteq 1..Len(disk.history)

\* The next prompt is the last continuation that was written.
Prompts ==
  /\ mem.prompt # 0 => mem.prompt \in Reported
  /\ \A i \in Reported : i <= mem.prompt

LoopInv == Types /\ Agree /\ Begun /\ OneRun /\ IterationsBounded /\ Room /\ Behind /\ Prompts

----------------------------------------------------------------------------

\* One more record: the earlier ones are where they were.
LEMMA OneMore ==
  ASSUME NEW h \in Seq(Records), NEW r \in Records
  PROVE  LET g == Append(h, r)
         IN  /\ g \in Seq(Records) /\ Len(g) = Len(h) + 1 /\ g # <<>>
             /\ \A i \in 1..Len(h) : g[i] = h[i]
             /\ g[Len(h) + 1] = r /\ Last(g) = r
             /\ \A k \in 0..Len(h) : After(g, k) = After(h, k)
<1> DEFINE g == Append(h, r)
<1>1. g \in Seq(Records) /\ Len(g) = Len(h) + 1 /\ g[Len(h) + 1] = r
      /\ \A i \in 1..Len(h) : g[i] = h[i]
  BY AppendProperties
<1>2. Len(h) \in Nat  BY LenProperties
<1>3. \A k \in 0..Len(h) : After(g, k) = After(h, k)
  <2> TAKE k \in 0..Len(h)
  <2>1. CASE k = 0  BY <2>1 DEF After
  <2>2. CASE k # 0
    <3>1. k \in 1..Len(h)  BY <2>2, <1>2
    <3> QED  BY <3>1, <1>1 DEF After
  <2> QED  BY <2>1, <2>2
<1>4. g # <<>>  BY <1>1, <1>2
<1> QED  BY <1>1, <1>2, <1>3, <1>4 DEF Last

LEMMA InitLoopInv == Init => LoopInv
<1> SUFFICES ASSUME Init PROVE LoopInv  OBVIOUS
<1> USE LoopAssumption DEF Init, FirstState
<1>1. <<>> \in Seq(Records) /\ Len(<<>>) = 0  BY EmptySeq
<1>2. Types  BY <1>1 DEF Types, States
<1>3. Agree /\ Begun  BY DEF Agree, Begun, Working
<1>4. OneRun /\ IterationsBounded  BY <1>1 DEF OneRun, After, Reads, IterationsBounded
<1>5. Room
  <2>1. MaxIterations[1] \in Nat  OBVIOUS
  <2> QED  BY <2>1 DEF Room
<1>6. Behind /\ Prompts  BY <1>1 DEF Behind, Prompts, Reported
<1> QED  BY <1>2, <1>3, <1>4, <1>5, <1>6 DEF LoopInv

\* A step that leaves the saved position and history as they are.
SamePlace ==
  /\ disk'.history = disk.history /\ disk'.phase = disk.phase
  /\ disk'.iteration = disk.iteration /\ disk'.prompt = disk.prompt /\ unread' = unread

LEMMA SameRun ==
  ASSUME LoopInv, SamePlace, Agree', Types', launches' = launches \/ launches' = launches + 1
  PROVE  OneRun' /\ IterationsBounded' /\ Behind' /\ Prompts'
<1> USE LoopAssumption DEF LoopInv, SamePlace
<1>1. OneRun'  BY DEF OneRun, Reads, After
<1>2. IterationsBounded'
  <2> SUFFICES ASSUME NEW i \in 1..Len(disk.history), MaxIterations[disk.history[i].phase] # 0
               PROVE  disk.history[i].iteration < MaxIterations[disk.history[i].phase] + launches'
    BY DEF IterationsBounded
  <2>1. disk.history \in Seq(Records)  BY DEF Types, States
  <2>2. disk.history[i] \in Records  BY <2>1, ElementOfSeq
  <2>3. disk.history[i].iteration < MaxIterations[disk.history[i].phase] + launches
    BY DEF IterationsBounded
  <2>4. disk.history[i].phase \in 1..Phases /\ disk.history[i].iteration \in Nat  BY <2>2 DEF Records
  <2>5. MaxIterations[disk.history[i].phase] \in Nat /\ launches \in Nat  BY <2>4 DEF Types
  <2>6. launches <= launches' /\ launches' \in Nat  BY <2>5
  <2>7. \A x, m, a, b \in Nat : x < m + a /\ a <= b => x < m + b  OBVIOUS
  <2> QED  BY <2>3, <2>4, <2>5, <2>6, <2>7
<1>3. Prompts'
  <2>1. mem'.history = mem.history /\ mem'.prompt = mem.prompt /\ mem'.phase = mem.phase  BY DEF Agree
  <2>2. Reported' = Reported  BY <2>1 DEF Reported
  <2> QED  BY <2>1, <2>2 DEF Prompts
<1>4. Behind'  BY DEF Behind
<1> QED  BY <1>1, <1>2, <1>3, <1>4

LEMMA FieldsOfStates ==
  ASSUME NEW s \in States
  PROVE  /\ s.phase \in 1..Phases + 1 /\ s.iteration \in Nat /\ s.prompt \in 0..MaxRecords
         /\ s.history \in Seq(Records) /\ s.used \in Nat
BY DEF States

LEMMA LimitsAreNumbers ==
  ASSUME NEW p \in 1..Phases + 1
  PROVE  p \in Nat /\ (p <= Phases => p \in 1..Phases /\ MaxIterations[p] \in Nat)
<1>1. Phases \in Nat  BY LoopAssumption
<1>2. p \in Nat /\ (p <= Phases => p \in 1..Phases)  BY <1>1
<1> QED  BY <1>2, LoopAssumption

\* Nothing is recorded while a process starts, works, pauses or is killed.
LEMMA WorkStep ==
  ASSUME LoopInv, Launch \/ StartIteration \/ Spend \/ Wake \/ Kill \/ UNCHANGED vars
  PROVE  LoopInv'
<1> USE LoopAssumption DEF LoopInv
<1>0. /\ disk.phase \in Nat /\ disk.iteration \in Nat /\ disk.used \in Nat
      /\ launches \in Nat /\ lost \in Nat /\ spent \in Nat
      /\ disk.phase <= Phases => MaxIterations[disk.phase] \in Nat
  <2>1. disk \in States /\ launches \in Nat /\ lost \in Nat /\ spent \in Nat  BY DEF Types
  <2>2. disk.phase \in 1..Phases + 1 /\ disk.iteration \in Nat /\ disk.used \in Nat  BY <2>1, FieldsOfStates
  <2>3. disk.phase \in Nat /\ (disk.phase <= Phases => MaxIterations[disk.phase] \in Nat)  BY <2>2, LimitsAreNumbers
  <2> QED  BY <2>1, <2>2, <2>3
<1>1. CASE Launch
  <2>1. /\ mem' = disk /\ disk' = disk /\ pc = "down" /\ pc' = "top" /\ launches' = launches + 1
        /\ UNCHANGED <<prompted, spent, lost, unread>> /\ outcome' = "none"
    BY <1>1 DEF Launch
  <2>2. Types'  BY <2>1, <1>0 DEF Types
  <2>3. Agree'  BY <2>1 DEF Agree, Working
  <2>4. Begun'  BY <2>1, <1>0 DEF Begun, Working
  <2>5. Room'  BY SMTT(30), <2>1, <1>0 DEF Room
  <2> QED  BY <2>1, <2>2, <2>3, <2>4, <2>5, SameRun DEF SamePlace
<1>2. CASE StartIteration
  <2>1. /\ disk' = disk /\ pc = "top" /\ pc' = "turn" /\ prompted' = mem.prompt
        /\ mem.phase <= Phases /\ Len(mem.history) < MaxRecords
        /\ UNCHANGED <<outcome, launches, spent, lost, unread>>
    BY <1>2 DEF StartIteration
  <2>2. mem \in States /\ mem' = [mem EXCEPT !.iteration = @ + 1]  BY <1>2 DEF StartIteration, Types
  <2>3. /\ mem' \in States /\ mem'.iteration = mem.iteration + 1
        /\ mem'.history = mem.history /\ mem'.phase = mem.phase /\ mem'.prompt = mem.prompt /\ mem'.used = mem.used
    BY SMTT(30), <2>2 DEF States
  <2>4. mem.prompt \in 0..MaxRecords /\ mem.iteration \in Nat  BY <2>2 DEF States
  <2>5. Types'
    <3>1. disk'.used <= mem'.used /\ disk'.iteration <= mem'.iteration
      BY <2>1, <2>3, <2>4, <1>0 DEF Types
    <3> QED  BY <2>1, <2>3, <2>4, <3>1 DEF Types, States
  <2>6. Agree'  BY <2>1, <2>3, <1>0 DEF Agree, Working
  <2>7. Begun'  BY <2>1, <2>3 DEF Begun, Working
  <2>8. Room'  BY <2>1 DEF Room
  <2> QED  BY <2>1, <2>5, <2>6, <2>7, <2>8, SameRun DEF SamePlace
<1>3. CASE Spend
  <2>1. Working /\ spent' = spent + 1 /\ UNCHANGED <<disk, pc, prompted, outcome, launches, lost, unread>>
    BY <1>3 DEF Spend, Working
  <2>2. mem \in States /\ mem' = [mem EXCEPT !.used = @ + 1]  BY <1>3 DEF Spend, Types
  <2>3. /\ mem' \in States /\ mem'.used = mem.used + 1 /\ mem.used \in Nat
        /\ mem'.history = mem.history /\ mem'.phase = mem.phase /\ mem'.prompt = mem.prompt
        /\ mem'.iteration = mem.iteration
    BY SMTT(30), <2>2 DEF States
  <2>4. Types'
    <3>1. disk'.used <= mem'.used /\ disk'.iteration <= mem'.iteration
      BY <2>1, <2>3, <1>0 DEF Types
    <3> QED  BY <2>1, <2>3, <3>1, <1>0 DEF Types, States
  <2>5. Agree'
    <3>1. mem.used + lost = spent /\ pc # "down"  BY <2>1 DEF Agree, Working
    <3>2. \A a, b \in Nat : (a + 1) + b = (a + b) + 1  OBVIOUS
    <3>3. mem'.used + lost' = (mem.used + lost) + 1  BY <2>1, <2>3, <1>0, <3>2
    <3>4. mem'.used + lost' = spent'  BY <2>1, <3>1, <3>3
    <3> QED  BY <2>1, <2>3, <3>1, <3>4 DEF Agree, Working
  <2>6. Begun'  BY <2>1, <2>3 DEF Begun, Working
  <2>7. Room'  BY <2>1 DEF Room
  <2> QED  BY <2>1, <2>4, <2>5, <2>6, <2>7, SameRun DEF SamePlace
<1>4. CASE Wake
  <2>1. pc = "pause" /\ pc' = "top" /\ UNCHANGED <<disk, mem, prompted, outcome, launches, spent, lost, unread>>
    BY <1>4 DEF Wake
  <2>2. Types'  BY <2>1 DEF Types
  <2>3. Agree'  BY <2>1 DEF Agree, Working
  <2>4. Begun' /\ Room'  BY <2>1 DEF Begun, Working, Room
  <2> QED  BY <2>1, <2>2, <2>3, <2>4, SameRun DEF SamePlace
<1>5. CASE Kill
  <2>1. /\ pc # "down" /\ pc' = "down" /\ outcome' = "killed" /\ lost' = lost + (mem.used - disk.used)
        /\ mem' = disk /\ UNCHANGED <<disk, prompted, launches, spent, unread>>
    BY <1>5 DEF Kill
  <2>2. mem.used \in Nat /\ disk.used <= mem.used  BY DEF Types, States
  <2>3. lost' \in Nat /\ disk.used + lost' = spent
    <3>1. mem.used + lost = spent /\ lost' = lost + (mem.used - disk.used)  BY <2>1 DEF Agree
    <3>2. disk.used \in Nat /\ lost \in Nat  BY <1>0
    <3> QED  BY SMTT(30), <2>2, <3>1, <3>2
  <2>4. Types'  BY <2>1, <2>3, <1>0 DEF Types
  <2>5. Agree'  BY <2>1, <2>3 DEF Agree, Working
  <2>6. Begun' /\ Room'  BY SMTT(30), <2>1, <1>0 DEF Begun, Working, Room
  <2> QED  BY <2>1, <2>4, <2>5, <2>6, SameRun DEF SamePlace
<1>6. CASE UNCHANGED vars
  <2>1. UNCHANGED <<disk, mem, pc, prompted, outcome, launches, spent, lost, unread>>  BY <1>6 DEF vars
  <2>2. Types' /\ Agree' /\ Begun' /\ Room'  BY <2>1 DEF Types, Agree, Begun, Working, Room
  <2> QED  BY <2>1, <2>2, SameRun DEF SamePlace
<1> QED  BY <1>1, <1>2, <1>3, <1>4, <1>5, <1>6

\* A process that ends in order leaves its state, without an iteration in progress.
LEMMA ExitStep ==
  ASSUME LoopInv, Finish \/ StopForBudget \/ PromptMissing \/ Stop \/ Fail
  PROVE  LoopInv'
<1> USE LoopAssumption DEF LoopInv
<1> DEFINE state == Interrupted
<1>0. /\ disk.phase \in Nat /\ disk.iteration \in Nat /\ disk.used \in Nat /\ mem.used \in Nat
      /\ launches \in Nat /\ lost \in Nat /\ spent \in Nat
      /\ disk.phase <= Phases => MaxIterations[disk.phase] \in Nat
  <2>1. disk \in States /\ mem \in States /\ launches \in Nat /\ lost \in Nat /\ spent \in Nat  BY DEF Types
  <2>2. disk.phase \in 1..Phases + 1 /\ disk.iteration \in Nat /\ disk.used \in Nat /\ mem.used \in Nat
    BY <2>1, FieldsOfStates
  <2>3. disk.phase \in Nat /\ (disk.phase <= Phases => MaxIterations[disk.phase] \in Nat)  BY <2>2, LimitsAreNumbers
  <2> QED  BY <2>1, <2>2, <2>3
<1>1. /\ pc # "down" /\ pc' = "down" /\ mem' = state /\ disk' = state
      /\ outcome' \in {"completed", "budget_exhausted", "stopped", "failed"}
      /\ UNCHANGED <<prompted, launches, spent, lost, unread>>
  BY DEF Finish, StopForBudget, PromptMissing, Stop, Fail, Exit, SaveAndEnd, Interrupted
<1>2. /\ state \in States /\ state.used = mem.used /\ state.history = mem.history /\ state.phase = mem.phase
      /\ state.prompt = mem.prompt /\ state.iteration = disk.iteration
  <2>1. mem \in States  BY DEF Types
  <2>2. CASE Working
    <3>1. state = [mem EXCEPT !.iteration = @ - 1]  BY <2>2 DEF Working, Interrupted
    <3>2. mem.iteration - 1 = disk.iteration  BY <2>2, <1>0 DEF Agree
    <3> QED  BY <2>1, <3>1, <3>2, <1>0 DEF States
  <2>3. CASE ~Working
    <3>1. state = mem /\ mem.iteration = disk.iteration  BY <2>3 DEF Working, Interrupted, Agree
    <3> QED  BY <2>1, <3>1
  <2> QED  BY <2>2, <2>3
<1> HIDE DEF state
<1>3. SamePlace  BY <1>1, <1>2 DEF SamePlace, Agree
<1>4. Types'  BY <1>0, <1>1, <1>2 DEF Types
<1>5. Agree'
  <2>1. mem'.used + lost' = spent'  BY <1>1, <1>2 DEF Agree
  <2> QED  BY <1>1, <2>1 DEF Agree, Working
<1>6. Begun'  BY <1>1 DEF Begun, Working
<1>7. Room'
  <2>1. disk'.phase = disk.phase /\ disk'.iteration = disk.iteration  BY <1>3 DEF SamePlace
  <2> QED  BY SMTT(30), <1>0, <1>1, <2>1 DEF Room
<1> QED  BY <1>1, <1>3, <1>4, <1>5, <1>6, <1>7, SameRun

\* The history that a recorded iteration makes reads as one run, and the iteration is
\* within its limit.
LEMMA Recorded ==
  ASSUME LoopInv, Working, NEW passed \in BOOLEAN, NEW completed \in BOOLEAN
  PROVE  LET h == Ended(passed, completed)
             n == Len(mem.history) + 1
         IN  /\ h \in Seq(Records) /\ Len(h) = n /\ h # <<>> /\ n \in 1..MaxRecords
             /\ Last(h).phase = mem.phase /\ Last(h).iteration = mem.iteration /\ Last(h).passed = passed
             /\ Reads(h) /\ h[n] = Last(h) /\ \A i \in 1..n - 1 : h[i] = mem.history[i]
             /\ After(h, n) = IF passed THEN <<mem.phase + 1, 0>> ELSE <<mem.phase, mem.iteration>>
             /\ \A i \in 1..Len(h) : MaxIterations[h[i].phase] # 0 =>
                  h[i].iteration < MaxIterations[h[i].phase] + launches
<1> USE LoopAssumption DEF LoopInv
<1> DEFINE r == [phase |-> mem.phase, iteration |-> mem.iteration, completed |-> completed, passed |-> passed]
           h == Ended(passed, completed)
           n == Len(mem.history) + 1
<1>1. mem \in States /\ disk \in States  BY DEF Types
<1>2. mem.history \in Seq(Records) /\ mem.history = disk.history  BY <1>1 DEF States, Agree
<1>3. Len(mem.history) \in Nat /\ n \in 1..MaxRecords
  <2>1. Len(mem.history) \in Nat  BY <1>2, LenProperties
  <2>2. Len(mem.history) < MaxRecords /\ MaxRecords \in Nat  BY DEF Begun
  <2> QED  BY <2>1, <2>2
<1>4. /\ mem.phase \in 1..Phases /\ mem.phase = disk.phase
      /\ disk.iteration \in Nat /\ mem.iteration = disk.iteration + 1
  <2>1. mem.phase \in 1..Phases + 1 /\ mem.phase <= Phases  BY <1>1 DEF States, Begun
  <2>2. disk.iteration \in Nat  BY <1>1 DEF States
  <2> QED  BY <2>1, <2>2 DEF Agree
<1>5. r \in Records  BY <1>4 DEF Records
<1>6. /\ h \in Seq(Records) /\ Len(h) = n /\ h # <<>> /\ h[n] = r /\ Last(h) = r
      /\ \A i \in 1..Len(mem.history) : h[i] = mem.history[i]
      /\ \A k \in 0..Len(mem.history) : After(h, k) = After(mem.history, k)
  BY <1>2, <1>5, OneMore DEF Ended
<1>7. Reads(h)
  <2>1. After(h, n - 1) = <<mem.phase, mem.iteration - 1>>
    <3>1. After(h, n - 1) = After(mem.history, Len(mem.history))
      <4> DEFINE last == Len(mem.history)
      <4>1. n - 1 = last /\ last \in 0..last  BY <1>3
      <4>2. \A k \in 0..last : After(h, k) = After(mem.history, k)  BY <1>6
      <4> HIDE DEF h, n, last
      <4>3. After(h, n - 1) = After(mem.history, last)  BY <4>1, <4>2
      <4> QED  BY <4>3 DEF last
    <3> QED  BY <3>1, <1>2, <1>4 DEF OneRun
  <2> SUFFICES ASSUME NEW i \in 1..n
               PROVE  h[i].phase = After(h, i - 1)[1] /\ h[i].iteration = After(h, i - 1)[2] + 1
    BY <1>6 DEF Reads
  <2>2. CASE i = n  BY SMTT(30), <2>1, <2>2, <1>4, <1>6
  <2>3. CASE i # n
    <3>1. i \in 1..Len(mem.history) /\ i - 1 \in 0..Len(mem.history)  BY <2>3, <1>3
    <3>2. h[i] = mem.history[i] /\ After(h, i - 1) = After(mem.history, i - 1)  BY <3>1, <1>6
    <3> QED  BY <3>1, <3>2, <1>2 DEF OneRun, Reads
  <2> QED  BY <2>2, <2>3
<1>8. After(h, n) = IF passed THEN <<mem.phase + 1, 0>> ELSE <<mem.phase, mem.iteration>>
  BY <1>3, <1>6 DEF After
<1>9. ASSUME NEW i \in 1..n, MaxIterations[h[i].phase] # 0
      PROVE  h[i].iteration < MaxIterations[h[i].phase] + launches
  <2>1. CASE i = n
    <3>1. h[i].phase = disk.phase /\ h[i].iteration = disk.iteration + 1  BY <2>1, <1>4, <1>6
    <3>2. disk.phase <= Phases  BY <1>4
    <3> QED  BY <3>1, <3>2, <1>9 DEF Room, Working
  <2>2. CASE i # n
    <3>1. i \in 1..Len(disk.history) /\ h[i] = disk.history[i]  BY <2>2, <1>2, <1>3, <1>6
    <3> QED  BY <3>1, <1>9 DEF IterationsBounded
  <2> QED  BY <2>1, <2>2
<1> HIDE DEF h, n
<1>10. Last(h).phase = mem.phase /\ Last(h).iteration = mem.iteration /\ Last(h).passed = passed
       /\ h[n] = Last(h)
  BY <1>6
<1>11. \A i \in 1..n - 1 : h[i] = mem.history[i]  BY <1>3, <1>6 DEF n
<1> QED  BY <1>3, <1>6, <1>7, <1>8, <1>9, <1>10, <1>11 DEF h, n

\* Recording an iteration keeps the run one, whether the phase is passed, repeated or
\* out of iterations.
LEMMA RecordStep ==
  ASSUME LoopInv, Working, NEW passed \in BOOLEAN, NEW completed \in BOOLEAN, Record(passed, completed)
  PROVE  LoopInv'
<1> USE LoopAssumption DEF LoopInv
<1> DEFINE h == Ended(passed, completed)
           n == Len(mem.history) + 1
<1>0. /\ mem \in States /\ mem.phase \in 1..Phases /\ mem.iteration \in Nat /\ mem.used \in Nat
      /\ mem.prompt \in 0..MaxRecords /\ MaxIterations[mem.phase] \in Nat /\ launches \in Nat /\ launches > 0
  <2>1. mem \in States /\ mem.phase <= Phases /\ pc # "down"  BY DEF Types, Begun, Working
  <2>2. /\ mem.phase \in 1..Phases + 1 /\ mem.iteration \in Nat /\ mem.used \in Nat
        /\ mem.prompt \in 0..MaxRecords
    BY <2>1, FieldsOfStates
  <2>3. mem.phase \in 1..Phases /\ MaxIterations[mem.phase] \in Nat  BY <2>1, <2>2, LimitsAreNumbers
  <2>4. launches \in Nat /\ launches > 0  BY <2>1 DEF Types, Begun
  <2> QED  BY <2>1, <2>2, <2>3, <2>4
<1>1. /\ h \in Seq(Records) /\ Len(h) = n /\ h # <<>> /\ n \in 1..MaxRecords
      /\ Last(h).phase = mem.phase /\ Last(h).iteration = mem.iteration /\ Last(h).passed = passed
      /\ Reads(h) /\ h[n] = Last(h) /\ \A i \in 1..n - 1 : h[i] = mem.history[i]
      /\ After(h, n) = IF passed THEN <<mem.phase + 1, 0>> ELSE <<mem.phase, mem.iteration>>
      /\ \A i \in 1..Len(h) : MaxIterations[h[i].phase] # 0 =>
           h[i].iteration < MaxIterations[h[i].phase] + launches
  BY Recorded
<1>l. Len(mem.history) \in Nat /\ n \in Nat /\ n - 1 = Len(mem.history) /\ n = Len(mem.history) + 1  BY <1>0, LenProperties DEF States
<1> DEFINE next == IF passed THEN [mem EXCEPT !.history = h, !.phase = @ + 1, !.iteration = 0, !.prompt = 0]
                   ELSE IF Exhausted \/ unread' # unread THEN [mem EXCEPT !.history = h]
                   ELSE [mem EXCEPT !.history = h, !.prompt = Len(h)]
<1>u. Len(h) \notin unread
  <2>1. unread \subseteq 1..Len(mem.history) /\ Len(h) = Len(mem.history) + 1
    BY <1>1 DEF Behind, Agree
  <2>2. Len(mem.history) \in Nat  BY <1>0, LenProperties DEF States
  <2> QED  BY <2>1, <2>2
<1>2. /\ mem' = next /\ disk' = next
      /\ pc' \in {"down", "pause", "top"}
      /\ pc' = "down" <=> ~passed /\ (Exhausted \/ unread' # unread)
      /\ outcome' \in {outcome, "iterations_exhausted", "failed"}
      /\ unread' = unread \/ (~passed /\ ~Exhausted /\ unread' = unread \cup {n})
      /\ UNCHANGED <<prompted, launches, spent, lost>>
  <2>1. CASE passed  BY <2>1 DEF Record, Advance
  <2>2. CASE ~passed /\ Exhausted  BY <2>2 DEF Record, Exit, SaveAndEnd
  <2>3. CASE ~passed /\ ~Exhausted /\ Continue(h)
    BY <2>3 DEF Continue, Continued
  <2>4. CASE ~passed /\ ~Exhausted /\ ContinuationMissing(h)
    <3>1. unread' # unread  BY <2>4, <1>u DEF ContinuationMissing
    <3> QED  BY <2>4, <3>1, <1>1 DEF ContinuationMissing, SaveAndEnd
  <2>5. ~passed /\ ~Exhausted => Continue(h) \/ ContinuationMissing(h)  BY DEF Record
  <2> QED  BY <2>1, <2>2, <2>3, <2>4, <2>5
<1>3. /\ next \in States /\ next.history = h /\ next.used = mem.used
      /\ next.phase = IF passed THEN mem.phase + 1 ELSE mem.phase
      /\ next.iteration = IF passed THEN 0 ELSE mem.iteration
      /\ ~passed /\ ~Exhausted /\ unread' = unread => next.prompt = n
      /\ ~passed /\ (Exhausted \/ unread' # unread) => next.prompt = mem.prompt
      /\ passed => next.prompt = 0
  <2> HIDE DEF h, n
  <2>0. Phases \in Nat /\ MaxRecords \in Nat  OBVIOUS
  <2>1. mem.phase + 1 \in 1..Phases + 1 /\ n \in 0..MaxRecords /\ 0 \in 0..MaxRecords
    BY SMTT(30), <2>0, <1>0, <1>1
  <2>2. CASE passed  BY <2>1, <2>2, <1>0, <1>1 DEF States
  <2>3. CASE ~passed /\ (Exhausted \/ unread' # unread)  BY <2>1, <2>3, <1>0, <1>1 DEF States
  <2>4. CASE ~passed /\ ~Exhausted /\ unread' = unread  BY <2>1, <2>4, <1>0, <1>1 DEF States
  <2> QED  BY <2>2, <2>3, <2>4
<1> HIDE DEF h, n, next
<1>4. /\ mem'.history = h /\ disk'.history = h /\ mem'.phase = next.phase /\ disk'.phase = next.phase
      /\ mem'.iteration = next.iteration /\ disk'.iteration = next.iteration
      /\ mem'.prompt = next.prompt /\ disk'.prompt = next.prompt
      /\ mem'.used = mem.used /\ disk'.used = mem.used
      /\ pc' \in {"down", "top", "pause"}
  BY <1>2, <1>3
<1>5. Types'
  <2>1. next.used \in Nat /\ next.iteration \in Nat  BY <1>3 DEF States
  <2>2. unread' \subseteq 1..MaxRecords  BY <1>1, <1>2 DEF Types
  <2> QED  BY <1>2, <1>3, <1>4, <2>1, <2>2 DEF Types
<1>6. Agree'
  <2>1. mem'.used + lost' = spent'  BY <1>2, <1>4 DEF Agree
  <2> QED  BY <1>4, <2>1 DEF Agree, Working
<1>7. Begun'  BY <1>0, <1>2, <1>4 DEF Begun, Working
<1>8. OneRun'
  <2>1. After(h, Len(h)) = <<next.phase, next.iteration>>  BY <1>1, <1>3
  <2> QED  BY <1>1, <1>4, <2>1 DEF OneRun
<1>9. IterationsBounded'  BY <1>1, <1>2, <1>4 DEF IterationsBounded
<1>10. Room'
  <2>1. CASE passed
    <3>1. next.iteration = 0 /\ next.phase = mem.phase + 1 /\ pc' # "down"  BY <2>1, <1>2, <1>3
    <3>2. next.phase <= Phases => MaxIterations[next.phase] \in Nat  BY <1>0, <3>1
    <3>3. launches' = launches /\ disk'.phase = next.phase /\ disk'.iteration = 0  BY <3>1, <1>2, <1>4
    <3>4. next.phase <= Phases /\ MaxIterations[next.phase] # 0 => 0 + 1 < MaxIterations[next.phase] + launches
      BY SMTT(30), <3>2, <1>0
    <3> QED  BY <3>1, <3>3, <3>4 DEF Room
  <2>2. CASE ~passed /\ (Exhausted \/ unread' # unread)
    <3>1. next.iteration = mem.iteration /\ next.phase = mem.phase /\ pc' = "down"  BY <2>2, <1>2, <1>3
    <3>2. MaxIterations[mem.phase] # 0 => mem.iteration < MaxIterations[mem.phase] + launches
      BY <1>0 DEF Room, Agree, Working
    <3> QED  BY <3>1, <3>2, <1>2, <1>4 DEF Room
  <2>3. CASE ~passed /\ ~Exhausted /\ unread' = unread
    <3>1. next.iteration = mem.iteration /\ next.phase = mem.phase  BY <2>3, <1>3
    <3>2. MaxIterations[mem.phase] # 0 => mem.iteration < MaxIterations[mem.phase]
      BY <2>3, <1>0 DEF Exhausted
    <3>3. launches' = launches /\ disk'.phase = mem.phase /\ disk'.iteration = mem.iteration /\ pc' # "down"
      BY <2>3, <3>1, <1>2, <1>4
    <3>4. MaxIterations[mem.phase] # 0 => mem.iteration + 1 < MaxIterations[mem.phase] + launches
      BY <3>2, <1>0
    <3> QED  BY <3>3, <3>4 DEF Room
  <2> QED  BY <2>1, <2>2, <2>3
<1>11. Behind'
  <2>1. h[n].phase <= mem.phase /\ mem.phase <= next.phase  BY <1>0, <1>1, <1>3
  <2>2. ASSUME NEW i \in 1..n - 1 PROVE h[i].phase <= next.phase
    <3>1. i \in 1..Len(mem.history) /\ mem.history = disk.history /\ disk.phase = mem.phase
      BY <1>1, <1>l DEF Agree
    <3>2. h[i].phase <= mem.phase  BY <3>1, <1>1 DEF Behind
    <3>3. h[i] \in Records  BY <1>1, <2>2, ElementOfSeq
    <3>4. h[i].phase \in Nat  BY <3>3 DEF Records
    <3> QED  BY <3>2, <3>4, <2>1, <1>0, <1>3
  <2>3. \A i \in 1..n : h[i].phase <= next.phase
    <3> TAKE i \in 1..n
    <3>1. CASE i = n  BY <3>1, <2>1, <1>0, <1>1, <1>3
    <3>2. CASE i # n
      <4>1. i \in 1..n - 1  BY <3>2, <1>l
      <4> QED  BY <4>1, <2>2
    <3> QED  BY <3>1, <3>2
  <2>4. unread' \subseteq 1..n
    <3>1. unread \subseteq 1..Len(mem.history)  BY DEF Behind, Agree
    <3>2. 1..Len(mem.history) \subseteq 1..n /\ n \in 1..n  BY <1>l
    <3>3. unread' \subseteq unread \cup {n}  BY <1>2
    <3> QED  BY <3>1, <3>2, <3>3
  <2> QED  BY <2>3, <2>4, <1>1, <1>4 DEF Behind
<1>12. Prompts'
  <2>1. Reported' = {i \in 1..n \ unread' :
                       /\ h[i].phase = next.phase /\ ~h[i].passed
                       /\ MaxIterations[h[i].phase] = 0 \/ h[i].iteration < MaxIterations[h[i].phase]}
    BY <1>1, <1>4 DEF Reported
  <2>2. CASE passed
    <3>1. next.phase = mem.phase + 1 /\ next.prompt = 0  BY <2>2, <1>3
    <3>2. ASSUME NEW i \in 1..n PROVE h[i].phase # next.phase
      <4>1. CASE i = n  BY <4>1, <3>1, <1>0, <1>1
      <4>2. CASE i # n
        <5>1. i \in 1..n - 1 /\ i \in 1..Len(mem.history)  BY <4>2, <1>l
        <5>2. h[i] = mem.history[i]  BY <5>1, <1>1
        <5>3. h[i].phase <= mem.phase  BY <5>1, <5>2 DEF Behind, Agree
        <5> QED  BY <5>3, <3>1, <1>0
      <4> QED  BY <4>1, <4>2
    <3>3. Reported' = {}  BY <2>1, <3>2
    <3> QED  BY <3>1, <3>3, <1>4 DEF Prompts
  <2>3. CASE ~passed /\ (Exhausted \/ unread' # unread)
    <3>1. next.phase = mem.phase /\ mem'.prompt = mem.prompt  BY <2>3, <1>3, <1>4
    <3>2. n \notin Reported'
      <4>1. CASE unread' # unread  BY <4>1, <2>1, <1>2
      <4>2. CASE Exhausted
        <5>1. MaxIterations[mem.phase] # 0 /\ mem.iteration >= MaxIterations[mem.phase]
          BY <4>2 DEF Exhausted
        <5> QED  BY <5>1, <2>1, <1>0, <1>1
      <4> QED  BY <4>1, <4>2, <2>3
    <3>3. Reported' = Reported
      <4>1. \A i \in 1..n - 1 : i \in unread' <=> i \in unread  BY <1>1, <1>2, <1>l
      <4>2. \A i \in 1..n - 1 : i \in Reported' <=> i \in Reported
        <5> TAKE i \in 1..n - 1
        <5>1. i \in 1..n /\ i \in 1..Len(mem.history) /\ h[i] = mem.history[i]  BY <1>1, <1>l
        <5>2. i \in unread' <=> i \in unread  BY <4>1
        <5>3. i \in Reported <=>
                i \notin unread /\ h[i].phase = mem.phase /\ ~h[i].passed
                /\ (MaxIterations[h[i].phase] = 0 \/ h[i].iteration < MaxIterations[h[i].phase])
          BY <5>1 DEF Reported
        <5> QED  BY <5>1, <5>2, <5>3, <2>1, <3>1
      <4>3. Reported' \subseteq 1..n - 1  BY <2>1, <3>2, <1>1
      <4>4. Reported \subseteq 1..n - 1  BY <1>l DEF Reported
      <4> QED  BY <4>2, <4>3, <4>4
    <3> QED  BY <3>1, <3>3 DEF Prompts
  <2>4. CASE ~passed /\ ~Exhausted /\ unread' = unread
    <3>1. next.phase = mem.phase /\ mem'.prompt = n  BY <2>4, <1>3, <1>4
    <3>2. MaxIterations[mem.phase] = 0 \/ mem.iteration < MaxIterations[mem.phase]
      BY <2>4, <1>0 DEF Exhausted
    <3>3. n \in Reported'  BY <2>1, <2>4, <3>1, <3>2, <1>1, <1>u
    <3>4. \A i \in Reported' : i <= n  BY <2>1, <1>1
    <3> QED  BY <3>1, <3>3, <3>4 DEF Prompts
  <2> QED  BY <2>2, <2>3, <2>4
<1> QED  BY <1>5, <1>6, <1>7, <1>8, <1>9, <1>10, <1>11, <1>12

LEMMA NextLoopInv == LoopInv /\ [Next]_vars => LoopInv'
<1> SUFFICES ASSUME LoopInv, [Next]_vars PROVE LoopInv'  OBVIOUS
<1>1. CASE Launch \/ StartIteration \/ Spend \/ Wake \/ Kill \/ UNCHANGED vars  BY <1>1, WorkStep
<1>2. CASE Finish \/ StopForBudget \/ PromptMissing \/ Stop \/ Fail  BY <1>2, ExitStep
<1>3. CASE TurnUnfinished  BY <1>3, RecordStep DEF TurnUnfinished, Working
<1>4. CASE TurnCompleted
  <2>1. CASE mem.phase \in Gated
    <3>1. pc = "turn" /\ pc' = "gates" /\ UNCHANGED <<disk, mem, prompted, outcome, launches, spent, lost, unread>>
      BY <1>4, <2>1 DEF TurnCompleted
    <3>2. Types' /\ Agree' /\ Begun' /\ Room'
      BY <3>1 DEF LoopInv, Types, Agree, Begun, Room, Working
    <3> QED  BY <3>1, <3>2, SameRun DEF SamePlace, LoopInv
  <2>2. CASE mem.phase \notin Gated
    <3>1. Working /\ Record(TRUE, TRUE)  BY <1>4, <2>2 DEF TurnCompleted, Working
    <3> QED  BY <3>1, RecordStep
  <2> QED  BY <2>1, <2>2
<1>5. CASE GatesReport  BY <1>5, RecordStep DEF GatesReport, Working
<1> QED  BY <1>1, <1>2, <1>3, <1>4, <1>5 DEF Next, Step

\* The position after a part of the history, as HistoryIsOneRun says it.
LEMMA Positions ==
  ASSUME LoopInv
  PROVE  /\ Place(disk) = After(disk.history, Len(disk.history))
         /\ \A i \in 1..Len(disk.history) :
              Place([disk EXCEPT !.history = SubSeq(@, 1, i - 1)]) = After(disk.history, i - 1)
<1>1. disk \in States /\ disk.history \in Seq(Records)  BY DEF LoopInv, Types, States
<1>2. Len(disk.history) \in Nat /\ (disk.history = <<>> <=> Len(disk.history) = 0)
  BY <1>1, EmptySeq, LenProperties
<1>3. Place(disk) = After(disk.history, Len(disk.history))  BY <1>2 DEF Place, After, Last
<1>4. ASSUME NEW i \in 1..Len(disk.history)
      PROVE  Place([disk EXCEPT !.history = SubSeq(@, 1, i - 1)]) = After(disk.history, i - 1)
  <2> DEFINE s == SubSeq(disk.history, 1, i - 1)
  <2>1. /\ s \in Seq(Records) /\ Len(s) = i - 1
        /\ \A k \in 1..i - 1 : s[k] = disk.history[k]
    <3>1. \A k \in 1..i - 1 : disk.history[k] \in Records  BY <1>1, <1>2, ElementOfSeq
    <3> QED  BY <1>2, <3>1, SubSeqProperties
  <2>2. [disk EXCEPT !.history = SubSeq(@, 1, i - 1)].history = s  BY <1>1 DEF States
  <2>3. s = <<>> <=> i = 1  BY <2>1, <1>2, EmptySeq
  <2> DEFINE t == [disk EXCEPT !.history = SubSeq(@, 1, i - 1)]
  <2>4. t.history = s  BY <2>2
  <2> HIDE DEF s, t
  <2>5. Place(t) = After(disk.history, i - 1)
    <3>1. CASE i = 1  BY <2>3, <2>4, <3>1 DEF Place, After
    <3>2. CASE i # 1
      <4>1. i - 1 \in 1..i - 1 /\ i - 1 # 0  BY <3>2, <1>2
      <4>2. Last(s) = disk.history[i - 1]  BY <2>1, <4>1 DEF Last
      <4> QED  BY <2>3, <2>4, <3>2, <4>1, <4>2 DEF Place, After
    <3> QED  BY <3>1, <3>2
  <2> QED  BY <2>5 DEF t
<1> QED  BY <1>3, <1>4

LEMMA Consequences ==
  LoopInv => StateIsTrue /\ HistoryIsOneRun /\ ReportedFailureIsPrompted
<1> SUFFICES ASSUME LoopInv PROVE StateIsTrue /\ HistoryIsOneRun /\ ReportedFailureIsPrompted
  OBVIOUS
<1>1. TypeOK  BY DEF LoopInv, Types, TypeOK, States, Records
<1>2. CostIsOnTheBooks  BY DEF LoopInv, Agree, CostIsOnTheBooks
<1>3. HistoryIsOneRun  BY Positions DEF LoopInv, OneRun, Reads, HistoryIsOneRun
<1>4. ReportedFailureIsPrompted
  BY DEF LoopInv, Begun, Working, Prompts, ReportedFailureIsPrompted
<1> QED  BY <1>1, <1>2, <1>3, <1>4 DEF LoopInv, StateIsTrue

\* scaffold.py, loop.py: in every reachable state the history reads as one run, the costs are booked and
\* no phase has run more iterations than it may, for any phases, limits and process starts.
THEOREM StateIsTrueHolds == Spec => []StateIsTrue
<1>1. LoopInv => StateIsTrue  BY Consequences
<1> QED  BY <1>1, InitLoopInv, NextLoopInv, PTL DEF Spec

\* loop.py: whatever stops, kills and restarts a run, its history reads as one run.
THEOREM HistoryIsOneRunHolds == Spec => []HistoryIsOneRun
<1>1. LoopInv => HistoryIsOneRun  BY Consequences
<1> QED  BY <1>1, InitLoopInv, NextLoopInv, PTL DEF Spec

\* loop.py: through any stop, kill and restart a turn is prompted with the phase's last failure for which a
\* continuation was written.
THEOREM ReportedFailureIsPromptedHolds == Spec => []ReportedFailureIsPrompted
<1>1. LoopInv => ReportedFailureIsPrompted  BY Consequences
<1> QED  BY <1>1, InitLoopInv, NextLoopInv, PTL DEF Spec
----------------------------------------------------------------------------

ToolTypeOK ==
  /\ kind \in [Calls -> {"none", "shell", "command", "job", "rest"}]
  /\ stage \in [Calls -> {"idle", "collect", "drain", "rest", "done"}]
  /\ how \in [Calls -> {"none", "exit", "timeout", "cancelled", "started", "exhausted", "rested"}]
  /\ alive \in [Calls -> SUBSET (Group \cup Holders)]
  /\ printed \in [Calls -> Nat] /\ got \in [Calls -> Nat]
  /\ granted \in [Calls -> 0..MaxRest] /\ used \in Nat /\ overlaps \in Nat

\* What a call is at each of its stages, and what it has left alive: after the end of its
\* output nothing that holds the pipe, after a kill nothing of its group.
Silent ==
  \A c \in Calls :
    /\ stage[c] = "idle" => kind[c] = "none" /\ alive[c] = {} /\ how[c] = "none"
    /\ stage[c] = "collect" => kind[c] \in {"shell", "command"} /\ how[c] = "none"
    /\ stage[c] = "drain" => kind[c] \in {"shell", "command"} /\ how[c] \in {"timeout", "cancelled"}
    /\ stage[c] = "rest" => kind[c] = "rest" /\ how[c] = "none"
    /\ kind[c] = "job" => how[c] = "started"
    /\ kind[c] = "none" => stage[c] = "idle"
    /\ kind[c] \in {"shell", "command"} /\ how[c] \in {"timeout", "cancelled"} => alive[c] \cap Group = {}
    /\ stage[c] = "done" /\ kind[c] = "rest" => alive[c] = {} /\ got[c] = printed[c]
    /\ stage[c] = "rest" => alive[c] = {} /\ got[c] = printed[c]
    /\ stage[c] = "idle" => got[c] = printed[c]
    /\ stage[c] = "done" /\ how[c] \in {"exit", "timeout"} =>
         got[c] = printed[c] /\ alive[c] \cap Holders = {}

Resting == {c \in Calls : stage[c] = "rest"}

\* Each rest that overlapped another is one that may pass the total, and those that still
\* rest have not all been counted.
Bounded ==
  /\ Cardinality(Resting) <= overlaps + 1
  /\ used <= Total + overlaps * MaxRest
  /\ \A c \in Resting : used + granted[c] <= Total + (overlaps + 1 - Cardinality(Resting)) * MaxRest

ToolInv == ToolTypeOK /\ Silent /\ Bounded

\* Nothing is running before the first call.
LEMMA InitToolInv == ASSUME RestAssumption, ToolsInit PROVE ToolInv
<1>1. ToolTypeOK  BY DEF RestAssumption, ToolsInit, ToolTypeOK, None, Group, Holders
<1>2. Silent  BY DEF ToolsInit, Silent, None
<1>3. Resting = {}  BY DEF ToolsInit, Resting
<1>4. Bounded
  <2>1. Cardinality(Resting) = 0  BY <1>3, FS_EmptySet
  <2> QED  BY <1>3, <2>1 DEF Bounded, ToolsInit, RestAssumption
<1> QED  BY <1>1, <1>2, <1>4 DEF ToolInv

\* A step that starts and ends no rest leaves the account of the rests as it is.
LEMMA BoundedKept ==
  ASSUME Bounded, UNCHANGED resting, \A c \in Calls : stage'[c] = "rest" <=> stage[c] = "rest"
  PROVE  Bounded'
<1>1. Resting' = Resting  BY DEF Resting
<1> QED  BY <1>1 DEF Bounded, resting

\* One more rest that overlaps allows for one more of the longest.
LEMMA OneMoreRest ==
  ASSUME NEW n \in Nat, NEW m \in Nat
  PROVE  n * m \in Nat /\ (n + 1) * m = n * m + m
OBVIOUS

----------------------------------------------------------------------------
(* The processes of a command *)

\* A process can only be started, or print, where nothing was killed or has ended.
LEMMA ProcessStep ==
  ASSUME ToolInv, NEW c \in Calls, NEW p \in Group \cup Holders,
         Fork(c, p) \/ ProcessExits(c, p) \/ PrintOutput(c)
  PROVE  ToolInv'
<1> USE DEF ToolInv
<1>1. ToolTypeOK'
  <2>1. alive' \in [Calls -> SUBSET (Group \cup Holders)]  BY DEF Fork, ProcessExits, PrintOutput, ToolTypeOK
  <2>2. printed' \in [Calls -> Nat]  BY DEF Fork, ProcessExits, PrintOutput, ToolTypeOK
  <2> QED  BY <2>1, <2>2 DEF Fork, ProcessExits, PrintOutput, ToolTypeOK, resting
<1>2. Silent'
  <2>1. CASE Fork(c, p)
    <3>1. stage[c] = "collect" \/ (stage[c] = "done" /\ how[c] \notin {"exit", "timeout"} /\ kind[c] = "none")
          \/ ~(stage[c] \in {"idle", "drain", "rest"})
      BY <2>1 DEF Fork, Silent, Group
    <3> QED  BY <2>1, <3>1 DEF Fork, Silent, ToolTypeOK, Group, Holders
  <2>2. CASE ProcessExits(c, p)  BY <2>2 DEF ProcessExits, Silent, ToolTypeOK
  <2>3. CASE PrintOutput(c)  BY <2>3 DEF PrintOutput, Silent, ToolTypeOK
  <2> QED  BY <2>1, <2>2, <2>3
<1>3. Bounded'  BY BoundedKept DEF Fork, ProcessExits, PrintOutput
<1> QED  BY <1>1, <1>2, <1>3

----------------------------------------------------------------------------
(* Commands and jobs *)

\* A command starts with its shell alive and nothing printed.
LEMMA StartStep ==
  ASSUME RestAssumption, ToolInv, NEW c \in Calls,
         StartJob(c) \/ \E k \in {"shell", "command"} : StartCommand(c, k)
  PROVE  ToolInv'
<1> USE DEF ToolInv
<1>1. ToolTypeOK'
  BY DEF StartJob, StartCommand, Call, ToolTypeOK, Group, Holders, resting
<1>2. Silent'
  BY DEF StartJob, StartCommand, Call, ToolTypeOK, Silent, Group, Holders
<1>3. Bounded'
  BY BoundedKept DEF StartJob, StartCommand, Call, ToolTypeOK
<1> QED  BY <1>1, <1>2, <1>3

\* What is read is what was printed, and a kill leaves nothing of the group.
LEMMA CommandStep ==
  ASSUME ToolInv, NEW c \in Calls,
         \/ Read(c) \/ Collected(c) \/ Drain(c) \/ CancelAgain(c)
         \/ \E ending \in {"timeout", "cancelled"} : KillGroup(c, ending)
  PROVE  ToolInv'
<1> USE DEF ToolInv
<1>1. CASE Read(c)
  <2>1. ToolTypeOK' /\ Silent'  BY <1>1 DEF Read, ToolTypeOK, Silent, processes, resting
  <2>2. Bounded'  BY <1>1, BoundedKept DEF Read
  <2> QED  BY <2>1, <2>2
<1>2. CASE Collected(c)
  <2>1. ToolTypeOK' /\ Silent'
    BY <1>2 DEF Collected, PipeClosed, Answer, ToolTypeOK, Silent, processes, resting
  <2>2. Bounded'  BY <1>2, BoundedKept DEF Collected, Answer, ToolTypeOK
  <2> QED  BY <2>1, <2>2
<1>3. CASE Drain(c)
  <2>1. ToolTypeOK' /\ Silent'
    BY <1>3 DEF Drain, Drained, PipeClosed, Answer, ToolTypeOK, Silent, processes, resting
  <2>2. Bounded'  BY <1>3, BoundedKept DEF Drain, Answer, ToolTypeOK
  <2> QED  BY <2>1, <2>2
<1>4. CASE CancelAgain(c)
  <2>1. ToolTypeOK' /\ Silent'
    BY <1>4 DEF CancelAgain, Answer, ToolTypeOK, Silent, processes, resting
  <2>2. Bounded'  BY <1>4, BoundedKept DEF CancelAgain, Answer, ToolTypeOK
  <2> QED  BY <2>1, <2>2
<1>5. ASSUME NEW ending \in {"timeout", "cancelled"}, KillGroup(c, ending) PROVE ToolInv'
  <2>1. ToolTypeOK'
    BY <1>5 DEF KillGroup, Killed, ToolTypeOK, resting
  <2>2. Silent'
    BY <1>5 DEF KillGroup, Killed, ToolTypeOK, Silent
  <2>3. Bounded'  BY <1>5, BoundedKept DEF KillGroup, ToolTypeOK
  <2> QED  BY <2>1, <2>2, <2>3
<1> QED  BY <1>1, <1>2, <1>3, <1>4, <1>5

----------------------------------------------------------------------------
(* Rests *)

\* A rest is granted no more than the longest one nor than what is left.
LEMMA GrantedBounds ==
  ASSUME RestAssumption, ToolInv, NEW asked \in Asked, used < Total
  PROVE  Granted(asked) \in 0..MaxRest /\ used + Granted(asked) <= Total
<1> USE DEF ToolInv, ToolTypeOK, RestAssumption
<1>1. \A x, y \in Nat : Least({x, y}) \in Nat /\ Least({x, y}) <= x /\ Least({x, y}) <= y
  <2> SUFFICES ASSUME NEW x \in Nat, NEW y \in Nat
               PROVE  Least({x, y}) \in {x, y} /\ \A z \in {x, y} : Least({x, y}) <= z
    OBVIOUS
  <2>1. \E m \in {x, y} : \A z \in {x, y} : m <= z
    <3>1. CASE x <= y  BY <3>1
    <3>2. CASE y <= x  BY <3>2
    <3> QED  BY <3>1, <3>2
  <2> QED  BY <2>1 DEF Least
<1>2. asked \in Nat /\ Total - used \in Nat  OBVIOUS
<1>3. Clamped(asked) \in Nat /\ Clamped(asked) <= MaxRest  BY <1>1, <1>2 DEF Clamped
<1>4. /\ Granted(asked) \in Nat /\ Granted(asked) <= Clamped(asked)
      /\ Granted(asked) <= Total - used
  BY <1>1, <1>2, <1>3 DEF Granted
<1> QED  BY <1>2, <1>3, <1>4

\* A rest starts: what it is granted is left, or it is one more that overlaps.
LEMMA StartRestStep ==
  ASSUME RestAssumption, ToolInv, NEW c \in Calls, NEW asked \in Asked, StartRest(c, asked)
  PROVE  ToolInv'
<1> USE DEF ToolInv
<1>1. CASE used >= Total
  <2>1. ToolTypeOK' /\ Silent'
    BY <1>1 DEF StartRest, Call, ToolTypeOK, Silent, processes, resting
  <2>2. Bounded'  BY <1>1, BoundedKept DEF StartRest, Call, ToolTypeOK
  <2> QED  BY <2>1, <2>2
<1>2. CASE used < Total
  <2>0. /\ stage[c] = "idle" /\ stage' = [stage EXCEPT ![c] = "rest"]
        /\ kind' = [kind EXCEPT ![c] = "rest"]
        /\ granted' = [granted EXCEPT ![c] = Granted(asked)]
        /\ overlaps' = IF \E d \in Calls : stage[d] = "rest" THEN overlaps + 1 ELSE overlaps
        /\ UNCHANGED <<how, processes, got, used>>
    BY <1>2 DEF StartRest, Call, ToolTypeOK, RestAssumption
  <2> DEFINE g == Granted(asked)
             n == Cardinality(Resting)
  <2>1. g \in 0..MaxRest /\ used + g <= Total  BY <1>2, GrantedBounds
  <2>2. ToolTypeOK' /\ Silent'
    <3> HIDE DEF g
    <3> QED  BY <2>0, <2>1 DEF ToolTypeOK, Silent, processes, g
  <2>3. /\ Resting' = Resting \cup {c} /\ c \notin Resting /\ IsFiniteSet(Resting) /\ n \in Nat
        /\ Cardinality(Resting') = n + 1
    <3>1. Resting \in SUBSET Calls /\ IsFiniteSet(Resting)
      BY FS_Subset DEF Resting, RestAssumption
    <3>2. Resting' = Resting \cup {c} /\ c \notin Resting  BY <2>0 DEF Resting, ToolTypeOK
    <3> QED  BY <3>1, <3>2, FS_AddElement, FS_CardinalityType
  <2>4. overlaps' = IF Resting = {} THEN overlaps ELSE overlaps + 1  BY <2>0 DEF Resting
  <2>5. Bounded'
    <3> DEFINE room == (overlaps + 1 - n) * MaxRest
               room1 == (overlaps' + 1 - (n + 1)) * MaxRest
    <3>1. CASE Resting = {}
      <4>1. n = 0 /\ overlaps' = overlaps  BY <2>4, <3>1, FS_EmptySet
      <4>2. room1 = overlaps * MaxRest /\ room1 \in Nat
        BY <4>1, OneMoreRest DEF ToolTypeOK, RestAssumption
      <4>3. \A d \in Resting' : d = c /\ granted'[d] = g  BY <2>0, <2>3, <3>1 DEF ToolTypeOK
      <4>0. room1 = (overlaps' + 1 - Cardinality(Resting')) * MaxRest  BY <2>3
      <4> HIDE DEF g, n, room1
      <4>4. \A d \in Resting' : used' + granted'[d] <= Total + room1
        BY <2>0, <2>1, <4>2, <4>3 DEF ToolTypeOK, RestAssumption
      <4>5. used' <= Total + overlaps' * MaxRest
        BY <2>0, <4>1, <4>2 DEF Bounded, ToolTypeOK, RestAssumption
      <4>6. Cardinality(Resting') <= overlaps' + 1 /\ IsFiniteSet(Resting')
        BY <2>3, <3>1, <4>1, FS_EmptySet, FS_AddElement DEF ToolTypeOK, n
      <4>7. \A d \in Resting' : used' + granted'[d] <= Total + (overlaps' + 1 - Cardinality(Resting')) * MaxRest
        BY <4>0, <4>4
      <4> QED  BY <4>5, <4>6, <4>7 DEF Bounded
    <3>2. CASE Resting # {}
      <4>1. overlaps' = overlaps + 1 /\ n <= overlaps + 1 /\ overlaps \in Nat
        BY <2>4, <3>2 DEF Bounded, ToolTypeOK
      <4>2. overlaps' + 1 - (n + 1) = overlaps + 1 - n /\ overlaps + 1 - n \in Nat
        BY <2>3, <4>1
      <4>3. room1 = room /\ room \in Nat  BY <4>2, OneMoreRest DEF RestAssumption
      <4>4. \A d \in Resting' : (d = c /\ granted'[d] = g) \/ (d \in Resting /\ granted'[d] = granted[d])
        BY <2>0, <2>3 DEF ToolTypeOK
      <4> HIDE DEF g
      <4>5. \A d \in Resting : used + granted[d] <= Total + room  BY DEF Bounded
      <4>6. \A d \in Resting' : used' + granted'[d] <= Total + room1
        <5> HIDE DEF room, room1
        <5> QED  BY <2>0, <2>1, <4>3, <4>4, <4>5 DEF ToolTypeOK, RestAssumption
      <4>7. used' <= Total + overlaps' * MaxRest
        <5>1. overlaps' * MaxRest = overlaps * MaxRest + MaxRest /\ overlaps * MaxRest \in Nat
          BY <4>1, OneMoreRest DEF RestAssumption
        <5> QED  BY <2>0, <5>1 DEF Bounded, ToolTypeOK, RestAssumption
      <4> HIDE DEF n, room
      <4>8. Cardinality(Resting') <= overlaps' + 1  BY <2>3, <4>1
      <4> QED  BY <2>3, <4>6, <4>7, <4>8 DEF Bounded
    <3> QED  BY <3>1, <3>2
  <2> QED  BY <2>2, <2>5
<1> QED  BY <1>1, <1>2 DEF ToolTypeOK, RestAssumption

\* A rest ends: what it used it was granted, and there is one less that may add.
LEMMA EndRestStep ==
  ASSUME RestAssumption, ToolInv, NEW c \in Calls, NEW ending \in {"rested", "cancelled"},
         NEW waited \in 0..MaxRest, EndRest(c, ending, waited)
  PROVE  ToolInv'
<1> USE DEF ToolInv
<1> DEFINE n == Cardinality(Resting)
           room == (overlaps + 1 - n) * MaxRest
           room1 == (overlaps + 1 - (n - 1)) * MaxRest
<1>0. /\ stage[c] = "rest" /\ stage' = [stage EXCEPT ![c] = "done"] /\ waited <= granted[c]
      /\ how' = [how EXCEPT ![c] = ending] /\ used' \in {used, used + waited}
      /\ UNCHANGED <<kind, processes, got, granted, overlaps>>
  BY DEF EndRest, Answer
<1>1. used' \in Nat /\ used' <= used + granted[c]  BY <1>0 DEF ToolTypeOK, RestAssumption
<1>2. ToolTypeOK'  BY <1>0, <1>1 DEF ToolTypeOK, processes
<1>3. Silent'  BY <1>0 DEF ToolTypeOK, Silent, processes
<1>4. /\ Resting' = Resting \ {c} /\ c \in Resting /\ n \in Nat /\ n >= 1
      /\ Cardinality(Resting') = n - 1
  <2>1. Resting \in SUBSET Calls /\ IsFiniteSet(Resting)
    BY FS_Subset DEF Resting, RestAssumption
  <2>2. Resting' = Resting \ {c} /\ c \in Resting  BY <1>0 DEF Resting, ToolTypeOK
  <2>3. n # 0  BY <2>1, <2>2, FS_EmptySet
  <2> QED  BY <2>1, <2>2, <2>3, FS_RemoveElement, FS_CardinalityType
<1>5. overlaps + 1 - n \in Nat /\ overlaps + 1 - (n - 1) = (overlaps + 1 - n) + 1 /\ overlaps \in Nat
  BY <1>4 DEF Bounded, ToolTypeOK
<1>6. room \in Nat /\ room1 = room + MaxRest  BY <1>5, OneMoreRest DEF RestAssumption
<1>7. used + granted[c] <= Total + room  BY <1>4 DEF Bounded
<1>8. room <= overlaps * MaxRest
  <2>1. overlaps + 1 - n <= overlaps  BY <1>4, <1>5
  <2>2. \A x, y, m \in Nat : x <= y => x * m <= y * m  OBVIOUS
  <2> QED  BY <1>5, <2>1, <2>2 DEF RestAssumption
<1>9. Bounded'
  <2> HIDE DEF room
  <2>1. used' <= Total + room
    BY <1>0, <1>1, <1>6, <1>7 DEF ToolTypeOK, RestAssumption
  <2>2. used' <= Total + overlaps' * MaxRest
    <3>1. overlaps * MaxRest \in Nat  BY <1>5, OneMoreRest DEF RestAssumption
    <3> QED  BY <1>0, <1>1, <1>6, <1>8, <2>1, <3>1 DEF RestAssumption
  <2> HIDE DEF room1
  <2>3. \A d \in Resting' : used' + granted'[d] <= Total + room1
    <3>1. \A d \in Resting' : granted'[d] = granted[d] /\ granted[d] \in 0..MaxRest
      BY <1>0 DEF ToolTypeOK, Resting
    <3> QED  BY <1>1, <1>6, <2>1, <3>1 DEF RestAssumption
  <2> HIDE DEF n
  <2>4. Cardinality(Resting') <= overlaps' + 1  BY <1>0, <1>4, <1>5
  <2> QED  BY <1>0, <1>4, <2>2, <2>3, <2>4 DEF Bounded, room1
<1> QED  BY <1>2, <1>3, <1>9

----------------------------------------------------------------------------
\* Every step of the tools keeps the invariant.
LEMMA NextToolInv == ASSUME RestAssumption, ToolInv, [ToolsNext]_toolVars PROVE ToolInv'
<1>1. CASE UNCHANGED toolVars
  <2>1. Bounded'  BY <1>1, BoundedKept DEF toolVars, ToolInv
  <2> QED  BY <1>1, <2>1 DEF toolVars, processes, resting, ToolInv, ToolTypeOK, Silent
<1>2. CASE ToolsNext
  <2>1. ASSUME NEW c \in Calls, NEW p \in Group \cup Holders, Fork(c, p) \/ ProcessExits(c, p) PROVE ToolInv'
    BY <2>1, ProcessStep
  <2>2. ASSUME NEW c \in Calls, PrintOutput(c) PROVE ToolInv'
    BY <2>2, ProcessStep DEF Group
  <2>3. {"child", "quiet", "escapee"} \subseteq Group \cup Holders  BY DEF Group, Holders
  <2> QED  BY <1>2, <2>1, <2>2, <2>3, StartStep, CommandStep, StartRestStep, EndRestStep DEF ToolsNext
<1> QED  BY <1>1, <1>2

\* workspace.py, tools.py, for any calls in parallel and any options: a command that ended
\* or timed out answers with all it printed, what was killed leaves nothing of its group,
\* and rests pass the total by at most the longest rest for each that overlapped another.
THEOREM ToolsAreTrueHolds == ASSUME RestAssumption PROVE ToolsSpec => []ToolsAreTrue
<1>1. ToolsInit => ToolInv  BY InitToolInv
<1>2. ToolInv /\ [ToolsNext]_toolVars => ToolInv'  BY NextToolInv
<1>3. ToolInv => ToolsAreTrue
  <2>1. ToolInv => CommandsAreWhole
    BY DEF ToolInv, ToolTypeOK, Silent, CommandsAreWhole
  <2>2. ToolInv => RestsAreBounded  BY DEF ToolInv, Bounded, RestsAreBounded
  <2> QED  BY <2>1, <2>2 DEF ToolsAreTrue
<1> QED  BY <1>1, <1>2, <1>3, PTL DEF ToolsSpec

----------------------------------------------------------------------------
(* One process, from its command line to its exit code *)

Names == {"trace"} \cup Briefs
Live == {"none", "open"} \cup Over
InIteration == {"turn", "gates", "unwinding"}
InProbe == {"probing", "agent", "cleaning", "probed"}
Points == {"starting", "entering", "loop", "leaving", "saving", "flushing", "exited"} \cup InIteration \cup InProbe
Reasons == {"none", "cancelled", "config", "error"}

ProcessTypes ==
  /\ command \in {"check", "run", "probe"} /\ traced \in BOOLEAN /\ cancelling \in BOOLEAN
  /\ point \in Points /\ raised \in Reasons /\ received \in Seq({SIGTERM, SIGINT}) /\ iteration \in 0..MaxRounds
  /\ task \in [Briefs -> {"none", "created", "running", "cancelled", "over"}]
  /\ obs \in [Observations -> Live] /\ sent \subseteq Finished /\ exit \in Int

\* Where the main task is tells the iteration it is in and what its briefs may be at.
TasksHavePlaces ==
  /\ point = "starting" => iteration = 0 /\ raised = "none" /\ ~cancelling
  /\ point \in InIteration \cup InProbe => iteration \in 1..MaxRounds
  /\ point \in InProbe => command = "probe" /\ iteration = 1
  /\ command = "probe" => point \in {"starting", "flushing", "exited"} \cup InProbe
  /\ \A b \in Briefs :
       /\ task[b] = "created" => point = "turn"
       /\ task[b] = "running" => point \in {"turn", "agent"}
       /\ task[b] = "cancelled" => point = "unwinding"
  /\ point \in {"starting", "probing"} => \A b \in Briefs : task[b] = "none"
  /\ point = "agent" => \E b \in Briefs : \A c \in Briefs : task[c] = "running" <=> c = b

\* An observation is open exactly while what it observes goes on, and only in the iteration
\* that goes on.
OpenIsUnderway ==
  /\ ~traced => \A i \in 1..MaxRounds, x \in Names : obs[<<i, x>>] = "none"
  /\ \A i \in 1..MaxRounds, x \in Names : i > iteration => obs[<<i, x>>] = "none"
  /\ \A i \in 1..MaxRounds, x \in Names : i < iteration => obs[<<i, x>>] # "open"
  /\ iteration > 0 =>
       /\ obs[Trace(iteration)] = "open" <=> traced /\ point \in InIteration \cup InProbe
       /\ \A b \in Briefs :
            /\ task[b] \in {"none", "created"} => obs[<<iteration, b>>] = "none"
            /\ obs[<<iteration, b>>] = "open" <=> traced /\ task[b] \in {"running", "cancelled"}

\* What is stopped was stopped by a signal, and the process does not forget that.
StopsHaveReasons ==
  /\ point = "unwinding" => raised # "none"
  /\ raised = "cancelled" \/ cancelling => received # <<>>
  /\ \A i \in 1..MaxRounds, x \in Names : obs[<<i, x>>] = "stopped" => raised # "none"
  /\ \A i \in 1..MaxRounds : obs[Trace(i)] = "stopped" => received # <<>>
  /\ exit # -1 <=> point = "exited"

ProcessInv == ProcessTypes /\ TasksHavePlaces /\ OpenIsUnderway /\ StopsHaveReasons /\ StopsAreMarked

\* Observations are pairs of an iteration and a name.
LEMMA PairsAreObservations ==
  /\ \A i \in 1..MaxRounds, x \in Names : <<i, x>> \in Observations
  /\ \A o \in Observations : \E i \in 1..MaxRounds, x \in Names : o = <<i, x>>
  /\ \A i \in 1..MaxRounds : Trace(i) = <<i, "trace">> /\ Trace(i) \in Observations
  /\ "trace" \in Names /\ Briefs \subseteq Names /\ \A x \in Names : x = "trace" \/ x \in Briefs
  /\ "trace" \notin Briefs
<1>1. "trace" \notin Briefs  BY ProcessAssumption
<1>2. Observations = (1..MaxRounds) \X Names  BY DEF Observations, Names
<1>3. \A i \in 1..MaxRounds, x \in Names : <<i, x>> \in Observations  BY <1>2
<1>4. \A o \in Observations : \E i \in 1..MaxRounds, x \in Names : o = <<i, x>>  BY <1>2
<1>5. "trace" \in Names /\ Briefs \subseteq Names /\ \A x \in Names : x = "trace" \/ x \in Briefs  BY DEF Names
<1>6. \A i \in 1..MaxRounds : Trace(i) = <<i, "trace">> /\ Trace(i) \in Observations  BY <1>3, <1>5 DEF Trace
<1> QED  BY <1>1, <1>3, <1>4, <1>5, <1>6

\* What becomes of the observations when one begins.
LEMMA BeginOne ==
  ASSUME ProcessTypes, NEW i \in 1..MaxRounds, NEW x \in Names, Begin(<<i, x>>)
  PROVE  /\ obs' \in [Observations -> Live]
         /\ \A j \in 1..MaxRounds, y \in Names :
              obs'[<<j, y>>] = IF i = j /\ x = y /\ traced THEN "open" ELSE obs[<<j, y>>]
<1>1. <<i, x>> \in Observations /\ obs \in [Observations -> Live] /\ "open" \in Live
  BY PairsAreObservations DEF ProcessTypes, Live
<1>2. obs' = [obs EXCEPT ![<<i, x>>] = IF traced THEN "open" ELSE obs[<<i, x>>]]  BY DEF Begin
<1>3. obs' \in [Observations -> Live]  BY <1>1, <1>2
<1>4. ASSUME NEW j \in 1..MaxRounds, NEW y \in Names
      PROVE  obs'[<<j, y>>] = IF i = j /\ x = y /\ traced THEN "open" ELSE obs[<<j, y>>]
  <2>1. <<j, y>> \in Observations  BY PairsAreObservations
  <2>2. <<j, y>> = <<i, x>> <=> i = j /\ x = y  OBVIOUS
  <2> QED  BY <1>1, <1>2, <2>1, <2>2
<1> QED  BY <1>3, <1>4

LEMMA EndOne ==
  ASSUME ProcessTypes, NEW i \in 1..MaxRounds, NEW x \in Names, NEW sort \in Over, End(<<i, x>>, sort)
  PROVE  /\ obs' \in [Observations -> Live]
         /\ \A j \in 1..MaxRounds, y \in Names :
              obs'[<<j, y>>] = IF i = j /\ x = y /\ obs[<<j, y>>] = "open" THEN sort ELSE obs[<<j, y>>]
<1>1. <<i, x>> \in Observations /\ obs \in [Observations -> Live] /\ sort \in Live
  BY PairsAreObservations DEF ProcessTypes, Live
<1>2. obs' = [obs EXCEPT ![<<i, x>>] = IF obs[<<i, x>>] = "open" THEN sort ELSE obs[<<i, x>>]]  BY DEF End
<1>3. obs' \in [Observations -> Live]  BY <1>1, <1>2
<1>4. ASSUME NEW j \in 1..MaxRounds, NEW y \in Names
      PROVE  obs'[<<j, y>>] = IF i = j /\ x = y /\ obs[<<j, y>>] = "open" THEN sort ELSE obs[<<j, y>>]
  <2>1. <<j, y>> \in Observations  BY PairsAreObservations
  <2>2. <<j, y>> = <<i, x>> <=> i = j /\ x = y  OBVIOUS
  <2> QED  BY <1>1, <1>2, <2>1, <2>2
<1> QED  BY <1>3, <1>4

\* What has ended stays as it is.
Held == sent \subseteq sent' /\ \A o \in Observations : obs[o] \in Over => obs'[o] = obs[o]

\* The steps of the main task and its briefs leave sent alone; what they do with
\* observations keeps what has ended.
LEMMA FinishedGrows ==
  ASSUME ProcessTypes, obs' \in [Observations -> Live], sent' = sent,
         \A i \in 1..MaxRounds, x \in Names : obs[<<i, x>>] \in Over => obs'[<<i, x>>] = obs[<<i, x>>]
  PROVE  Held /\ sent' \subseteq Finished'
<1>1. \A o \in Observations : obs[o] \in Over => obs'[o] = obs[o]  BY PairsAreObservations
<1>2. sent' \subseteq Finished'  BY <1>1 DEF ProcessTypes, Finished
<1> QED  BY <1>1, <1>2 DEF Held

\* A process that has not exited has nothing to answer for yet but its traces.
LEMMA NotExited ==
  ASSUME exit = -1, \A i \in 1..MaxRounds : obs[Trace(i)] = "stopped" => received # <<>>
  PROVE  StopsAreMarked
BY DEF StopsAreMarked

\* An open brief has an open trace.
BriefsInTraces == \A i \in 1..MaxRounds, b \in Briefs : obs[<<i, b>>] = "open" => obs[Trace(i)] = "open"

LEMMA BriefsAreInTraces ==
  ASSUME ProcessTypes, TasksHavePlaces, OpenIsUnderway
  PROVE  BriefsInTraces
<1> SUFFICES ASSUME NEW i \in 1..MaxRounds, NEW b \in Briefs, obs[<<i, b>>] = "open" PROVE obs[Trace(i)] = "open"
  BY DEF BriefsInTraces
<1>1. b \in Names /\ iteration \in Nat  BY PairsAreObservations DEF ProcessTypes
<1>2. i = iteration  BY <1>1 DEF OpenIsUnderway
<1>3. traced /\ task[b] \in {"running", "cancelled"}  BY <1>1, <1>2 DEF OpenIsUnderway
<1>4. point \in InIteration \cup InProbe  BY <1>3 DEF TasksHavePlaces, InIteration, InProbe
<1> QED  BY <1>2, <1>3, <1>4 DEF OpenIsUnderway

LEMMA ProcessInvStarts == ProcessInit => ProcessInv
<1> SUFFICES ASSUME ProcessInit PROVE ProcessInv  OBVIOUS
<1> USE DEF ProcessInit
<1>1. \A i \in 1..MaxRounds, x \in Names : obs[<<i, x>>] = "none"  BY PairsAreObservations
<1>2. \A i \in 1..MaxRounds : obs[Trace(i)] = "none"  BY PairsAreObservations
<1>3. ProcessTypes
  <2>1. iteration \in 0..MaxRounds  BY ProcessAssumption
  <2>2. obs \in [Observations -> Live]  BY DEF Live
  <2>3. task \in [Briefs -> {"none", "created", "running", "cancelled", "over"}]  OBVIOUS
  <2>4. received \in Seq({SIGTERM, SIGINT}) /\ point \in Points /\ raised \in Reasons  BY DEF Points, Reasons
  <2>5. sent \subseteq Finished /\ exit \in Int  OBVIOUS
  <2>7. cancelling \in BOOLEAN  OBVIOUS
  <2>6. command \in {"check", "run", "probe"} /\ traced \in BOOLEAN  OBVIOUS
  <2> QED  BY <2>1, <2>2, <2>3, <2>4, <2>5, <2>6, <2>7 DEF ProcessTypes
<1>4. TasksHavePlaces  BY DEF TasksHavePlaces, InIteration, InProbe
<1>5. OpenIsUnderway  BY <1>1 DEF OpenIsUnderway
<1>6. StopsHaveReasons  BY <1>1, <1>2 DEF StopsHaveReasons
<1>7. StopsAreMarked  BY <1>2, NotExited
<1> QED  BY <1>3, <1>4, <1>5, <1>6, <1>7 DEF ProcessInv

\* What a step does to the observations, to be kept: the invariant of the rest.
LEMMA Kept ==
  ASSUME ProcessInv, ProcessTypes', TasksHavePlaces', OpenIsUnderway', exit' = -1, point' # "exited",
         point' = "unwinding" => raised' # "none", raised' = "cancelled" \/ cancelling' => received' # <<>>,
         \A i \in 1..MaxRounds, x \in Names : obs'[<<i, x>>] = "stopped" => raised' # "none",
         \A i \in 1..MaxRounds : obs'[<<i, "trace">>] = "stopped" => received' # <<>>
  PROVE  ProcessInv'
<1>1. StopsHaveReasons'  BY DEF StopsHaveReasons, Trace
<1>2. StopsAreMarked'  BY DEF StopsAreMarked, Trace
<1> QED  BY <1>1, <1>2 DEF ProcessInv

LEMMA Unset == -1 \in Int
OBVIOUS

\* Steps that leave the briefs and the observations alone.
LEMMA QuietKeeps ==
  ASSUME ProcessInv, UNCHANGED <<fixed, iteration, task, traces>>,
         point' \in Points, raised' \in Reasons, received' \in Seq({SIGTERM, SIGINT}), cancelling' \in BOOLEAN,
         exit' = -1, point' \notin {"starting", "exited"}, raised # "none" => raised' # "none",
         received # <<>> => received' # <<>>, raised' = "cancelled" \/ cancelling' => received' # <<>>,
         point' \in InIteration <=> point \in InIteration, point' \in InProbe <=> point \in InProbe,
         point' = point \/ (\A b \in Briefs : task[b] \in {"none", "over"}),
         point' = "agent" <=> point = "agent", point' = "probing" => point = "probing", point' = "unwinding" <=> point = "unwinding",
         command = "probe" => point' \in {"starting", "flushing"} \cup InProbe
  PROVE  ProcessInv' /\ Held
<1> USE DEF ProcessInv, fixed, traces
<1>1. Finished' = Finished  BY DEF Finished
<1>2. ProcessTypes' /\ Held
  <2>1. command' \in {"check", "run", "probe"}  BY DEF ProcessTypes
  <2>7. exit' \in Int
    <3>1. exit' = -1  OBVIOUS
    <3> QED  BY <3>1, Unset
  <2>6. traced' \in BOOLEAN  BY DEF ProcessTypes
  <2>2. iteration' \in 0..MaxRounds /\ task' \in [Briefs -> {"none", "created", "running", "cancelled", "over"}]
    BY DEF ProcessTypes
  <2>3. obs' = obs /\ sent' = sent /\ obs' \in [Observations -> Live] /\ sent' \subseteq Finished'
    BY <1>1 DEF ProcessTypes
  <2>4. received' \in Seq({SIGTERM, SIGINT})  OBVIOUS
  <2>5. ProcessTypes'  BY <2>1, <2>2, <2>3, <2>4, <2>6, <2>7 DEF ProcessTypes
  <2> QED  BY <2>3, <2>5 DEF Held
<1>3. TasksHavePlaces'
  BY DEF TasksHavePlaces, ProcessTypes
<1>4. OpenIsUnderway'  BY DEF OpenIsUnderway, Trace
<1>5. \A i \in 1..MaxRounds, x \in Names : obs'[<<i, x>>] = "stopped" => raised' # "none"
  BY DEF StopsHaveReasons
<1>6. \A i \in 1..MaxRounds : obs'[<<i, "trace">>] = "stopped" => received' # <<>>
  BY DEF StopsHaveReasons, Trace
<1>7. point' = "unwinding" => raised' # "none"  BY DEF StopsHaveReasons
<1> QED  BY <1>2, <1>3, <1>4, <1>5, <1>6, <1>7, Kept

\* A signal more is a signal.
LEMMA Signals ==
  ASSUME ProcessTypes, NEW signum \in {SIGTERM, SIGINT}, received' = Append(received, signum)
  PROVE  received' \in Seq({SIGTERM, SIGINT}) /\ received' # <<>>
BY AppendProperties DEF ProcessTypes

LEMMA QuietStepsKeep ==
  ASSUME ProcessInv,
         Signal \/ Enter \/ LoopEnds \/ TurnEnds \/ Cancelled \/ Leave \/ Save \/ ProbeFails \/ CleanUp
         \/ (Start /\ point' # "exited")
  PROVE  ProcessInv' /\ Held
<1> USE DEF ProcessInv
<1>0. /\ point \in Points /\ raised \in Reasons /\ received \in Seq({SIGTERM, SIGINT}) /\ cancelling \in BOOLEAN
      /\ (exit = -1 <=> point # "exited") /\ (raised = "cancelled" \/ cancelling => received # <<>>)
      /\ (point = "starting" => raised = "none" /\ ~cancelling)
      /\ (command = "probe" => point \in {"starting", "flushing", "exited"} \cup InProbe)
      /\ (point \in InProbe => command = "probe")
      /\ (point \notin {"turn", "agent", "unwinding"} => \A b \in Briefs : task[b] \in {"none", "over"})
  BY DEF ProcessTypes, TasksHavePlaces, StopsHaveReasons
<1>1. CASE Signal
  <2>1. PICK signum \in {SIGTERM, SIGINT} : received' = Append(received, signum)  BY <1>1 DEF Signal
  <2>2. received' \in Seq({SIGTERM, SIGINT}) /\ received' # <<>>  BY <2>1, Signals
  <2>3. /\ UNCHANGED <<fixed, point, raised, iteration, task, traces, exit>> /\ point \notin {"starting", "exited"}
        /\ cancelling' \in BOOLEAN
    BY <1>0, <1>1 DEF Signal, Suspended
  <2> QED  BY <1>0, <2>2, <2>3, QuietKeeps
<1>2. CASE Start /\ point' # "exited"
  <2>1. point = "starting" /\ point' = "entering" /\ UNCHANGED <<fixed, raised, cancelling, received, iteration, task, traces, exit>>
        /\ command # "probe"
    BY <1>2 DEF Start, ExitWith, Goto
  <2> QED  BY <1>0, <2>1, QuietKeeps DEF Points, InIteration, InProbe
<1>3. CASE Enter
  <2>1. /\ point = "entering" /\ point' \in {"loop", "saving"} /\ UNCHANGED <<fixed, cancelling, received, iteration, task, traces, exit>>
        /\ raised' \in {raised, "config", "error"}
    BY <1>3 DEF Enter, Goto, Raise
  <2> QED  BY <1>0, <2>1, QuietKeeps DEF Points, Reasons, InIteration, InProbe
<1>4. CASE LoopEnds
  <2>1. /\ point = "loop" /\ point' = "leaving" /\ UNCHANGED <<fixed, cancelling, received, iteration, task, traces, exit>>
        /\ raised' \in {raised, "config", "error"}
    BY <1>4 DEF LoopEnds, Goto, Raise
  <2> QED  BY <1>0, <2>1, QuietKeeps DEF Points, Reasons, InIteration, InProbe
<1>5. CASE TurnEnds
  <2>1. /\ point = "turn" /\ point' = "gates" /\ UNCHANGED <<fixed, cancelling, raised, received, iteration, task, traces, exit>>
        /\ Done = Briefs
    BY <1>5 DEF TurnEnds, Goto
  <2>2. \A b \in Briefs : task[b] \in {"none", "over"}  BY <2>1 DEF Done
  <2> QED  BY <1>0, <2>1, <2>2, QuietKeeps DEF Points, InIteration, InProbe
<1>6. CASE Cancelled
  <2>1. /\ cancelling /\ point \in {"entering", "loop"} /\ point' \in {"saving", "leaving"} /\ raised' = "cancelled"
        /\ cancelling' = FALSE /\ UNCHANGED <<fixed, received, iteration, task, traces, exit>>
    BY <1>6 DEF Cancelled, Raise
  <2> QED  BY <1>0, <2>1, QuietKeeps DEF Points, Reasons, InIteration, InProbe
<1>7. CASE Leave
  <2>1. /\ point = "leaving" /\ point' = "saving" /\ raised' \in {Reason, "error"}
        /\ cancelling' = FALSE /\ UNCHANGED <<fixed, received, iteration, task, traces, exit>>
    BY <1>7 DEF Leave, Raise
  <2>2. raised' \in Reasons /\ (raised # "none" => raised' # "none") /\ (raised' = "cancelled" => received # <<>>)
    BY <1>0, <2>1 DEF Reason, Reasons
  <2> QED  BY <1>0, <2>1, <2>2, QuietKeeps DEF Points, InIteration, InProbe
<1>8. CASE Save
  <2>1. /\ point = "saving" /\ point' = "flushing" /\ raised' \in {raised, "error"}
        /\ UNCHANGED <<fixed, cancelling, received, iteration, task, traces, exit>>
    BY <1>8 DEF Save, Raise
  <2> QED  BY <1>0, <2>1, QuietKeeps DEF Points, Reasons, InIteration, InProbe
<1>9. CASE ProbeFails
  <2>1. /\ point = "probing" /\ point' = "probed" /\ UNCHANGED <<fixed, cancelling, iteration, task, traces, exit>>
        /\ \/ received' = Append(received, SIGINT) /\ raised' = "cancelled"
           \/ received' = received /\ raised' \in {"config", "error"}
    BY <1>9 DEF ProbeFails, SignalProbe, Raise
  <2>2. received' \in Seq({SIGTERM, SIGINT}) /\ (received' = received \/ received' # <<>>)  BY <1>0, <2>1, Signals
  <2>3. (raised' = "cancelled" \/ cancelling => received' # <<>>) /\ (received # <<>> => received' # <<>>)
    BY <1>0, <2>1, <2>2, Signals
  <2> QED  BY <1>0, <2>1, <2>2, <2>3, QuietKeeps DEF Points, Reasons, InIteration, InProbe
<1>10. CASE CleanUp
  <2>1. /\ point = "cleaning" /\ point' \in {"cleaning", "probed"} /\ UNCHANGED <<fixed, cancelling, iteration, task, traces, exit>>
        /\ \/ received' = Append(received, SIGINT) /\ raised' = "cancelled"
           \/ received' = received /\ raised' \in {raised, "error"}
    BY <1>10 DEF CleanUp, SignalProbe, Raise, Goto, flow
  <2>2. received' \in Seq({SIGTERM, SIGINT}) /\ (received' = received \/ received' # <<>>)  BY <1>0, <2>1, Signals
  <2>3. (raised' = "cancelled" \/ cancelling => received' # <<>>) /\ (received # <<>> => received' # <<>>)
    BY <1>0, <2>1, <2>2, Signals
  <2>4. raised' \in Reasons /\ (raised # "none" => raised' # "none")  BY <1>0, <2>1 DEF Reasons
  <2> QED  BY <1>0, <2>1, <2>2, <2>3, <2>4, QuietKeeps DEF Points, InIteration, InProbe
<1> QED  BY <1>1, <1>2, <1>3, <1>4, <1>5, <1>6, <1>7, <1>8, <1>9, <1>10


\* Steps of the briefs, and those that begin and end observations.
LEMMA Typed ==
  ASSUME ProcessInv, UNCHANGED <<fixed, sent>>, point' \in Points, raised' \in Reasons, cancelling' \in BOOLEAN,
         received' \in Seq({SIGTERM, SIGINT}), iteration' \in 0..MaxRounds, exit' = -1,
         task' \in [Briefs -> {"none", "created", "running", "cancelled", "over"}], obs' \in [Observations -> Live],
         \A i \in 1..MaxRounds, x \in Names : obs[<<i, x>>] \in Over => obs'[<<i, x>>] = obs[<<i, x>>]
  PROVE  ProcessTypes' /\ Held
<1> USE DEF fixed
<1>1. ProcessTypes  BY DEF ProcessInv
<1>2. Held /\ sent' \subseteq Finished'  BY <1>1, FinishedGrows
<1>3. command' \in {"check", "run", "probe"}  BY <1>1 DEF ProcessTypes
<1>4. traced' \in BOOLEAN  BY <1>1 DEF ProcessTypes
<1>5. exit' \in Int  
  <2>1. exit' = -1  OBVIOUS
  <2> QED  BY <2>1, Unset
<1>6. ProcessTypes'  BY <1>2, <1>3, <1>4, <1>5 DEF ProcessTypes
<1> QED  BY <1>2, <1>6

LEMMA StartBriefKeeps == ASSUME ProcessInv, NEW b \in Briefs, StartBrief(b) PROVE ProcessInv' /\ Held
<1> USE DEF ProcessInv, fixed, flow, traces
<1>1. /\ point = "turn" /\ task[b] = "none" /\ task' = [task EXCEPT ![b] = "created"]
      /\ UNCHANGED <<fixed, point, raised, cancelling, received, iteration, obs, sent, exit>>
  BY DEF StartBrief
<1>2. exit = -1 /\ exit' = -1  BY <1>1 DEF StopsHaveReasons
<1>3. /\ task' \in [Briefs -> {"none", "created", "running", "cancelled", "over"}]
      /\ \A c \in Briefs : task'[c] = IF c = b THEN "created" ELSE task[c]
  BY <1>1 DEF ProcessTypes
<1>4. ProcessTypes' /\ Held
  <2>1. point \in Points /\ raised \in Reasons /\ received \in Seq({SIGTERM, SIGINT}) /\ iteration \in 0..MaxRounds
        /\ obs \in [Observations -> Live]
    BY DEF ProcessTypes
  <2>2. cancelling' \in BOOLEAN  BY <1>1 DEF ProcessTypes
  <2> QED  BY <1>1, <1>2, <1>3, <2>1, <2>2, Typed
<1>5. TasksHavePlaces'  BY <1>1, <1>3 DEF TasksHavePlaces, InProbe
<1>6. OpenIsUnderway'  BY <1>1, <1>3 DEF OpenIsUnderway, Trace
<1>7. /\ point' = "unwinding" => raised' # "none"
      /\ raised' = "cancelled" \/ cancelling' => received' # <<>>
      /\ \A i \in 1..MaxRounds, x \in Names : obs'[<<i, x>>] = "stopped" => raised' # "none"
      /\ \A i \in 1..MaxRounds : obs'[<<i, "trace">>] = "stopped" => received' # <<>>
  BY <1>1 DEF StopsHaveReasons, Trace
<1> QED  BY <1>1, <1>2, <1>4, <1>5, <1>6, <1>7, Kept

\* The brief of an iteration is one of its names, and not its trace.
LEMMA NamesOfBriefs ==
  /\ \A b \in Briefs : b \in Names /\ b # "trace"
  /\ MaxRounds \in Nat \ {0} /\ 1 \in 1..MaxRounds /\ "trace" \in Names
<1>1. MaxRounds \in Nat \ {0} /\ "trace" \notin Briefs  BY ProcessAssumption
<1> QED  BY <1>1 DEF Names

LEMMA BeginBriefKeeps == ASSUME ProcessInv, NEW b \in Briefs, BeginBrief(b) PROVE ProcessInv' /\ Held
<1> USE DEF ProcessInv, fixed, flow, traces
<1>1. /\ task[b] = "created" /\ task' = [task EXCEPT ![b] = "running"] /\ Begin(<<iteration, b>>)
      /\ UNCHANGED <<fixed, point, raised, cancelling, received, iteration, sent, exit>>
  BY DEF BeginBrief
<1>2. point = "turn" /\ iteration \in 1..MaxRounds  BY <1>1 DEF TasksHavePlaces, InIteration
<1>3. exit = -1 /\ exit' = -1  BY <1>1, <1>2 DEF StopsHaveReasons
<1>4. /\ task' \in [Briefs -> {"none", "created", "running", "cancelled", "over"}]
      /\ \A c \in Briefs : task'[c] = IF c = b THEN "running" ELSE task[c]
  BY <1>1 DEF ProcessTypes
<1>5. /\ obs' \in [Observations -> Live]
      /\ \A j \in 1..MaxRounds, y \in Names :
           obs'[<<j, y>>] = IF iteration = j /\ b = y /\ traced THEN "open" ELSE obs[<<j, y>>]
  BY <1>1, <1>2, NamesOfBriefs, BeginOne
<1>6. obs[<<iteration, b>>] = "none"  BY <1>1, <1>2 DEF OpenIsUnderway
<1>7. ProcessTypes' /\ Held
  <2>1. point \in Points /\ raised \in Reasons /\ received \in Seq({SIGTERM, SIGINT}) /\ iteration \in 0..MaxRounds
    BY DEF ProcessTypes
  <2>2. cancelling' \in BOOLEAN  BY <1>1 DEF ProcessTypes
  <2>3. \A i \in 1..MaxRounds, x \in Names : obs[<<i, x>>] \in Over => obs'[<<i, x>>] = obs[<<i, x>>]
    BY <1>5, <1>6 DEF Over
  <2> QED  BY <1>1, <1>3, <1>4, <1>5, <2>1, <2>2, <2>3, Typed
<1>8. TasksHavePlaces'  BY <1>1, <1>2, <1>4 DEF TasksHavePlaces, InProbe
<1>9. OpenIsUnderway'
  <2>1. ~traced' => \A i \in 1..MaxRounds, x \in Names : obs'[<<i, x>>] = "none"
    BY <1>1, <1>5 DEF OpenIsUnderway
  <2>2. \A i \in 1..MaxRounds, x \in Names : i > iteration' => obs'[<<i, x>>] = "none"
    BY <1>1, <1>2, <1>5 DEF OpenIsUnderway
  <2>3. \A i \in 1..MaxRounds, x \in Names : i < iteration' => obs'[<<i, x>>] # "open"
    BY <1>1, <1>2, <1>5 DEF OpenIsUnderway
  <2>4. obs'[Trace(iteration')] = "open" <=> traced' /\ point' \in InIteration \cup InProbe
    BY <1>1, <1>2, <1>5, NamesOfBriefs DEF OpenIsUnderway, Trace
  <2>5. ASSUME NEW c \in Briefs
        PROVE  /\ task'[c] \in {"none", "created"} => obs'[<<iteration', c>>] = "none"
               /\ obs'[<<iteration', c>>] = "open" <=> traced' /\ task'[c] \in {"running", "cancelled"}
    BY <1>1, <1>2, <1>4, <1>5, <1>6, NamesOfBriefs DEF OpenIsUnderway
  <2> QED  BY <2>1, <2>2, <2>3, <2>4, <2>5 DEF OpenIsUnderway
<1>10. /\ point' = "unwinding" => raised' # "none"
       /\ raised' = "cancelled" \/ cancelling' => received' # <<>>
       /\ \A i \in 1..MaxRounds, x \in Names : obs'[<<i, x>>] = "stopped" => raised' # "none"
       /\ \A i \in 1..MaxRounds : obs'[<<i, "trace">>] = "stopped" => received' # <<>>
  BY <1>1, <1>5, NamesOfBriefs DEF StopsHaveReasons, Trace
<1> QED  BY <1>1, <1>2, <1>3, <1>7, <1>8, <1>9, <1>10, Kept

\* A brief that goes on is over, and so is its observation.
LEMMA BriefOverKeeps ==
  ASSUME ProcessInv, NEW b \in Briefs, NEW sort \in Over, task[b] \in {"running", "cancelled"},
         point \in {"turn", "unwinding"}, sort = "stopped" => raised # "none",
         task' = [task EXCEPT ![b] = "over"], End(<<iteration, b>>, sort),
         UNCHANGED <<fixed, point, raised, cancelling, received, iteration, sent, exit>>
  PROVE  ProcessInv' /\ Held
<1> USE DEF ProcessInv, fixed
<1>2. iteration \in 1..MaxRounds  BY DEF TasksHavePlaces, InIteration
<1>3. exit = -1 /\ exit' = -1  BY DEF StopsHaveReasons
<1>4. /\ task' \in [Briefs -> {"none", "created", "running", "cancelled", "over"}]
      /\ \A c \in Briefs : task'[c] = IF c = b THEN "over" ELSE task[c]
  BY DEF ProcessTypes
<1>5. /\ obs' \in [Observations -> Live]
      /\ \A j \in 1..MaxRounds, y \in Names :
           obs'[<<j, y>>] = IF iteration = j /\ b = y /\ obs[<<j, y>>] = "open" THEN sort ELSE obs[<<j, y>>]
  BY <1>2, NamesOfBriefs, EndOne
<1>6. sort # "open" /\ sort # "none"  BY DEF Over
<1>7. ProcessTypes' /\ Held
  <2>1. point \in Points /\ raised \in Reasons /\ received \in Seq({SIGTERM, SIGINT}) /\ iteration \in 0..MaxRounds
    BY DEF ProcessTypes
  <2>2. cancelling' \in BOOLEAN  BY DEF ProcessTypes
  <2>3. \A i \in 1..MaxRounds, x \in Names : obs[<<i, x>>] \in Over => obs'[<<i, x>>] = obs[<<i, x>>]
    BY <1>5 DEF Over
  <2> QED  BY <1>3, <1>4, <1>5, <2>1, <2>2, <2>3, Typed
<1>8. TasksHavePlaces'  BY <1>2, <1>4 DEF TasksHavePlaces, InProbe
<1>9. OpenIsUnderway'
  <2>1. ~traced' => \A i \in 1..MaxRounds, x \in Names : obs'[<<i, x>>] = "none"
    BY <1>5 DEF OpenIsUnderway
  <2>2. \A i \in 1..MaxRounds, x \in Names : i > iteration' => obs'[<<i, x>>] = "none"
    BY <1>2, <1>5 DEF OpenIsUnderway
  <2>3. \A i \in 1..MaxRounds, x \in Names : i < iteration' => obs'[<<i, x>>] # "open"
    BY <1>2, <1>5 DEF OpenIsUnderway
  <2>4. obs'[Trace(iteration')] = "open" <=> traced' /\ point' \in InIteration \cup InProbe
    BY <1>2, <1>5, NamesOfBriefs DEF OpenIsUnderway, Trace
  <2>5. ASSUME NEW c \in Briefs
        PROVE  /\ task'[c] \in {"none", "created"} => obs'[<<iteration', c>>] = "none"
               /\ obs'[<<iteration', c>>] = "open" <=> traced' /\ task'[c] \in {"running", "cancelled"}
    BY <1>2, <1>4, <1>5, <1>6, NamesOfBriefs DEF OpenIsUnderway
  <2> QED  BY <2>1, <2>2, <2>3, <2>4, <2>5 DEF OpenIsUnderway
<1>10. /\ point' = "unwinding" => raised' # "none"
       /\ raised' = "cancelled" \/ cancelling' => received' # <<>>
       /\ \A i \in 1..MaxRounds, x \in Names : obs'[<<i, x>>] = "stopped" => raised' # "none"
       /\ \A i \in 1..MaxRounds : obs'[<<i, "trace">>] = "stopped" => received' # <<>>
  BY <1>5, NamesOfBriefs DEF StopsHaveReasons, Trace
<1> QED  BY <1>3, <1>7, <1>8, <1>9, <1>10, Kept

LEMMA BriefStepKeeps == ASSUME ProcessInv, BriefStep PROVE ProcessInv' /\ Held
<1> PICK b \in Briefs : StartBrief(b) \/ BeginBrief(b) \/ FinishBrief(b) \/ EndCancelledBrief(b)  BY DEF BriefStep
<1>1. CASE FinishBrief(b)
  <2>1. PICK sort \in {"ended", "failed"} : End(<<iteration, b>>, sort)  BY <1>1 DEF FinishBrief
  <2>2. /\ task[b] = "running" /\ command = "run" /\ task' = [task EXCEPT ![b] = "over"]
        /\ UNCHANGED <<fixed, point, raised, cancelling, received, iteration, sent, exit>>
    BY <1>1 DEF FinishBrief, flow
  <2>3. point = "turn"  BY <2>2 DEF ProcessInv, TasksHavePlaces, InProbe
  <2> QED  BY <2>1, <2>2, <2>3, BriefOverKeeps DEF Over
<1>2. CASE EndCancelledBrief(b)
  <2>1. PICK sort \in {"stopped", "failed"} : End(<<iteration, b>>, sort)  BY <1>2 DEF EndCancelledBrief
  <2>2. /\ task[b] = "cancelled" /\ task' = [task EXCEPT ![b] = "over"]
        /\ UNCHANGED <<fixed, point, raised, cancelling, received, iteration, sent, exit>>
    BY <1>2 DEF EndCancelledBrief, flow
  <2>3. point = "unwinding" /\ raised # "none"  BY <2>2 DEF ProcessInv, TasksHavePlaces, StopsHaveReasons
  <2> QED  BY <2>1, <2>2, <2>3, BriefOverKeeps DEF Over
<1> QED  BY <1>1, <1>2, StartBriefKeeps, BeginBriefKeeps

\* The trace of the iteration, or of the probe, begins.
LEMMA TraceBeginsKeeps ==
  ASSUME ProcessInv, NEW n \in 1..MaxRounds, n = iteration + 1, point \in {"starting", "loop"}, cancelling = FALSE,
         point' = "turn" => command # "probe", point' = "probing" => command = "probe" /\ n = 1, point' \in {"turn", "probing"},
         task' = [b \in Briefs |-> "none"], iteration' = n, Begin(Trace(n)),
         UNCHANGED <<fixed, raised, cancelling, received, sent, exit>>
  PROVE  ProcessInv' /\ Held
<1> USE DEF ProcessInv, fixed
<1>1. /\ iteration \in 0..MaxRounds /\ n \in Nat \ {0} /\ Trace(n) = <<n, "trace">>
  BY PairsAreObservations DEF ProcessTypes
<1>0. ProcessTypes /\ Begin(<<n, "trace">>)  BY <1>1 DEF Begin
<1>2. exit = -1 /\ exit' = -1  BY DEF StopsHaveReasons
<1>3. /\ task' \in [Briefs -> {"none", "created", "running", "cancelled", "over"}]
      /\ \A c \in Briefs : task'[c] = "none"
  OBVIOUS
<1>4. /\ obs' \in [Observations -> Live]
      /\ \A j \in 1..MaxRounds, y \in Names :
           obs'[<<j, y>>] = IF n = j /\ "trace" = y /\ traced THEN "open" ELSE obs[<<j, y>>]
  BY <1>0, <1>1, NamesOfBriefs, BeginOne
<1>5. \A x \in Names : obs[<<n, x>>] = "none"  BY <1>1 DEF OpenIsUnderway
<1>6. \A i \in 1..MaxRounds, x \in Names : obs[<<i, x>>] # "open"
  <2> SUFFICES ASSUME NEW i \in 1..MaxRounds, NEW x \in Names PROVE obs[<<i, x>>] # "open"  OBVIOUS
  <2>0. i \in Nat /\ iteration \in Nat /\ i > 0  BY <1>1
  <2>1. CASE i # iteration  BY <2>0, <1>1, <2>1 DEF OpenIsUnderway
  <2>2. CASE i = iteration /\ x = "trace"
    <3>1. iteration > 0 /\ point \notin InIteration \cup InProbe  BY <2>0, <2>2 DEF InIteration, InProbe
    <3>2. obs[<<iteration, "trace">>] # "open"  BY <3>1 DEF OpenIsUnderway, Trace
    <3> QED  BY <2>2, <3>2
  <2>3. CASE i = iteration /\ x \in Briefs
    <3>1. iteration > 0 /\ task[x] \notin {"running", "cancelled"}  BY <2>0, <2>3 DEF TasksHavePlaces
    <3>2. obs[<<iteration, x>>] # "open"  BY <2>3, <3>1 DEF OpenIsUnderway
    <3> QED  BY <2>3, <3>2
  <2> QED  BY <2>1, <2>2, <2>3, PairsAreObservations
<1>7. ProcessTypes' /\ Held
  <2>1. raised \in Reasons /\ received \in Seq({SIGTERM, SIGINT})  BY DEF ProcessTypes
  <2>2. cancelling' \in BOOLEAN  BY DEF ProcessTypes
  <2>3. \A i \in 1..MaxRounds, x \in Names : obs[<<i, x>>] \in Over => obs'[<<i, x>>] = obs[<<i, x>>]
    BY <1>4, <1>5 DEF Over
  <2>4. point' \in Points  BY DEF Points, InIteration, InProbe
  <2>5. iteration' \in 0..MaxRounds  BY <1>1
  <2> QED  BY <1>2, <1>3, <1>4, <2>1, <2>2, <2>3, <2>4, <2>5, Typed
<1>8. TasksHavePlaces'
  <2>1. point' \in {"turn", "probing"}  OBVIOUS
  <2> QED  BY <1>1, <1>3, <2>1 DEF TasksHavePlaces, InProbe, InIteration
<1>9. OpenIsUnderway'
  <2>1. ~traced' => \A i \in 1..MaxRounds, x \in Names : obs'[<<i, x>>] = "none"
    <3>1. traced' = traced  OBVIOUS
    <3>2. ~traced => \A i \in 1..MaxRounds, x \in Names : obs[<<i, x>>] = "none"  BY DEF OpenIsUnderway
    <3> SUFFICES ASSUME ~traced', NEW i \in 1..MaxRounds, NEW x \in Names PROVE obs'[<<i, x>>] = "none"
      OBVIOUS
    <3>3. ~traced  BY <3>1
    <3> QED  BY <1>4, <3>2, <3>3
  <2>2. \A i \in 1..MaxRounds, x \in Names : i > iteration' => obs'[<<i, x>>] = "none"
    BY <1>1, <1>4 DEF OpenIsUnderway
  <2>3. \A i \in 1..MaxRounds, x \in Names : i < iteration' => obs'[<<i, x>>] # "open"
    BY <1>1, <1>4, <1>6
  <2>4. obs'[Trace(iteration')] = "open" <=> traced' /\ point' \in InIteration \cup InProbe
    BY <1>1, <1>4, <1>5, NamesOfBriefs DEF InIteration, InProbe
  <2>5. ASSUME NEW c \in Briefs
        PROVE  /\ task'[c] \in {"none", "created"} => obs'[<<iteration', c>>] = "none"
               /\ obs'[<<iteration', c>>] = "open" <=> traced' /\ task'[c] \in {"running", "cancelled"}
    BY <1>3, <1>4, <1>5, NamesOfBriefs
  <2> QED  BY <2>1, <2>2, <2>3, <2>4, <2>5 DEF OpenIsUnderway
<1>10. /\ raised' = "cancelled" \/ cancelling' => received' # <<>>
       /\ \A i \in 1..MaxRounds, x \in Names : obs'[<<i, x>>] = "stopped" => raised' # "none"
       /\ \A i \in 1..MaxRounds : obs'[<<i, "trace">>] = "stopped" => received' # <<>>
  BY <1>4, NamesOfBriefs DEF StopsHaveReasons, Trace
<1>11. point' \notin {"unwinding", "exited"}  OBVIOUS
<1> QED  BY <1>2, <1>7, <1>8, <1>9, <1>10, <1>11, Kept

\* The trace ends, with no brief at work.
LEMMA TraceEndsKeeps ==
  ASSUME ProcessInv, NEW sort \in Over, point \in {"gates", "unwinding", "probed"},
         point = "gates" => point' = "loop", point = "unwinding" => point' = "leaving", point = "probed" => point' = "flushing",
         \A b \in Briefs : task[b] \in {"none", "over"}, End(Trace(iteration), sort),
         raised' \in Reasons, cancelling' \in BOOLEAN, raised # "none" => raised' # "none",
         raised' = "cancelled" \/ cancelling' => received # <<>>,
         sort = "stopped" => raised' = "cancelled",
         UNCHANGED <<fixed, received, iteration, task, sent, exit>>
  PROVE  ProcessInv' /\ Held
<1> USE DEF ProcessInv, fixed
<1>1. iteration \in 1..MaxRounds /\ Trace(iteration) = <<iteration, "trace">>
  BY PairsAreObservations DEF TasksHavePlaces, InIteration, InProbe
<1>2. exit = -1 /\ exit' = -1  BY DEF StopsHaveReasons
<1>4. /\ obs' \in [Observations -> Live]
      /\ \A j \in 1..MaxRounds, y \in Names :
           obs'[<<j, y>>] = IF iteration = j /\ "trace" = y /\ obs[<<j, y>>] = "open" THEN sort ELSE obs[<<j, y>>]
  BY <1>1, NamesOfBriefs, EndOne
<1>5. sort # "open" /\ sort # "none"  BY DEF Over
<1>6. point' \in {"loop", "leaving", "flushing"} /\ (command = "probe" => point' = "flushing")
  <2>1. command = "probe" => point = "probed"  BY DEF TasksHavePlaces, InProbe
  <2> QED  BY <2>1
<1>7. ProcessTypes' /\ Held
  <2>1. received \in Seq({SIGTERM, SIGINT}) /\ iteration \in 0..MaxRounds
        /\ task \in [Briefs -> {"none", "created", "running", "cancelled", "over"}]
    BY DEF ProcessTypes
  <2>3. \A i \in 1..MaxRounds, x \in Names : obs[<<i, x>>] \in Over => obs'[<<i, x>>] = obs[<<i, x>>]
    BY <1>4 DEF Over
  <2>4. point' \in Points  BY <1>6 DEF Points
  <2> QED  BY <1>2, <1>4, <2>1, <2>3, <2>4, Typed
<1>8. TasksHavePlaces'
  BY <1>1, <1>6 DEF TasksHavePlaces, InProbe, InIteration
<1>9. OpenIsUnderway'
  <2>1. ~traced' => \A i \in 1..MaxRounds, x \in Names : obs'[<<i, x>>] = "none"
    BY ZenonT(30), <1>4 DEF OpenIsUnderway
  <2>2. \A i \in 1..MaxRounds, x \in Names : i > iteration' => obs'[<<i, x>>] = "none"
    BY <1>1, <1>4 DEF OpenIsUnderway
  <2>3. \A i \in 1..MaxRounds, x \in Names : i < iteration' => obs'[<<i, x>>] # "open"
    BY <1>1, <1>4 DEF OpenIsUnderway
  <2>4. obs'[Trace(iteration')] # "open" /\ point' \notin InIteration \cup InProbe
    BY <1>1, <1>4, <1>5, <1>6, NamesOfBriefs DEF InIteration, InProbe
  <2>5. ASSUME NEW c \in Briefs
        PROVE  /\ task'[c] \in {"none", "created"} => obs'[<<iteration', c>>] = "none"
               /\ obs'[<<iteration', c>>] = "open" <=> traced' /\ task'[c] \in {"running", "cancelled"}
    BY <1>1, <1>4, NamesOfBriefs DEF OpenIsUnderway
  <2> QED  BY <2>1, <2>2, <2>3, <2>4, <2>5 DEF OpenIsUnderway
<1>10. /\ raised' = "cancelled" \/ cancelling' => received' # <<>>
       /\ \A i \in 1..MaxRounds, x \in Names : obs'[<<i, x>>] = "stopped" => raised' # "none"
       /\ \A i \in 1..MaxRounds : obs'[<<i, "trace">>] = "stopped" => received' # <<>>
  BY <1>4, NamesOfBriefs DEF StopsHaveReasons, Trace
<1> QED  BY <1>2, <1>6, <1>7, <1>8, <1>9, <1>10, Kept

LEMMA IterationFailsKeeps == ASSUME ProcessInv, IterationFails PROVE ProcessInv' /\ Held
<1> USE DEF ProcessInv, fixed, traces
<1>1. /\ point \in {"turn", "gates"} /\ point' = "unwinding" /\ raised' \in {"cancelled", "config", "error"}
      /\ (raised' = "cancelled" => cancelling) /\ cancelling' = FALSE
      /\ UNCHANGED <<fixed, received, iteration, obs, sent, exit>>
  BY DEF IterationFails, Thrown, Raise
<1>2. exit = -1 /\ exit' = -1  BY <1>1 DEF StopsHaveReasons
<1>3. /\ task' \in [Briefs -> {"none", "created", "running", "cancelled", "over"}]
      /\ \A c \in Briefs : task'[c] = IF task[c] = "running" THEN "cancelled" ELSE IF task[c] = "created" THEN "over" ELSE task[c]
  BY DEF IterationFails, ProcessTypes
<1>4. \A c \in Briefs : task'[c] \in {"none", "cancelled", "over"}  BY <1>3 DEF ProcessTypes
<1>7. ProcessTypes' /\ Held
  <2>1. received \in Seq({SIGTERM, SIGINT}) /\ iteration \in 0..MaxRounds /\ obs \in [Observations -> Live]
    BY DEF ProcessTypes
  <2>2. cancelling' \in BOOLEAN  BY <1>1
  <2>3. point' \in Points /\ raised' \in Reasons  BY <1>1 DEF Points, InIteration, Reasons
  <2> QED  BY <1>1, <1>2, <1>3, <2>1, <2>2, <2>3, Typed
<1>8. TasksHavePlaces'
  BY <1>1, <1>4 DEF TasksHavePlaces, InProbe, InIteration
<1>9. OpenIsUnderway'
  <2>1. iteration \in 1..MaxRounds /\ Trace(iteration) = <<iteration, "trace">>
    BY <1>1, PairsAreObservations DEF TasksHavePlaces, InIteration
  <2>4. obs'[Trace(iteration')] = "open" <=> traced' /\ point' \in InIteration \cup InProbe
    BY <1>1, <2>1 DEF OpenIsUnderway, InIteration
  <2>5. ASSUME NEW c \in Briefs
        PROVE  /\ task'[c] \in {"none", "created"} => obs'[<<iteration', c>>] = "none"
               /\ obs'[<<iteration', c>>] = "open" <=> traced' /\ task'[c] \in {"running", "cancelled"}
    BY <1>1, <1>3, <2>1 DEF OpenIsUnderway
  <2> QED  BY <1>1, <2>4, <2>5 DEF OpenIsUnderway
<1>10. /\ raised' = "cancelled" \/ cancelling' => received' # <<>>
       /\ \A i \in 1..MaxRounds, x \in Names : obs'[<<i, x>>] = "stopped" => raised' # "none"
       /\ \A i \in 1..MaxRounds : obs'[<<i, "trace">>] = "stopped" => received' # <<>>
  BY <1>1 DEF StopsHaveReasons, Trace
<1> QED  BY <1>1, <1>2, <1>7, <1>8, <1>9, <1>10, Kept

LEMMA IterationsKeep == ASSUME ProcessInv, Iterate \/ IterationEnds \/ Unwind PROVE ProcessInv' /\ Held
<1> USE DEF ProcessInv
<1>0. /\ iteration \in 0..MaxRounds /\ MaxRounds \in Nat /\ cancelling \in BOOLEAN /\ raised \in Reasons
      /\ (raised = "cancelled" \/ cancelling => received # <<>>)
      /\ (point = "unwinding" => raised # "none")
  BY ProcessAssumption DEF ProcessTypes, StopsHaveReasons
<1>1. CASE Iterate
  <2>1. /\ point = "loop" /\ ~cancelling /\ iteration < MaxRounds /\ iteration' = iteration + 1 /\ task' = [b \in Briefs |-> "none"]
        /\ Begin(Trace(iteration')) /\ point' = "turn" /\ UNCHANGED <<fixed, raised, cancelling, received, sent, exit>>
    BY <1>1 DEF Iterate, Goto
  <2>2. command # "probe"  BY <2>1 DEF TasksHavePlaces, InProbe
  <2>3. PICK n \in 1..MaxRounds : n = iteration + 1  BY <1>0, <2>1
  <2>4. iteration' = n /\ cancelling = FALSE  BY <1>0, <2>1, <2>3
  <2>5. Begin(Trace(n))  BY <2>1, <2>4 DEF Begin
  <2> QED  BY <2>1, <2>2, <2>3, <2>4, <2>5, TraceBeginsKeeps
<1>2. CASE IterationEnds
  <2>1. /\ point = "gates" /\ ~cancelling /\ End(Trace(iteration), "ended") /\ point' = "loop"
        /\ UNCHANGED <<fixed, raised, cancelling, received, iteration, task, sent, exit>>
    BY <1>2 DEF IterationEnds, Goto
  <2>2. \A b \in Briefs : task[b] \in {"none", "over"}  BY <2>1 DEF TasksHavePlaces, ProcessTypes
  <2> QED  BY <1>0, <2>1, <2>2, TraceEndsKeeps DEF Over
<1>3. CASE Unwind /\ Done = Briefs
  <2>1. /\ point = "unwinding" /\ End(Trace(iteration), EndedBy(Reason)) /\ point' = "leaving" /\ raised' = Reason
        /\ cancelling' = FALSE /\ UNCHANGED <<fixed, received, iteration, task, sent, exit>>
    BY <1>3 DEF Unwind, Raise
  <2>2. \A b \in Briefs : task[b] \in {"none", "over"}  BY <1>3 DEF Done
  <2>3. Reason \in {"cancelled", "config", "error"} /\ (Reason = "cancelled" => received # <<>>)
    BY <1>0, <2>1 DEF Reason, Reasons
  <2>4. EndedBy(Reason) \in Over /\ (EndedBy(Reason) = "stopped" => Reason = "cancelled")
    BY <2>3 DEF EndedBy, Over
  <2>5. raised' \in Reasons /\ raised' # "none" /\ cancelling' \in BOOLEAN /\ (raised' = "cancelled" \/ cancelling' => received # <<>>)
    BY <2>1, <2>3 DEF Reasons
  <2> QED  BY <2>1, <2>2, <2>3, <2>4, <2>5, TraceEndsKeeps
<1>4. Unwind => Done = Briefs  BY DEF Unwind, WaitIsOver
<1> QED  BY <1>1, <1>2, <1>3, <1>4

LEMMA ProbedAgentKeeps ==
  ASSUME ProcessInv, point = "probing", point' = "agent", NEW b \in Briefs, task' = [task EXCEPT ![b] = "running"],
         Begin(<<iteration, b>>), UNCHANGED <<fixed, raised, cancelling, received, iteration, sent, exit>>
  PROVE  ProcessInv' /\ Held
<1> USE DEF ProcessInv, fixed
<1>0. command = "probe" /\ iteration = 1  BY DEF TasksHavePlaces, InProbe
<1>1. iteration \in 1..MaxRounds /\ \A c \in Briefs : task[c] = "none"  BY DEF TasksHavePlaces, InProbe
<1>2. b \in Names /\ b # "trace"  BY NamesOfBriefs
<1>3. exit = -1 /\ exit' = -1  BY DEF StopsHaveReasons
<1>4. /\ task' \in [Briefs -> {"none", "created", "running", "cancelled", "over"}]
      /\ \A c \in Briefs : task'[c] = IF c = b THEN "running" ELSE "none"
  BY <1>1 DEF ProcessTypes
<1>5. /\ obs' \in [Observations -> Live]
      /\ \A j \in 1..MaxRounds, y \in Names :
           obs'[<<j, y>>] = IF iteration = j /\ b = y /\ traced THEN "open" ELSE obs[<<j, y>>]
  BY <1>1, <1>2, BeginOne
<1>6. obs[<<iteration, b>>] = "none"  BY <1>1 DEF OpenIsUnderway
<1>7. ProcessTypes' /\ Held
  <2>1. raised \in Reasons /\ received \in Seq({SIGTERM, SIGINT}) /\ iteration \in 0..MaxRounds
    BY DEF ProcessTypes
  <2>2. cancelling' \in BOOLEAN  BY DEF ProcessTypes
  <2>3. \A i \in 1..MaxRounds, x \in Names : obs[<<i, x>>] \in Over => obs'[<<i, x>>] = obs[<<i, x>>]
    BY <1>5, <1>6 DEF Over
  <2>4. point' \in Points  BY DEF Points, InProbe
  <2> QED  BY <1>3, <1>4, <1>5, <2>1, <2>2, <2>3, <2>4, Typed
<1>8. TasksHavePlaces'
  <2>1. \A c \in Briefs : task'[c] = "running" <=> c = b  BY <1>4
  <2>2. \E a \in Briefs : \A c \in Briefs : task'[c] = "running" <=> c = a  BY <2>1
  <2>3. \A c \in Briefs : task'[c] \in {"none", "running"}  BY <1>4
  <2> QED  BY <1>0, <1>1, <1>2, <2>2, <2>3 DEF TasksHavePlaces, InProbe, InIteration
<1>9. OpenIsUnderway'
  <2>1. ~traced' => \A i \in 1..MaxRounds, x \in Names : obs'[<<i, x>>] = "none"
    <3>1. traced' = traced  OBVIOUS
    <3>2. ~traced => \A i \in 1..MaxRounds, x \in Names : obs[<<i, x>>] = "none"  BY DEF OpenIsUnderway
    <3> SUFFICES ASSUME ~traced', NEW i \in 1..MaxRounds, NEW x \in Names PROVE obs'[<<i, x>>] = "none"
      OBVIOUS
    <3>3. ~traced  BY <3>1
    <3> QED  BY <1>5, <3>2, <3>3
  <2>2. \A i \in 1..MaxRounds, x \in Names : i > iteration' => obs'[<<i, x>>] = "none"
    BY <1>1, <1>5 DEF OpenIsUnderway
  <2>3. \A i \in 1..MaxRounds, x \in Names : i < iteration' => obs'[<<i, x>>] # "open"
    BY <1>1, <1>5 DEF OpenIsUnderway
  <2>4. obs'[Trace(iteration')] = "open" <=> traced' /\ point' \in InIteration \cup InProbe
    BY <1>1, <1>2, <1>5, NamesOfBriefs DEF OpenIsUnderway, Trace, InProbe
  <2>5. ASSUME NEW c \in Briefs
        PROVE  /\ task'[c] \in {"none", "created"} => obs'[<<iteration', c>>] = "none"
               /\ obs'[<<iteration', c>>] = "open" <=> traced' /\ task'[c] \in {"running", "cancelled"}
    BY <1>1, <1>2, <1>4, <1>5, <1>6, NamesOfBriefs DEF OpenIsUnderway
  <2> QED  BY <2>1, <2>2, <2>3, <2>4, <2>5 DEF OpenIsUnderway
<1>10. /\ raised' = "cancelled" \/ cancelling' => received' # <<>>
       /\ \A i \in 1..MaxRounds, x \in Names : obs'[<<i, x>>] = "stopped" => raised' # "none"
       /\ \A i \in 1..MaxRounds : obs'[<<i, "trace">>] = "stopped" => received' # <<>>
  BY <1>5, NamesOfBriefs DEF StopsHaveReasons, Trace
<1> QED  BY <1>3, <1>7, <1>8, <1>9, <1>10, Kept

LEMMA ProbeAgentKeeps == ASSUME ProcessInv, ProbeAgent PROVE ProcessInv' /\ Held
<1> USE DEF ProcessInv, fixed
<1>1. /\ point = "agent" /\ point' = "cleaning" /\ UNCHANGED <<fixed, cancelling, iteration, sent, exit>>
      /\ task' = [c \in Briefs |-> IF task[c] = "running" THEN "over" ELSE task[c]]
      /\ raised' \in {raised, "cancelled", "error"}
      /\ \/ received' = received /\ raised' \in {raised, "error"}
         \/ received' = Append(received, SIGINT) /\ raised' = "cancelled"
  BY DEF ProbeAgent, SignalProbe
<1>0. iteration \in 1..MaxRounds  BY <1>1 DEF TasksHavePlaces, InProbe
<1>17. iteration = 1 /\ command = "probe"  BY <1>1 DEF TasksHavePlaces, InProbe
<1>2. PICK b \in Briefs : task[b] = "running" /\ End(<<iteration, b>>, EndedBy(raised'))
  BY <1>17 DEF ProbeAgent, End
<1>3. \A c \in Briefs : task[c] = "running" <=> c = b
  BY <1>1, <1>2 DEF TasksHavePlaces, InProbe
<1>4. b \in Names /\ b # "trace"  BY NamesOfBriefs
<1>5. exit = -1 /\ exit' = -1  BY <1>1 DEF StopsHaveReasons
<1>6. /\ raised' \in Reasons /\ received' \in Seq({SIGTERM, SIGINT}) /\ (raised' = "cancelled" \/ cancelling' => received' # <<>>)
      /\ (raised # "none" => raised' # "none") /\ (received # <<>> => received' # <<>>)
  <2>1. raised \in Reasons /\ received \in Seq({SIGTERM, SIGINT}) /\ (raised = "cancelled" \/ cancelling => received # <<>>)
    BY DEF ProcessTypes, StopsHaveReasons
  <2>2. received' = Append(received, SIGINT) => received' \in Seq({SIGTERM, SIGINT}) /\ received' # <<>>
    BY Signals
  <2> QED  BY <1>1, <2>1, <2>2 DEF Reasons
<1>7. /\ task' \in [Briefs -> {"none", "created", "running", "cancelled", "over"}]
      /\ \A c \in Briefs : task'[c] = IF c = b THEN "over" ELSE task[c]
  BY <1>1, <1>3 DEF ProcessTypes
<1>8. EndedBy(raised') \in Over /\ (EndedBy(raised') = "stopped" => raised' = "cancelled")
  BY <1>6 DEF EndedBy, Over, Reasons
<1>9. PICK sort \in Over : sort = EndedBy(raised')  BY <1>8
<1>10. /\ obs' \in [Observations -> Live]
       /\ \A j \in 1..MaxRounds, y \in Names :
            obs'[<<j, y>>] = IF iteration = j /\ b = y /\ obs[<<j, y>>] = "open" THEN sort ELSE obs[<<j, y>>]
  <2>1. End(<<iteration, b>>, sort)  BY <1>2, <1>9 DEF End
  <2> QED  BY <1>0, <1>4, <2>1, EndOne
<1>11. sort # "open" /\ sort # "none"  BY DEF Over
<1>12. ProcessTypes' /\ Held
  <2>1. iteration \in 0..MaxRounds
    BY DEF ProcessTypes
  <2>2. cancelling' \in BOOLEAN  BY <1>1 DEF ProcessTypes
  <2>3. \A i \in 1..MaxRounds, x \in Names : obs[<<i, x>>] \in Over => obs'[<<i, x>>] = obs[<<i, x>>]
    BY <1>10 DEF Over
  <2>4. point' \in Points  BY <1>1 DEF Points, InProbe
  <2> QED  BY <1>1, <1>5, <1>6, <1>7, <1>10, <2>1, <2>2, <2>3, <2>4, Typed
<1>13. \A c \in Briefs : task'[c] \in {"none", "over"}
  BY <1>0, <1>1, <1>3, <1>7 DEF ProcessTypes, TasksHavePlaces
<1>14. TasksHavePlaces'
  BY <1>0, <1>1, <1>3, <1>4, <1>13, <1>17 DEF TasksHavePlaces, InProbe, InIteration
<1>15. OpenIsUnderway'
  <2>1. ~traced' => \A i \in 1..MaxRounds, x \in Names : obs'[<<i, x>>] = "none"
    BY <1>1, <1>10 DEF OpenIsUnderway
  <2>2. \A i \in 1..MaxRounds, x \in Names : i > iteration' => obs'[<<i, x>>] = "none"
    BY <1>0, <1>1, <1>3, <1>10 DEF OpenIsUnderway
  <2>3. \A i \in 1..MaxRounds, x \in Names : i < iteration' => obs'[<<i, x>>] # "open"
    BY <1>0, <1>1, <1>3, <1>10 DEF OpenIsUnderway
  <2>4. obs'[Trace(iteration')] = "open" <=> traced' /\ point' \in InIteration \cup InProbe
    BY <1>0, <1>1, <1>3, <1>4, <1>10, NamesOfBriefs DEF OpenIsUnderway, Trace, InProbe
  <2>5. ASSUME NEW c \in Briefs
        PROVE  /\ task'[c] \in {"none", "created"} => obs'[<<iteration', c>>] = "none"
               /\ obs'[<<iteration', c>>] = "open" <=> traced' /\ task'[c] \in {"running", "cancelled"}
    BY <1>0, <1>1, <1>3, <1>4, <1>7, <1>10, <1>11, NamesOfBriefs DEF OpenIsUnderway
  <2> QED  BY <2>1, <2>2, <2>3, <2>4, <2>5 DEF OpenIsUnderway
<1>16. /\ \A i \in 1..MaxRounds, x \in Names : obs'[<<i, x>>] = "stopped" => raised' # "none"
       /\ \A i \in 1..MaxRounds : obs'[<<i, "trace">>] = "stopped" => received' # <<>>
  BY <1>4, <1>6, <1>8, <1>9, <1>10, NamesOfBriefs DEF StopsHaveReasons, Trace
<1> QED  BY <1>1, <1>5, <1>6, <1>12, <1>14, <1>15, <1>16, Kept

\* The model's reply is of a piece with the quiet steps, or the agent is asked next.
LEMMA ProbeModelKeeps == ASSUME ProcessInv, ProbeModel PROVE ProcessInv' /\ Held
<1>1. /\ point = "probing" /\ UNCHANGED <<fixed, raised, cancelling, received, iteration, sent, exit>>
      /\ \/ point' = "probed" /\ UNCHANGED <<task, obs>>
         \/ \E b \in Briefs : point' = "agent" /\ task' = [task EXCEPT ![b] = "running"] /\ Begin(<<1, b>>)
  BY DEF ProbeModel
<1>2. CASE point' = "probed" /\ UNCHANGED <<task, obs>>
  <2>1. /\ raised \in Reasons /\ received \in Seq({SIGTERM, SIGINT}) /\ cancelling \in BOOLEAN /\ exit = -1
        /\ (raised = "cancelled" \/ cancelling => received # <<>>)
        /\ \A b \in Briefs : task[b] = "none"
    BY <1>1 DEF ProcessInv, ProcessTypes, StopsHaveReasons, TasksHavePlaces
  <2> QED  BY <1>1, <1>2, <2>1, QuietKeeps DEF Points, InIteration, InProbe, traces
<1>3. ASSUME NEW b \in Briefs, point' = "agent", task' = [task EXCEPT ![b] = "running"], Begin(<<1, b>>)
      PROVE  ProcessInv' /\ Held
  <2>1. iteration = 1  BY <1>1 DEF ProcessInv, TasksHavePlaces, InProbe
  <2>2. Begin(<<iteration, b>>)  BY <1>3, <2>1 DEF Begin
  <2> QED  BY <1>1, <1>3, <2>2, ProbedAgentKeeps
<1> QED  BY <1>1, <1>2, <1>3

LEMMA ProbeEndsKeeps == ASSUME ProcessInv, ProbeEnds PROVE ProcessInv' /\ Held
<1>1. /\ point = "probed" /\ End(Trace(1), EndedBy(raised)) /\ point' = "flushing"
      /\ UNCHANGED <<fixed, raised, cancelling, received, iteration, task, sent, exit>>
  BY DEF ProbeEnds, Goto
<1>2. iteration = 1  BY <1>1 DEF ProcessInv, TasksHavePlaces, InProbe
<1>3. /\ \A b \in Briefs : task[b] \in {"none", "over"}
      /\ raised \in Reasons /\ cancelling \in BOOLEAN /\ (raised = "cancelled" \/ cancelling => received # <<>>)
  BY <1>1 DEF ProcessInv, TasksHavePlaces, ProcessTypes, StopsHaveReasons
<1>4. EndedBy(raised) \in Over /\ (EndedBy(raised) = "stopped" => raised = "cancelled")
  BY <1>3 DEF EndedBy, Over, Reasons
<1>5. End(Trace(iteration), EndedBy(raised))  BY <1>1, <1>2 DEF End
<1> QED  BY <1>1, <1>3, <1>4, <1>5, TraceEndsKeeps

LEMMA StartProbeKeeps == ASSUME ProcessInv, StartProbe, point' # "exited" PROVE ProcessInv' /\ Held
<1>1. /\ point = "starting" /\ command = "probe" /\ point' = "probing" /\ iteration' = 1 /\ Begin(Trace(1))
      /\ UNCHANGED <<fixed, raised, cancelling, received, task, sent, exit>>
  BY DEF StartProbe, ExitWith, Goto
<1>2. iteration = 0 /\ cancelling = FALSE /\ \A b \in Briefs : task[b] = "none"
  BY <1>1 DEF ProcessInv, ProcessTypes, TasksHavePlaces
<1>3. task' = [b \in Briefs |-> "none"]  BY <1>1, <1>2 DEF ProcessInv, ProcessTypes
<1>4. PICK n \in 1..MaxRounds : n = 1  BY NamesOfBriefs
<1>5. n = iteration + 1 /\ iteration' = n /\ Begin(Trace(n))  BY <1>1, <1>2, <1>4 DEF Begin
<1> QED  BY <1>1, <1>2, <1>3, <1>4, <1>5, TraceBeginsKeeps

\* The process exits when every observation it made has been handed over.
LEMMA ExitKeeps ==
  ASSUME ProcessInv, point \in {"starting", "flushing"}, point' = "exited", sent = Finished, exit' \in Int, exit' # -1,
         exit' >= 128 => received # <<>> /\ exit' = 128 + received[1],
         exit' \in {0, 3} => raised = "none",
         UNCHANGED <<fixed, raised, cancelling, received, iteration, task, obs, sent>>
  PROVE  ProcessInv' /\ Held
<1> USE DEF ProcessInv, fixed
<1>1. Finished' = Finished  BY DEF Finished
<1>2. Held  BY DEF Held
<1>3. ProcessTypes'
  <2>1. command' \in {"check", "run", "probe"} /\ raised' \in Reasons /\ received' \in Seq({SIGTERM, SIGINT})
    BY DEF ProcessTypes
  <2>2. traced' \in BOOLEAN  BY DEF ProcessTypes
  <2>3. cancelling' \in BOOLEAN  BY DEF ProcessTypes
  <2>4. iteration' \in 0..MaxRounds /\ task' \in [Briefs -> {"none", "created", "running", "cancelled", "over"}]
    BY DEF ProcessTypes
  <2>5. obs' \in [Observations -> Live] /\ sent' \subseteq Finished'  BY <1>1 DEF ProcessTypes
  <2>6. point' \in Points  BY DEF Points
  <2> QED  BY <2>1, <2>2, <2>3, <2>4, <2>5, <2>6 DEF ProcessTypes
<1>4. TasksHavePlaces'  BY DEF TasksHavePlaces, InProbe, InIteration
<1>5. point \notin InIteration \cup InProbe /\ point' \notin InIteration \cup InProbe  BY DEF InIteration, InProbe
<1>6. OpenIsUnderway'  BY <1>5 DEF OpenIsUnderway, Trace
<1>7. StopsHaveReasons'  BY DEF StopsHaveReasons, Trace
<1>8. \A i \in 1..MaxRounds, x \in Names : obs[<<i, x>>] # "open"
  <2> SUFFICES ASSUME NEW i \in 1..MaxRounds, NEW x \in Names PROVE obs[<<i, x>>] # "open"  OBVIOUS
  <2>0. i \in Nat /\ iteration \in Nat /\ i > 0  BY DEF ProcessTypes
  <2>1. CASE i # iteration  BY <2>0, <2>1 DEF OpenIsUnderway
  <2>2. CASE i = iteration /\ x = "trace"
    <3>1. obs[<<iteration, "trace">>] # "open"  BY <1>5, <2>0, <2>2 DEF OpenIsUnderway, Trace
    <3> QED  BY <2>2, <3>1
  <2>3. CASE i = iteration /\ x \in Briefs
    <3>1. iteration > 0 /\ task[x] \notin {"running", "cancelled"}  BY <2>0, <2>3 DEF TasksHavePlaces
    <3>2. obs[<<iteration, x>>] # "open"  BY <2>3, <3>1 DEF OpenIsUnderway
    <3> QED  BY <2>3, <3>2
  <2> QED  BY <2>1, <2>2, <2>3, PairsAreObservations
<1>9. Finished = {o \in Observations : obs[o] # "none"}
  <2>1. \A o \in Observations : obs[o] \in Live /\ obs[o] # "open"
    BY <1>8, PairsAreObservations DEF ProcessTypes
  <2> QED  BY <2>1 DEF Finished, Live, Over
<1>10. raised = "none" => \A o \in Observations : obs[o] # "stopped"
  BY PairsAreObservations DEF StopsHaveReasons
<1>11. StopsAreMarked'
  <2>1. \A i \in 1..MaxRounds : obs'[Trace(i)] = "stopped" => received' # <<>>  BY DEF StopsHaveReasons, Trace
  <2>2. sent' = {o \in Observations : obs'[o] # "none"} /\ sent' = Finished'  BY <1>1, <1>9
  <2>3. exit' \in {0, 3} => \A o \in Observations : obs'[o] # "stopped"  BY <1>10
  <2>4. exit' >= 128 => received' # <<>> /\ exit' = 128 + received'[1]  OBVIOUS
  <2> QED  BY <2>1, <2>2, <2>3, <2>4 DEF StopsAreMarked, Trace
<1> QED  BY <1>2, <1>3, <1>4, <1>6, <1>7, <1>11 DEF ProcessInv

\* What the process exits with.
LEMMA ExitCodes ==
  /\ raised = "cancelled" => ExitCode = 128 + received[1]
  /\ raised \in {"config", "error"} => ExitCode \in {1, 2}
  /\ raised = "none" => ExitCode \in {0, 1, 3}
<1>1. raised = "cancelled" => ExitCode = 128 + received[1]  BY DEF ExitCode
<1>2. raised = "config" => ExitCode = 2  BY DEF ExitCode
<1>3. raised = "error" => ExitCode = 1  BY DEF ExitCode
<1>4. raised = "none" => ExitCode \in {0, 1, 3}  BY DEF ExitCode
<1> QED  BY <1>1, <1>2, <1>3, <1>4

LEMMA ExitsKeep ==
  ASSUME ProcessInv, Start \/ StartProbe \/ Flush, point' = "exited" PROVE ProcessInv' /\ Held
<1>1. CASE Start \/ StartProbe
  <2>1. /\ point = "starting" /\ exit' \in {0, 1, 2}
        /\ UNCHANGED <<fixed, raised, cancelling, received, iteration, task, obs, sent>>
    BY <1>1 DEF Start, StartProbe, ExitWith, Goto, traces
  <2>2. raised = "none" /\ iteration = 0 /\ sent \subseteq Finished
    BY <2>1 DEF ProcessInv, TasksHavePlaces, ProcessTypes
  <2>3. \A i \in 1..MaxRounds, x \in Names : obs[<<i, x>>] = "none"
    <3> SUFFICES ASSUME NEW i \in 1..MaxRounds, NEW x \in Names PROVE obs[<<i, x>>] = "none"  OBVIOUS
    <3>1. i > iteration  BY <2>2
    <3> QED  BY <3>1 DEF ProcessInv, OpenIsUnderway
  <2>4. Finished = {}  BY <2>3, PairsAreObservations DEF Finished, Over
  <2>5. sent = Finished /\ exit' \in Int /\ exit' # -1 /\ ~(exit' >= 128)  BY <2>1, <2>2, <2>4
  <2> QED  BY <2>1, <2>2, <2>5, ExitKeeps
<1>2. CASE Flush
  <2>1. /\ point = "flushing" /\ sent = Finished /\ exit' = ExitCode
        /\ UNCHANGED <<fixed, raised, cancelling, received, iteration, task, obs, sent>>
    BY <1>2 DEF Flush, ExitWith, traces
  <2>2. raised \in Reasons /\ received \in Seq({SIGTERM, SIGINT}) /\ (raised = "cancelled" => received # <<>>)
    BY DEF ProcessInv, ProcessTypes, StopsHaveReasons
  <2>3. received # <<>> => received[1] \in {2, 15}
    <3>1. received # <<>> => 1 \in 1..Len(received)  BY <2>2, EmptySeq, LenProperties
    <3>2. \A i \in 1..Len(received) : received[i] \in {SIGTERM, SIGINT}  BY <2>2, ElementOfSeq
    <3> QED  BY <3>1, <3>2 DEF SIGTERM, SIGINT
  <2>4. CASE raised = "cancelled"
    <3>1. exit' = 128 + received[1] /\ received[1] \in {2, 15} /\ received # <<>>
      BY <2>1, <2>2, <2>3, <2>4, ExitCodes
    <3>2. exit' \in Int /\ exit' # -1 /\ exit' \notin {0, 3}  BY <3>1
    <3> QED  BY <2>1, <3>1, <3>2, ExitKeeps
  <2>5. CASE raised # "cancelled"
    <3>1. exit' \in {0, 1, 2, 3} /\ (exit' \in {0, 3} => raised = "none")
      BY <2>1, <2>2, <2>5, ExitCodes DEF Reasons
    <3>2. exit' \in Int /\ exit' # -1 /\ ~(exit' >= 128)  BY <3>1
    <3> QED  BY <2>1, <3>1, <3>2, ExitKeeps
  <2> QED  BY <2>4, <2>5
<1> QED  BY <1>1, <1>2

\* The exporter takes what has ended, and the observations stay as they are.
LEMMA ExportKeeps == ASSUME ProcessInv, Export PROVE ProcessInv' /\ Held
<1> USE DEF ProcessInv, fixed, flow
<1>1. /\ exit = -1 /\ exit' = -1 /\ sent' = Finished
      /\ UNCHANGED <<fixed, point, raised, cancelling, received, iteration, task, obs>>
  BY DEF Export
<1>2. Finished' = Finished /\ sent \subseteq Finished  BY <1>1 DEF Finished, ProcessTypes
<1>3. Held  BY <1>1, <1>2 DEF Held
<1>4. ProcessTypes'
  <2>1. command' \in {"check", "run", "probe"} /\ raised' \in Reasons /\ received' \in Seq({SIGTERM, SIGINT}) /\ point' \in Points
    BY <1>1 DEF ProcessTypes
  <2>2. traced' \in BOOLEAN  BY <1>1 DEF ProcessTypes
  <2>3. cancelling' \in BOOLEAN  BY <1>1 DEF ProcessTypes
  <2>4. iteration' \in 0..MaxRounds /\ task' \in [Briefs -> {"none", "created", "running", "cancelled", "over"}]
    BY <1>1 DEF ProcessTypes
  <2>5. obs' \in [Observations -> Live] /\ sent' \subseteq Finished'  BY <1>1, <1>2 DEF ProcessTypes
  <2>6. exit' \in Int  BY <1>1, Unset
  <2> QED  BY <2>1, <2>2, <2>3, <2>4, <2>5, <2>6 DEF ProcessTypes
<1>5. TasksHavePlaces'  BY <1>1 DEF TasksHavePlaces
<1>6. OpenIsUnderway'  BY <1>1 DEF OpenIsUnderway, Trace
<1>7. StopsHaveReasons'  BY <1>1 DEF StopsHaveReasons, Trace
<1>8. StopsAreMarked'
  <2>1. \A i \in 1..MaxRounds : obs'[Trace(i)] = "stopped" => received' # <<>>
    BY <1>1 DEF StopsHaveReasons, Trace
  <2> QED  BY <1>1, <2>1 DEF StopsAreMarked, Trace
<1> QED  BY <1>3, <1>4, <1>5, <1>6, <1>7, <1>8

\* No step opens what it should not, or loses what has ended.
LEMMA ScaffoldStep == ASSUME ProcessInv, [ProcessNext]_processVars PROVE ProcessInv' /\ Held
<1>1. CASE UNCHANGED processVars
  <2> USE <1>1 DEF processVars
  <2>1. Finished' = Finished  BY DEF Finished
  <2>2. ProcessTypes'  BY <2>1 DEF ProcessInv, ProcessTypes
  <2>3. TasksHavePlaces'  BY DEF ProcessInv, TasksHavePlaces
  <2>4. OpenIsUnderway'  BY DEF ProcessInv, OpenIsUnderway, Trace
  <2>5. StopsHaveReasons'  BY DEF ProcessInv, StopsHaveReasons, Trace
  <2>6. StopsAreMarked'  BY <2>1 DEF ProcessInv, StopsAreMarked, Trace
  <2>7. Held  BY DEF Held
  <2> QED  BY <2>2, <2>3, <2>4, <2>5, <2>6, <2>7 DEF ProcessInv
<1>2. CASE BriefStep  BY <1>2, BriefStepKeeps
<1>3. CASE IterationFails  BY <1>3, IterationFailsKeeps
<1>4. CASE Iterate \/ IterationEnds \/ Unwind  BY <1>4, IterationsKeep
<1>5. CASE Export  BY <1>5, ExportKeeps
<1>6. CASE (Start \/ StartProbe) /\ point' = "exited"  BY <1>6, ExitsKeep
<1>7. CASE Flush
  <2>1. point' = "exited"  BY <1>7 DEF Flush, ExitWith
  <2> QED  BY <1>7, <2>1, ExitsKeep
<1>8. CASE StartProbe /\ point' # "exited"  BY <1>8, StartProbeKeeps
<1>9. CASE ProbeModel \/ ProbeAgent \/ ProbeEnds  BY <1>9, ProbeModelKeeps, ProbeAgentKeeps, ProbeEndsKeeps
<1>10. CASE Signal \/ Enter \/ LoopEnds \/ TurnEnds \/ Cancelled \/ Leave \/ Save \/ ProbeFails \/ CleanUp
            \/ (Start /\ point' # "exited")
  BY <1>10, QuietStepsKeep
<1> QED  BY <1>1, <1>2, <1>3, <1>4, <1>5, <1>6, <1>7, <1>8, <1>9, <1>10 DEF ProcessNext, Unwinding, Probe

\* StopsAreTold: a process that exits has sent all it observed, each observation as it
\* ended and marked as stopped only if it was, and exits with the signal it was sent.
THEOREM StopsAreToldHolds == ProcessSpec => StopsAreTold
<1>1. ProcessInit => ProcessInv  BY ProcessInvStarts
<1>2. ProcessInv /\ [ProcessNext]_processVars => ProcessInv'  BY ScaffoldStep
<1>3. ProcessInv => StopsAreMarked /\ BriefsInTraces  BY BriefsAreInTraces DEF ProcessInv
<1>4. ProcessInv /\ BriefsInTraces' /\ [ProcessNext]_processVars
      => [/\ sent \subseteq sent' /\ \A o \in Observations : obs[o] \in Over => obs'[o] = obs[o]
          /\ \A i \in 1..MaxRounds, b \in Briefs : obs'[<<i, b>>] = "open" => obs'[Trace(i)] = "open"]_processVars
  BY ScaffoldStep DEF Held, BriefsInTraces, Trace
<1> QED  BY <1>1, <1>2, <1>3, <1>4, PTL DEF ProcessSpec, StopsAreTold, ObservationsHold
=============================================================================
