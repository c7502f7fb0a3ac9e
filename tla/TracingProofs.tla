---------------------------- MODULE TracingProofs -----------------------------
(***************************************************************************)
(* Proofs about FlushTurns, which the gateway's unit runs around every     *)
(* start, for any rollouts, turns, restarts and failures: which turns are  *)
(* seen to is told by where the flush is (SeenTo); about ClaudeHook, for   *)
(* any sessions, transcripts and faults: all that was emitted, or failed   *)
(* to be, is behind what the file says, or will when the hook that holds   *)
(* the lock has saved it (EmittedBehind), and all that an entry has passed *)
(* has been processed (Passed); and about LiveTrace, for any threads,      *)
(* scripts of Codex, batches and faults: an exporter's view of a file is   *)
(* an earlier state of it (ViewsAreOfFiles), a subagent is read after what *)
(* spawned it (ParentsAreRead), and what is sent tells what stays true     *)
(* (SpansAreTrue).                                                         *)
(***************************************************************************)
EXTENDS FlushTurns, ClaudeHook, LiveTrace, FiniteSetTheorems, NaturalsInduction, WellFoundedInduction, TLAPS

----------------------------------------------------------------------------
(* The flush.  While it runs the gateway does not, so that no process writes *)
(* the gateway's rollouts, and it has been to all of those it is done with.  *)

FlushTypeOK ==
  /\ lines \in [Mains -> Seq(Nat)] /\ running \subseteq open /\ open \subseteq Mains
  /\ started \in BOOLEAN /\ recorded \in [Mains -> SUBSET Nat]
  /\ \A t \in Mains : recorded[t] \subseteq 1..LastTurn(t)
  /\ \A t \in running : LastTurn(t) > 0
  /\ stage \in {"idle", "next", "upload", "done"} /\ todo \in Seq(Mains)

\* A rollout that is open and not among those that the flush found open is late.
GatewayRests ==
  /\ stage # "idle" => ~started
  /\ ~started => Gateway \cap open = {}
  /\ Gateway \cap (late \cup inUse) = {}
  /\ stage \in {"next", "upload"} => open \ late \subseteq inUse
  /\ stage = "upload" =>
       /\ todo # <<>> /\ Head(todo) \notin inUse /\ target \in 1..LastTurn(Head(todo))
       /\ Head(todo) \in Gateway => target = LastTurn(Head(todo))

RecordedAreUploaded ==
  \A t \in Gateway : \A n \in recorded[t] : <<t, n, lines[t][n]>> \in uploads

\* The rollouts whose last turn has been seen to.
SeenTo ==
  IF started THEN Gateway \ running
  ELSE CASE stage = "idle" -> {} [] stage = "done" -> Gateway [] OTHER -> Gateway \ Range(todo)

TurnIsTold(t, n) == <<t, n, lines[t][n]>> \in uploads \/ <<t, n>> \in failed

TurnsAreTold ==
  \A t \in Gateway : \A n \in 1..LastTurn(t) : n < LastTurn(t) \/ t \in SeenTo => TurnIsTold(t, n)

FlushInv == FlushTypeOK /\ GatewayRests /\ RecordedAreUploaded /\ TurnsAreTold /\ RunningIsLeft

USE DEF Gateway, LastTurn

\* A step of the flush along the rollouts.
LEMMA NextIsTaken == ASSUME NEW s \in Seq(Mains), s # <<>>
  PROVE Head(s) \in Mains /\ Tail(s) \in Seq(Mains) /\ Range(s) = {Head(s)} \cup Range(Tail(s))
<1>1. Head(s) \in Mains /\ Tail(s) \in Seq(Mains) /\ Len(s) \in Nat \ {0} /\ Len(Tail(s)) = Len(s) - 1
  OBVIOUS
<1>2. Head(s) = s[1] /\ DOMAIN s = 1..Len(s) /\ DOMAIN Tail(s) = 1..Len(Tail(s))
  BY <1>1
<1>3. \A i \in 1..Len(s) - 1 : Tail(s)[i] = s[i + 1]
  BY <1>1
<1>4. ASSUME NEW i \in 1..Len(s), i # 1 PROVE \E j \in 1..Len(s) - 1 : Tail(s)[j] = s[i]
  <2>1. i - 1 \in 1..Len(s) - 1 /\ (i - 1) + 1 = i
    BY <1>1, <1>4
  <2> QED BY <1>3, <2>1
<1>5. ASSUME NEW i \in 1..Len(s) - 1 PROVE i + 1 \in 1..Len(s) /\ s[i + 1] = Tail(s)[i]
  BY <1>1, <1>3
<1>6. 1 \in 1..Len(s)
  BY <1>1
<1>7. Range(s) \subseteq {Head(s)} \cup Range(Tail(s))
  <2> SUFFICES ASSUME NEW i \in 1..Len(s), s[i] # s[1] PROVE \E j \in DOMAIN Tail(s) : Tail(s)[j] = s[i]
    BY <1>2 DEF Range
  <2> QED BY <1>1, <1>2, <1>4
<1>8. {Head(s)} \cup Range(Tail(s)) \subseteq Range(s)
  BY <1>1, <1>2, <1>5, <1>6 DEF Range
<1> QED BY <1>1, <1>7, <1>8

LEMMA FlushStarts == FlushInit => FlushInv
<1> SUFFICES ASSUME FlushInit PROVE FlushInv
  OBVIOUS
<1>1. \A t \in Mains : lines[t] = <<>> /\ recorded[t] = {} /\ Len(lines[t]) = 0
  BY DEF FlushInit
<1>2. lines \in [Mains -> Seq(Nat)] /\ recorded \in [Mains -> SUBSET Nat] /\ todo \in Seq(Mains)
  BY DEF FlushInit
<1>4. FlushTypeOK
  BY <1>1, <1>2 DEF FlushInit, FlushTypeOK
<1>3. GatewayRests /\ RecordedAreUploaded /\ TurnsAreTold /\ RunningIsLeft
  BY <1>1 DEF FlushInit, GatewayRests, RecordedAreUploaded, TurnsAreTold, RunningIsLeft
<1> QED BY <1>3, <1>4 DEF FlushInv

\* Codex: a rollout of the gateway is only written while no flush runs.
LEMMA OpenKeeps == ASSUME FlushInv, NEW t \in Mains, Open(t) PROVE FlushInv'
<1> USE DEF FlushInv, Open, flush
<1>1. FlushTypeOK'
  BY DEF FlushTypeOK
<1>2. GatewayRests'
  BY DEF GatewayRests
<1>3. RecordedAreUploaded' /\ TurnsAreTold'
  BY DEF RecordedAreUploaded, TurnsAreTold, TurnIsTold, SeenTo
<1>4. RunningIsLeft'
  BY DEF RunningIsLeft, FlushTypeOK
<1> QED BY <1>1, <1>2, <1>3, <1>4

LEMMA StartTurnKeeps == ASSUME FlushInv, NEW t \in Mains, StartTurn(t) PROVE FlushInv'
<1> USE DEF FlushInv, StartTurn, flush
<1>1. /\ lines[t] \in Seq(Nat) /\ lines' = [lines EXCEPT ![t] = Append(lines[t], 1)] /\ lines' \in [Mains -> Seq(Nat)]
      /\ LastTurn(t) \in Nat /\ LastTurn(t)' = LastTurn(t) + 1
      /\ \A n \in 1..LastTurn(t) : lines'[t][n] = lines[t][n]
      /\ \A s \in Mains \ {t} : lines'[s] = lines[s]
  BY DEF FlushTypeOK
<1>2. FlushTypeOK'
  <2>1. \A s \in Mains : recorded[s] \subseteq 1..LastTurn(s)'
    BY <1>1 DEF FlushTypeOK
  <2> QED BY <1>1, <2>1 DEF FlushTypeOK
<1>3. t \in Gateway => started /\ stage = "idle"
  BY DEF GatewayRests
<1>4. GatewayRests'
  <2>1. stage = "upload" => Head(todo) \in Mains
    BY DEF GatewayRests, FlushTypeOK
  <2>2. stage = "upload" => target \in 1..LastTurn(Head(todo))'
    BY <1>1, <2>1 DEF GatewayRests
  <2>3. stage = "upload" /\ Head(todo) \in Gateway => target = LastTurn(Head(todo))'
    BY <1>1, <1>3, <2>1 DEF GatewayRests
  <2> QED BY <2>2, <2>3 DEF GatewayRests
<1>5. RecordedAreUploaded'
  <2> SUFFICES ASSUME NEW s \in Gateway, NEW n \in recorded[s] PROVE <<s, n, lines'[s][n]>> \in uploads
    BY DEF RecordedAreUploaded
  <2>1. n \in 1..LastTurn(s)
    BY DEF FlushTypeOK
  <2> QED BY <1>1, <2>1 DEF RecordedAreUploaded
<1>6. TurnsAreTold'
  <2> SUFFICES ASSUME NEW s \in Gateway, NEW n \in 1..LastTurn(s)', (n < LastTurn(s) \/ s \in SeenTo)'
               PROVE TurnIsTold(s, n)'
    BY DEF TurnsAreTold
  <2>1. CASE s = t
    <3>1. s \notin SeenTo' /\ s \in SeenTo
      BY <1>3, <2>1 DEF SeenTo
    <3>2. n \in 1..LastTurn(s)
      BY <1>1, <2>1, <3>1
    <3> QED BY <1>1, <2>1, <3>1, <3>2 DEF TurnsAreTold, TurnIsTold
  <2>2. CASE s # t
    <3>1. LastTurn(s)' = LastTurn(s) /\ lines'[s] = lines[s]
      BY <1>1, <2>2
    <3>2. s \in SeenTo' => s \in SeenTo
      BY DEF SeenTo
    <3> QED BY <3>1, <3>2 DEF TurnsAreTold, TurnIsTold
  <2> QED BY <2>1, <2>2
<1>7. RunningIsLeft'
  <2>1. LastTurn(t)' \notin recorded[t]
    BY <1>1 DEF FlushTypeOK
  <2> QED BY <1>1, <2>1 DEF RunningIsLeft, FlushTypeOK
<1> QED BY <1>2, <1>4, <1>5, <1>6, <1>7

LEMMA WriteLineKeeps == ASSUME FlushInv, NEW t \in Mains, WriteLine(t) PROVE FlushInv'
<1> USE DEF FlushInv, WriteLine, flush
<1> DEFINE last == LastTurn(t)
<1>1. /\ lines[t] \in Seq(Nat) /\ lines' = [lines EXCEPT ![t] = [lines[t] EXCEPT ![last] = lines[t][last] + 1]]
      /\ DOMAIN lines = Mains /\ last \in 1..Len(lines[t]) /\ lines[t][last] + 1 \in Nat
  BY DEF FlushTypeOK
<1>2. /\ [lines[t] EXCEPT ![last] = lines[t][last] + 1] \in Seq(Nat)
      /\ Len([lines[t] EXCEPT ![last] = lines[t][last] + 1]) = Len(lines[t])
  BY <1>1
<1>3. /\ lines' \in [Mains -> Seq(Nat)] /\ \A s \in Mains : LastTurn(s)' = LastTurn(s)
      /\ \A s \in Mains : \A n \in Nat : s # t \/ n # last => lines'[s][n] = lines[s][n]
  BY <1>1, <1>2 DEF FlushTypeOK
<1>4. FlushTypeOK'
  BY <1>3 DEF FlushTypeOK
<1>5. GatewayRests'
  <2>1. stage = "upload" => Head(todo) \in Mains
    BY DEF GatewayRests, FlushTypeOK
  <2> QED BY <1>3, <2>1 DEF GatewayRests
<1>6. t \in Gateway => started /\ last \notin recorded[t]
  BY DEF GatewayRests, RunningIsLeft, FlushTypeOK
<1>7. RecordedAreUploaded'
  <2> SUFFICES ASSUME NEW s \in Gateway, NEW n \in recorded[s] PROVE <<s, n, lines'[s][n]>> \in uploads
    BY DEF RecordedAreUploaded
  <2>1. n \in Nat /\ (s # t \/ n # last)
    BY <1>6 DEF FlushTypeOK
  <2> QED BY <1>3, <2>1 DEF RecordedAreUploaded
<1>8. TurnsAreTold'
  <2> SUFFICES ASSUME NEW s \in Gateway, NEW n \in 1..LastTurn(s)', (n < LastTurn(s) \/ s \in SeenTo)'
               PROVE TurnIsTold(s, n)'
    BY DEF TurnsAreTold
  <2>1. s \in SeenTo' => s \in SeenTo
    BY DEF SeenTo
  <2>2. s # t \/ n # last
    BY <1>3, <1>6 DEF SeenTo
  <2> QED BY <1>3, <2>1, <2>2 DEF TurnsAreTold, TurnIsTold
<1>9. RunningIsLeft'
  BY <1>3 DEF RunningIsLeft, FlushTypeOK
<1> QED BY <1>4, <1>5, <1>7, <1>8, <1>9

\* An upload of a turn adds it, or its failure, to what is known, and nothing else.
LEMMA UploadTells ==
  ASSUME FlushInv, NEW t \in Mains, NEW n \in 1..LastTurn(t), UNCHANGED lines,
         Uploaded(t, n) \/ UploadFails(t, n)
  PROVE /\ recorded' \in [Mains -> SUBSET Nat]
        /\ \A s \in Mains : recorded'[s] \subseteq 1..LastTurn(s)'
        /\ \A s \in Mains : recorded'[s] \subseteq recorded[s] \cup {k \in {n} : s = t}
        /\ RecordedAreUploaded' /\ uploads \subseteq uploads' /\ failed \subseteq failed'
        /\ t \in Gateway => TurnIsTold(t, n)'
<1>0. recorded \in [Mains -> SUBSET Nat] /\ LastTurn(t) \in Nat /\ n \in Nat
  BY DEF FlushInv, FlushTypeOK
<1>1. /\ recorded' \in [Mains -> SUBSET Nat]
      /\ \A s \in Mains : recorded'[s] \subseteq recorded[s] \cup {k \in {n} : s = t}
  <2>1. CASE Uploaded(t, n)
    <3>1. recorded' = [recorded EXCEPT ![t] = recorded[t] \cup {n}]
      BY <2>1 DEF Uploaded
    <3> QED BY <1>0, <3>1
  <2>2. CASE UploadFails(t, n)
    <3>1. recorded' = recorded
      BY <2>2 DEF UploadFails
    <3> QED BY <1>0, <3>1
  <2> QED BY <2>1, <2>2
<1>2. \A s \in Mains : recorded'[s] \subseteq 1..LastTurn(s)'
  BY <1>1 DEF FlushInv, FlushTypeOK
<1>3. uploads \subseteq uploads' /\ failed \subseteq failed'
  BY DEF Uploaded, UploadFails
<1>4. t \in Gateway => TurnIsTold(t, n)'
  BY DEF Uploaded, UploadFails, TurnIsTold, FlushInv, RecordedAreUploaded
<1>5. RecordedAreUploaded'
  <2> SUFFICES ASSUME NEW s \in Gateway, NEW k \in recorded'[s] PROVE <<s, k, lines[s][k]>> \in uploads'
    BY DEF RecordedAreUploaded
  <2>1. CASE k \in recorded[s]
    BY <1>3, <2>1 DEF FlushInv, RecordedAreUploaded
  <2>2. CASE k \notin recorded[s]
    <3>1. s = t /\ k = n /\ n \notin recorded[t] /\ recorded' # recorded
      BY <1>1, <2>2
    <3> QED BY <3>1 DEF Uploaded, UploadFails
  <2> QED BY <2>1, <2>2
<1> QED BY <1>1, <1>2, <1>3, <1>4, <1>5

LEMMA EndTurnKeeps == ASSUME FlushInv, NEW t \in Mains, EndTurn(t) PROVE FlushInv'
<1> USE DEF FlushInv, EndTurn, flush
<1>1. LastTurn(t) \in 1..LastTurn(t) /\ t \in running
  BY DEF FlushTypeOK
<1>2. /\ recorded' \in [Mains -> SUBSET Nat]
      /\ \A s \in Mains : recorded'[s] \subseteq 1..LastTurn(s)'
      /\ \A s \in Mains : recorded'[s] \subseteq recorded[s] \cup {k \in {LastTurn(t)} : s = t}
      /\ RecordedAreUploaded' /\ uploads \subseteq uploads' /\ failed \subseteq failed'
      /\ t \in Gateway => TurnIsTold(t, LastTurn(t))'
  BY <1>1, UploadTells
<1>3. FlushTypeOK'
  BY <1>2 DEF FlushTypeOK
<1>4. GatewayRests'
  BY DEF GatewayRests
<1>5. TurnsAreTold'
  <2> SUFFICES ASSUME NEW s \in Gateway, NEW n \in 1..LastTurn(s), n < LastTurn(s) \/ s \in SeenTo'
               PROVE TurnIsTold(s, n)'
    BY DEF TurnsAreTold
  <2>1. CASE n < LastTurn(s) \/ s \in SeenTo
    <3>1. TurnIsTold(s, n)
      BY <2>1 DEF TurnsAreTold
    <3> QED BY <1>2, <3>1 DEF TurnIsTold
  <2>2. CASE ~(n < LastTurn(s)) /\ s \notin SeenTo
    <3>1. s = t /\ n = LastTurn(t)
      BY <1>1, <2>2 DEF SeenTo, GatewayRests, FlushTypeOK
    <3> QED BY <1>2, <3>1
  <2> QED BY <2>1, <2>2
<1>6. RunningIsLeft'
  <2> SUFFICES ASSUME NEW s \in running' \ late PROVE LastTurn(s) \notin recorded'[s]
    BY DEF RunningIsLeft
  <2>1. s # t /\ s \in Mains /\ LastTurn(s) \notin recorded[s]
    BY DEF RunningIsLeft, FlushTypeOK
  <2> QED BY <1>2, <2>1
<1> QED BY <1>2, <1>3, <1>4, <1>5, <1>6

\* A process that goes takes its rollouts with it, and what it held was held.
LEMMA ExitKeeps ==
  ASSUME FlushInv, NEW gone, Exit(gone)
  PROVE /\ running' \subseteq open' /\ open' \subseteq Mains /\ RecordedAreUploaded' /\ RunningIsLeft'
        /\ \A t \in running' : LastTurn(t)' > 0
        /\ \A t \in Mains : recorded'[t] \subseteq 1..LastTurn(t)'
<1> QED BY DEF FlushInv, Exit, FlushTypeOK, RecordedAreUploaded, RunningIsLeft

LEMMA StopOperatorKeeps == ASSUME FlushInv, NEW t \in Mains, StopOperator(t) PROVE FlushInv'
<1> USE DEF FlushInv, StopOperator, flush
<1>0. Exit({t}) /\ t \notin Gateway
  OBVIOUS
<1>1. FlushTypeOK' /\ RecordedAreUploaded' /\ RunningIsLeft'
  BY <1>0, ExitKeeps DEF FlushTypeOK, Exit
<1>2. GatewayRests'
  BY <1>0 DEF GatewayRests, Exit
<1>3. TurnsAreTold'
  <2>1. SeenTo' = SeenTo
    BY <1>0 DEF SeenTo, Exit
  <2> QED BY <1>0, <2>1 DEF TurnsAreTold, TurnIsTold, Exit
<1> QED BY <1>1, <1>2, <1>3

\* The gateway starts after a flush that has been to all of its rollouts.
LEMMA StartGatewayKeeps == ASSUME FlushInv, StartGateway PROVE FlushInv'
<1> USE DEF FlushInv, StartGateway, Before
<1>1. FlushTypeOK' /\ RecordedAreUploaded' /\ RunningIsLeft'
  BY DEF FlushTypeOK, RecordedAreUploaded, RunningIsLeft
<1>2. GatewayRests'
  BY DEF GatewayRests
<1>3. TurnsAreTold'
  <2>1. SeenTo' \subseteq SeenTo
    BY DEF SeenTo
  <2> QED BY <2>1 DEF TurnsAreTold, TurnIsTold
<1> QED BY <1>1, <1>2, <1>3

\* The flush begins: of no rollout of the gateway is the last turn seen to.
LEMMA StopGatewayKeeps == ASSUME FlushInv, StopGateway PROVE FlushInv'
<1> USE DEF FlushInv, StopGateway, BeginFlush, OpenRollouts
<1> DEFINE gone == Gateway \cap open
<1>0. Exit(gone)
  OBVIOUS
<1>1. FlushTypeOK' /\ RecordedAreUploaded' /\ RunningIsLeft'
  BY <1>0, ExitKeeps, FlushAssumption DEF FlushTypeOK, Exit
<1>2. GatewayRests'
  BY <1>0 DEF GatewayRests, Exit
<1>3. TurnsAreTold'
  <2>1. Gateway \subseteq Range(todo')
    BY DEF Mains
  <2>2. SeenTo' = {}
    BY <2>1 DEF SeenTo
  <2> QED BY <1>0, <2>2 DEF TurnsAreTold, TurnIsTold, Exit
<1> QED BY <1>1, <1>2, <1>3

LEMMA StartPreKeeps == ASSUME FlushInv, StartPre PROVE FlushInv'
<1> USE DEF FlushInv, StartPre, BeginFlush, OpenRollouts, codexState
<1>1. FlushTypeOK' /\ RecordedAreUploaded' /\ RunningIsLeft'
  BY FlushAssumption DEF FlushTypeOK, RecordedAreUploaded, RunningIsLeft
<1>2. GatewayRests'
  BY DEF GatewayRests
<1>3. TurnsAreTold'
  <2>1. Gateway \subseteq Range(todo')
    BY DEF Mains
  <2>2. SeenTo' = {}
    BY <2>1 DEF SeenTo
  <2> QED BY <2>2 DEF TurnsAreTold, TurnIsTold
<1> QED BY <1>1, <1>2, <1>3

\* A rollout of the gateway is never in use meanwhile, so that it is only passed over
\* when it has no turn or its last one was uploaded.
LEMMA NextRolloutKeeps == ASSUME FlushInv, NextRollout PROVE FlushInv'
<1> USE DEF FlushInv, NextRollout, codexState
<1> DEFINE h == Head(todo)
<1>0. h \in Mains /\ Tail(todo) \in Seq(Mains) /\ Range(todo) = {h} \cup Range(Tail(todo)) /\ LastTurn(h) \in Nat
  BY NextIsTaken DEF FlushTypeOK
<1>1. FlushTypeOK' /\ RecordedAreUploaded' /\ RunningIsLeft'
  BY <1>0 DEF FlushTypeOK, RecordedAreUploaded, RunningIsLeft
<1>2. GatewayRests'
  BY <1>0 DEF GatewayRests, Skips
<1>3. TurnsAreTold'
  <2> SUFFICES ASSUME NEW t \in Gateway, NEW n \in 1..LastTurn(t), n < LastTurn(t) \/ t \in SeenTo'
               PROVE TurnIsTold(t, n)
    BY DEF TurnsAreTold, TurnIsTold
  <2>1. CASE n < LastTurn(t) \/ t \in SeenTo
    BY <2>1 DEF TurnsAreTold
  <2>2. CASE ~(n < LastTurn(t)) /\ t \notin SeenTo
    <3>0. stage = "next" /\ stage' \in {"next", "upload"} /\ ~started /\ ~started'
      BY DEF GatewayRests
    <3>1. t \in Range(todo) /\ t \notin Range(todo')
      BY <2>2, <3>0 DEF SeenTo
    <3>3. t = h /\ Skips(h)
      BY <1>0, <3>1
    <3>4. LastTurn(t) \in Nat /\ n = LastTurn(t)
      BY <2>2 DEF FlushTypeOK
    <3>2. LastTurn(t) \in recorded[t]
      BY <3>3, <3>4 DEF Skips, GatewayRests
    <3> QED BY <3>2, <3>4 DEF RecordedAreUploaded, TurnIsTold
  <2> QED BY <2>1, <2>2
<1> QED BY <1>1, <1>2, <1>3

LEMMA UploadKeeps == ASSUME FlushInv, Upload PROVE FlushInv'
<1> USE DEF FlushInv, Upload, codexState
<1> PICK h, k : h = Head(todo) /\ k = target
  OBVIOUS
<1>0. /\ h \in Mains /\ Tail(todo) \in Seq(Mains) /\ Range(todo) = {h} \cup Range(Tail(todo)) /\ k \in 1..LastTurn(h)
      /\ h \in Gateway => k = LastTurn(h)
  BY NextIsTaken DEF FlushTypeOK, GatewayRests
<1>1. /\ recorded' \in [Mains -> SUBSET Nat]
      /\ \A s \in Mains : recorded'[s] \subseteq 1..LastTurn(s)'
      /\ \A s \in Mains : recorded'[s] \subseteq recorded[s] \cup {i \in {k} : s = h}
      /\ RecordedAreUploaded' /\ uploads \subseteq uploads' /\ failed \subseteq failed'
      /\ h \in Gateway => TurnIsTold(h, k)'
  <2>1. UNCHANGED lines /\ (Uploaded(h, k) \/ UploadFails(h, k))
    OBVIOUS
  <2> QED BY <1>0, <2>1, UploadTells
<1>2. FlushTypeOK'
  BY <1>0, <1>1 DEF FlushTypeOK
<1>3. GatewayRests'
  BY DEF GatewayRests
<1>4. RunningIsLeft'
  <2> SUFFICES ASSUME NEW s \in running \ late PROVE LastTurn(s) \notin recorded'[s]
    BY DEF RunningIsLeft
  <2>1. s \in Mains /\ s # h /\ LastTurn(s) \notin recorded[s]
    BY DEF RunningIsLeft, FlushTypeOK, GatewayRests
  <2> QED BY <1>1, <2>1
<1>5. TurnsAreTold'
  <2> SUFFICES ASSUME NEW t \in Gateway, NEW n \in 1..LastTurn(t), n < LastTurn(t) \/ t \in SeenTo'
               PROVE TurnIsTold(t, n)'
    BY DEF TurnsAreTold
  <2>1. CASE n < LastTurn(t) \/ t \in SeenTo
    <3>1. TurnIsTold(t, n)
      BY <2>1 DEF TurnsAreTold
    <3> QED BY <1>1, <3>1 DEF TurnIsTold
  <2>2. CASE ~(n < LastTurn(t)) /\ t \notin SeenTo
    <3>1. t = h /\ n = LastTurn(t)
      BY <1>0, <2>2 DEF SeenTo, GatewayRests, FlushTypeOK
    <3> QED BY <1>0, <1>1, <3>1
  <2> QED BY <2>1, <2>2
<1> QED BY <1>1, <1>2, <1>3, <1>4, <1>5

LEMMA EndFlushKeeps == ASSUME FlushInv, EndFlush PROVE FlushInv'
<1> USE DEF FlushInv, EndFlush, codexState
<1>1. FlushTypeOK' /\ RecordedAreUploaded' /\ RunningIsLeft'
  BY DEF FlushTypeOK, RecordedAreUploaded, RunningIsLeft
<1>2. GatewayRests'
  BY DEF GatewayRests
<1>3. TurnsAreTold'
  <2>1. Range(todo) = {}
    BY DEF Range
  <2>2. SeenTo' \subseteq SeenTo
    BY <2>1 DEF SeenTo, GatewayRests
  <2> QED BY <2>2 DEF TurnsAreTold, TurnIsTold
<1> QED BY <1>1, <1>2, <1>3

\* What a flush that is cut short had yet to look at counts as failed.
LEMMA CutFlushKeeps == ASSUME FlushInv, CutFlush PROVE FlushInv'
<1> USE DEF FlushInv, CutFlush, codexState
<1>1. FlushTypeOK' /\ RecordedAreUploaded' /\ RunningIsLeft'
  BY DEF FlushTypeOK, RecordedAreUploaded, RunningIsLeft
<1>2. GatewayRests'
  BY DEF GatewayRests
<1>3. TurnsAreTold'
  <2> SUFFICES ASSUME NEW t \in Gateway, NEW n \in 1..LastTurn(t), n < LastTurn(t) \/ t \in SeenTo'
               PROVE TurnIsTold(t, n)'
    BY DEF TurnsAreTold
  <2>1. CASE n < LastTurn(t) \/ t \in SeenTo
    <3>1. TurnIsTold(t, n)
      BY <2>1 DEF TurnsAreTold
    <3> QED BY <3>1 DEF TurnIsTold
  <2>2. CASE ~(n < LastTurn(t)) /\ t \notin SeenTo
    <3>1. t \in Range(todo) \ inUse /\ n = LastTurn(t)
      BY <2>2 DEF SeenTo, GatewayRests, FlushTypeOK
    <3> QED BY <3>1 DEF TurnIsTold
  <2> QED BY <2>1, <2>2
<1> QED BY <1>1, <1>2, <1>3

LEMMA FlushKeeps == FlushInv /\ [FlushNext]_flushVars => FlushInv'
<1> SUFFICES ASSUME FlushInv, [FlushNext]_flushVars PROVE FlushInv'
  OBVIOUS
<1>1. CASE UNCHANGED flushVars
  BY <1>1 DEF flushVars, flush, codexState, FlushInv, FlushTypeOK, GatewayRests, RecordedAreUploaded, TurnsAreTold,
       TurnIsTold, SeenTo, RunningIsLeft
<1>2. ASSUME NEW t \in Mains, Open(t) \/ StartTurn(t) \/ WriteLine(t) \/ EndTurn(t) \/ StopOperator(t) PROVE FlushInv'
  BY <1>2, OpenKeeps, StartTurnKeeps, WriteLineKeeps, EndTurnKeeps, StopOperatorKeeps
<1>3. CASE StartGateway \/ StopGateway \/ StartPre
  BY <1>3, StartGatewayKeeps, StopGatewayKeeps, StartPreKeeps
<1>4. CASE NextRollout \/ Upload \/ EndFlush \/ CutFlush
  BY <1>4, NextRolloutKeeps, UploadKeeps, EndFlushKeeps, CutFlushKeeps
<1> QED BY <1>1, <1>2, <1>3, <1>4 DEF FlushNext

\* codex-flush-turns.py: whatever the gateway's Codex wrote before it ended or was
\* killed is uploaded whole before its next turn, or an upload of it failed; what a
\* live process still writes is not uploaded.  So for any rollouts and any number of
\* turns, restarts and failures.
THEOREM FlushIsSafeHolds == FlushSpec => []FlushIsSafe
<1>1. FlushInv => FlushIsSafe
  BY DEF FlushInv, FlushIsSafe, TurnsAreFlushed, TurnsAreTold, TurnIsTold, SeenTo
<1> QED BY <1>1, FlushStarts, FlushKeeps, PTL DEF FlushSpec
----------------------------------------------------------------------------
(* The Claude hook: what its file says of what was emitted *)

Entries == [offset : Nat, buffer : {0, 1}, turns : Nat]
TurnsOfRows == [user : Nat, messages : SUBSET Nat, results : SUBSET Nat]

HookTypeOK ==
  /\ written \in [Sessions -> Nat] /\ \A s \in Sessions : Half(s) <= Len(Rows[s])
  /\ state \in [Sessions -> Entries] /\ mine \in [Sessions -> [Sessions -> Entries]]
  /\ hookAt \in [Sessions -> {"none", "wait", "load", "save", "flush", "ran"}]
  /\ Processed \subseteq Sessions \X Nat \X TurnsOfRows

\* What the file says of a session, or will when the hook that has the lock saves it.
Entry(s) == IF hookAt[s] = "save" THEN mine[s][s] ELSE state[s]

\* The entries of a hook that has the lock are those of the file, but for its own.
LockIsHeld ==
  /\ \A s \in Sessions : hookAt[s] \in {"load", "save"} <=> stateLock = s
  /\ \A s \in Sessions : hookAt[s] = "save" => \A t \in Sessions \ {s} : mine[s][t] = state[t]
  /\ \A s \in Sessions : \A entry \in {state[s], Entry(s)} : entry.offset <= written[s] /\ entry.buffer = entry.offset % 2

\* A hook under way sees what it saw at the end of the turn, the last row perhaps in full.
TurnIsOver ==
  \A s \in Sessions : hookAt[s] \in {"wait", "load", "save", "flush"} => Half(s) > 0 /\ EndsTurn(s, Half(s))

\* Where the next turns will begin and be counted from is behind all that was processed.
EmittedBehind ==
  \A e \in Processed : e[1] \notin unsaved =>
    e[2] <= Entry(e[1]).turns /\ e[3].user <= Entry(e[1]).offset \div 2

\* What an entry has passed.
Passed(s, entry) ==
  \A row \in 1..(entry.offset \div 2) :
    Rows[s][row].kind = "user" /\ Told(s, row, "assistant") # {} =>
      (\E e \in Processed : e[1] = s /\ e[3].user = row) \/ \E t \in torn : t[1] = s /\ t[2] \in TurnOf(s, row)

\* A turn whose emission failed was whole as well.
ProcessedAreWhole ==
  \A e \in Processed :
    IsWhole(e[1], e[3]) \/ \E t \in torn : t[1] = e[1] /\ t[2] \in TurnOf(e[1], e[3].user)

HookInv ==
  /\ HookTypeOK /\ LockIsHeld /\ TurnIsOver /\ EmittedBehind
  /\ \A s \in Sessions : Passed(s, state[s]) /\ Passed(s, Entry(s))
  /\ ProcessedAreWhole /\ NumbersNameTurns

----------------------------------------------------------------------------
(* The hook: what is built of rows *)

LEMMA Halves ==
  \A n \in Nat : /\ n \div 2 \in Nat /\ n % 2 \in {0, 1} /\ n = 2 * (n \div 2) + (n % 2)
                 /\ (n + 1) \div 2 = (n \div 2) + (n % 2)
                 /\ n % 2 = 0 => (n - 0) \div 2 = n \div 2
                 /\ n % 2 = 1 => (n - 1) \div 2 = n \div 2
OBVIOUS

\* The rows behind a user row are its turn when they reach its end.
LEMMA FollowingIsTheTurn ==
  ASSUME NEW s \in Sessions, NEW first \in Nat \ {0}, NEW last \in Nat, last <= Len(Rows[s]),
         NEW user \in first..last, \A n \in TurnOf(s, user) : n <= last
  PROVE  Following(s, first..last, user) = TurnOf(s, user)
<1>1. Len(Rows[s]) \in Nat
  BY RowsAssumption
<1>2. \A k \in Nat : k < Len(Rows[s]) => (~EndsTurn(s, k) <=> Rows[s][k + 1].kind # "user")
  BY DEF EndsTurn
<1>3. ASSUME NEW n \in TurnOf(s, user) PROVE n \in Following(s, first..last, user)
  <2>1. n \in user..Len(Rows[s]) /\ n <= last /\ \A k \in user..n - 1 : ~EndsTurn(s, k)
    BY <1>3 DEF TurnOf
  <2>2. ASSUME NEW k \in user + 1..n PROVE Rows[s][k].kind # "user"
    <3>1. k - 1 \in user..n - 1 /\ k - 1 \in Nat /\ k - 1 < Len(Rows[s]) /\ (k - 1) + 1 = k
      BY <1>1, <2>1, <2>2
    <3> QED BY <1>2, <2>1, <3>1
  <2> QED BY <2>1, <2>2 DEF Following
<1>4. ASSUME NEW n \in Following(s, first..last, user) PROVE n \in TurnOf(s, user)
  <2>1. n \in first..last /\ n >= user /\ \A k \in user + 1..n : Rows[s][k].kind # "user"
    BY <1>4 DEF Following
  <2>2. ASSUME NEW k \in user..n - 1 PROVE ~EndsTurn(s, k)
    <3>1. k + 1 \in user + 1..n /\ k \in Nat /\ k < Len(Rows[s])
      BY <1>1, <2>1, <2>2
    <3> QED BY <1>2, <2>1, <3>1
  <2>3. n \in user..Len(Rows[s])
    BY <1>1, <2>1
  <2> QED BY <2>2, <2>3 DEF TurnOf
<1> QED BY <1>3, <1>4

LEMMA TurnEnds ==
  ASSUME NEW s \in Sessions, NEW h \in Nat, EndsTurn(s, h), NEW user \in 1..h
  PROVE  \A n \in TurnOf(s, user) : n <= h
<1> SUFFICES ASSUME NEW n \in TurnOf(s, user), n > h PROVE FALSE
  BY RowsAssumption DEF TurnOf
<1>1. n \in Int /\ \A k \in user..n - 1 : ~EndsTurn(s, k)
  BY RowsAssumption DEF TurnOf
<1> QED BY <1>1

\* What the hook reads at the end of a turn is whole turns, but for the last one if its last
\* row was half written.
IsCut(s, user) == written[s] % 2 = 1 /\ Half(s) \in TurnOf(s, user)

LEMMA TurnsRead ==
  ASSUME HookTypeOK, NEW s \in Sessions, Half(s) > 0, EndsTurn(s, Half(s)),
         NEW first \in Nat \ {0}, NEW user \in first..Complete(s), ~IsCut(s, user)
  PROVE  Following(s, first..Complete(s), user) = TurnOf(s, user)
<1>1. /\ written[s] \in Nat /\ Half(s) <= Len(Rows[s]) /\ Len(Rows[s]) \in Nat
      /\ Complete(s) \in Nat /\ Half(s) = Complete(s) + (written[s] % 2) /\ written[s] % 2 \in {0, 1}
  BY Halves, RowsAssumption DEF HookTypeOK, Complete, Half
<1>2. \A n \in TurnOf(s, user) : n <= Half(s)
  <2>1. user \in 1..Half(s) /\ Half(s) \in Nat
    BY <1>1
  <2> QED BY <2>1, TurnEnds
<1>3. \A n \in TurnOf(s, user) : n \in Int
  BY <1>1 DEF TurnOf
<1>4. \A n \in TurnOf(s, user) : n <= Complete(s)
  BY <1>1, <1>2, <1>3 DEF IsCut
<1>5. Complete(s) <= Len(Rows[s])
  BY <1>1
<1> QED BY <1>1, <1>4, <1>5, FollowingIsTheTurn

LEMMA TurnsBuilt ==
  ASSUME HookTypeOK, NEW s \in Sessions, Half(s) > 0, EndsTurn(s, Half(s)), NEW first \in Nat \ {0}
  PROVE  LET rows == first..Complete(s) IN
         /\ \A turn \in BuildTurns(s, rows) :
              /\ turn \in TurnsOfRows /\ turn.user \in rows /\ turn = Turn(s, rows, turn.user)
              /\ IsWhole(s, turn) \/ IsCut(s, turn.user)
         /\ \A user \in rows :
              Rows[s][user].kind = "user" /\ Told(s, user, "assistant") # {} /\ ~IsCut(s, user) =>
                \E turn \in BuildTurns(s, rows) : turn.user = user
<1> DEFINE rows == first..Complete(s)
<1>1. Complete(s) \in Nat
  BY Halves DEF HookTypeOK, Complete
<1>2. rows \subseteq Nat
  BY <1>1
<1>3. \A user \in rows : /\ Turn(s, rows, user).user = user
                         /\ Turn(s, rows, user).messages = Latest(s, Following(s, rows, user), "assistant")
                         /\ Turn(s, rows, user).results = Latest(s, Following(s, rows, user), "result")
                         /\ Turn(s, rows, user) \in TurnsOfRows
  BY <1>2 DEF Turn, Following, Latest, TurnsOfRows
<1>4. \A user \in rows : ~IsCut(s, user) => Following(s, rows, user) = TurnOf(s, user)
  BY TurnsRead
<1> HIDE DEF rows
<1>5. ASSUME NEW turn \in BuildTurns(s, rows)
      PROVE  /\ turn \in TurnsOfRows /\ turn.user \in rows /\ turn = Turn(s, rows, turn.user)
             /\ IsWhole(s, turn) \/ IsCut(s, turn.user)
  <2>1. PICK user \in Users(s, rows) : turn = Turn(s, rows, user)
    BY DEF BuildTurns, Kept
  <2>2. user \in rows
    BY DEF Users
  <2> QED BY <1>3, <1>4, <2>1, <2>2 DEF IsWhole, Told
<1>6. ASSUME NEW user \in rows, Rows[s][user].kind = "user", Told(s, user, "assistant") # {}, ~IsCut(s, user)
      PROVE  \E turn \in BuildTurns(s, rows) : turn.user = user
  <2>1. user \in Users(s, rows)
    BY <1>6 DEF Users
  <2>2. Turn(s, rows, user).messages # {}
    BY <1>3, <1>4, <1>6 DEF Told
  <2>3. Turn(s, rows, user) \in BuildTurns(s, rows)
    BY <2>1, <2>2 DEF BuildTurns, Kept
  <2> QED BY <1>3, <2>3
<1> QED BY <1>5, <1>6 DEF rows

\* The numbers of new turns follow those that were given, and each is given once.
LEMMA NumbersFollow ==
  ASSUME NEW turns, IsFiniteSet(turns), turns \subseteq TurnsOfRows, \A t, u \in turns : t.user = u.user => t = u,
         NEW entry \in Entries
  PROVE  /\ Cardinality(turns) \in Nat
         /\ \A t \in turns : Number(entry, turns, t) \in entry.turns + 1..entry.turns + Cardinality(turns)
         /\ \A t, u \in turns : t # u => Number(entry, turns, t) # Number(entry, turns, u)
<1> DEFINE upTo(t) == {u \in turns : u.user <= t.user}
<1>1. entry.turns \in Nat /\ \A t \in turns : t.user \in Nat
  BY DEF Entries, TurnsOfRows
<1>2. \A t \in turns : /\ IsFiniteSet(upTo(t)) /\ Cardinality(upTo(t)) \in Nat /\ Cardinality(upTo(t)) <= Cardinality(turns)
                       /\ Number(entry, turns, t) = entry.turns + Cardinality(upTo(t))
  BY FS_Subset, FS_CardinalityType DEF Number
<1>3. ASSUME NEW t \in turns PROVE Cardinality(upTo(t)) # 0
  <2>1. t \in upTo(t)
    BY <1>1
  <2> QED BY <1>2, <2>1, FS_EmptySet
<1>4. Cardinality(turns) \in Nat
  BY FS_CardinalityType
<1>5. ASSUME NEW t \in turns, NEW u \in turns, t.user < u.user PROVE Cardinality(upTo(t)) # Cardinality(upTo(u))
  <2>1. upTo(t) \in SUBSET upTo(u) /\ u \in upTo(u) /\ u \notin upTo(t)
    BY <1>1, <1>5
  <2> QED BY <1>2, <2>1, FS_Subset
<1>6. ASSUME NEW t \in turns, NEW u \in turns, t # u PROVE Cardinality(upTo(t)) # Cardinality(upTo(u))
  <2>1. t.user < u.user \/ u.user < t.user
    BY <1>1, <1>6
  <2> QED BY <1>5, <2>1
<1> HIDE DEF upTo
<1>7. \A t \in turns : Number(entry, turns, t) \in entry.turns + 1..entry.turns + Cardinality(turns)
  BY <1>1, <1>2, <1>3, <1>4
<1>8. \A t, u \in turns : t # u => Number(entry, turns, t) # Number(entry, turns, u)
  BY <1>1, <1>2, <1>6
<1> QED BY <1>4, <1>7, <1>8

LEMMA TurnsAreFinite ==
  ASSUME NEW s, NEW first \in Int, NEW last \in Int
  PROVE  IsFiniteSet(BuildTurns(s, first..last))
<1> DEFINE rows == first..last
           built == [n \in rows |-> Turn(s, rows, n)]
           all == {Turn(s, rows, n) : n \in rows}
<1>1. IsFiniteSet(rows)
  BY FS_Interval
<1>2. built \in Surjection(rows, all)
  <2> HIDE DEF rows
  <2> QED BY DEF Surjection
<1>3. IsFiniteSet(all)
  <2> HIDE DEF built, all, rows
  <2> QED BY <1>1, <1>2, FS_Surjection
<1>4. BuildTurns(s, rows) \in SUBSET all
  BY DEF BuildTurns, Kept, Users
<1> HIDE DEF all
<1>5. IsFiniteSet(BuildTurns(s, rows))
  BY <1>3, <1>4, FS_Subset
<1> QED BY <1>5

----------------------------------------------------------------------------
(* The hook: the steps *)

LEMMA HookStarts == HookInit => HookInv
<1> SUFFICES ASSUME HookInit PROVE HookInv
  OBVIOUS
<1>1. /\ written = [s \in Sessions |-> 0] /\ state = Nothing /\ stateLock = Nobody
      /\ hookAt = [s \in Sessions |-> "none"] /\ mine = [s \in Sessions |-> Nothing] /\ Processed = {}
  BY DEF HookInit, Processed
<1>2. Fresh \in Entries /\ Nothing \in [Sessions -> Entries] /\ \A s \in Sessions : Nothing[s] = Fresh
  BY DEF Fresh, Nothing, Entries
<1>3. \A s \in Sessions : written[s] = 0 /\ state[s] = Fresh /\ Entry(s) = Fresh /\ hookAt[s] = "none"
  BY <1>1, <1>2 DEF Entry
<1>4. 0 \div 2 = 0 /\ (0 + 1) \div 2 = 0 /\ 0 % 2 = 0
  OBVIOUS
<1>5. HookTypeOK
  <2>1. \A s \in Sessions : Half(s) <= Len(Rows[s])
    BY <1>3, <1>4, RowsAssumption DEF Half
  <2> QED BY <1>1, <1>2, <2>1 DEF HookTypeOK
<1>6. LockIsHeld
  BY <1>1, <1>3, <1>4, RowsAssumption DEF LockIsHeld, Fresh
<1>7. TurnIsOver /\ EmittedBehind /\ ProcessedAreWhole /\ NumbersNameTurns
  BY <1>1, <1>3 DEF TurnIsOver, EmittedBehind, ProcessedAreWhole, NumbersNameTurns
<1>8. \A s \in Sessions : Passed(s, state[s]) /\ Passed(s, Entry(s))
  BY <1>3, <1>4 DEF Passed, Fresh
<1> QED BY <1>5, <1>6, <1>7, <1>8 DEF HookInv

\* Of steps that emit nothing: what was told stands.
LEMMA ToldStands ==
  ASSUME HookInv, UNCHANGED <<Processed, torn>>, unsaved \subseteq unsaved'
  PROVE  /\ ProcessedAreWhole' /\ NumbersNameTurns'
         /\ \A s, entry : Passed(s, entry)' <=> Passed(s, entry)
BY DEF HookInv, ProcessedAreWhole, NumbersNameTurns, Passed

LEMMA ClaudeWrites == ASSUME HookInv, NEW s \in Sessions, WriteRow(s) PROVE HookInv'
<1>1. /\ Complete(s) < Len(Rows[s])
      /\ Rows[s][Complete(s) + 1].kind = "user" => hookAt[s] \in {"none", "ran"}
      /\ written' = [written EXCEPT ![s] = written[s] + (IF EndsTurn(s, Complete(s) + 1) THEN 1 ELSE 2)]
      /\ hookAt' = [hookAt EXCEPT ![s] = IF EndsTurn(s, Complete(s) + 1) \/ hookAt[s] # "ran" THEN hookAt[s] ELSE "none"]
      /\ UNCHANGED <<state, stateLock, mine, Processed, unsaved, torn>>
  BY DEF WriteRow, Processed
<1>2. /\ written \in [Sessions -> Nat] /\ hookAt \in [Sessions -> {"none", "wait", "load", "save", "flush", "ran"}]
      /\ Len(Rows[s]) \in Nat
  BY RowsAssumption DEF HookInv, HookTypeOK
<1>3. /\ written[s] \in Nat /\ Complete(s) \in Nat /\ written[s] = 2 * Complete(s) + (written[s] % 2) /\ written[s] % 2 \in {0, 1}
      /\ Half(s) = Complete(s) + (written[s] % 2)
  BY <1>2, Halves DEF Complete, Half
<1>4. /\ written'[s] = written[s] + (IF EndsTurn(s, Complete(s) + 1) THEN 1 ELSE 2)
      /\ \A t \in Sessions \ {s} : written'[t] = written[t] /\ hookAt'[t] = hookAt[t]
      /\ hookAt'[s] \in {hookAt[s], "none"} /\ (hookAt'[s] = "none" => hookAt[s] \in {"none", "ran"})
  BY <1>1, <1>2
\* While the hook is at work Claude does no more than complete the row.
<1>5. ASSUME hookAt[s] \notin {"none", "ran"}
      PROVE  written'[s] = written[s] + 1 /\ written[s] % 2 = 1
  <2>1. Half(s) > 0 /\ EndsTurn(s, Half(s))
    BY <1>2, <1>5 DEF HookInv, TurnIsOver
  <2>2. CASE written[s] % 2 = 0
    <3>1. Rows[s][Complete(s) + 1].kind = "user"
      BY SMTT(30), <1>1, <1>3, <2>1, <2>2 DEF EndsTurn
    <3> QED BY <1>1, <1>5, <3>1
  <2>3. CASE written[s] % 2 = 1
    BY <1>3, <1>4, <2>1, <2>3
  <2> QED BY <1>3, <2>2, <2>3
<1>6. \A n \in Nat : n % 2 = 1 => (n + 1 + 1) \div 2 = (n + 1) \div 2
  OBVIOUS
<1>7. HookTypeOK'
  <2>1. written' \in [Sessions -> Nat]
    <3> DEFINE more == IF EndsTurn(s, Complete(s) + 1) THEN 1 ELSE 2
    <3>1. written[s] + more \in Nat
      BY <1>3
    <3> HIDE DEF more
    <3>2. written' = [written EXCEPT ![s] = written[s] + more]
      BY <1>1 DEF more
    <3> QED BY <1>2, <3>1, <3>2
  <2>2. hookAt' \in [Sessions -> {"none", "wait", "load", "save", "flush", "ran"}]
    BY <1>1, <1>2
  <2>3. Half(s)' <= Len(Rows[s])
    <3>1. written'[s] <= 2 * Len(Rows[s])
      <4>1. CASE EndsTurn(s, Complete(s) + 1)
        BY <1>1, <1>2, <1>3, <1>4, <4>1
      <4>2. CASE ~EndsTurn(s, Complete(s) + 1)
        BY <1>2, <1>3, <1>4, <4>2 DEF EndsTurn
      <4> QED BY <4>1, <4>2
    <3>2. \A n, l \in Nat : n <= 2 * l => (n + 1) \div 2 <= l
      OBVIOUS
    <3> QED BY <1>2, <2>1, <3>1, <3>2 DEF Half
  <2>4. \A t \in Sessions : Half(t)' <= Len(Rows[t])
    BY <1>4, <2>3 DEF HookInv, HookTypeOK, Half
  <2> QED BY <1>1, <2>1, <2>2, <2>4 DEF HookInv, HookTypeOK
<1>8. \A t \in Sessions : Entry(t)' = Entry(t)
  BY <1>1, <1>4 DEF Entry
<1>9. \A t \in Sessions : written[t] <= written'[t] /\ written[t] \in Nat /\ written'[t] \in Nat
  <2> SUFFICES ASSUME NEW t \in Sessions PROVE written[t] <= written'[t] /\ written[t] \in Nat /\ written'[t] \in Nat
    OBVIOUS
  <2>1. CASE t = s
    BY <1>3, <1>4, <2>1
  <2>2. CASE t # s
    BY <1>2, <1>4, <2>2
  <2> QED BY <2>1, <2>2
<1>10. LockIsHeld'
  <2>1. \A t \in Sessions : \A entry \in {state[t], Entry(t)} : entry.offset <= written'[t] /\ entry.buffer = entry.offset % 2
    <3> SUFFICES ASSUME NEW t \in Sessions, NEW entry \in {state[t], Entry(t)}
                 PROVE  entry.offset <= written'[t] /\ entry.buffer = entry.offset % 2
      OBVIOUS
    <3>1. entry \in Entries
      BY DEF HookInv, HookTypeOK, Entry
    <3>2. entry.offset <= written[t] /\ entry.buffer = entry.offset % 2 /\ entry.offset \in Nat
      BY <3>1 DEF HookInv, LockIsHeld, Entries
    <3> QED BY <1>9, <3>2
  <2> QED BY <1>1, <1>4, <1>8, <2>1 DEF HookInv, LockIsHeld
<1>11. TurnIsOver'
  <2> SUFFICES ASSUME NEW t \in Sessions, hookAt'[t] \in {"wait", "load", "save", "flush"}
               PROVE  Half(t)' > 0 /\ EndsTurn(t, Half(t)')
    BY DEF TurnIsOver, EndsTurn
  <2>1. Half(t)' = Half(t)
    <3>1. CASE t = s
      BY <1>2, <1>4, <1>5, <1>6, <3>1 DEF Half
    <3>2. CASE t # s
      BY <1>4, <3>2 DEF Half
    <3> QED BY <3>1, <3>2
  <2> QED BY <1>4, <2>1 DEF HookInv, TurnIsOver
<1>12. EmittedBehind'
  BY <1>1, <1>8 DEF HookInv, HookTypeOK, EmittedBehind
<1>13. ProcessedAreWhole' /\ NumbersNameTurns' /\ \A t, entry : Passed(t, entry)' <=> Passed(t, entry)
  BY <1>1, ToldStands
<1>14. \A t \in Sessions : Passed(t, state[t])' /\ Passed(t, Entry(t))'
  BY <1>1, <1>8, <1>13 DEF HookInv, Passed
<1> QED BY <1>7, <1>10, <1>11, <1>12, <1>13, <1>14 DEF HookInv

\* Steps of a hook that write no row and emit nothing: the entries but those that are
\* forgotten stand, and Complete and Half with them.
LEMMA EntriesStand ==
  ASSUME HookInv, HookTypeOK', LockIsHeld', TurnIsOver', UNCHANGED <<written, Processed, torn>>, unsaved \subseteq unsaved',
         \A s \in Sessions : /\ state'[s] \in {state[s], Entry(s), Fresh}
                             /\ \/ Entry(s)' = Entry(s)
                                \/ s \in unsaved' /\ Entry(s)' \in {state[s], Fresh}
  PROVE  HookInv'
<1>1. ProcessedAreWhole' /\ NumbersNameTurns' /\ \A s, entry : Passed(s, entry)' <=> Passed(s, entry)
  BY ToldStands
<1>2. \A s \in Sessions : Passed(s, Fresh)
  <2>1. 0 \div 2 = 0 /\ 1..0 = {}
    OBVIOUS
  <2> QED BY <2>1 DEF Passed, Fresh
<1>3. ASSUME NEW s \in Sessions PROVE Passed(s, state[s])' /\ Passed(s, Entry(s))'
  <2>1. PICK a, b : a = state'[s] /\ b = Entry(s)'
    OBVIOUS
  <2>2. Passed(s, a) /\ Passed(s, b)
    BY <1>2, <2>1 DEF HookInv
  <2>3. Passed(s, a)' /\ Passed(s, b)'
    BY <1>1, <2>2
  <2> QED BY <2>1, <2>3 DEF Passed
<1>4. EmittedBehind'
  <2> SUFFICES ASSUME NEW e \in Processed, e[1] \notin unsaved'
               PROVE  e[2] <= Entry(e[1])'.turns /\ e[3].user <= Entry(e[1])'.offset \div 2
    BY DEF EmittedBehind, Entry
  <2>1. e[1] \in Sessions /\ e[1] \notin unsaved
    BY DEF HookInv, HookTypeOK
  <2>2. Entry(e[1])' = Entry(e[1])
    BY <2>1
  <2> QED BY <2>1, <2>2 DEF HookInv, EmittedBehind
<1> QED BY <1>1, <1>3, <1>4 DEF HookInv

\* What a hook does to itself.
Moves(s, to) ==
  /\ hookAt' \in [Sessions -> {"none", "wait", "load", "save", "flush", "ran"}]
  /\ hookAt'[s] = to /\ \A t \in Sessions \ {s} : hookAt'[t] = hookAt[t]

LEMMA HookMoves ==
  ASSUME HookInv, NEW s \in Sessions, NEW to \in {"none", "wait", "load", "save", "flush", "ran"},
         hookAt' = [hookAt EXCEPT ![s] = to]
  PROVE  Moves(s, to)
BY DEF HookInv, HookTypeOK, Moves

LEMMA StopStands == ASSUME HookInv, NEW s \in Sessions, Stop(s) \/ Lock(s) \/ LockTimeout(s) PROVE HookInv'
<1>1. /\ UNCHANGED <<written, state, mine, Processed, unsaved, torn>>
      /\ \E to \in {"wait", "load", "ran"} : hookAt' = [hookAt EXCEPT ![s] = to]
  BY DEF Stop, Lock, LockTimeout, Processed
<1>2. PICK to \in {"wait", "load", "ran"} : Moves(s, to)
  BY <1>1, HookMoves
<1>3. /\ hookAt[s] \in {"none", "wait"}
      /\ to = "load" => stateLock = Nobody /\ stateLock' = s
      /\ to # "load" => stateLock' = stateLock
      /\ Half(s) > 0 /\ EndsTurn(s, Half(s))
  BY <1>2 DEF Stop, Lock, LockTimeout, CanLock, HookInv, TurnIsOver, Moves
<1>4. HookTypeOK'
  BY <1>1, <1>2 DEF HookInv, HookTypeOK, Moves, Half
<1>5. \A t \in Sessions : Entry(t)' = Entry(t)
  BY <1>1, <1>2, <1>3 DEF Entry, Moves
<1>6. LockIsHeld'
  <2>1. \A t \in Sessions : hookAt'[t] \in {"load", "save"} <=> stateLock' = t
    BY <1>2, <1>3, RowsAssumption DEF HookInv, LockIsHeld, Moves
  <2>2. \A t \in Sessions : hookAt'[t] = "save" => hookAt[t] = "save"
    BY <1>2 DEF Moves
  <2> QED BY <1>1, <1>5, <2>1, <2>2 DEF HookInv, LockIsHeld
<1>7. TurnIsOver'
  BY <1>1, <1>2, <1>3 DEF HookInv, TurnIsOver, Moves, Half
<1> QED BY <1>1, <1>4, <1>5, <1>6, <1>7, EntriesStand

LEMMA AgeStands == ASSUME HookInv, NEW s \in Sessions, Age(s) PROVE HookInv'
<1>1. UNCHANGED <<written, state, stateLock, hookAt, mine, Processed, unsaved, torn>>
  BY DEF Age, Processed
<1>2. HookTypeOK' /\ LockIsHeld' /\ TurnIsOver'
  BY <1>1 DEF HookInv, HookTypeOK, LockIsHeld, TurnIsOver, Entry, Half
<1>3. \A t \in Sessions : Entry(t)' = Entry(t)
  BY <1>1 DEF Entry
<1> QED BY <1>1, <1>2, <1>3, EntriesStand

LEMMA SaveStands == ASSUME HookInv, NEW s \in Sessions, Save(s) PROVE HookInv'
<1>1. /\ hookAt[s] = "save" /\ state' = Pruned(s) /\ stateLock' = Nobody
      /\ hookAt' = [hookAt EXCEPT ![s] = "flush"] /\ unsaved' = unsaved \cup (old \ {s})
      /\ mine' = [mine EXCEPT ![s] = Nothing] /\ UNCHANGED <<written, Processed, torn>>
  BY DEF Save, Processed
<1>2. Moves(s, "flush")
  BY <1>1, HookMoves
<1>3. /\ stateLock = s /\ \A t \in Sessions \ {s} : mine[s][t] = state[t] /\ hookAt[t] \notin {"load", "save"}
  BY <1>1 DEF HookInv, LockIsHeld
<1>4. /\ state'[s] = mine[s][s] /\ Entry(s) = mine[s][s]
      /\ \A t \in Sessions \ {s} : state'[t] = (IF t \in old THEN Fresh ELSE state[t]) /\ Entry(t) = state[t]
  BY <1>1, <1>3 DEF Pruned, Entry
<1>5. \A t \in Sessions : Entry(t)' = state'[t]
  BY <1>2, <1>3 DEF Entry, Moves
<1>6. HookTypeOK'
  <2>1. Fresh \in Entries /\ Nothing \in [Sessions -> Entries]
    BY DEF Fresh, Nothing, Entries
  <2>2. state' \in [Sessions -> Entries]
    BY <1>1, <2>1 DEF Pruned, HookInv, HookTypeOK
  <2>3. mine' \in [Sessions -> [Sessions -> Entries]]
    BY <1>1, <2>1 DEF HookInv, HookTypeOK
  <2> QED BY <1>1, <1>2, <2>2, <2>3 DEF HookInv, HookTypeOK, Moves, Half
<1>7. \A t \in Sessions : state'[t].offset <= written[t] /\ state'[t].buffer = state'[t].offset % 2
  <2>1. Fresh.offset = 0 /\ Fresh.buffer = 0 /\ 0 % 2 = 0
    BY DEF Fresh
  <2>2. \A t \in Sessions : written[t] \in Nat
    BY DEF HookInv, HookTypeOK
  <2>3. \A t \in Sessions : state'[t] \in {Fresh, state[t], Entry(t)}
    BY <1>4
  <2> QED BY <2>1, <2>2, <2>3 DEF HookInv, LockIsHeld
<1>8. LockIsHeld'
  BY <1>1, <1>2, <1>3, <1>5, <1>7, RowsAssumption DEF LockIsHeld, Moves
<1>9. TurnIsOver'
  BY <1>1, <1>2 DEF HookInv, TurnIsOver, Moves, Half
<1>10. \A t \in Sessions : /\ state'[t] \in {state[t], Entry(t), Fresh}
                           /\ \/ Entry(t)' = Entry(t)
                              \/ t \in unsaved' /\ Entry(t)' \in {state[t], Fresh}
  BY <1>1, <1>4, <1>5
<1> QED BY <1>1, <1>6, <1>8, <1>9, <1>10, EntriesStand

LEMMA LetGoStands == ASSUME HookInv, NEW s \in Sessions, SaveFails(s) \/ Kill(s) \/ Flush(s) PROVE HookInv'
<1>1. /\ hookAt[s] \in {"wait", "load", "save", "flush"}
      /\ \E to \in {"flush", "ran"} : hookAt' = [hookAt EXCEPT ![s] = to]
      /\ mine' \in {mine, [mine EXCEPT ![s] = Nothing]} /\ UNCHANGED <<written, state, Processed, torn>>
      /\ unsaved \subseteq unsaved' /\ (hookAt[s] = "save" => s \in unsaved')
  BY DEF SaveFails, Kill, Flush, Processed
<1>2. PICK to \in {"flush", "ran"} : Moves(s, to)
  BY <1>1, HookMoves
<1>3. stateLock' = IF hookAt[s] \in {"load", "save"} THEN Nobody ELSE stateLock
  BY DEF SaveFails, Kill, Flush, HookInv, LockIsHeld
<1>4. HookTypeOK'
  <2>1. Nothing \in [Sessions -> Entries]
    BY DEF Fresh, Nothing, Entries
  <2>2. mine' \in [Sessions -> [Sessions -> Entries]]
    BY <1>1, <2>1 DEF HookInv, HookTypeOK
  <2> QED BY <1>1, <1>2, <2>2 DEF HookInv, HookTypeOK, Moves, Half
<1>5. \A t \in Sessions \ {s} : mine'[t] = mine[t]
  BY <1>1 DEF HookInv, HookTypeOK
<1>6. /\ Entry(s)' = state[s] /\ (hookAt[s] # "save" => Entry(s) = state[s])
      /\ \A t \in Sessions \ {s} : Entry(t)' = Entry(t)
  BY <1>1, <1>2, <1>5 DEF Entry, Moves
<1>7. LockIsHeld'
  <2>1. \A t \in Sessions : hookAt'[t] \in {"load", "save"} <=> stateLock' = t
    BY <1>2, <1>3, RowsAssumption DEF HookInv, LockIsHeld, Moves
  <2>2. \A t \in Sessions : hookAt'[t] = "save" => t # s /\ hookAt[t] = "save" /\ mine'[t] = mine[t]
    BY <1>2, <1>5 DEF Moves
  <2> QED BY <1>1, <1>6, <2>1, <2>2 DEF HookInv, LockIsHeld
<1>8. TurnIsOver'
  BY <1>1, <1>2 DEF HookInv, TurnIsOver, Moves, Half
<1> QED BY <1>1, <1>4, <1>6, <1>7, <1>8, EntriesStand

LEMMA EmitTells == ASSUME HookInv, NEW s \in Sessions, Emit(s) PROVE HookInv'
<1> DEFINE entry == state[s]
           rows == NewRows(s, entry)
           turns == BuildTurns(s, rows)
           found == {<<s, Number(entry, turns, turn), turn>> : turn \in turns}
           new == [Forward(s, entry) EXCEPT !.turns = entry.turns + Cardinality(turns)]
           first == entry.offset \div 2 + 1
<1>1. /\ hookAt[s] = "load" /\ hookAt' = [hookAt EXCEPT ![s] = "save"] /\ Processed' = Processed \cup found
      /\ mine' = [mine EXCEPT ![s] = [state EXCEPT ![s] = new]]
      /\ torn' = IF written[s] % 2 = 1 THEN torn \cup {<<s, Half(s)>>} ELSE torn
      /\ UNCHANGED <<written, state, stateLock, unsaved>>
  <2>1. PICK failing \in SUBSET found :
          emitted' = emitted \cup (found \ failing) /\ missed' = missed \cup failing
    BY DEF Emit
  <2>2. Processed' = Processed \cup found
    BY <2>1 DEF Processed
  <2> HIDE DEF found
  <2> QED BY <2>2 DEF Emit
<1>2. Moves(s, "save")
  BY <1>1, HookMoves
<1>3. HookTypeOK /\ Half(s) > 0 /\ EndsTurn(s, Half(s))
  BY <1>1 DEF HookInv, TurnIsOver
<1>4. /\ entry \in Entries /\ entry.offset \in Nat /\ entry.turns \in Nat /\ entry.buffer = entry.offset % 2
      /\ written[s] \in Nat /\ Complete(s) \in Nat /\ Entry(s) = entry /\ entry.offset <= written[s]
  BY <1>1, Halves DEF HookInv, HookTypeOK, LockIsHeld, Entries, Entry, Complete
<1>5. first \in Nat \ {0} /\ rows = first..Complete(s)
  <2>1. \A n \in Nat : (n - (n % 2)) \div 2 = n \div 2 /\ n \div 2 \in Nat
    OBVIOUS
  <2>2. (entry.offset - entry.buffer) \div 2 = entry.offset \div 2 /\ entry.offset \div 2 \in Nat
    BY <1>4, <2>1
  <2> HIDE DEF entry
  <2> QED BY <2>2 DEF NewRows
<1>6. /\ \A turn \in turns : /\ turn \in TurnsOfRows /\ turn.user \in rows /\ turn = Turn(s, rows, turn.user)
                             /\ IsWhole(s, turn) \/ IsCut(s, turn.user)
      /\ \A user \in rows :
           Rows[s][user].kind = "user" /\ Told(s, user, "assistant") # {} /\ ~IsCut(s, user) =>
             \E turn \in turns : turn.user = user
  BY <1>3, <1>5, TurnsBuilt
<1>7. IsFiniteSet(turns)
  BY <1>4, <1>5, TurnsAreFinite
<1>8. /\ Cardinality(turns) \in Nat
      /\ \A t \in turns : Number(entry, turns, t) \in entry.turns + 1..entry.turns + Cardinality(turns)
      /\ \A t, u \in turns : t # u => Number(entry, turns, t) # Number(entry, turns, u)
  <2>1. turns \subseteq TurnsOfRows /\ \A t, u \in turns : t.user = u.user => t = u
    BY <1>6
  <2> HIDE DEF entry, turns
  <2> QED BY <1>4, <1>7, <2>1, NumbersFollow
<1>9. /\ new \in Entries /\ new.offset = written[s] /\ new.buffer = written[s] % 2
      /\ new.turns = entry.turns + Cardinality(turns)
  <2>1. written[s] % 2 \in {0, 1} /\ entry.turns + Cardinality(turns) \in Nat
    BY <1>4, <1>8, Halves
  <2> HIDE DEF turns
  <2> QED BY <1>4, <2>1 DEF Forward, Entries
<1> HIDE DEF new, rows, entry
<1>10. /\ mine' \in [Sessions -> [Sessions -> Entries]] /\ mine'[s][s] = new
       /\ \A t \in Sessions \ {s} : mine'[s][t] = state[t] /\ mine'[t] = mine[t]
  <2>1. [state EXCEPT ![s] = new] \in [Sessions -> Entries] /\ [state EXCEPT ![s] = new][s] = new
        /\ \A t \in Sessions \ {s} : [state EXCEPT ![s] = new][t] = state[t]
    BY <1>9 DEF HookInv, HookTypeOK
  <2> QED BY <1>1, <2>1 DEF HookInv, HookTypeOK
<1>11. /\ Entry(s)' = new /\ \A t \in Sessions \ {s} : Entry(t)' = Entry(t)
  BY <1>1, <1>2, <1>10 DEF Entry, Moves
<1>12. \A e \in found : /\ e[1] = s /\ e[2] \in Nat /\ e[3] \in turns /\ e = <<s, Number(entry, turns, e[3]), e[3]>>
                        /\ e[2] \in entry.turns + 1..entry.turns + Cardinality(turns)
  <2> HIDE DEF turns
  <2>1. \A n \in entry.turns + 1..entry.turns + Cardinality(turns) : n \in Nat
    BY <1>4, <1>8 DEF entry
  <2> QED BY <1>8, <2>1
<1> HIDE DEF found, turns
<1>13. HookTypeOK'
  <2>1. found \subseteq Sessions \X Nat \X TurnsOfRows
    BY <1>6, <1>12
  <2> QED BY <1>1, <1>2, <1>10, <2>1 DEF HookInv, HookTypeOK, Moves, Half
<1>14. LockIsHeld'
  <2>1. \A t \in Sessions : hookAt'[t] \in {"load", "save"} <=> stateLock' = t
    BY <1>1, <1>2 DEF HookInv, LockIsHeld, Moves
  <2>2. \A t \in Sessions : hookAt'[t] = "save" => \A u \in Sessions \ {t} : mine'[t][u] = state'[u]
    BY <1>1, <1>2, <1>10 DEF HookInv, LockIsHeld, Moves
  <2>3. new.offset <= written[s] /\ new.buffer = new.offset % 2
    BY <1>4, <1>9
  <2>4. \A t \in Sessions : \A x \in {state'[t], Entry(t)'} : x.offset <= written'[t] /\ x.buffer = x.offset % 2
    BY <1>1, <1>11, <2>3 DEF HookInv, LockIsHeld
  <2> QED BY <2>1, <2>2, <2>4 DEF LockIsHeld
<1>15. TurnIsOver'
  BY <1>1, <1>2, <1>3 DEF HookInv, TurnIsOver, Moves, Half
<1>16. \A user : IsCut(s, user) => \E t \in torn' : t[1] = s /\ t[2] \in TurnOf(s, user)
  <2> SUFFICES ASSUME NEW user, IsCut(s, user) PROVE \E t \in torn' : t[1] = s /\ t[2] \in TurnOf(s, user)
    OBVIOUS
  <2>1. <<s, Half(s)>> \in torn' /\ Half(s) \in TurnOf(s, user)
    BY <1>1 DEF IsCut
  <2> QED BY <2>1
<1>17. torn \subseteq torn'
  BY <1>1
<1>18. ProcessedAreWhole'
  <2> SUFFICES ASSUME NEW e \in Processed'
               PROVE  IsWhole(e[1], e[3]) \/ \E t \in torn' : t[1] = e[1] /\ t[2] \in TurnOf(e[1], e[3].user)
    BY DEF ProcessedAreWhole
  <2>1. CASE e \in Processed
    BY <1>17, <2>1 DEF HookInv, ProcessedAreWhole
  <2>2. CASE e \in found
    BY <1>6, <1>12, <1>16, <2>2
  <2> QED BY <1>1, <2>1, <2>2
<1>19. \A turn \in turns : turn.user \in Nat /\ turn.user > entry.offset \div 2 /\ turn.user <= Complete(s)
       /\ entry.offset \div 2 \in Nat
  <2>1. entry.offset \div 2 \in Nat
    BY <1>4, Halves
  <2> HIDE DEF first
  <2>2. \A n \in rows : n \in Nat /\ n >= first /\ n <= Complete(s)
    BY <1>4, <1>5
  <2> QED BY <1>6, <2>1, <2>2 DEF first
<1>20. \A e \in Processed : e[1] = s /\ s \notin unsaved =>
         e[2] \in Nat /\ e[2] <= entry.turns /\ e[3].user \in Nat /\ e[3].user <= entry.offset \div 2
  BY <1>4 DEF HookInv, HookTypeOK, EmittedBehind, TurnsOfRows
<1>21. NumbersNameTurns'
  <2> SUFFICES ASSUME NEW e \in Processed', NEW f \in Processed', e[1] = f[1], e # f, e[1] \notin unsaved
               PROVE  e[2] # f[2] /\ e[3].user # f[3].user
    BY <1>1 DEF NumbersNameTurns
  <2>1. CASE e \in Processed /\ f \in Processed
    BY <2>1 DEF HookInv, NumbersNameTurns
  <2>2. ASSUME NEW a \in Processed, NEW b \in found, a[1] = b[1], a[1] \notin unsaved PROVE a[2] # b[2] /\ a[3].user # b[3].user
    <3>1. a[1] = s /\ b[3] \in turns /\ b[2] \in entry.turns + 1..entry.turns + Cardinality(turns)
      BY <1>12, <2>2
    <3>2. a[2] \in Nat /\ a[2] <= entry.turns /\ a[3].user \in Nat /\ a[3].user <= entry.offset \div 2
      BY <1>20, <2>2, <3>1
    <3>3. b[3].user \in Nat /\ b[3].user > entry.offset \div 2 /\ entry.offset \div 2 \in Nat
      BY <1>19, <3>1
    <3>4. b[2] >= entry.turns + 1 /\ b[2] \in Int
      BY <1>4, <1>8, <3>1
    <3> QED BY <1>4, <3>2, <3>3, <3>4
  <2>3. CASE e \in found /\ f \in found
    <3>1. e[3] # f[3] /\ e[3] \in turns /\ f[3] \in turns
      BY <1>12, <2>3
    <3>2. e[2] = Number(entry, turns, e[3]) /\ f[2] = Number(entry, turns, f[3])
      BY <1>12, <2>3
    <3> QED BY <1>6, <1>8, <3>1, <3>2
  <2> QED BY <1>1, <2>1, <2>2, <2>3
<1>22. EmittedBehind'
  <2>1. /\ entry.turns <= new.turns /\ new.turns \in Nat
        /\ Complete(s) = new.offset \div 2 /\ entry.offset \div 2 <= Complete(s) /\ entry.offset \div 2 \in Nat
    <3>1. \A a, b \in Nat : a <= b => a \div 2 <= b \div 2 /\ a \div 2 \in Nat
      OBVIOUS
    <3> QED BY <1>4, <1>8, <1>9, <3>1 DEF Complete
  <2> SUFFICES ASSUME NEW e \in Processed', e[1] \notin unsaved
               PROVE  e[2] <= Entry(e[1])'.turns /\ e[3].user <= Entry(e[1])'.offset \div 2
    BY <1>1 DEF EmittedBehind, Entry
  <2>2. CASE e \in Processed /\ e[1] # s
    <3>1. e[1] \in Sessions
      BY <2>2 DEF HookInv, HookTypeOK
    <3> QED BY <1>11, <2>2, <3>1 DEF HookInv, EmittedBehind
  <2>3. CASE e \in Processed /\ e[1] = s
    <3>1. e[2] \in Nat /\ e[2] <= entry.turns /\ e[3].user \in Nat /\ e[3].user <= entry.offset \div 2
      BY <1>20, <2>3
    <3>2. e[2] <= new.turns /\ e[3].user <= new.offset \div 2
      BY <1>4, <2>1, <3>1
    <3> QED BY <1>11, <2>3, <3>2
  <2>4. CASE e \in found
    <3>1. e[1] = s /\ e[2] <= new.turns /\ e[3].user <= new.offset \div 2
      BY <1>4, <1>8, <1>9, <1>12, <1>19, <2>1, <2>4
    <3> QED BY <1>11, <3>1
  <2> QED BY <1>1, <2>2, <2>3, <2>4
<1>23. \A t, x : Passed(t, x) => Passed(t, x)'
  BY <1>1, <1>17 DEF Passed
<1>24. \A b : b = new => Passed(s, b)'
  <2> SUFFICES ASSUME NEW row \in 1..(new.offset \div 2), Rows[s][row].kind = "user", Told(s, row, "assistant") # {}
               PROVE  (\E e \in Processed' : e[1] = s /\ e[3].user = row) \/ \E t \in torn' : t[1] = s /\ t[2] \in TurnOf(s, row)
    BY DEF Passed
  <2>1. new.offset \div 2 = Complete(s) /\ entry.offset \div 2 \in Nat
    BY <1>4, <1>9, Halves DEF Complete
  <2>2. CASE row <= entry.offset \div 2
    <3>1. Passed(s, entry)
      BY DEF HookInv, entry
    <3>2. row \in 1..(entry.offset \div 2)
      BY <2>1, <2>2
    <3> QED BY <1>1, <1>17, <3>1, <3>2 DEF Passed
  <2>3. CASE row > entry.offset \div 2
    <3>1. row \in rows
      BY <1>4, <1>5, <2>1, <2>3
    <3>2. CASE IsCut(s, row)
      BY <1>16, <3>2
    <3>3. CASE ~IsCut(s, row)
      <4>1. PICK turn \in turns : turn.user = row
        BY <1>6, <3>1, <3>3
      <4>2. <<s, Number(entry, turns, turn), turn>> \in found
        BY DEF found
      <4> QED BY <1>1, <4>1, <4>2
    <3> QED BY <3>2, <3>3
  <2> QED BY <1>4, <2>1, <2>2, <2>3
<1>25. ASSUME NEW t \in Sessions PROVE Passed(t, state[t])' /\ Passed(t, Entry(t))'
  <2>1. PICK a, b : a = state'[t] /\ b = Entry(t)'
    OBVIOUS
  <2>2. Passed(t, a)'
    BY <1>1, <1>23, <2>1 DEF HookInv
  <2>3. Passed(t, b)'
    <3>1. CASE t = s
      BY <1>11, <1>24, <2>1, <3>1
    <3>2. CASE t # s
      BY <1>11, <1>23, <2>1, <3>2 DEF HookInv
    <3> QED BY <3>1, <3>2
  <2> QED BY <2>1, <2>2, <2>3 DEF Passed
<1> QED BY <1>13, <1>14, <1>15, <1>18, <1>21, <1>22, <1>25 DEF HookInv

LEMMA HookKeeps == HookInv /\ [HookNext]_hookVars => HookInv'
<1> SUFFICES ASSUME HookInv, [HookNext]_hookVars PROVE HookInv'
  OBVIOUS
<1>1. CASE UNCHANGED hookVars
  <2>1. UNCHANGED <<written, state, stateLock, hookAt, mine, Processed, unsaved, torn>>
    BY <1>1 DEF hookVars, Processed
  <2>2. HookTypeOK' /\ LockIsHeld' /\ TurnIsOver'
    BY <2>1 DEF HookInv, HookTypeOK, LockIsHeld, TurnIsOver, Entry, Half
  <2>3. \A t \in Sessions : Entry(t)' = Entry(t)
    BY <2>1 DEF Entry
  <2> QED BY <2>1, <2>2, <2>3, EntriesStand
<1>2. CASE HookNext
  <2>1. PICK s \in Sessions : WriteRow(s) \/ Stop(s) \/ Age(s) \/ Hook(s)
    BY <1>2 DEF HookNext
  <2>2. CASE WriteRow(s)
    BY <2>2, ClaudeWrites
  <2>3. CASE Stop(s) \/ Lock(s) \/ LockTimeout(s)
    BY <2>3, StopStands
  <2>4. CASE Age(s)
    BY <2>4, AgeStands
  <2>5. CASE Emit(s)
    BY <2>5, EmitTells
  <2>6. CASE Save(s)
    BY <2>6, SaveStands
  <2>7. CASE SaveFails(s) \/ Kill(s) \/ Flush(s)
    BY <2>7, LetGoStands
  <2> QED BY <2>1, <2>2, <2>3, <2>4, <2>5, <2>6, <2>7 DEF Hook
<1> QED BY <1>1, <1>2

\* langfuse_hook.py: for any sessions, transcripts and faults, a turn is emitted with the last
\* version of all its rows unless its last row was half written, once and under a number of
\* its own unless what was read could not be saved, and before the saved offset passes it unless its
\* emission failed, of which nothing but a log line is left.
THEOREM TurnsAreEmittedHolds == HookSpec => []TurnsAreEmitted
<1>1. HookSpec => []HookInv
  BY HookStarts, HookKeeps, PTL DEF HookSpec
<1>2. HookInv => TurnsAreWhole
  BY DEF HookInv, ProcessedAreWhole, TurnsAreWhole, Processed
<1>3. HookInv => SavedIsEmitted
  BY DEF HookInv, SavedIsEmitted, Passed, Processed
<1>4. HookInv => TurnsAreEmitted
  BY <1>2, <1>3 DEF HookInv, TurnsAreEmitted
<1> QED BY <1>1, <1>4, PTL

----------------------------------------------------------------------------
(* The live exporter: what grows and what is settled *)

Idents == UNION {UNION {{x.lines[t][n].id : n \in DOMAIN x.lines[t]} : t \in Threads} : x \in Scripts}

Steps == [calls : Nat, done : BOOLEAN]
Tools == [id : Idents, done : BOOLEAN]
Ends == {None, "complete", "aborted", "superseded"}
Parsed == [id : Idents, started : Nat, prompt : Nat, steps : Seq(Steps), tools : Seq(Tools), records : Nat, end : Ends]

\* What of a sequence of responses or calls is done stays as it is.
PartsGrow(was, new) == Len(was) <= Len(new) /\ \A n \in DOMAIN was : was[n].done => new[n] = was[n]

TurnGrows(was, new) ==
  /\ new.id = was.id /\ new.started = was.started
  /\ was.end # None => new = was
  /\ was.prompt # 0 => new.prompt = was.prompt
  /\ PartsGrow(was.steps, new.steps) /\ PartsGrow(was.tools, new.tools)
  /\ was.records <= new.records

\* One sequence of turns is an earlier state of another.
Earlier(was, new) == Len(was) <= Len(new) /\ \A n \in DOMAIN was : TurnGrows(was[n], new[n])

Lines(t) == script.lines[t]

\* Nothing more is written of the turn.
AtTurnEnd(t) == next[t] <= Len(Lines(t)) => Lines(t)[next[t]].kind = "started"
Settled(t, n) == Turns(t)[n].end # None \/ AtTurnEnd(t)

\* A prompt that could be written again is behind the settings, and no line of the turn has followed it
\* that is an answer.
SettingsBehind(t, h) ==
  h \in 1..next[t] - 1 /\ Lines(t)[h].kind = "settings" /\ \A k \in h..next[t] - 1 : Lines(t)[k].kind # "started"
PromptBehind(t) ==
  \E h, i \in 1..next[t] - 1 :
    /\ SettingsBehind(t, h) /\ h < i /\ Lines(t)[i].kind = "user"
    /\ \A k \in i..next[t] - 1 : Lines(t)[k].kind \notin Answers

PromptIsOnce(t) ==
  IsOpen(Turns(t)) /\ ~AtTurnEnd(t) =>
    /\ parsed[t].awaiting => Newest(Turns(t)).steps = <<>> /\ \E h \in 1..next[t] - 1 : SettingsBehind(t, h)
    /\ Newest(Turns(t)).prompt # 0 /\ Newest(Turns(t)).steps = <<>> => PromptBehind(t)

TurnsFollow(t) ==
  /\ \A n \in DOMAIN Turns(t) :
       /\ n < Len(Turns(t)) => Turns(t)[n].end # None
       /\ Turns(t)[n].started <= now
       /\ \E k \in 1..next[t] - 1 : Lines(t)[k].kind = "started" /\ Lines(t)[k].id = Turns(t)[n].id
  /\ \A n, k \in DOMAIN Turns(t) : n # k => Turns(t)[n].id # Turns(t)[k].id
  /\ size[t] = 0 => Turns(t) = <<>> /\ next[t] = 1
  /\ size[t] > 0 /\ ~IsMain(t) => Turns(t) # <<>>
  /\ size[t] > 0 /\ Root(t) \notin alive => AtTurnEnd(t)

CodexInv ==
  /\ script \in Scripts /\ next \in [Threads -> Nat \ {0}] /\ size \in [Threads -> Nat] /\ now \in Nat
  /\ parsed \in [Threads -> [turns : Seq(Parsed), awaiting : BOOLEAN]]
  /\ \A t \in Threads : next[t] <= Len(Lines(t)) + 1 /\ TurnsFollow(t) /\ PromptIsOnce(t)

Reading == {"stat", "parse", "cache"}
Sending == {"thread", "send", "record"}

ExporterTypeOK ==
  /\ lock \in Exporters \cup {None} /\ pc \in [Exporters -> {"idle"} \cup Reading \cup Sending]
  /\ \A e \in Exporters : pc[e] # "idle" <=> lock = e
  /\ left \subseteq Threads
  /\ key \in [Exporters -> [Threads -> Nat]] /\ view \in [Exporters -> [Threads -> Seq(Parsed)]]
  /\ ledger \in [Threads -> SUBSET Ids(Received)] /\ received \in Seq(SUBSET Received)

\* What an exporter has of a file is what was in it, and all of it as long as the size is the same.
ViewsAreOfFiles ==
  \A e \in Exporters : \A t \in Threads :
    /\ Earlier(view[e][t], Turns(t)) /\ key[e][t] <= size[t]
    /\ key[e][t] = size[t] => view[e][t] = Turns(t) \/ (pc[e] = "parse" /\ IsNext(t))

\* An exporter that has read of a subagent has what its parent had begun by then.
Caught(e, t) == Spawners(TurnsNow, t, 1) \subseteq DOMAIN view[e][Parent[t]]

ParentsAreRead ==
  \A e \in Exporters : \A t \in Threads : ~IsMain(t) =>
    /\ pc[e] \in Reading /\ (t \in left \/ view[e][t] # <<>>) =>
         /\ size[t] > 0
         /\ Caught(e, t) \/ (Parent[t] \in left /\ ~(pc[e] = "cache" /\ IsNext(Parent[t])))
    /\ pc[e] \in Sending /\ view[e][t] # <<>> => Caught(e, t)

\* The open turns that --finalize ends get nothing but superseded.
Ended(turn) == [turn EXCEPT !.end = "superseded"]
EndedTurnsRest ==
  pc[Finalizer] \in Sending =>
    \A t \in Threads \ (held \cup stale) :
      LET seen == view[Finalizer][t]
          n == Len(seen)
      IN  IsOpen(seen) => \/ Turns(t)[n] = seen[n] /\ AtTurnEnd(t)
                          \/ Turns(t)[n] = Ended(seen[n])

\* A span is of a turn, in its trace, and says what will always be true.
Tells(turn, settled, s) ==
  LET p == Piece(s.id[3], s.id[4], s.says)
  IN  p \in Observations(turn, settled) \/ (turn.end = "superseded" /\ p = RootOf(turn, "stopped"))

IsPlaced(s) ==
  /\ s.id = <<s.id[1], s.id[2], s.id[3], s.id[4]>> /\ s.id[1] \in Threads
  /\ s.id[3] \in DOMAIN Rank /\ s.id[4] \in Nat
  /\ s.turn \in DOMAIN Turns(s.id[1]) /\ Turns(s.id[1])[s.turn].id = s.id[2]
  /\ IsTraced(TurnsNow, s.id[1], s.turn)
  /\ s.turn = 1 => s.trace = Trace(TurnsNow, s.id[1], 1)

IsTrue(s) ==
  LET t == s.id[1]
  IN  Tells(Turns(t)[s.turn], Settled(t, s.turn), s)

SpansAreTrue == \A s \in Received \cup batches : IsPlaced(s) /\ (~s.cut => IsTrue(s))

PieceIds(t, turn) == {<<t, turn.id, p.kind, p.n>> : p \in Observations(turn, TRUE)}
TurnIds(s) == PieceIds(s.id[1], Turns(s.id[1])[s.turn])

BatchesAreNew ==
  /\ IsFiniteSet(batches)
  /\ \A r, s \in batches : r.id = s.id => r = s
  /\ lock # None /\ pc[lock] \in {"send", "record"} =>
       \A s \in batches : IsSentNext(s.id[1]) /\ s.id \notin ledger[s.id[1]]
  /\ \A s \in batches : s.id[3] = "root" /\ ~s.cut => TurnIds(s) \subseteq ledger[s.id[1]] \cup Ids(batches)

Underway == IF lock # None /\ pc[lock] = "record" THEN Ids(NextBatch) ELSE {}

Arrived(i) == UNION {Ids(received[j]) : j \in 1..i}
RootsAreLast ==
  \A i \in DOMAIN received : \A s \in received[i] :
    s.id[3] = "root" /\ ~s.cut => TurnIds(s) \subseteq Arrived(i)

ReceivedIsKnown ==
  /\ \A s \in Received : s.id \in ledger[s.id[1]] \cup doubts \cup Underway
  /\ Underway \subseteq Ids(Received)

LiveInv ==
  /\ CodexInv /\ ExporterTypeOK /\ ViewsAreOfFiles /\ ParentsAreRead /\ EndedTurnsRest
  /\ SpansAreTrue /\ BatchesAreNew /\ RootsAreLast /\ ReceivedIsKnown /\ SentOnce

----------------------------------------------------------------------------
(* The live exporter: turns grow *)

LEMMA Updated ==
  ASSUME NEW S, NEW q \in Seq(S), NEW n \in 1..Len(q), NEW x \in S
  PROVE  LET r == [q EXCEPT ![n] = x]
         IN  r \in Seq(S) /\ Len(r) = Len(q) /\ r[n] = x /\ \A k \in 1..Len(q) : k # n => r[k] = q[k]
<1> DEFINE r == [q EXCEPT ![n] = x]
<1>1. q \in [1..Len(q) -> S] /\ Len(q) \in Nat
  OBVIOUS
<1>2. r \in [1..Len(q) -> S] /\ r[n] = x /\ \A k \in 1..Len(q) : k # n => r[k] = q[k]
  BY <1>1
<1> HIDE DEF r
<1>3. r \in Seq(S) /\ Len(r) = Len(q)
  BY <1>1, <1>2
<1> QED BY <1>2, <1>3 DEF r

LEMMA PartsOrder ==
  /\ \A a : a \in Seq(Steps) \/ a \in Seq(Tools) => PartsGrow(a, a)
  /\ \A S : \A a, b, c \in Seq(S) : PartsGrow(a, b) /\ PartsGrow(b, c) => PartsGrow(a, c)
<1>1. \A a : a \in Seq(Steps) \/ a \in Seq(Tools) => PartsGrow(a, a)
  BY DEF PartsGrow
<1>2. ASSUME NEW S, NEW a \in Seq(S), NEW b \in Seq(S), NEW c \in Seq(S), PartsGrow(a, b), PartsGrow(b, c)
      PROVE  PartsGrow(a, c)
  <2>1. Len(a) \in Nat /\ Len(b) \in Nat /\ Len(c) \in Nat /\ Len(a) <= Len(b) /\ Len(b) <= Len(c)
    BY <1>2 DEF PartsGrow
  <2>2. DOMAIN a \subseteq DOMAIN b
    BY <2>1
  <2> QED BY <1>2, <2>1, <2>2 DEF PartsGrow
<1> QED BY <1>1, <1>2

LEMMA GrowthOrder ==
  /\ \A a \in Parsed : TurnGrows(a, a)
  /\ \A a, b, c \in Parsed : TurnGrows(a, b) /\ TurnGrows(b, c) => TurnGrows(a, c)
<1>1. ASSUME NEW a \in Parsed PROVE TurnGrows(a, a)
  BY PartsOrder DEF TurnGrows, Parsed
<1>2. ASSUME NEW a \in Parsed, NEW b \in Parsed, NEW c \in Parsed, TurnGrows(a, b), TurnGrows(b, c) PROVE TurnGrows(a, c)
  <2>1. PartsGrow(a.steps, c.steps) /\ PartsGrow(a.tools, c.tools)
    <3>1. /\ a.steps \in Seq(Steps) /\ b.steps \in Seq(Steps) /\ c.steps \in Seq(Steps)
          /\ a.tools \in Seq(Tools) /\ b.tools \in Seq(Tools) /\ c.tools \in Seq(Tools)
      BY DEF Parsed
    <3> QED BY <1>2, <3>1, PartsOrder DEF TurnGrows
  <2>2. a.records <= c.records
    BY <1>2 DEF TurnGrows, Parsed
  <2> QED BY <1>2, <2>1, <2>2 DEF TurnGrows
<1> QED BY <1>1, <1>2

LEMMA EarlierOrder ==
  /\ \A a \in Seq(Parsed) : Earlier(a, a) /\ Earlier(<<>>, a)
  /\ \A a, b, c \in Seq(Parsed) : Earlier(a, b) /\ Earlier(b, c) => Earlier(a, c)
<1>1. ASSUME NEW a \in Seq(Parsed) PROVE Earlier(a, a) /\ Earlier(<<>>, a)
  BY GrowthOrder DEF Earlier
<1>2. ASSUME NEW a \in Seq(Parsed), NEW b \in Seq(Parsed), NEW c \in Seq(Parsed), Earlier(a, b), Earlier(b, c) PROVE Earlier(a, c)
  <2>1. Len(a) \in Nat /\ Len(b) \in Nat /\ Len(c) \in Nat /\ Len(a) <= Len(b) /\ Len(b) <= Len(c)
    BY <1>2 DEF Earlier
  <2>2. ASSUME NEW n \in DOMAIN a PROVE TurnGrows(a[n], c[n])
    <3>1. n \in DOMAIN b /\ n \in DOMAIN c
      BY <2>1
    <3>2. a[n] \in Parsed /\ b[n] \in Parsed /\ c[n] \in Parsed
      BY <3>1
    <3> QED BY <1>2, <3>1, <3>2, GrowthOrder DEF Earlier
  <2> QED BY <2>1, <2>2 DEF Earlier
<1> QED BY <1>1, <1>2

LEMMA StepIsOpen ==
  ASSUME NEW steps \in Seq(Steps)
  PROVE  /\ OpenStep(steps) \in Seq(Steps) /\ Len(OpenStep(steps)) > 0 /\ PartsGrow(steps, OpenStep(steps))
         /\ ~OpenStep(steps)[Len(OpenStep(steps))].done
<1>1. CASE steps = <<>> \/ steps[Len(steps)].done
  <2> DEFINE new == [calls |-> 0, done |-> FALSE]
             more == Append(steps, new)
  <2>1. OpenStep(steps) = more
    BY <1>1 DEF OpenStep
  <2>2. new \in Steps /\ ~new.done
    BY DEF Steps
  <2> HIDE DEF new
  <2>3. /\ more \in Seq(Steps) /\ Len(more) = Len(steps) + 1 /\ more[Len(steps) + 1] = new
        /\ \A n \in 1..Len(steps) : more[n] = steps[n]
    BY <2>2
  <2> HIDE DEF more
  <2> QED BY <2>1, <2>2, <2>3 DEF PartsGrow
<1>2. CASE ~(steps = <<>> \/ steps[Len(steps)].done)
  <2>1. OpenStep(steps) = steps
    BY <1>2 DEF OpenStep
  <2> QED BY <1>2, <2>1, PartsOrder
<1> QED BY <1>1, <1>2

LEMMA CallIsAdded ==
  ASSUME NEW turn \in Parsed, NEW id \in Idents, NEW done \in BOOLEAN, turn.end = None
  PROVE  /\ AddCall(turn, id, done) \in Parsed /\ TurnGrows(turn, AddCall(turn, id, done))
         /\ AddCall(turn, id, done).steps # <<>>
<1> DEFINE steps == OpenStep(turn.steps)
           last == [steps[Len(steps)] EXCEPT !.calls = @ + 1]
           called == [steps EXCEPT ![Len(steps)] = last]
           tool == [id |-> id, done |-> done]
           all == Append(turn.tools, tool)
<1>1. turn.steps \in Seq(Steps) /\ turn.tools \in Seq(Tools) /\ turn.records \in Nat
  BY DEF Parsed
<1>2. steps \in Seq(Steps) /\ Len(steps) > 0 /\ PartsGrow(turn.steps, steps) /\ ~steps[Len(steps)].done
  BY <1>1, StepIsOpen
<1> HIDE DEF steps
<1>3. AddCall(turn, id, done) = [turn EXCEPT !.steps = called, !.tools = all]
  BY DEF AddCall, steps
<1>4. last \in Steps /\ Len(steps) \in 1..Len(steps)
  <2>1. Len(steps) \in 1..Len(steps) /\ steps[Len(steps)] \in Steps
    BY <1>2
  <2>2. \A step \in Steps : [step EXCEPT !.calls = @ + 1] \in Steps
    BY DEF Steps
  <2> QED BY <2>1, <2>2
<1> HIDE DEF last
<1>5. /\ called \in Seq(Steps) /\ Len(called) = Len(steps)
      /\ \A k \in 1..Len(steps) : k # Len(steps) => called[k] = steps[k]
  BY <1>2, <1>4, Updated
<1> HIDE DEF called
<1>6. PartsGrow(steps, called)
  BY <1>2, <1>5 DEF PartsGrow
<1>7. PartsGrow(turn.steps, called)
  BY <1>1, <1>2, <1>5, <1>6, PartsOrder
<1>8. tool \in Tools
  BY DEF Tools
<1> HIDE DEF tool
<1>9. all \in Seq(Tools) /\ Len(all) = Len(turn.tools) + 1 /\ \A k \in 1..Len(turn.tools) : all[k] = turn.tools[k]
  BY <1>1, <1>8
<1> HIDE DEF all
<1>10. PartsGrow(turn.tools, all)
  BY SMTT(30), <1>1, <1>9 DEF PartsGrow
<1>11. called # <<>>
  BY <1>2, <1>5
<1>12. AddCall(turn, id, done) \in Parsed
  BY <1>1, <1>3, <1>5, <1>9 DEF Parsed
<1>13. /\ AddCall(turn, id, done).steps = called /\ AddCall(turn, id, done).tools = all
       /\ AddCall(turn, id, done).id = turn.id /\ AddCall(turn, id, done).started = turn.started
       /\ AddCall(turn, id, done).prompt = turn.prompt /\ AddCall(turn, id, done).records = turn.records
  BY <1>3 DEF Parsed
<1>14. TurnGrows(turn, AddCall(turn, id, done))
  BY <1>1, <1>7, <1>10, <1>13 DEF TurnGrows
<1> QED BY <1>11, <1>12, <1>13, <1>14

LEMMA LastIsDone ==
  ASSUME NEW steps \in Seq(Steps), steps # <<>>
  PROVE  LET done == [steps EXCEPT ![Len(steps)].done = TRUE]
         IN  done \in Seq(Steps) /\ PartsGrow(steps, done) /\ done # <<>>
<1> DEFINE last == [steps[Len(steps)] EXCEPT !.done = TRUE]
           done == [steps EXCEPT ![Len(steps)] = last]
<1>1. last \in Steps /\ Len(steps) \in 1..Len(steps) /\ (steps[Len(steps)].done => last = steps[Len(steps)])
  <2>1. Len(steps) \in 1..Len(steps) /\ steps[Len(steps)] \in Steps
    OBVIOUS
  <2>2. \A step \in Steps : [step EXCEPT !.done = TRUE] \in Steps /\ (step.done => [step EXCEPT !.done = TRUE] = step)
    BY DEF Steps
  <2> QED BY <2>1, <2>2
<1>2. [steps EXCEPT ![Len(steps)].done = TRUE] = done
  OBVIOUS
<1> HIDE DEF last
<1>3. /\ done \in Seq(Steps) /\ Len(done) = Len(steps) /\ done[Len(steps)] = last
      /\ \A k \in 1..Len(steps) : k # Len(steps) => done[k] = steps[k]
  BY <1>1, Updated
<1> HIDE DEF done
<1>4. PartsGrow(steps, done)
  BY <1>1, <1>3 DEF PartsGrow
<1>5. done # <<>>
  BY <1>1, <1>3
<1> QED BY <1>2, <1>3, <1>4, <1>5

LEMMA ToolsReturn ==
  ASSUME NEW tools \in Seq(Tools), NEW id
  PROVE  Return(tools, id) \in Seq(Tools) /\ PartsGrow(tools, Return(tools, id))
<1> DEFINE Back(n) == [tools[n] EXCEPT !.done = @ \/ tools[n].id = id]
           back == [n \in DOMAIN tools |-> Back(n)]
<1>1. DOMAIN tools = 1..Len(tools) /\ Len(tools) \in Nat
  OBVIOUS
<1>2. \A n \in 1..Len(tools) : Back(n) \in Tools /\ (tools[n].done => Back(n) = tools[n])
  <2> TAKE n \in 1..Len(tools)
  <2>1. PICK tool \in Tools : tool = tools[n]
    OBVIOUS
  <2>2. (tool.done \/ tool.id = id) \in BOOLEAN /\ (tool.done => (tool.done \/ tool.id = id) = TRUE)
    BY DEF Tools
  <2> DEFINE is == tool.done \/ tool.id = id
  <2>3. Back(n) = [tool EXCEPT !.done = is]
    BY <2>1
  <2> HIDE DEF is, Back
  <2>4. [tool EXCEPT !.done = is] \in Tools /\ (is = tool.done => [tool EXCEPT !.done = is] = tool)
    BY <2>2 DEF Tools, is
  <2> QED BY <2>1, <2>2, <2>3, <2>4 DEF Tools, is
<1> HIDE DEF Back
<1>3. back \in [1..Len(tools) -> Tools] /\ \A n \in 1..Len(tools) : back[n] = Back(n)
  BY <1>1, <1>2
<1> HIDE DEF back
<1>4. back \in Seq(Tools) /\ Len(back) = Len(tools)
  BY <1>1, <1>3
<1>5. PartsGrow(tools, back)
  BY <1>1, <1>2, <1>3, <1>4 DEF PartsGrow
<1> QED BY <1>4, <1>5 DEF Return, back, Back

\* What a line may do to an open turn.
Follows(turn, awaiting, line, new) ==
  /\ new \in Parsed /\ TurnGrows(turn, new)
  /\ line.kind \in Answers => new.steps # <<>>
  /\ line.kind \notin Answers /\ turn.steps = <<>> => new.steps = <<>>
  /\ ~(line.kind = "user" /\ awaiting) => new.prompt = turn.prompt

LEMMA LineFollows ==
  ASSUME NEW turn \in Parsed, turn.end = None, NEW awaiting \in BOOLEAN,
         NEW kind, NEW id \in Idents, NEW time \in Nat,
         kind = "user" /\ awaiting => turn.prompt = 0
  PROVE  Follows(turn, awaiting, Line(kind, id, time), Within(turn, awaiting, Line(kind, id, time)))
<1> DEFINE line == Line(kind, id, time)
           new == Within(turn, awaiting, line)
<1>1. line.kind = kind /\ line.id = id /\ line.time = time
  BY DEF Line
<1>2. /\ turn.id \in Idents /\ turn.started \in Nat /\ turn.prompt \in Nat /\ turn.records \in Nat
      /\ turn.steps \in Seq(Steps) /\ turn.tools \in Seq(Tools)
  BY DEF Parsed
<1>3. PartsGrow(turn.steps, turn.steps) /\ PartsGrow(turn.tools, turn.tools) /\ TurnGrows(turn, turn)
  BY <1>2, PartsOrder, GrowthOrder
<1> HIDE DEF line
<1>4. CASE kind = "user" /\ awaiting
  <2>1. new = [turn EXCEPT !.prompt = time]
    BY <1>1, <1>4 DEF Within
  <2> HIDE DEF new
  <2>2. new \in Parsed
    BY <1>2, <2>1 DEF Parsed
  <2>3. TurnGrows(turn, new) /\ new.steps = turn.steps
    BY <1>2, <1>3, <1>4, <2>1 DEF TurnGrows, Parsed
  <2> QED BY <1>1, <1>4, <2>2, <2>3 DEF Follows, Answers, new, line
<1>5. CASE kind \in {"completed", "aborted"}
  <2>1. PICK end \in Ends : new = [turn EXCEPT !.end = end]
    BY <1>1, <1>5 DEF Within, Ends
  <2> HIDE DEF new
  <2>2. new \in Parsed
    BY <1>2, <2>1 DEF Parsed
  <2>3. TurnGrows(turn, new) /\ new.prompt = turn.prompt /\ new.steps = turn.steps
    BY <1>2, <1>3, <2>1 DEF TurnGrows, Parsed
  <2> QED BY <1>1, <1>5, <2>2, <2>3 DEF Follows, Answers, new, line
<1>6. CASE kind = "usage" /\ turn.steps # <<>>
  <2> DEFINE done == [turn.steps EXCEPT ![Len(turn.steps)].done = TRUE]
  <2>1. new = [turn EXCEPT !.steps = done]
    BY <1>1, <1>6 DEF Within
  <2>2. done \in Seq(Steps) /\ PartsGrow(turn.steps, done)
    BY <1>2, <1>6, LastIsDone
  <2> HIDE DEF new, done
  <2>3. new \in Parsed
    BY <1>2, <2>1, <2>2 DEF Parsed
  <2>4. TurnGrows(turn, new) /\ new.prompt = turn.prompt
    BY <1>2, <1>3, <2>1, <2>2 DEF TurnGrows, Parsed
  <2> QED BY <1>1, <1>6, <2>3, <2>4 DEF Follows, Answers, new, line
<1>7. CASE kind = "return"
  <2> DEFINE back == Return(turn.tools, line.id)
  <2>1. new = [turn EXCEPT !.tools = back]
    BY <1>1, <1>7 DEF Within
  <2>2. back \in Seq(Tools) /\ PartsGrow(turn.tools, back)
    BY <1>2, ToolsReturn
  <2> HIDE DEF new, back
  <2>3. new \in Parsed
    BY <1>2, <2>1, <2>2 DEF Parsed
  <2>4. TurnGrows(turn, new) /\ new.prompt = turn.prompt /\ new.steps = turn.steps
    BY <1>2, <1>3, <2>1, <2>2 DEF TurnGrows, Parsed
  <2> QED BY <1>1, <1>7, <2>3, <2>4 DEF Follows, Answers, new, line
<1>8. CASE kind = "assistant"
  <2> DEFINE steps == OpenStep(turn.steps)
  <2>1. new = [turn EXCEPT !.steps = steps]
    BY <1>1, <1>8 DEF Within
  <2>2. steps \in Seq(Steps) /\ PartsGrow(turn.steps, steps) /\ steps # <<>>
    BY <1>2, StepIsOpen
  <2> HIDE DEF new, steps
  <2>3. new \in Parsed
    BY <1>2, <2>1, <2>2 DEF Parsed
  <2>4. TurnGrows(turn, new) /\ new.prompt = turn.prompt /\ new.steps # <<>>
    BY <1>2, <1>3, <2>1, <2>2 DEF TurnGrows, Parsed
  <2> QED BY <1>1, <1>8, <2>3, <2>4 DEF Follows, Answers, new, line
<1>9. CASE kind \in {"request", "instant"}
  <2>1. PICK done \in BOOLEAN : new = AddCall(turn, id, done)
    BY <1>1, <1>9 DEF Within
  <2> HIDE DEF new
  <2>2. new \in Parsed /\ TurnGrows(turn, new) /\ new.steps # <<>>
    BY <2>1, CallIsAdded
  <2>3. new.prompt = turn.prompt
    BY <2>1 DEF AddCall, Parsed
  <2> QED BY <1>1, <1>9, <2>2, <2>3 DEF Follows, Answers, new, line
<1>10. CASE kind \in {"item", "unrecognized"}
  <2>1. new = [turn EXCEPT !.records = @ + 1]
    BY <1>1, <1>10 DEF Within
  <2> HIDE DEF new
  <2>2. new \in Parsed
    BY <1>2, <2>1 DEF Parsed
  <2>3. TurnGrows(turn, new) /\ new.prompt = turn.prompt /\ new.steps = turn.steps
    BY <1>2, <1>3, <2>1 DEF TurnGrows, Parsed
  <2> QED BY <1>1, <1>10, <2>2, <2>3 DEF Follows, Answers, new, line
<1>11. CASE /\ ~(kind = "user" /\ awaiting) /\ ~(kind = "usage" /\ turn.steps # <<>>)
            /\ kind \notin {"completed", "aborted", "return", "assistant", "request", "instant", "item", "unrecognized"}
  <2>1. new = turn
    BY <1>1, <1>11 DEF Within
  <2> QED BY <1>1, <1>3, <1>11, <2>1 DEF Follows, Answers, line
<1> QED BY <1>4, <1>5, <1>6, <1>7, <1>8, <1>9, <1>10, <1>11 DEF line

\* What reading on does to the turns: the last one is superseded when another begins, and grows otherwise.
LEMMA TurnsGrow ==
  ASSUME NEW reader \in [turns : Seq(Parsed), awaiting : BOOLEAN], NEW kind, NEW id \in Idents, NEW time \in Nat,
         IsOpen(reader.turns) /\ kind = "user" /\ reader.awaiting => Newest(reader.turns).prompt = 0
  PROVE  LET new == Apply(reader, Line(kind, id, time))
             last == Len(reader.turns)
         IN  /\ new \in [turns : Seq(Parsed), awaiting : BOOLEAN] /\ Earlier(reader.turns, new.turns)
             /\ \A n \in 1..last : reader.turns[n].end # None \/ n # last => new.turns[n] = reader.turns[n]
             /\ kind = "started" =>
                  /\ Len(new.turns) = last + 1 /\ ~new.awaiting
                  /\ new.turns[last + 1] = NewTurn(Line(kind, id, time))
                  /\ IsOpen(reader.turns) => new.turns[last] = Ended(reader.turns[last])
             /\ kind # "started" =>
                  /\ Len(new.turns) = last
                  /\ IsOpen(reader.turns) =>
                       /\ Follows(reader.turns[last], reader.awaiting, Line(kind, id, time), new.turns[last])
                       /\ new.awaiting = Awaiting(reader, Line(kind, id, time))
                  /\ ~IsOpen(reader.turns) => new = reader
<1> DEFINE turns == reader.turns
           line == Line(kind, id, time)
           new == Apply(reader, line)
           last == Len(turns)
<1>1. turns \in Seq(Parsed) /\ reader.awaiting \in BOOLEAN /\ last \in Nat
  OBVIOUS
<1>2. line.kind = kind /\ line.id = id /\ line.time = time
  BY DEF Line
<1>3. IsOpen(turns) => last \in 1..last /\ turns[last] \in Parsed /\ turns[last].end = None
  BY <1>1 DEF IsOpen, Newest
<1>4. CASE kind = "started"
  <2> DEFINE fresh == NewTurn(line)
             before == EndLast(turns)
  <2>1. fresh \in Parsed
    BY <1>1, <1>2 DEF NewTurn, Parsed, Ends
  <2>2. /\ before \in Seq(Parsed) /\ Len(before) = last
        /\ \A n \in 1..last : n # last \/ ~IsOpen(turns) => before[n] = turns[n]
        /\ IsOpen(turns) => before[last] = Ended(turns[last])
    <3>1. CASE IsOpen(turns)
      <4>1. Ended(turns[last]) \in Parsed
        BY <1>3, <3>1 DEF Ended, Parsed, Ends
      <4>2. before = [turns EXCEPT ![last] = Ended(turns[last])]
        BY <3>1 DEF EndLast, Ended
      <4> QED BY <1>1, <1>3, <3>1, <4>1, <4>2, Updated
    <3>2. CASE ~IsOpen(turns)
      BY <1>1, <3>2 DEF EndLast
    <3> QED BY <3>1, <3>2
  <2>3. new = [turns |-> Append(before, fresh), awaiting |-> FALSE]
    BY <1>2, <1>4 DEF Apply
  <2> HIDE DEF fresh, before
  <2>4. /\ new.turns \in Seq(Parsed) /\ Len(new.turns) = last + 1 /\ new.turns[last + 1] = fresh /\ ~new.awaiting
        /\ new \in [turns : Seq(Parsed), awaiting : BOOLEAN] /\ \A n \in 1..last : new.turns[n] = before[n]
    BY <1>1, <2>1, <2>2, <2>3
  <2> HIDE DEF new
  <2>5. \A n \in 1..last : turns[n].end # None \/ n # last => new.turns[n] = turns[n]
    <3>1. \A n \in 1..last : turns[n].end # None => n # last \/ ~IsOpen(turns)
      BY DEF IsOpen, Newest
    <3> QED BY <2>2, <2>4, <3>1
  <2>6. ASSUME NEW n \in 1..last PROVE TurnGrows(turns[n], new.turns[n])
    <3>1. turns[n] \in Parsed
      BY <1>1
    <3>2. CASE IsOpen(turns) /\ n = last
      <4>1. new.turns[n] = Ended(turns[n])
        BY <2>2, <2>4, <3>2
      <4>2. /\ turns[n].end = None /\ turns[n].steps \in Seq(Steps) /\ turns[n].tools \in Seq(Tools)
            /\ turns[n].records \in Nat
        BY <1>3, <3>1, <3>2 DEF Parsed
      <4>3. /\ Ended(turns[n]).id = turns[n].id /\ Ended(turns[n]).started = turns[n].started
            /\ Ended(turns[n]).prompt = turns[n].prompt /\ Ended(turns[n]).steps = turns[n].steps
            /\ Ended(turns[n]).tools = turns[n].tools /\ Ended(turns[n]).records = turns[n].records
        BY <3>1 DEF Ended, Parsed
      <4> QED BY <4>1, <4>2, <4>3, PartsOrder DEF TurnGrows
    <3>3. CASE ~(IsOpen(turns) /\ n = last)
      <4>1. new.turns[n] = turns[n]
        BY <2>2, <2>4, <3>3
      <4> QED BY <3>1, <4>1, GrowthOrder
    <3> QED BY <3>2, <3>3
  <2>7. Earlier(turns, new.turns)
    BY <1>1, <2>4, <2>6 DEF Earlier
  <2>8. IsOpen(turns) => new.turns[last] = Ended(turns[last])
    BY <1>3, <2>2, <2>4
  <2> QED BY <1>4, <2>4, <2>5, <2>7, <2>8 DEF new, fresh
<1>5. CASE kind # "started" /\ IsOpen(turns)
  <2> DEFINE grown == Within(turns[last], reader.awaiting, line)
             awaits == Awaiting(reader, line)
  <2>1. Follows(turns[last], reader.awaiting, line, grown)
    BY <1>1, <1>3, <1>5, LineFollows DEF Newest
  <2>2. new = [turns |-> [turns EXCEPT ![last] = grown], awaiting |-> awaits]
    BY <1>2, <1>5 DEF Apply
  <2>3. awaits \in BOOLEAN
    BY <1>1, <1>2, <1>5 DEF Awaiting
  <2> HIDE DEF grown, awaits
  <2>4. grown \in Parsed /\ TurnGrows(turns[last], grown)
    BY <2>1 DEF Follows
  <2>5. /\ [turns EXCEPT ![last] = grown] \in Seq(Parsed) /\ Len([turns EXCEPT ![last] = grown]) = last
        /\ [turns EXCEPT ![last] = grown][last] = grown
        /\ \A n \in 1..last : n # last => [turns EXCEPT ![last] = grown][n] = turns[n]
    BY <1>1, <1>3, <1>5, <2>4, Updated
  <2>6. /\ new.turns \in Seq(Parsed) /\ Len(new.turns) = last /\ new.turns[last] = grown /\ new.awaiting = awaits
        /\ new \in [turns : Seq(Parsed), awaiting : BOOLEAN]
        /\ \A n \in 1..last : n # last => new.turns[n] = turns[n]
    BY <2>2, <2>3, <2>5
  <2> HIDE DEF new
  <2>7. ASSUME NEW n \in 1..last PROVE TurnGrows(turns[n], new.turns[n])
    BY <1>1, <2>4, <2>6, GrowthOrder
  <2>8. Earlier(turns, new.turns)
    BY <1>1, <2>6, <2>7 DEF Earlier
  <2> QED BY <1>3, <1>5, <2>1, <2>6, <2>8 DEF new, awaits
<1>6. CASE kind # "started" /\ ~IsOpen(turns)
  <2>1. new = reader
    BY <1>2, <1>6 DEF Apply
  <2> QED BY <1>1, <1>6, <2>1, EarlierOrder
<1> QED BY <1>4, <1>5, <1>6

----------------------------------------------------------------------------
(* The live exporter: least and next ones *)

\* A set of numbers that is not empty has a least one.
LEMMA LeastOne ==
  ASSUME NEW T, T \subseteq Nat, T # {}
  PROVE  \E k \in T : \A i \in T : k <= i
<1>1. PICK k \in T : \A i \in T : ~(<<i, k>> \in OpToRel(<, Nat))
  BY NatLessThanWellFounded, WFMin
<1>2. ASSUME NEW i \in T PROVE k <= i
  <2>1. i < k => <<i, k>> \in OpToRel(<, Nat)
    BY DEF OpToRel
  <2>2. ~(i < k)
    BY <1>1, <2>1
  <2> QED BY <2>2
<1> QED BY <1>2

\* A set of numbers that is not empty and bounded has a greatest one.
LEMMA GreatestOne ==
  ASSUME NEW T, NEW n \in Nat, T \subseteq 1..n, T # {}
  PROVE  \E k \in T : \A i \in T : i <= k
<1> DEFINE U == {n - k : k \in T}
<1>1. U \subseteq Nat /\ U # {}
  <2>1. \A k \in 1..n : n - k \in Nat
    OBVIOUS
  <2>2. PICK k \in T : TRUE
    OBVIOUS
  <2> QED BY <2>1, <2>2
<1>2. PICK u \in U : \A i \in U : u <= i
  BY <1>1, LeastOne
<1>3. PICK k \in T : u = n - k
  OBVIOUS
<1>4. ASSUME NEW i \in T PROVE i <= k
  <2>1. n - k <= n - i
    BY <1>2, <1>3
  <2> QED BY <2>1
<1> QED BY <1>4

\* The order of the files is total, so at most one is next.
LEMMA PlacesDiffer ==
  \A t, u \in Threads : Place(t) \in Nat /\ (Place(t) = Place(u) => t = u)
<1>1. \A t \in Threads : Place(t) \in DOMAIN Files /\ Files[Place(t)] = t
  BY DEF Threads, Place
<1>2. DOMAIN Files \subseteq Nat
  BY LiveTraceAssumption
<1> QED BY <1>1, <1>2

LEMMA NextIsOne ==
  ASSUME left \subseteq Threads
  PROVE  /\ \A t, u : IsNext(t) /\ IsNext(u) => t = u
         /\ \A t, u : IsSentNext(t) /\ IsSentNext(u) => t = u
<1>1. \A i, j \in Nat : i <= j /\ j <= i => i = j
  OBVIOUS
<1>2. ASSUME NEW t, NEW u, IsNext(t) /\ IsNext(u) PROVE t = u
  BY <1>1, <1>2, PlacesDiffer DEF IsNext
<1>3. ASSUME NEW t, NEW u, IsSentNext(t) /\ IsSentNext(u) PROVE t = u
  <2>1. t \in Threads /\ u \in Threads /\ Place(t) <= Place(u) /\ Place(u) <= Place(t)
    BY <1>3 DEF IsSentNext
  <2> QED BY <2>1, <1>1, PlacesDiffer
<1> QED BY <1>2, <1>3

----------------------------------------------------------------------------
(* The live exporter: Codex writes on *)

\* What a step of Codex may do to the turns of the transcripts.
Written(t) ==
  /\ size[t] <= size'[t] /\ (size'[t] = size[t] => Turns(t)' = Turns(t))
  /\ Earlier(Turns(t), Turns(t)')
  /\ \A n \in DOMAIN Turns(t) : Settled(t, n) =>
       /\ Settled(t, n)'
       /\ \/ Turns(t)'[n] = Turns(t)[n]
          \/ Turns(t)[n].end = None /\ Turns(t)'[n] = Ended(Turns(t)[n])
  /\ \A n \in DOMAIN Turns(t)' : n > Len(Turns(t)) => Turns(t)'[n].started > now

CodexStep == \A t \in Threads : Written(t)

LEMMA ScriptHas ==
  ASSUME CodexInv, NEW t \in Threads
  PROVE  /\ DOMAIN Lines(t) = 1..Len(Lines(t)) /\ Len(Lines(t)) \in Nat
         /\ \A n \in 1..Len(Lines(t)) : Lines(t)[n].id \in Idents
         /\ \A i, j \in 1..Len(Lines(t)) :
              Lines(t)[i].kind = "started" /\ Lines(t)[j].kind = "started" /\ Lines(t)[i].id = Lines(t)[j].id => i = j
         /\ Parent[t] # None /\ Lines(t) # <<>> => Lines(t)[1].kind = "started" /\ 1 <= Len(Lines(t))
<1>1. script \in Scripts
  BY DEF CodexInv
<1> DEFINE Starts == {n \in DOMAIN Lines(t) : Lines(t)[n].kind = "started"}
<1>2. /\ DOMAIN Lines(t) = 1..Len(Lines(t)) /\ Len(Lines(t)) \in Nat
      /\ \A i, j \in Starts : Lines(t)[i].id = Lines(t)[j].id => i = j
      /\ Parent[t] # None /\ Lines(t) # <<>> => 1 \in Starts
  BY <1>1, ScriptAssumption DEF Lines
<1>3. \A n \in DOMAIN Lines(t) : Lines(t)[n].id \in Idents
  BY <1>1 DEF Idents, Lines
<1> QED BY <1>2, <1>3

\* A prompt is written again only behind an answer.
LEMMA PromptIsNew ==
  ASSUME CodexInv, NEW t \in Threads, next[t] \in 1..Len(Lines(t)), IsOpen(Turns(t)),
         Lines(t)[next[t]].kind = "user", parsed[t].awaiting
  PROVE  Newest(Turns(t)).prompt = 0
<1>1. script \in Scripts /\ PromptIsOnce(t)
  BY DEF CodexInv
<1>2. ~AtTurnEnd(t)
  BY DEF AtTurnEnd
<1>3. Newest(Turns(t)).steps = <<>> /\ (Newest(Turns(t)).prompt # 0 => PromptBehind(t))
  BY <1>1, <1>2 DEF PromptIsOnce
<1>4. SUFFICES ASSUME PromptBehind(t) PROVE FALSE
  BY <1>3
<1>5. PICK h, i \in 1..next[t] - 1 :
        /\ SettingsBehind(t, h) /\ h < i /\ Lines(t)[i].kind = "user"
        /\ \A k \in i..next[t] - 1 : Lines(t)[k].kind \notin Answers
  BY <1>4 DEF PromptBehind
<1> DEFINE text == Lines(t)
           Starts == {n \in DOMAIN text : text[n].kind = "started"}
           j == next[t]
<1>6. DOMAIN text = 1..Len(text) /\ Len(text) \in Nat
  BY ScriptHas
<1>7. h \in 1..Len(text) /\ i \in 1..Len(text) /\ j \in 1..Len(text) /\ h < i /\ i < j
  BY <1>5, <1>6
<1>8. text[h].kind = "settings" /\ h..j \cap Starts = {}
  <2>1. \A k \in h..j : k \in h..j - 1 \/ k = j
    BY <1>6, <1>7
  <2> QED BY <1>5, <2>1 DEF SettingsBehind
<1>9. \E k \in i..j : text[k].kind \in Answers
  BY <1>1, <1>5, <1>6, <1>7, <1>8, ScriptAssumption DEF Lines
<1>10. PICK k \in i..j : text[k].kind \in Answers
  BY <1>9
<1>11. k = j \/ k \in i..j - 1
  BY <1>6, <1>7
<1> QED BY <1>5, <1>10, <1>11 DEF Answers

\* What writing a line does to its transcript.
LEMMA LineIsWritten ==
  ASSUME CodexInv, NEW t \in Threads, Write(t)
  PROVE  LET line == Lines(t)[next[t]]
             read == Line(line.kind, line.id, now + 1)
             new == Apply(parsed[t], read)
             last == Len(Turns(t))
         IN  /\ next[t] \in 1..Len(Lines(t)) /\ line.id \in Idents
             /\ new \in [turns : Seq(Parsed), awaiting : BOOLEAN] /\ Earlier(Turns(t), new.turns)
             /\ \A n \in 1..last : Turns(t)[n].end # None \/ n # last => new.turns[n] = Turns(t)[n]
             /\ line.kind = "started" =>
                  /\ Len(new.turns) = last + 1 /\ ~new.awaiting
                  /\ new.turns[last + 1] = NewTurn(read)
                  /\ IsOpen(Turns(t)) => new.turns[last] = Ended(Turns(t)[last])
             /\ line.kind # "started" =>
                  /\ Len(new.turns) = last
                  /\ IsOpen(Turns(t)) =>
                       /\ Follows(Turns(t)[last], parsed[t].awaiting, read, new.turns[last])
                       /\ new.awaiting = Awaiting(parsed[t], read)
                  /\ ~IsOpen(Turns(t)) => new = parsed[t]
<1> DEFINE line == Lines(t)[next[t]]
<1>1. next[t] \in 1..Len(Lines(t)) /\ parsed[t] \in [turns : Seq(Parsed), awaiting : BOOLEAN] /\ now + 1 \in Nat
  <2>1. next[t] \in Nat \ {0} /\ now \in Nat /\ parsed[t] \in [turns : Seq(Parsed), awaiting : BOOLEAN]
    BY DEF CodexInv
  <2>2. next[t] <= Len(Lines(t)) /\ Len(Lines(t)) \in Nat
    BY ScriptHas DEF Write, Lines
  <2> QED BY <2>1, <2>2
<1>2. line.id \in Idents
  BY <1>1, ScriptHas
<1>3. IsOpen(parsed[t].turns) /\ line.kind = "user" /\ parsed[t].awaiting => Newest(parsed[t].turns).prompt = 0
  BY <1>1, PromptIsNew DEF Turns
<1> HIDE DEF line
<1> QED BY <1>1, <1>2, <1>3, TurnsGrow DEF Turns, line

\* A step of Codex changes one transcript or none.
Elsewhere(u) == size'[u] = size[u] /\ parsed'[u] = parsed[u] /\ next'[u] = next[u]

LEMMA WriteIs ==
  ASSUME CodexInv, NEW t \in Threads, Write(t)
  PROVE  LET line == Lines(t)[next[t]]
             new == Apply(parsed[t], Line(line.kind, line.id, now + 1))
         IN  /\ next' \in [Threads -> Nat \ {0}] /\ size' \in [Threads -> Nat] /\ now' = now + 1 /\ now \in Nat
             /\ \A u \in Threads : u # t => Elsewhere(u)
             /\ next'[t] = next[t] + 1 /\ size'[t] = size[t] + 1 /\ size[t] \in Nat
             /\ parsed' = [parsed EXCEPT ![t] = new] /\ parsed'[t] = new /\ Turns(t)' = new.turns
             /\ Root(t) \in alive /\ alive' = alive /\ script' = script
             /\ ~IsMain(t) /\ line.kind = "started" => IsOpen(Turns(Parent[t]))
<1>1. /\ next \in [Threads -> Nat \ {0}] /\ size \in [Threads -> Nat] /\ now \in Nat
      /\ parsed \in [Threads -> [turns : Seq(Parsed), awaiting : BOOLEAN]]
  BY DEF CodexInv
<1> DEFINE line == Lines(t)[next[t]]
           new == Apply(parsed[t], Line(line.kind, line.id, now + 1))
<1>2. /\ parsed' = [parsed EXCEPT ![t] = new] /\ Root(t) \in alive /\ alive' = alive /\ script' = script
      /\ size' = [size EXCEPT ![t] = @ + 1] /\ next' = [next EXCEPT ![t] = @ + 1] /\ now' = now + 1
      /\ ~IsMain(t) /\ line.kind = "started" => IsOpen(Turns(Parent[t]))
  BY DEF Write, Lines
<1> HIDE DEF new, line
<1>3. /\ next' \in [Threads -> Nat \ {0}] /\ size' \in [Threads -> Nat]
      /\ next'[t] = next[t] + 1 /\ size'[t] = size[t] + 1 /\ size[t] \in Nat /\ parsed'[t] = new
  BY <1>1, <1>2
<1>4. ASSUME NEW u \in Threads, u # t PROVE Elsewhere(u)
  BY <1>1, <1>2, <1>4 DEF Elsewhere
<1>5. Turns(t)' = new.turns
  BY <1>3 DEF Turns
<1> QED BY <1>1, <1>2, <1>3, <1>4, <1>5 DEF new, line

LEMMA TurnsFollowOn ==
  ASSUME CodexInv, NEW t \in Threads, Write(t)
  PROVE  TurnsFollow(t)'
<1> DEFINE line == Lines(t)[next[t]]
           read == Line(line.kind, line.id, now + 1)
           new == Apply(parsed[t], read)
           last == Len(Turns(t))
<1>1. TurnsFollow(t) /\ Turns(t) \in Seq(Parsed) /\ now \in Nat /\ last \in Nat /\ next[t] \in Nat /\ size[t] \in Nat
  BY DEF CodexInv, Turns
<1>2. /\ next[t] \in 1..Len(Lines(t)) /\ new.turns \in Seq(Parsed) /\ Earlier(Turns(t), new.turns)
      /\ \A n \in 1..last : Turns(t)[n].end # None \/ n # last => new.turns[n] = Turns(t)[n]
      /\ line.kind = "started" =>
                  /\ Len(new.turns) = last + 1
                  /\ new.turns[last + 1] = NewTurn(read)
                  /\ IsOpen(Turns(t)) => new.turns[last] = Ended(Turns(t)[last])
      /\ line.kind # "started" => Len(new.turns) = last
  BY LineIsWritten
<1>3. /\ now' = now + 1 /\ next'[t] = next[t] + 1 /\ size'[t] = size[t] + 1 /\ Turns(t)' = new.turns
      /\ Root(t) \in alive /\ alive' = alive /\ Lines(t)' = Lines(t)
  BY WriteIs DEF Lines
<1>4. NewTurn(read).id = line.id /\ NewTurn(read).started = now + 1 /\ NewTurn(read).end = None
  BY DEF NewTurn, Line
<1>5. \A n \in 1..last : new.turns[n].id = Turns(t)[n].id /\ new.turns[n].started = Turns(t)[n].started
  BY <1>1, <1>2 DEF Earlier, TurnGrows
<1> HIDE DEF new, read, line
<1>6. \A n \in 1..Len(new.turns) : n \in 1..last \/ (n = last + 1 /\ line.kind = "started")
  BY <1>1, <1>2
<1>7. DOMAIN new.turns = 1..Len(new.turns) /\ DOMAIN Turns(t) = 1..last
  BY <1>1, <1>2
<1>8. \A n \in 1..last : \E k \in 1..next[t] - 1 : Lines(t)[k].kind = "started" /\ Lines(t)[k].id = Turns(t)[n].id
  BY <1>1, <1>7 DEF TurnsFollow
<1>9. ASSUME NEW n \in 1..Len(new.turns)
      PROVE  /\ n < Len(new.turns) => new.turns[n].end # None
             /\ new.turns[n].started <= now + 1
             /\ \E k \in 1..next[t] : Lines(t)[k].kind = "started" /\ Lines(t)[k].id = new.turns[n].id
  <2>1. CASE n \in 1..last
    <3>1. new.turns[n].started <= now + 1
      <4>1. Turns(t)[n].started <= now
        BY <1>1, <1>7, <2>1 DEF TurnsFollow
      <4>2. Turns(t)[n] \in Parsed
        BY <1>1, <2>1
      <4>3. Turns(t)[n].started \in Nat
        BY <4>2 DEF Parsed
      <4> QED BY <1>1, <1>5, <2>1, <4>1, <4>3
    <3>2. n < Len(new.turns) => new.turns[n].end # None
      <4> SUFFICES ASSUME n < Len(new.turns) PROVE new.turns[n].end # None
        OBVIOUS
      <4>1. CASE n < last
        <5>1. Turns(t)[n].end # None
          BY <1>1, <1>7, <2>1, <4>1 DEF TurnsFollow
        <5> QED BY <1>2, <2>1, <5>1
      <4>2. CASE n = last
        <5>1. line.kind = "started" /\ last > 0
          BY <1>1, <1>2, <2>1, <4>2
        <5>2. CASE IsOpen(Turns(t))
          <6>1. new.turns[last] = Ended(Turns(t)[last]) /\ Turns(t)[last] \in Parsed
            BY <1>1, <1>2, <5>1, <5>2
          <6> QED BY <4>2, <6>1 DEF Ended, Parsed, None
        <5>3. CASE ~IsOpen(Turns(t))
          <6>1. Turns(t)[last].end # None
            BY <1>1, <5>1, <5>3 DEF IsOpen, Newest
          <6> QED BY <1>2, <2>1, <4>2, <6>1
        <5> QED BY <5>2, <5>3
      <4> QED BY <1>1, <2>1, <4>1, <4>2
    <3>3. \E k \in 1..next[t] : Lines(t)[k].kind = "started" /\ Lines(t)[k].id = new.turns[n].id
      <4>1. PICK k \in 1..next[t] - 1 : Lines(t)[k].kind = "started" /\ Lines(t)[k].id = Turns(t)[n].id
        BY <1>8, <2>1
      <4>2. k \in 1..next[t]
        BY <1>1
      <4> QED BY <1>5, <2>1, <4>1, <4>2
    <3> QED BY <3>1, <3>2, <3>3
  <2>2. CASE n = last + 1 /\ line.kind = "started"
    <3>1. new.turns[n].id = line.id /\ new.turns[n].started = now + 1 /\ ~(n < Len(new.turns))
      BY <1>1, <1>2, <1>4, <2>2
    <3>2. next[t] \in 1..next[t]
      BY <1>2
    <3> QED BY <1>1, <2>2, <3>1, <3>2 DEF line
  <2> QED BY <1>6, <2>1, <2>2
<1>10. ASSUME NEW n \in 1..Len(new.turns), NEW k \in 1..Len(new.turns), n # k PROVE new.turns[n].id # new.turns[k].id
  <2>1. CASE n \in 1..last /\ k \in 1..last
    <3>1. Turns(t)[n].id # Turns(t)[k].id
      BY <1>1, <1>7, <1>10, <2>1 DEF TurnsFollow
    <3> QED BY <1>5, <2>1, <3>1
  <2>2. ASSUME NEW o \in 1..last, line.kind = "started" PROVE new.turns[o].id # line.id
    <3>1. PICK i \in 1..next[t] - 1 : Lines(t)[i].kind = "started" /\ Lines(t)[i].id = Turns(t)[o].id
      BY <1>8
    <3>2. i \in 1..Len(Lines(t)) /\ i # next[t] /\ Len(Lines(t)) \in Nat
      BY <1>2, ScriptHas
    <3> QED BY <1>2, <1>5, <2>2, <3>1, <3>2, ScriptHas DEF line
  <2>3. line.kind = "started" => new.turns[last + 1].id = line.id
    BY <1>2, <1>4
  <2> QED BY <1>6, <1>10, <2>1, <2>2, <2>3
<1>11. ~IsMain(t) => new.turns # <<>>
  <2> SUFFICES ASSUME ~IsMain(t) PROVE Len(new.turns) > 0
    BY <1>2
  <2>1. CASE size[t] = 0
    <3>1. next[t] = 1 /\ Lines(t) # <<>>
      BY <1>1, <1>2, <2>1 DEF TurnsFollow
    <3>2. line.kind = "started"
      BY <3>1, ScriptHas DEF line, IsMain
    <3> QED BY <1>1, <1>2, <3>2
  <2>2. CASE size[t] # 0
    <3>1. Turns(t) # <<>>
      BY <1>1, <2>2 DEF TurnsFollow
    <3> QED BY <1>1, <1>2, <3>1 DEF Earlier
  <2> QED BY <2>1, <2>2
<1>12. /\ size'[t] # 0 /\ next'[t] - 1 = next[t] /\ Root(t)' = Root(t) /\ IsMain(t)' = IsMain(t)
       /\ Root(t)' \in alive'
  BY <1>1, <1>3 DEF Root, IsMain
<1> DEFINE turns == new.turns
<1>13. Turns(t)' = turns
  BY <1>3
<1> HIDE DEF turns
<1>14. /\ \A n \in DOMAIN Turns(t)' :
            /\ n < Len(Turns(t)') => Turns(t)'[n].end # None
            /\ Turns(t)'[n].started <= now'
            /\ \E k \in 1..next'[t] - 1 : Lines(t)'[k].kind = "started" /\ Lines(t)'[k].id = Turns(t)'[n].id
       /\ \A n, k \in DOMAIN Turns(t)' : n # k => Turns(t)'[n].id # Turns(t)'[k].id
  BY <1>3, <1>7, <1>9, <1>10, <1>12, <1>13 DEF turns
<1> QED BY <1>3, <1>11, <1>12, <1>13, <1>14 DEF TurnsFollow, turns

LEMMA PromptStaysOnce ==
  ASSUME CodexInv, NEW t \in Threads, Write(t)
  PROVE  PromptIsOnce(t)'
<1> DEFINE line == Lines(t)[next[t]]
           read == Line(line.kind, line.id, now + 1)
           new == Apply(parsed[t], read)
           last == Len(Turns(t))
<1>1. PromptIsOnce(t) /\ Turns(t) \in Seq(Parsed) /\ last \in Nat /\ next[t] \in Nat /\ Turns(t) = parsed[t].turns
  BY DEF CodexInv, Turns
<1>2. /\ next[t] \in 1..Len(Lines(t)) /\ new.turns \in Seq(Parsed)
      /\ line.kind = "started" =>
                  /\ Len(new.turns) = last + 1 /\ ~new.awaiting
                  /\ new.turns[last + 1] = NewTurn(read)
      /\ line.kind # "started" =>
                  /\ Len(new.turns) = last
                  /\ IsOpen(Turns(t)) =>
                       /\ Follows(Turns(t)[last], parsed[t].awaiting, read, new.turns[last])
                       /\ new.awaiting = Awaiting(parsed[t], read)
                  /\ ~IsOpen(Turns(t)) => new = parsed[t]
  BY LineIsWritten
<1>3. next'[t] = next[t] + 1 /\ Turns(t)' = new.turns /\ parsed'[t] = new /\ Lines(t)' = Lines(t)
  BY WriteIs DEF Lines
<1>4. read.kind = line.kind /\ NewTurn(read).prompt = 0
  BY DEF NewTurn, Line
<1> HIDE DEF new, read, line
<1>5. SUFFICES ASSUME IsOpen(new.turns), ~AtTurnEnd(t)'
               PROVE  /\ new.awaiting => Newest(new.turns).steps = <<>> /\ \E h \in 1..next[t] : SettingsBehind(t, h)'
                      /\ Newest(new.turns).prompt # 0 /\ Newest(new.turns).steps = <<>> => PromptBehind(t)'
  <2>1. 1..next'[t] - 1 = 1..next[t]
    BY <1>1, <1>3
  <2> QED BY <1>3, <2>1 DEF PromptIsOnce
<1>6. CASE line.kind = "started"
  <2>1. Newest(new.turns).prompt = 0
    BY <1>1, <1>2, <1>4, <1>6 DEF Newest
  <2> QED BY <1>2, <1>6, <2>1
<1>7. CASE line.kind # "started"
  <2>1. IsOpen(Turns(t)) /\ Follows(Turns(t)[last], parsed[t].awaiting, read, new.turns[last])
        /\ new.awaiting = Awaiting(parsed[t], read)
    BY <1>1, <1>2, <1>5, <1>7
  <2>2. ~AtTurnEnd(t)
    BY <1>2, <1>7 DEF AtTurnEnd, line
  <2> DEFINE was == Turns(t)[last]
             turn == new.turns[last]
  <2>3. Newest(Turns(t)) = was /\ Newest(new.turns) = turn /\ was \in Parsed /\ Newest(parsed[t].turns) = was
    BY <1>1, <1>2, <1>7, <2>1 DEF Newest, IsOpen
  <2> HIDE DEF was, turn
  <2>4. /\ parsed[t].awaiting => was.steps = <<>> /\ \E h \in 1..next[t] - 1 : SettingsBehind(t, h)
        /\ was.prompt # 0 /\ was.steps = <<>> => PromptBehind(t)
    BY <1>1, <2>1, <2>2, <2>3 DEF PromptIsOnce
  <2>5. Follows(was, parsed[t].awaiting, read, turn)
    BY <2>1 DEF was, turn
  <2>6. \A h \in 1..next[t] - 1 : SettingsBehind(t, h) => SettingsBehind(t, h)'
    <3>1. \A h \in 1..next[t] - 1 : h \in 1..next'[t] - 1 /\ \A k \in h..next'[t] - 1 : k \in h..next[t] - 1 \/ k = next[t]
      BY <1>1, <1>3
    <3> QED BY <1>3, <1>7, <3>1 DEF SettingsBehind, line
  <2>7. 1..next[t] - 1 \subseteq 1..next[t] /\ next[t] \in 1..next[t] /\ next'[t] - 1 = next[t]
    <3>1. \A k \in Nat \ {0} : 1..k - 1 \subseteq 1..k /\ k \in 1..k /\ k + 1 - 1 = k
      OBVIOUS
    <3>2. next[t] \in Nat \ {0} /\ next'[t] = next[t] + 1
      BY <1>1, <1>2, <1>3
    <3> QED BY <3>1, <3>2
  <2>8. ASSUME new.awaiting PROVE turn.steps = <<>> /\ \E h \in 1..next[t] : SettingsBehind(t, h)'
    <3>1. CASE line.kind = "settings"
      <4>1. was.steps = <<>>
        BY <1>4, <2>1, <2>3, <2>8, <3>1 DEF Awaiting
      <4>2. turn.steps = <<>>
        BY <1>4, <2>5, <3>1, <4>1 DEF Follows, Answers
      <4>3. PICK h \in 1..next[t] : h = next[t]
        BY <2>7
      <4>4. SettingsBehind(t, h)'
        <5>1. \A k \in next[t]..next[t] : k = next[t]
          BY <1>1
        <5>2. h \in 1..next'[t] - 1 /\ \A k \in h..next'[t] - 1 : k = next[t]
          BY <2>7, <4>3, <5>1
        <5> QED BY <1>3, <3>1, <4>3, <5>2 DEF SettingsBehind, line
      <4> QED BY <4>2, <4>4
    <3>2. CASE line.kind # "settings"
      <4>1. parsed[t].awaiting /\ line.kind \notin Answers
        BY <1>4, <2>1, <2>8, <3>2 DEF Awaiting, Answers
      <4>2. turn.steps = <<>>
        BY <1>4, <2>4, <2>5, <4>1 DEF Follows
      <4> QED BY <2>4, <2>6, <2>7, <4>1, <4>2
    <3> QED BY <3>1, <3>2
  <2>9. ASSUME turn.prompt # 0, turn.steps = <<>> PROVE PromptBehind(t)'
    <3>1. line.kind \notin Answers
      BY <1>4, <2>5, <2>9 DEF Follows
    <3>2. was.steps = <<>>
      <4>1. Len(was.steps) <= Len(turn.steps) /\ was.steps \in Seq(Steps)
        BY <2>3, <2>5 DEF Follows, TurnGrows, PartsGrow, Parsed
      <4>2. Len(was.steps) = 0
        BY <2>9, <4>1
      <4> QED BY <4>1, <4>2
    <3>3. \A i \in 1..next[t] - 1 : i \in 1..next[t] /\ \A k \in i..next[t] : k \in i..next[t] - 1 \/ k = next[t]
      BY <1>1
    <3>4. CASE line.kind = "user" /\ parsed[t].awaiting
      <4>1. PICK h \in 1..next[t] - 1 : SettingsBehind(t, h)
        BY <2>4, <3>4
      <4>2. h \in 1..next[t] /\ next[t] \in 1..next[t] /\ h < next[t] /\ \A k \in next[t]..next[t] : k = next[t]
        BY <1>1, <1>2
      <4>3. Lines(t)'[next[t]].kind = "user" /\ \A k \in next[t]..next[t] : Lines(t)'[k].kind \notin Answers
        BY <1>3, <3>1, <3>4, <4>2 DEF line
      <4>4. SettingsBehind(t, h)'
        BY <2>6, <4>1
      <4> QED BY <2>7, <4>2, <4>3, <4>4 DEF PromptBehind
    <3>5. CASE ~(line.kind = "user" /\ parsed[t].awaiting)
      <4>1. was.prompt # 0
        BY <1>4, <2>5, <2>9, <3>5 DEF Follows
      <4>2. PICK h, i \in 1..next[t] - 1 :
              /\ SettingsBehind(t, h) /\ h < i /\ Lines(t)[i].kind = "user"
              /\ \A k \in i..next[t] - 1 : Lines(t)[k].kind \notin Answers
        BY <2>4, <3>2, <4>1 DEF PromptBehind
      <4>3. /\ h \in 1..next[t] /\ i \in 1..next[t] /\ h < i /\ Lines(t)'[i].kind = "user"
            /\ \A k \in i..next[t] : Lines(t)'[k].kind \notin Answers
        BY <1>3, <3>1, <3>3, <4>2 DEF line
      <4>4. SettingsBehind(t, h)'
        BY <2>6, <4>2
      <4> QED BY <2>7, <4>3, <4>4 DEF PromptBehind
    <3> QED BY <3>4, <3>5
  <2> QED BY <2>3, <2>8, <2>9
<1> QED BY <1>6, <1>7

LEMMA ElsewhereFollows ==
  ASSUME CodexInv, NEW u \in Threads, Elsewhere(u), script' = script, now' \in Nat, now <= now',
         Root(u) \notin alive' => Root(u) \notin alive
  PROVE  TurnsFollow(u)' /\ PromptIsOnce(u)' /\ Written(u)
<1>1. TurnsFollow(u) /\ PromptIsOnce(u) /\ Turns(u) \in Seq(Parsed) /\ now \in Nat /\ size[u] \in Nat
  BY DEF CodexInv, Turns
<1>2. Turns(u)' = Turns(u) /\ Lines(u)' = Lines(u) /\ next'[u] = next[u] /\ size'[u] = size[u] /\ parsed'[u] = parsed[u]
  BY DEF Elsewhere, Turns, Lines
<1>3. \A n \in DOMAIN Turns(u) : Turns(u)[n].started <= now'
  <2> TAKE n \in DOMAIN Turns(u)
  <2>1. Turns(u)[n] \in Parsed /\ Turns(u)[n].started <= now
    BY <1>1 DEF TurnsFollow
  <2> QED BY <1>1, <2>1 DEF Parsed
<1>4. TurnsFollow(u)'
  BY <1>1, <1>2, <1>3 DEF TurnsFollow, IsMain, Root, AtTurnEnd
<1>5. PromptIsOnce(u)'
  BY <1>1, <1>2 DEF PromptIsOnce, AtTurnEnd, SettingsBehind, PromptBehind
<1>6. Written(u)
  <2>1. \A n \in DOMAIN Turns(u) : ~(n > Len(Turns(u)))
    BY <1>1
  <2> QED BY <1>1, <1>2, <2>1, EarlierOrder DEF Written, Settled, AtTurnEnd
<1> QED BY <1>4, <1>5, <1>6

LEMMA WriteGoesOn ==
  ASSUME CodexInv, NEW t \in Threads, Write(t)
  PROVE  CodexInv' /\ CodexStep
<1> DEFINE line == Lines(t)[next[t]]
           read == Line(line.kind, line.id, now + 1)
           new == Apply(parsed[t], read)
           last == Len(Turns(t))
<1>1. /\ TurnsFollow(t) /\ Turns(t) \in Seq(Parsed) /\ now \in Nat /\ last \in Nat /\ size[t] \in Nat
      /\ script \in Scripts /\ parsed \in [Threads -> [turns : Seq(Parsed), awaiting : BOOLEAN]]
      /\ \A u \in Threads : next[u] <= Len(Lines(u)) + 1
  BY DEF CodexInv, Turns
<1>2. /\ next[t] \in 1..Len(Lines(t)) /\ new \in [turns : Seq(Parsed), awaiting : BOOLEAN] /\ Earlier(Turns(t), new.turns)
      /\ \A n \in 1..last : Turns(t)[n].end # None \/ n # last => new.turns[n] = Turns(t)[n]
      /\ line.kind = "started" =>
                  /\ Len(new.turns) = last + 1
                  /\ new.turns[last + 1] = NewTurn(read)
                  /\ IsOpen(Turns(t)) => new.turns[last] = Ended(Turns(t)[last])
      /\ line.kind # "started" => Len(new.turns) = last
  BY LineIsWritten
<1>3. /\ next' \in [Threads -> Nat \ {0}] /\ size' \in [Threads -> Nat] /\ now' = now + 1
      /\ \A u \in Threads : u # t => Elsewhere(u)
      /\ next'[t] = next[t] + 1 /\ size'[t] = size[t] + 1
      /\ parsed' = [parsed EXCEPT ![t] = new] /\ Turns(t)' = new.turns
      /\ alive' = alive /\ script' = script
  BY WriteIs
<1>4. NewTurn(read).started = now + 1
  BY DEF NewTurn, Line
<1>5. line.kind = Lines(t)[next[t]].kind
  OBVIOUS
<1> HIDE DEF new, read, line
<1>6. \A u \in Threads : u # t => TurnsFollow(u)' /\ PromptIsOnce(u)' /\ Written(u)
  BY <1>1, <1>3, ElsewhereFollows DEF Root
<1>7. CodexInv'
  <2>1. parsed' \in [Threads -> [turns : Seq(Parsed), awaiting : BOOLEAN]]
    BY <1>1, <1>2, <1>3
  <2>2. \A u \in Threads : next'[u] <= Len(Lines(u)') + 1
    <3>1. \A u \in Threads : Lines(u)' = Lines(u) /\ Len(Lines(u)) \in Nat
      BY <1>3, ScriptHas DEF Lines
    <3>2. \A u \in Threads : u # t => next'[u] <= Len(Lines(u)) + 1
      BY <1>1, <1>3 DEF Elsewhere
    <3>3. next'[t] <= Len(Lines(t)) + 1
      BY <1>2, <1>3, <3>1
    <3> QED BY <3>1, <3>2, <3>3
  <2>3. now' \in Nat /\ script' \in Scripts
    BY <1>1, <1>3
  <2>4. \A u \in Threads : TurnsFollow(u)' /\ PromptIsOnce(u)'
    BY <1>6, TurnsFollowOn, PromptStaysOnce
  <2> QED BY <1>3, <2>1, <2>2, <2>3, <2>4 DEF CodexInv
<1>8. Written(t)
  <2> DEFINE turns == new.turns
  <2>1. Turns(t)' = turns /\ DOMAIN turns = 1..Len(turns) /\ DOMAIN Turns(t) = 1..last /\ Len(turns) \in Nat
    BY <1>1, <1>2, <1>3
  <2>2. ASSUME NEW n \in 1..last, Settled(t, n)
        PROVE  turns[n].end # None /\ (turns[n] = Turns(t)[n] \/ (Turns(t)[n].end = None /\ turns[n] = Ended(Turns(t)[n])))
    <3>1. CASE Turns(t)[n].end # None
      BY <1>2, <3>1
    <3>2. CASE Turns(t)[n].end = None
      <4>1. n = last /\ IsOpen(Turns(t))
        <5>1. ~(n < last) /\ Len(Turns(t)) > 0
          BY <1>1, <2>1, <3>2 DEF TurnsFollow
        <5> QED BY <1>1, <3>2, <5>1 DEF IsOpen, Newest
      <4>2. line.kind = "started"
        BY <1>2, <1>5, <2>2, <3>2 DEF Settled, AtTurnEnd
      <4>3. turns[n] = Ended(Turns(t)[n]) /\ Turns(t)[n] \in Parsed
        BY <1>1, <1>2, <4>1, <4>2
      <4> QED BY <3>2, <4>3 DEF Ended, Parsed, None
    <3> QED BY <3>1, <3>2
  <2>3. ASSUME NEW n \in 1..Len(turns), n > last PROVE turns[n].started > now
    <3>1. n = last + 1 /\ line.kind = "started"
      BY <1>1, <1>2, <2>3
    <3> QED BY <1>1, <1>2, <1>4, <3>1
  <2>4. size[t] <= size'[t] /\ size'[t] # size[t]
    BY <1>1, <1>3
  <2>5. Earlier(Turns(t), turns)
    BY <1>2
  <2> HIDE DEF turns
  <2> QED BY <2>1, <2>2, <2>3, <2>4, <2>5 DEF Written, Settled
<1> QED BY <1>6, <1>7, <1>8 DEF CodexStep

\* What remains of a turn is skipped when its process ends.
LEMMA SkipEndsTurn ==
  ASSUME CodexInv, NEW t \in Threads
  PROVE  /\ Skip(t) \in Nat \ {0} /\ next[t] <= Skip(t) /\ Skip(t) <= Len(Lines(t)) + 1
         /\ size[t] > 0 /\ Skip(t) <= Len(Lines(t)) => Lines(t)[Skip(t)].kind = "started"
         /\ size[t] = 0 => Skip(t) = next[t]
<1>1. next[t] \in Nat \ {0} /\ next[t] <= Len(Lines(t)) + 1 /\ Len(Lines(t)) \in Nat /\ size[t] \in Nat
  BY ScriptHas DEF CodexInv
<1> DEFINE starts == {n \in next[t]..Len(Lines(t)) : Lines(t)[n].kind = "started"}
           least == CHOOSE n \in starts : \A i \in starts : n <= i
<1>2. Skip(t) = IF next[t] > Len(Lines(t)) \/ size[t] = 0 THEN next[t]
                ELSE IF starts = {} THEN Len(Lines(t)) + 1 ELSE least
  BY DEF Skip, Lines
<1>3. starts # {} => least \in starts
  <2> SUFFICES ASSUME starts # {} PROVE least \in starts
    OBVIOUS
  <2>1. starts \subseteq Nat
    BY <1>1
  <2> HIDE DEF starts
  <2>2. \E n \in starts : \A i \in starts : n <= i
    BY <2>1, LeastOne
  <2> QED BY <2>2
<1> HIDE DEF least
<1>4. starts # {} => least \in Nat \ {0} /\ next[t] <= least /\ least <= Len(Lines(t)) /\ Lines(t)[least].kind = "started"
  BY <1>1, <1>3
<1> HIDE DEF starts
<1> QED BY <1>1, <1>2, <1>4

LEMMA StopGoesOn ==
  ASSUME CodexInv, NEW m \in Threads, StopCodex(m)
  PROVE  CodexInv' /\ CodexStep
<1>1. /\ parsed' = parsed /\ size' = size /\ now' = now /\ script' = script /\ alive' = alive \ {m}
      /\ next' = [t \in Threads |-> IF Root(t) = m THEN Skip(t) ELSE next[t]]
  BY DEF StopCodex
<1>2. /\ script \in Scripts /\ next \in [Threads -> Nat \ {0}] /\ size \in [Threads -> Nat] /\ now \in Nat
      /\ parsed \in [Threads -> [turns : Seq(Parsed), awaiting : BOOLEAN]]
      /\ \A t \in Threads : next[t] <= Len(Lines(t)) + 1 /\ TurnsFollow(t) /\ PromptIsOnce(t)
  BY DEF CodexInv
<1>3. ASSUME NEW t \in Threads
      PROVE  /\ next'[t] \in Nat \ {0} /\ next'[t] <= Len(Lines(t)') + 1
             /\ TurnsFollow(t)' /\ PromptIsOnce(t)' /\ Written(t)
  <2>1. Lines(t)' = Lines(t) /\ Turns(t)' = Turns(t) /\ Root(t)' = Root(t) /\ IsMain(t)' = IsMain(t)
    BY <1>1 DEF Lines, Turns, Root, IsMain
  <2>2. CASE Root(t) # m
    <3>1. Elsewhere(t) /\ (Root(t) \notin alive' => Root(t) \notin alive)
      BY <1>1, <2>2 DEF Elsewhere
    <3>2. Root(t)' \notin alive' => Root(t) \notin alive
      BY <2>1, <3>1
    <3> QED BY <1>1, <1>2, <2>1, <3>1, <3>2, ElsewhereFollows DEF Elsewhere
  <2>3. CASE Root(t) = m
    <3>1. next'[t] = Skip(t)
      BY <1>1, <2>3
    <3>2. /\ Skip(t) \in Nat \ {0} /\ next[t] <= Skip(t) /\ Skip(t) <= Len(Lines(t)) + 1 /\ next[t] \in Nat \ {0}
          /\ size[t] > 0 /\ Skip(t) <= Len(Lines(t)) => Lines(t)[Skip(t)].kind = "started"
          /\ size[t] = 0 => Skip(t) = next[t]
      BY <1>2, SkipEndsTurn
    <3>3. TurnsFollow(t) /\ size[t] \in Nat /\ Turns(t) \in Seq(Parsed)
      BY <1>2 DEF Turns
    <3>4. size[t] > 0 => AtTurnEnd(t)'
      BY <2>1, <3>1, <3>2 DEF AtTurnEnd
    <3>5. 1..next[t] - 1 \subseteq 1..next'[t] - 1
      BY <3>1, <3>2
    <3>6. TurnsFollow(t)'
      BY <1>1, <2>1, <3>1, <3>2, <3>3, <3>4, <3>5 DEF TurnsFollow
    <3>7. Turns(t) # <<>> => size[t] > 0
      BY <3>3 DEF TurnsFollow
    <3>8. PromptIsOnce(t)'
      BY <2>1, <3>4, <3>7 DEF PromptIsOnce, IsOpen
    <3>9. Written(t)
      <4>1. \A n \in DOMAIN Turns(t) : ~(n > Len(Turns(t))) /\ size[t] > 0
        BY <3>3, <3>7
      <4> QED BY <1>1, <2>1, <3>3, <3>4, <4>1, EarlierOrder DEF Written, Settled
    <3> QED BY <2>1, <3>1, <3>2, <3>6, <3>8, <3>9
  <2> QED BY <2>2, <2>3
<1>4. next' \in [Threads -> Nat \ {0}]
  BY <1>1, <1>3
<1> QED BY <1>1, <1>2, <1>3, <1>4 DEF CodexInv, CodexStep

LEMMA StartGoesOn ==
  ASSUME CodexInv, NEW m \in Threads, StartCodex(m)
  PROVE  CodexInv' /\ CodexStep
<1>1. /\ parsed' = parsed /\ size' = size /\ now' = now /\ script' = script /\ alive' = alive \cup {m} /\ next' = next
  BY DEF StartCodex
<1>2. \A t \in Threads : Elsewhere(t) /\ Lines(t)' = Lines(t) /\ (Root(t)' \notin alive' => Root(t) \notin alive)
  BY <1>1 DEF Elsewhere, Lines, Root
<1>3. now' \in Nat /\ now <= now'
  BY <1>1 DEF CodexInv
<1>4. \A t \in Threads : TurnsFollow(t)' /\ PromptIsOnce(t)' /\ Written(t)
  BY <1>1, <1>2, <1>3, ElsewhereFollows
<1> QED BY <1>1, <1>2, <1>4 DEF CodexInv, CodexStep

\* A step of an exporter.
LEMMA CodexRests ==
  ASSUME CodexInv, UNCHANGED codex
  PROVE  CodexInv' /\ \A t \in Threads : Turns(t)' = Turns(t) /\ AtTurnEnd(t)' = AtTurnEnd(t)
BY DEF CodexInv, codex, Lines, Turns, TurnsFollow, PromptIsOnce, AtTurnEnd, SettingsBehind, PromptBehind, IsMain, Root

LEMMA CodexBegins == Init => CodexInv
<1> SUFFICES ASSUME Init PROVE CodexInv
  OBVIOUS
<1>1. /\ script \in Scripts /\ next = [t \in Threads |-> 1] /\ size = [t \in Threads |-> 0]
      /\ parsed = [t \in Threads |-> Empty] /\ now = 0
  BY DEF Init
<1>2. Empty \in [turns : Seq(Parsed), awaiting : BOOLEAN] /\ Empty.turns = <<>> /\ Empty.awaiting = FALSE
  BY DEF Empty
<1>3. \A t \in Threads : Turns(t) = <<>> /\ Len(script.lines[t]) \in Nat
  BY <1>1, <1>2, ScriptAssumption DEF Turns
<1>4. \A t \in Threads : next[t] <= Len(Lines(t)) + 1
  BY <1>1, <1>3 DEF Lines
<1>5. \A t \in Threads : TurnsFollow(t) /\ PromptIsOnce(t)
  BY <1>1, <1>3 DEF TurnsFollow, PromptIsOnce, IsOpen
<1>6. /\ next \in [Threads -> Nat \ {0}] /\ size \in [Threads -> Nat] /\ now \in Nat
      /\ parsed \in [Threads -> [turns : Seq(Parsed), awaiting : BOOLEAN]]
  BY <1>1, <1>2
<1> QED BY <1>1, <1>4, <1>5, <1>6 DEF CodexInv

----------------------------------------------------------------------------
(* The live exporter: observations *)

EndOf(turn, finalize) == IF turn.end = None /\ finalize THEN "stopped" ELSE turn.end

\* What the observations of a turn are, one by one.
IsObserved(p, turn, end) ==
  \/ p = Piece("started", 0, [prompt |-> turn.prompt]) /\ turn.prompt # 0
  \/ \E n \in DOMAIN turn.steps : p = Piece("step", n, turn.steps[n]) /\ (end # None \/ turn.steps[n].done)
  \/ \E n \in DOMAIN turn.tools : p = Piece("tool", n, turn.tools[n]) /\ (end # None \/ turn.tools[n].done)
  \/ \E n \in 1..turn.records : p = Piece("record", n, [record |-> n])
  \/ p = RootOf(turn, end) /\ end # None

LEMMA Observed ==
  \A p, turn, finalize : p \in Observations(turn, finalize) <=> IsObserved(p, turn, EndOf(turn, finalize))
<1> SUFFICES ASSUME NEW p, NEW turn, NEW finalize
             PROVE  p \in Observations(turn, finalize) <=> IsObserved(p, turn, EndOf(turn, finalize))
  OBVIOUS
<1> DEFINE end == EndOf(turn, finalize)
<1>1. Observations(turn, finalize) =
        {o \in {Piece("started", 0, [prompt |-> turn.prompt])} : turn.prompt # 0}
          \cup Pieces("step", turn.steps, end # None) \cup Pieces("tool", turn.tools, end # None)
          \cup {Piece("record", n, [record |-> n]) : n \in 1..turn.records}
          \cup {o \in {RootOf(turn, end)} : end # None}
  BY DEF Observations, EndOf
<1> HIDE DEF end
<1>2. \A kind, parts : p \in Pieces(kind, parts, end # None) <=>
        \E n \in DOMAIN parts : p = Piece(kind, n, parts[n]) /\ (end # None \/ parts[n].done)
  BY DEF Pieces
<1> QED BY <1>1, <1>2 DEF IsObserved, end

LEMMA PieceFields ==
  \A kind, n, says : LET p == Piece(kind, n, says) IN p.kind = kind /\ p.n = n /\ p.says = says
BY DEF Piece

LEMMA RootFields ==
  \A turn, end : RootOf(turn, end).kind = "root" /\ RootOf(turn, end).n = 0
                 /\ RootOf(turn, end).says = [end |-> end, prompt |-> turn.prompt, tools |-> Len(turn.tools)]
BY DEF RootOf, Piece

LEMMA PieceIs ==
  ASSUME NEW turn \in Parsed, NEW finalize \in BOOLEAN, NEW p \in Observations(turn, finalize)
  PROVE  /\ p = Piece(p.kind, p.n, p.says) /\ p.n \in Nat /\ p.kind \in DOMAIN Rank
         /\ p.kind = "root" => turn.end # None \/ finalize
<1> DEFINE end == EndOf(turn, finalize)
<1>1. IsObserved(p, turn, end)
  BY Observed
<1>2. turn.steps \in Seq(Steps) /\ turn.tools \in Seq(Tools) /\ turn.records \in Nat
  BY DEF Parsed
<1>3. PICK kind \in {"started", "step", "tool", "record", "root"}, n \in Nat :
        (\E says : p = Piece(kind, n, says)) /\ (kind = "root" => end # None)
  <2>1. \A n : n \in DOMAIN turn.steps \/ n \in DOMAIN turn.tools \/ n \in 1..turn.records => n \in Nat
    BY <1>2
  <2>2. RootOf(turn, end) = Piece("root", 0, [end |-> end, prompt |-> turn.prompt, tools |-> Len(turn.tools)])
    BY DEF RootOf
  <2> HIDE DEF end
  <2> QED BY <1>1, <2>1, <2>2 DEF IsObserved
<1>4. kind \in DOMAIN Rank
  BY DEF Rank
<1>5. end # None => turn.end # None \/ finalize
  BY DEF EndOf
<1> HIDE DEF end
<1> QED BY <1>3, <1>4, <1>5, PieceFields

LEMMA PiecesDiffer ==
  ASSUME NEW turn \in Parsed, NEW finalize \in BOOLEAN,
         NEW p \in Observations(turn, finalize), NEW q \in Observations(turn, finalize), p.kind = q.kind, p.n = q.n
  PROVE  p = q
<1> DEFINE end == EndOf(turn, finalize)
<1>1. IsObserved(p, turn, end) /\ IsObserved(q, turn, end)
  BY Observed
<1> HIDE DEF end
<1> DEFINE The(kind, n) ==
             IF kind = "started" THEN Piece("started", 0, [prompt |-> turn.prompt])
             ELSE IF kind = "step" THEN Piece("step", n, turn.steps[n])
             ELSE IF kind = "tool" THEN Piece("tool", n, turn.tools[n])
             ELSE IF kind = "record" THEN Piece("record", n, [record |-> n])
             ELSE RootOf(turn, end)
<1>2. ASSUME NEW o, IsObserved(o, turn, end) PROVE o = The(o.kind, o.n)
  <2>1. CASE o = Piece("started", 0, [prompt |-> turn.prompt])
    BY <2>1, PieceFields
  <2>2. ASSUME NEW n, o = Piece("step", n, turn.steps[n]) PROVE o = The(o.kind, o.n)
    BY <2>2, PieceFields
  <2>3. ASSUME NEW n, o = Piece("tool", n, turn.tools[n]) PROVE o = The(o.kind, o.n)
    BY <2>3, PieceFields
  <2>4. ASSUME NEW n, o = Piece("record", n, [record |-> n]) PROVE o = The(o.kind, o.n)
    BY <2>4, PieceFields
  <2>5. CASE o = RootOf(turn, end)
    BY <2>5, RootFields
  <2> QED BY <1>2, <2>1, <2>2, <2>3, <2>4, <2>5 DEF IsObserved
<1> HIDE DEF The
<1> QED BY <1>1, <1>2

\* What is complete stays as it is while the turn goes on.
LEMMA CompleteStays ==
  ASSUME NEW a \in Parsed, NEW b \in Parsed, TurnGrows(a, b), NEW finalize \in BOOLEAN
  PROVE  Observations(a, FALSE) \subseteq Observations(b, finalize)
<1> SUFFICES ASSUME NEW p \in Observations(a, FALSE) PROVE p \in Observations(b, finalize)
  OBVIOUS
<1>1. IsObserved(p, a, a.end)
  BY Observed DEF EndOf
<1>2. SUFFICES IsObserved(p, b, EndOf(b, finalize))
  BY Observed
<1>3. CASE a.end # None
  BY <1>1, <1>3 DEF TurnGrows, EndOf
<1>4. CASE a.end = None
  <2>1. /\ a.steps \in Seq(Steps) /\ b.steps \in Seq(Steps) /\ a.tools \in Seq(Tools) /\ b.tools \in Seq(Tools)
        /\ a.records \in Nat /\ b.records \in Nat
    BY DEF Parsed
  <2>2. DOMAIN a.steps \subseteq DOMAIN b.steps /\ DOMAIN a.tools \subseteq DOMAIN b.tools /\ 1..a.records \subseteq 1..b.records
    <3>1. Len(a.steps) <= Len(b.steps) /\ Len(a.tools) <= Len(b.tools) /\ a.records <= b.records
      BY DEF TurnGrows, PartsGrow
    <3>2. \A i, j \in Nat : i <= j => 1..i \subseteq 1..j
      OBVIOUS
    <3>3. Len(a.steps) \in Nat /\ Len(b.steps) \in Nat /\ Len(a.tools) \in Nat /\ Len(b.tools) \in Nat
      BY <2>1
    <3> QED BY <2>1, <3>1, <3>2, <3>3
  <2>3. /\ a.prompt # 0 => b.prompt = a.prompt
        /\ \A n \in DOMAIN a.steps : a.steps[n].done => b.steps[n] = a.steps[n]
        /\ \A n \in DOMAIN a.tools : a.tools[n].done => b.tools[n] = a.tools[n]
    BY DEF TurnGrows, PartsGrow
  <2> QED BY <1>1, <1>4, <2>2, <2>3 DEF IsObserved
<1> QED BY <1>3, <1>4

EndedFields(turn) ==
  /\ Ended(turn).id = turn.id /\ Ended(turn).started = turn.started /\ Ended(turn).prompt = turn.prompt
  /\ Ended(turn).steps = turn.steps /\ Ended(turn).tools = turn.tools /\ Ended(turn).records = turn.records
  /\ Ended(turn).end = "superseded" /\ Ended(turn) \in Parsed

LEMMA EndedIs == \A turn \in Parsed : EndedFields(turn)
BY DEF EndedFields, Ended, Parsed, Ends

\* The observations of an ended turn and the same turn as it is finalized.
LEMMA FinalizedIs ==
  ASSUME NEW turn \in Parsed, turn.end = None, NEW finalize \in BOOLEAN
  PROVE  /\ \A p \in Observations(turn, TRUE) :
              p \in Observations(Ended(turn), finalize) \/ p = RootOf(Ended(turn), "stopped")
         /\ \A p \in Observations(Ended(turn), finalize) :
              p \in Observations(turn, TRUE) \/ p = RootOf(turn, "superseded")
         /\ RootOf(turn, "stopped") \in Observations(turn, TRUE)
         /\ RootOf(turn, "superseded") \in Observations(Ended(turn), finalize)
<1>1. EndedFields(turn)
  BY EndedIs
<1>2. EndOf(turn, TRUE) = "stopped" /\ EndOf(Ended(turn), finalize) = "superseded"
  BY <1>1 DEF EndOf, EndedFields, None
<1>3. RootOf(Ended(turn), "superseded") = RootOf(turn, "superseded") /\ RootOf(Ended(turn), "stopped") = RootOf(turn, "stopped")
  BY <1>1 DEF RootOf, EndedFields
<1>4. "stopped" # None /\ "superseded" # None
  BY DEF None
<1>5. \A p : /\ IsObserved(p, turn, "stopped") => IsObserved(p, Ended(turn), "superseded") \/ p = RootOf(turn, "stopped")
             /\ IsObserved(p, Ended(turn), "superseded") => IsObserved(p, turn, "stopped") \/ p = RootOf(turn, "superseded")
  BY <1>1, <1>3, <1>4 DEF IsObserved, EndedFields
<1>6. IsObserved(RootOf(turn, "stopped"), turn, "stopped") /\ IsObserved(RootOf(turn, "superseded"), Ended(turn), "superseded")
  BY <1>3, <1>4 DEF IsObserved
<1>7. \A p : /\ p \in Observations(turn, TRUE) <=> IsObserved(p, turn, "stopped")
             /\ p \in Observations(Ended(turn), finalize) <=> IsObserved(p, Ended(turn), "superseded")
  BY <1>2, Observed
<1> QED BY <1>3, <1>5, <1>6, <1>7

LEMMA EndedIsWhole ==
  ASSUME NEW turn, turn.end # None, NEW x, NEW y
  PROVE  Observations(turn, x) = Observations(turn, y)
<1>1. EndOf(turn, x) = EndOf(turn, y)
  BY DEF EndOf
<1> QED BY <1>1, Observed

\* A finalized turn has the same observations by name once it is superseded.
LEMMA SamePieces ==
  ASSUME NEW t, NEW turn \in Parsed, turn.end = None
  PROVE  PieceIds(t, Ended(turn)) = PieceIds(t, turn)
<1> DEFINE Id(p) == <<t, turn.id, p.kind, p.n>>
<1>1. Ended(turn).id = turn.id
  BY EndedIs DEF EndedFields
<1>2. PieceIds(t, turn) = {Id(p) : p \in Observations(turn, TRUE)} /\ PieceIds(t, Ended(turn)) = {Id(p) : p \in Observations(Ended(turn), TRUE)}
  BY <1>1 DEF PieceIds
<1>3. Id(RootOf(Ended(turn), "stopped")) = Id(RootOf(turn, "superseded")) /\ Id(RootOf(turn, "superseded")) = Id(RootOf(turn, "stopped"))
  BY RootFields
<1> HIDE DEF Id
<1> QED BY <1>2, <1>3, FinalizedIs

\* The values of a function on a finite set.
LEMMA ImageIsFinite ==
  ASSUME NEW S, IsFiniteSet(S), NEW f
  PROVE  IsFiniteSet({f[x] : x \in S})
<1> DEFINE T == {f[x] : x \in S}
<1>1. [x \in S |-> f[x]] \in Surjection(S, T)
  BY DEF Surjection
<1> QED BY <1>1, FS_Surjection

LEMMA ObservationsAreFinite ==
  ASSUME NEW turn \in Parsed, NEW finalize
  PROVE  IsFiniteSet(Observations(turn, finalize))
<1>1. turn.steps \in Seq(Steps) /\ turn.tools \in Seq(Tools) /\ turn.records \in Nat
  BY DEF Parsed
<1> DEFINE end == EndOf(turn, finalize)
           step == [n \in DOMAIN turn.steps |-> Piece("step", n, turn.steps[n])]
           tool == [n \in DOMAIN turn.tools |-> Piece("tool", n, turn.tools[n])]
           record == [n \in 1..turn.records |-> Piece("record", n, [record |-> n])]
           all == {step[n] : n \in DOMAIN turn.steps} \cup {tool[n] : n \in DOMAIN turn.tools}
                  \cup {record[n] : n \in 1..turn.records}
                  \cup {Piece("started", 0, [prompt |-> turn.prompt]), RootOf(turn, end)}
<1>2. \A n \in Nat : IsFiniteSet(1..n)
  BY FS_Interval
<1>3. DOMAIN turn.steps = 1..Len(turn.steps) /\ DOMAIN turn.tools = 1..Len(turn.tools)
      /\ Len(turn.steps) \in Nat /\ Len(turn.tools) \in Nat
  BY <1>1
<1>4. \A p : IsObserved(p, turn, end) => p \in all
  BY DEF IsObserved
<1> HIDE DEF end
<1>5. IsFiniteSet(all)
  <2> HIDE DEF step, tool, record
  <2>1. /\ IsFiniteSet({step[n] : n \in DOMAIN turn.steps}) /\ IsFiniteSet({tool[n] : n \in DOMAIN turn.tools})
        /\ IsFiniteSet({record[n] : n \in 1..turn.records})
    BY <1>1, <1>2, <1>3, ImageIsFinite
  <2>2. IsFiniteSet({Piece("started", 0, [prompt |-> turn.prompt]), RootOf(turn, end)})
    <3>1. ASSUME NEW a, NEW b PROVE IsFiniteSet({a, b})
      <4>1. {a, b} = {a} \cup {b} /\ IsFiniteSet({a}) /\ IsFiniteSet({b})
        BY FS_Singleton
      <4> QED BY <4>1, FS_Union
    <3> QED BY <3>1
  <2> QED BY <2>1, <2>2, FS_Union
<1> HIDE DEF all
<1>6. Observations(turn, finalize) \subseteq all
  BY <1>4, Observed DEF end
<1> QED BY <1>5, <1>6, FS_Subset

----------------------------------------------------------------------------
(* The live exporter: what a span tells stays true *)

LEMMA TellsStays ==
  ASSUME NEW s, NEW a \in Parsed, NEW b \in Parsed, TurnGrows(a, b), NEW x \in BOOLEAN, NEW y \in BOOLEAN,
         Tells(a, x, s),
         a.end # None \/ x => y /\ (b = a \/ (a.end = None /\ b = Ended(a)))
  PROVE  Tells(b, y, s)
<1> DEFINE p == Piece(s.id[3], s.id[4], s.says)
<1>1. p \in Observations(a, x) \/ (a.end = "superseded" /\ p = RootOf(a, "stopped"))
  BY DEF Tells
<1>2. SUFFICES p \in Observations(b, y) \/ (b.end = "superseded" /\ p = RootOf(b, "stopped"))
  BY DEF Tells
<1> HIDE DEF p
<1>3. CASE a.end # None
  BY <1>1, <1>3, EndedIsWhole DEF TurnGrows
<1>4. CASE a.end = None /\ ~x
  BY <1>1, <1>4, CompleteStays DEF None
<1>5. CASE a.end = None /\ x
  <2>1. p \in Observations(a, TRUE) /\ y
    BY <1>1, <1>5 DEF None
  <2>2. CASE b = a
    BY <2>1, <2>2
  <2>3. CASE b = Ended(a)
    BY <1>5, <2>1, <2>3, FinalizedIs, EndedIs DEF EndedFields
  <2> QED BY <1>5, <2>2, <2>3
<1> QED BY <1>3, <1>4, <1>5

LEMMA RootIsSettled ==
  ASSUME NEW s, NEW turn \in Parsed, NEW x \in BOOLEAN, Tells(turn, x, s), s.id[3] = "root"
  PROVE  turn.end # None \/ x
<1> DEFINE p == Piece(s.id[3], s.id[4], s.says)
<1>1. p \in Observations(turn, x) \/ turn.end = "superseded"
  BY DEF Tells
<1>2. p.kind = "root"
  BY PieceFields
<1> HIDE DEF p
<1> QED BY <1>1, <1>2, PieceIs DEF None

\* A span is placed and true.
SpanHolds(s) == IsPlaced(s) /\ (~s.cut => IsTrue(s))

LEMMA TurnIs ==
  ASSUME CodexInv, NEW t \in Threads
  PROVE  /\ Turns(t) \in Seq(Parsed) /\ Len(Turns(t)) \in Nat /\ DOMAIN Turns(t) = 1..Len(Turns(t))
         /\ \A n \in DOMAIN Turns(t) : Turns(t)[n] \in Parsed /\ Turns(t)[n].started \in Nat
         /\ TurnsFollow(t) /\ now \in Nat /\ size[t] \in Nat
         /\ Turns(t) # <<>> => size[t] > 0
<1>1. parsed[t] \in [turns : Seq(Parsed), awaiting : BOOLEAN] /\ TurnsFollow(t) /\ now \in Nat /\ size[t] \in Nat
  BY DEF CodexInv
<1>2. Turns(t) \in Seq(Parsed)
  BY <1>1 DEF Turns
<1>3. \A turn \in Parsed : turn.started \in Nat
  BY DEF Parsed
<1>4. Turns(t) # <<>> => size[t] > 0
  BY <1>1 DEF TurnsFollow
<1> QED BY <1>1, <1>2, <1>3, <1>4

\* The turns that a turn may have been spawned by are not those written later.
LEMMA SpawnersStay ==
  ASSUME CodexInv, CodexInv', CodexStep, NEW t \in Threads, ~IsMain(t), Parent[t] \in Threads, NEW n \in DOMAIN Turns(t)
  PROVE  Spawners(TurnsNow, t, n)' = Spawners(TurnsNow, t, n)
<1> DEFINE was == Turns(Parent[t])
           new == Turns(Parent[t])'
<1>1. /\ Earlier(Turns(t), Turns(t)') /\ Earlier(was, new)
      /\ \A k \in DOMAIN new : k > Len(was) => new[k].started > now
  BY DEF CodexStep, Written
<1>2. /\ DOMAIN was = 1..Len(was) /\ Len(was) \in Nat /\ DOMAIN new = 1..Len(new) /\ Len(new) \in Nat
      /\ \A k \in DOMAIN was : was[k].started \in Nat
      /\ \A k \in DOMAIN new : new[k].started \in Nat
      /\ Turns(t)[n].started \in Nat /\ now \in Nat /\ Turns(t)[n].started <= now
  <2>1. DOMAIN new = 1..Len(new) /\ Len(new) \in Nat /\ \A k \in DOMAIN new : new[k].started \in Nat
    <3>1. parsed'[Parent[t]] \in [turns : Seq(Parsed), awaiting : BOOLEAN]
      BY DEF CodexInv
    <3>2. new \in Seq(Parsed)
      BY <3>1 DEF Turns
    <3>3. \A turn \in Parsed : turn.started \in Nat
      BY DEF Parsed
    <3> QED BY <3>2, <3>3
  <2> QED BY <2>1, TurnIs DEF TurnsFollow
<1>3. Turns(t)'[n].started = Turns(t)[n].started /\ \A k \in DOMAIN was : k \in DOMAIN new /\ new[k].started = was[k].started
  BY <1>1, <1>2 DEF Earlier, TurnGrows
<1>4. Spawners(TurnsNow, t, n) = {k \in DOMAIN was : was[k].started <= Turns(t)[n].started}
  BY DEF Spawners, TurnsNow
<1>5. Spawners(TurnsNow, t, n)' = {k \in DOMAIN new : new[k].started <= Turns(t)'[n].started}
  BY DEF Spawners, TurnsNow
<1> HIDE DEF was, new
<1>6. \A k \in DOMAIN new : k \notin DOMAIN was => new[k].started > Turns(t)[n].started
  BY <1>1, <1>2
<1> QED BY <1>2, <1>3, <1>4, <1>5, <1>6

LEMMA ParentIs == \A t \in Threads : ~IsMain(t) => Parent[t] \in Threads
BY LiveTraceAssumption DEF IsMain

LEMMA TraceSame ==
  ASSUME NEW a, NEW b, NEW t, NEW n, NEW len \in Nat, IsTraced(a, t, n), a[t][n].id = b[t][n].id,
         ~IsMain(t) => /\ Spawners(a, t, n) = Spawners(b, t, n) /\ Spawners(a, t, n) \subseteq 1..len
                       /\ \A k \in Spawners(a, t, n) : a[Parent[t]][k].id = b[Parent[t]][k].id
  PROVE  Trace(a, t, n) = Trace(b, t, n)
<1>1. CASE IsMain(t)
  BY <1>1 DEF Trace
<1>2. CASE ~IsMain(t)
  <2> DEFINE all == Spawners(a, t, n)
             last == CHOOSE k \in all : \A j \in all : j <= k
  <2>1. all # {} /\ all \subseteq 1..len
    BY <1>2 DEF IsTraced
  <2>2. Trace(a, t, n) = <<Parent[t], a[Parent[t]][last].id>> /\ Trace(b, t, n) = <<Parent[t], b[Parent[t]][last].id>>
    BY <1>2 DEF Trace
  <2>3. last \in all
    <3> HIDE DEF all
    <3>1. \E k \in all : \A j \in all : j <= k
      BY <2>1, GreatestOne
    <3> QED BY <3>1
  <2> HIDE DEF last
  <2> QED BY <1>2, <2>2, <2>3
<1> QED BY <1>1, <1>2

\* What a span tells stays true while Codex writes on, and a root goes on to have the same turn.
LEMMA SpanStays ==
  ASSUME CodexInv, CodexInv', CodexStep, NEW s, SpanHolds(s)
  PROVE  SpanHolds(s)' /\ (s.id[3] = "root" /\ ~s.cut => TurnIds(s)' = TurnIds(s))
<1> DEFINE t == s.id[1]
           n == s.turn
           was == Turns(t)
           new == Turns(t)'
<1>1. /\ s.id = <<s.id[1], s.id[2], s.id[3], s.id[4]>> /\ t \in Threads /\ s.id[3] \in DOMAIN Rank /\ s.id[4] \in Nat
      /\ n \in DOMAIN was /\ was[n].id = s.id[2] /\ IsTraced(TurnsNow, t, n)
      /\ n = 1 => s.trace = Trace(TurnsNow, t, 1)
  BY DEF SpanHolds, IsPlaced
<1>2. parsed'[t] \in [turns : Seq(Parsed), awaiting : BOOLEAN]
  BY <1>1 DEF CodexInv
<1>3. new \in Seq(Parsed) /\ was \in Seq(Parsed) /\ Earlier(was, new) /\ Written(t)
  BY <1>1, <1>2, TurnIs DEF CodexStep, Written, Turns
<1>4. n \in DOMAIN new /\ TurnGrows(was[n], new[n]) /\ was[n] \in Parsed /\ new[n] \in Parsed
  BY <1>1, <1>3 DEF Earlier
<1>5. new[n].id = was[n].id
  BY <1>4 DEF TurnGrows
<1>6. TurnsNow[t] = was /\ TurnsNow'[t] = new
  BY <1>1 DEF TurnsNow
<1>7. ~IsMain(t) => /\ Spawners(TurnsNow, t, n)' = Spawners(TurnsNow, t, n) /\ Parent[t] \in Threads
  BY <1>1, ParentIs, SpawnersStay
<1>8. IsPlaced(s)'
  <2>1. IsTraced(TurnsNow, t, n)'
    BY <1>1, <1>7 DEF IsTraced, IsMain
  <2>2. n = 1 => Trace(TurnsNow, t, 1)' = Trace(TurnsNow, t, 1)
    <3> SUFFICES ASSUME n = 1 PROVE Trace(TurnsNow, t, 1)' = Trace(TurnsNow, t, 1)
      OBVIOUS
    <3> DEFINE outer == Turns(Parent[t])
    <3>1. ~IsMain(t) => /\ Spawners(TurnsNow, t, 1) \subseteq 1..Len(outer) /\ Len(outer) \in Nat
                        /\ \A k \in DOMAIN outer : Turns(Parent[t])'[k].id = outer[k].id
                        /\ TurnsNow[Parent[t]] = outer /\ TurnsNow'[Parent[t]] = Turns(Parent[t])'
                        /\ DOMAIN outer = 1..Len(outer)
      <4> SUFFICES ASSUME ~IsMain(t) PROVE
                        /\ Spawners(TurnsNow, t, 1) \subseteq 1..Len(outer) /\ Len(outer) \in Nat
                        /\ \A k \in DOMAIN outer : Turns(Parent[t])'[k].id = outer[k].id
                        /\ TurnsNow[Parent[t]] = outer /\ TurnsNow'[Parent[t]] = Turns(Parent[t])'
                        /\ DOMAIN outer = 1..Len(outer)
        OBVIOUS
      <4>1. TurnsNow[Parent[t]] = outer /\ TurnsNow'[Parent[t]] = Turns(Parent[t])'
        BY <1>7 DEF TurnsNow
      <4>2. DOMAIN outer = 1..Len(outer) /\ Len(outer) \in Nat
        BY <1>7, TurnIs
      <4>3. Earlier(outer, Turns(Parent[t])')
        BY <1>7 DEF CodexStep, Written
      <4> QED BY <4>1, <4>2, <4>3 DEF Spawners, Earlier, TurnGrows
    <3> HIDE DEF outer
    <3>2. TurnsNow[t][1].id = TurnsNow'[t][1].id
      BY <1>5, <1>6
    <3>3. IsTraced(TurnsNow, t, 1)
      BY <1>1
    <3>4. CASE IsMain(t)
      BY <3>2, <3>3, <3>4, TraceSame
    <3>5. CASE ~IsMain(t)
      <4>1. Spawners(TurnsNow', t, 1) = Spawners(TurnsNow, t, 1)
        BY <1>7, <3>5
      <4> QED BY <3>1, <3>2, <3>3, <3>5, <4>1, TraceSame
    <3> QED BY <3>4, <3>5
  <2> QED BY <1>1, <1>4, <1>5, <2>1, <2>2 DEF IsPlaced
<1>9. /\ Settled(t, n) \in BOOLEAN /\ Settled(t, n)' \in BOOLEAN
      /\ Settled(t, n) => Settled(t, n)' /\ (new[n] = was[n] \/ (was[n].end = None /\ new[n] = Ended(was[n])))
      /\ was[n].end # None => Settled(t, n)
  BY <1>1, <1>3 DEF Written, Settled, AtTurnEnd
<1>10. ASSUME ~s.cut PROVE IsTrue(s)' /\ (s.id[3] = "root" => TurnIds(s)' = TurnIds(s))
  <2>1. Tells(was[n], Settled(t, n), s)
    BY <1>10 DEF SpanHolds, IsTrue
  <2> HIDE DEF was, new
  <2>2. Tells(new[n], Settled(t, n)', s)
    <3>1. PICK x \in BOOLEAN, y \in BOOLEAN : x = Settled(t, n) /\ y = Settled(t, n)'
      BY <1>9
    <3>2. Tells(was[n], x, s)
      BY <2>1, <3>1
    <3> QED BY <1>4, <1>9, <3>1, <3>2, TellsStays
  <2>3. IsTrue(s)'
    BY <2>2 DEF IsTrue, new
  <2>4. ASSUME s.id[3] = "root" PROVE PieceIds(t, new[n]) = PieceIds(t, was[n])
    <3>1. Settled(t, n)
      BY <1>4, <1>9, <2>1, <2>4, RootIsSettled
    <3> QED BY <1>4, <1>9, <3>1, SamePieces
  <2> QED BY <2>3, <2>4 DEF TurnIds, was, new
<1> QED BY <1>8, <1>10 DEF SpanHolds

----------------------------------------------------------------------------
(* The live exporter: Codex keeps the invariant *)

LEMMA ViewIs ==
  ASSUME CodexInv, ExporterTypeOK, ViewsAreOfFiles, NEW e \in Exporters, NEW t \in Threads
  PROVE  /\ view[e][t] \in Seq(Parsed) /\ key[e][t] \in Nat /\ Earlier(view[e][t], Turns(t)) /\ key[e][t] <= size[t]
         /\ view[e][t] # <<>> => Turns(t) # <<>> /\ size[t] > 0
<1>1. view[e][t] \in Seq(Parsed) /\ key[e][t] \in Nat /\ Earlier(view[e][t], Turns(t)) /\ key[e][t] <= size[t]
  BY DEF ExporterTypeOK, ViewsAreOfFiles
<1>2. view[e][t] # <<>> => Len(view[e][t]) # 0 /\ Len(view[e][t]) \in Nat
  BY <1>1
<1>3. Len(view[e][t]) <= Len(Turns(t)) /\ Turns(t) \in Seq(Parsed) /\ (Turns(t) # <<>> => size[t] > 0)
  BY <1>1, TurnIs DEF Earlier
<1> QED BY <1>1, <1>2, <1>3

LEMMA CodexKeepsViews ==
  ASSUME CodexInv, CodexInv', CodexStep, ExporterTypeOK, ViewsAreOfFiles, UNCHANGED exporter
  PROVE  ViewsAreOfFiles'
<1> SUFFICES ASSUME NEW e \in Exporters, NEW t \in Threads
             PROVE  /\ Earlier(view[e][t], Turns(t)') /\ key[e][t] <= size'[t]
                    /\ key[e][t] = size'[t] => view[e][t] = Turns(t)' \/ (pc[e] = "parse" /\ IsNext(t))
  BY DEF ViewsAreOfFiles, exporter, IsNext
<1>1. /\ view[e][t] \in Seq(Parsed) /\ Turns(t) \in Seq(Parsed)
      /\ Earlier(view[e][t], Turns(t)) /\ key[e][t] <= size[t] /\ size[t] \in Nat
  BY TurnIs, ViewIs
<1>2. Turns(t)' \in Seq(Parsed) /\ size'[t] \in Nat /\ key[e][t] \in Nat
  <2>1. parsed'[t] \in [turns : Seq(Parsed), awaiting : BOOLEAN] /\ size'[t] \in Nat
    BY DEF CodexInv
  <2> QED BY <2>1, ViewIs DEF Turns
<1>3. Earlier(Turns(t), Turns(t)') /\ size[t] <= size'[t] /\ (size'[t] = size[t] => Turns(t)' = Turns(t))
  BY DEF CodexStep, Written
<1>4. Earlier(view[e][t], Turns(t)')
  BY <1>1, <1>2, <1>3, EarlierOrder
<1>5. key[e][t] = size'[t] => size'[t] = size[t]
  BY <1>1, <1>2, <1>3
<1> QED BY <1>1, <1>2, <1>3, <1>4, <1>5 DEF ViewsAreOfFiles

LEMMA CodexKeepsParents ==
  ASSUME CodexInv, CodexInv', CodexStep, ExporterTypeOK, ViewsAreOfFiles, ParentsAreRead, UNCHANGED exporter
  PROVE  ParentsAreRead'
<1>1. view' = view /\ left' = left /\ pc' = pc
  BY DEF exporter
<1>2. ASSUME NEW e \in Exporters, NEW t \in Threads, ~IsMain(t), size[t] > 0, Caught(e, t) PROVE Caught(e, t)'
  <2>1. 1 \in DOMAIN Turns(t)
    BY <1>2, TurnIs DEF TurnsFollow
  <2>2. Spawners(TurnsNow, t, 1)' = Spawners(TurnsNow, t, 1)
    BY <1>2, <2>1, SpawnersStay, ParentIs
  <2> QED BY <1>1, <1>2, <2>2 DEF Caught
<1>3. ASSUME NEW t \in Threads, size[t] > 0 PROVE size'[t] > 0
  <2>1. size[t] <= size'[t] /\ size[t] \in Nat /\ size'[t] \in Nat
    BY DEF CodexStep, Written, CodexInv
  <2> QED BY <1>3, <2>1
<1>4. \A e \in Exporters, t \in Threads : view[e][t] # <<>> => size[t] > 0
  BY ViewIs
<1> QED BY <1>1, <1>2, <1>3, <1>4 DEF ParentsAreRead, IsNext, IsMain

LEMMA CodexKeepsEnds ==
  ASSUME CodexInv, CodexInv', CodexStep, ExporterTypeOK, ViewsAreOfFiles, EndedTurnsRest, UNCHANGED exporter
  PROVE  EndedTurnsRest'
<1>1. view' = view /\ pc' = pc /\ held' = held /\ stale' = stale
  BY DEF exporter
<1> SUFFICES ASSUME pc[Finalizer] \in Sending, NEW t \in Threads \ (held \cup stale), IsOpen(view[Finalizer][t])
             PROVE  LET seen == view[Finalizer][t]
                        n == Len(seen)
                    IN  \/ Turns(t)'[n] = seen[n] /\ AtTurnEnd(t)'
                        \/ Turns(t)'[n] = Ended(seen[n])
  BY <1>1 DEF EndedTurnsRest
<1>2. PICK seen, n : seen = view[Finalizer][t] /\ n = Len(seen)
  OBVIOUS
<1>3. (Turns(t)[n] = seen[n] /\ AtTurnEnd(t)) \/ Turns(t)[n] = Ended(seen[n])
  BY <1>2 DEF EndedTurnsRest
<1>4. /\ seen \in Seq(Parsed) /\ Earlier(seen, Turns(t)) /\ n \in DOMAIN Turns(t) /\ seen[n] \in Parsed
      /\ Turns(t)[n] \in Parsed /\ seen[n].end = None
  <2>1. seen \in Seq(Parsed) /\ Earlier(seen, Turns(t)) /\ Turns(t) \in Seq(Parsed)
    BY <1>2, ViewIs, TurnIs DEF Exporters
  <2>2. n \in 1..Len(seen) /\ seen[n].end = None
    BY <1>2, <2>1 DEF IsOpen, Newest
  <2> QED BY <2>1, <2>2 DEF Earlier
<1>5. Settled(t, n) => Settled(t, n)' /\ (Turns(t)'[n] = Turns(t)[n] \/ (Turns(t)[n].end = None /\ Turns(t)'[n] = Ended(Turns(t)[n])))
  BY <1>4 DEF CodexStep, Written
<1>6. CASE Turns(t)[n] = seen[n] /\ AtTurnEnd(t)
  <2>1. Settled(t, n) /\ Turns(t)[n].end = None
    BY <1>4, <1>6 DEF Settled
  <2>2. Turns(t)'[n] = seen[n] => AtTurnEnd(t)'
    BY <1>4, <1>5, <2>1 DEF Settled
  <2> QED BY <1>5, <1>6, <1>2, <2>1, <2>2
<1>7. CASE Turns(t)[n] = Ended(seen[n])
  <2>1. Turns(t)[n].end # None
    BY <1>4, <1>7, EndedIs DEF EndedFields, None
  <2> QED BY <1>5, <1>7, <1>2, <2>1 DEF Settled
<1> QED BY <1>2, <1>3, <1>6, <1>7

LEMMA CodexKeepsSpans ==
  ASSUME CodexInv, CodexInv', CodexStep, SpansAreTrue, BatchesAreNew, RootsAreLast,
         UNCHANGED <<exporter, ledger, received, doubts>>
  PROVE  SpansAreTrue' /\ BatchesAreNew' /\ RootsAreLast'
<1>1. batches' = batches /\ received' = received /\ ledger' = ledger /\ lock' = lock /\ pc' = pc /\ left' = left
  BY DEF exporter
<1>2. \A s \in Received \cup batches : SpanHolds(s)' /\ (s.id[3] = "root" /\ ~s.cut => TurnIds(s)' = TurnIds(s))
  BY SpanStays DEF SpansAreTrue, SpanHolds
<1>3. Received' = Received
  BY <1>1 DEF Received
<1>4. SpansAreTrue'
  BY <1>1, <1>2, <1>3 DEF SpansAreTrue, SpanHolds
<1>5. BatchesAreNew'
  BY <1>1, <1>2 DEF BatchesAreNew, IsSentNext, IsMain
<1>6. RootsAreLast'
  <2>1. \A i \in DOMAIN received : \A s \in received[i] : s \in Received
    BY DEF Received
  <2> QED BY <1>1, <1>2, <2>1 DEF RootsAreLast, Arrived
<1> QED BY <1>4, <1>5, <1>6

LEMMA CodexKeeps ==
  ASSUME LiveInv, NEW t \in Threads, StartCodex(t) \/ StopCodex(t) \/ Write(t)
  PROVE  LiveInv'
<1>1. CodexInv /\ ExporterTypeOK /\ ViewsAreOfFiles /\ ParentsAreRead /\ EndedTurnsRest
      /\ SpansAreTrue /\ BatchesAreNew /\ RootsAreLast /\ ReceivedIsKnown /\ SentOnce
  BY DEF LiveInv
<1>2. UNCHANGED <<exporter, ledger, received, doubts>>
  BY DEF StartCodex, StopCodex, Write
<1>3. CodexInv' /\ CodexStep
  BY <1>1, StartGoesOn, StopGoesOn, WriteGoesOn
<1>4. ViewsAreOfFiles' /\ ParentsAreRead' /\ EndedTurnsRest' /\ SpansAreTrue' /\ BatchesAreNew' /\ RootsAreLast'
  BY <1>1, <1>2, <1>3, CodexKeepsViews, CodexKeepsParents, CodexKeepsEnds, CodexKeepsSpans
<1>5. ExporterTypeOK'
  BY <1>1, <1>2 DEF ExporterTypeOK, exporter, Received
<1>6. ReceivedIsKnown' /\ SentOnce'
  BY <1>1, <1>2 DEF ReceivedIsKnown, SentOnce, Underway, Received, NextBatch, exporter
<1> QED BY <1>3, <1>4, <1>5, <1>6 DEF LiveInv

----------------------------------------------------------------------------
(* The live exporter: an exporter's steps *)

\* A step of an exporter takes the transcripts as they are.
LEMMA TruthRests ==
  ASSUME CodexInv, UNCHANGED codex
  PROVE  /\ CodexInv' /\ TurnsNow' = TurnsNow
         /\ \A t \in Threads : Spawners(TurnsNow, t, 1)' = Spawners(TurnsNow, t, 1) /\ IsMain(t)' = IsMain(t)
         /\ \A t \in Threads : Turns(t)' = Turns(t) /\ AtTurnEnd(t)' = AtTurnEnd(t) /\ size'[t] = size[t]
         /\ \A s : SpanHolds(s) => SpanHolds(s)' /\ TurnIds(s)' = TurnIds(s)
<1>1. CodexInv' /\ \A t \in Threads : Turns(t)' = Turns(t) /\ AtTurnEnd(t)' = AtTurnEnd(t)
  BY CodexRests
<1>2. TurnsNow' = TurnsNow
  BY <1>1 DEF TurnsNow
<1>3. size' = size
  BY DEF codex
<1>4. ASSUME NEW s, SpanHolds(s) PROVE SpanHolds(s)' /\ TurnIds(s)' = TurnIds(s)
  <2>1. s.id[1] \in Threads
    BY <1>4 DEF SpanHolds, IsPlaced
  <2>2. Turns(s.id[1])' = Turns(s.id[1]) /\ Settled(s.id[1], s.turn)' = Settled(s.id[1], s.turn)
    BY <1>1, <2>1 DEF Settled
  <2>3. IsPlaced(s)'
    BY <1>2, <1>4, <2>2 DEF SpanHolds, IsPlaced
  <2>4. ~s.cut => IsTrue(s)'
    BY <1>4, <2>2 DEF SpanHolds, IsTrue
  <2> QED BY <2>2, <2>3, <2>4 DEF SpanHolds, TurnIds
<1>5. \A t \in Threads : Spawners(TurnsNow, t, 1)' = Spawners(TurnsNow, t, 1) /\ IsMain(t)' = IsMain(t)
  BY <1>2 DEF Spawners, IsMain
<1> QED BY <1>1, <1>2, <1>3, <1>4, <1>5

\* The other exporter is idle.
LEMMA OneRuns ==
  ASSUME ExporterTypeOK, NEW e \in Exporters
  PROVE  /\ lock = e => \A o \in Exporters : o # e => pc[o] = "idle"
         /\ lock = None => \A o \in Exporters : pc[o] = "idle"
         /\ e # None
BY LiveTraceAssumption DEF ExporterTypeOK

\* An exporter goes on in its pass.
LEMMA PassGoesOn ==
  ASSUME ExporterTypeOK, NEW e \in Exporters, lock = e \/ lock = None,
         NEW x \in {"idle"} \cup Reading \cup Sending, pc' = [pc EXCEPT ![e] = x], lock' = IF x = "idle" THEN None ELSE e
  PROVE  /\ lock' \in Exporters \cup {None} /\ pc' \in [Exporters -> {"idle"} \cup Reading \cup Sending]
         /\ pc'[e] = x /\ \A o \in Exporters : o # e => pc[o] = "idle" /\ pc'[o] = "idle"
         /\ \A o \in Exporters : pc'[o] # "idle" <=> lock' = o
<1>1. pc \in [Exporters -> {"idle"} \cup Reading \cup Sending]
  BY DEF ExporterTypeOK
<1>2. pc' \in [Exporters -> {"idle"} \cup Reading \cup Sending] /\ pc'[e] = x /\ \A o \in Exporters : o # e => pc'[o] = pc[o]
  BY <1>1
<1>3. \A o \in Exporters : o # None /\ (o # e => pc[o] = "idle")
  BY OneRuns
<1>4. \A o \in Exporters : pc'[o] # "idle" <=> lock' = o
  BY <1>2, <1>3
<1> QED BY <1>2, <1>3, <1>4

\* As long as nothing is sent, what was sent stays true and new.
LEMMA SentRests ==
  ASSUME CodexInv, SpansAreTrue, BatchesAreNew, RootsAreLast, ReceivedIsKnown, SentOnce,
         UNCHANGED <<codex, batches, ledger, received, doubts>>, Underway = {},
         lock' # None => pc'[lock'] \notin {"send", "record"}
  PROVE  SpansAreTrue' /\ BatchesAreNew' /\ RootsAreLast' /\ ReceivedIsKnown' /\ SentOnce'
<1>1. \A s \in Received \cup batches : SpanHolds(s)' /\ TurnIds(s)' = TurnIds(s)
  BY TruthRests DEF SpansAreTrue, SpanHolds
<1>2. Received' = Received
  BY DEF Received
<1>3. SpansAreTrue'
  BY <1>1, <1>2 DEF SpansAreTrue, SpanHolds
<1>4. BatchesAreNew'
  BY <1>1 DEF BatchesAreNew
<1>5. RootsAreLast'
  <2>1. \A i \in DOMAIN received : \A s \in received[i] : s \in Received
    BY DEF Received
  <2> QED BY <1>1, <2>1 DEF RootsAreLast, Arrived
<1>6. Underway' = {}
  BY DEF Underway
<1> QED BY <1>2, <1>3, <1>4, <1>5, <1>6 DEF ReceivedIsKnown, SentOnce

\* The last turns of the files that are parsed are wholly known while they have not grown.
LEMMA ViewIsNow ==
  ASSUME ExporterTypeOK, ViewsAreOfFiles, NEW e \in Exporters, pc[e] # "parse", NEW t \in Threads, key[e][t] = size[t]
  PROVE  view[e][t] = Turns(t)
BY DEF ViewsAreOfFiles

\* What an exporter forgets it has as well: nothing.
LEMMA NothingIsAView ==
  ASSUME CodexInv, NEW t \in Threads
  PROVE  Earlier(<<>>, Turns(t)) /\ 0 <= size[t] /\ (0 = size[t] => <<>> = Turns(t))
BY TurnIs, EarlierOrder DEF TurnsFollow

LEMMA BeginPassKeeps ==
  ASSUME LiveInv, NEW e \in Exporters, BeginPass(e)
  PROVE  LiveInv'
<1>1. CodexInv /\ ExporterTypeOK /\ ViewsAreOfFiles /\ ParentsAreRead /\ EndedTurnsRest
      /\ SpansAreTrue /\ BatchesAreNew /\ RootsAreLast /\ ReceivedIsKnown /\ SentOnce
  BY DEF LiveInv
<1>2. /\ pc[e] = "idle" /\ lock = None /\ lock' = e /\ pc' = [pc EXCEPT ![e] = "stat"]
      /\ left' = {t \in Threads : size[t] > 0}
      /\ UNCHANGED <<codex, key, view, held, stale, batches, ledger, received, doubts, faults>>
  BY DEF BeginPass, TakeLock
<1>3. /\ lock' \in Exporters \cup {None} /\ pc' \in [Exporters -> {"idle"} \cup Reading \cup Sending]
      /\ pc'[e] = "stat" /\ \A o \in Exporters : o # e => pc[o] = "idle" /\ pc'[o] = "idle"
      /\ \A o \in Exporters : pc'[o] # "idle" <=> lock' = o
  <2>1. "stat" \in {"idle"} \cup Reading \cup Sending /\ lock' = IF "stat" = "idle" THEN None ELSE e
    BY <1>2 DEF Reading
  <2> QED BY <1>1, <1>2, <2>1, PassGoesOn
<1>4. /\ CodexInv' /\ TurnsNow' = TurnsNow /\ \A t \in Threads : Turns(t)' = Turns(t) /\ size'[t] = size[t]
      /\ \A t \in Threads : Spawners(TurnsNow, t, 1)' = Spawners(TurnsNow, t, 1) /\ IsMain(t)' = IsMain(t)
  BY <1>1, <1>2, TruthRests
<1>5. ExporterTypeOK'
  <2>1. Received' = Received /\ left' \subseteq Threads
    BY <1>2 DEF Received
  <2> QED BY <1>1, <1>2, <1>3, <2>1 DEF ExporterTypeOK
<1>6. ViewsAreOfFiles'
  BY <1>1, <1>2, <1>3, <1>4 DEF ViewsAreOfFiles
<1>7. ParentsAreRead'
  <2> SUFFICES ASSUME NEW t \in Threads, ~IsMain(t), t \in left' \/ view[e][t] # <<>>
               PROVE  size[t] > 0 /\ (Caught(e, t)' \/ Parent[t] \in left')
    BY <1>2, <1>3, <1>4 DEF ParentsAreRead, Sending, IsMain, Reading
  <2>1. size[t] > 0
    BY <1>1, <1>2, ViewIs
  <2>2. CASE Turns(Parent[t]) = <<>>
    <3>1. Caught(e, t)
      BY <2>2, ParentIs DEF Caught, Spawners, TurnsNow
    <3> QED BY <1>2, <1>4, <2>1, <3>1 DEF Caught
  <2>3. CASE Turns(Parent[t]) # <<>>
    <3>1. Parent[t] \in Threads
      BY ParentIs
    <3> QED BY <1>1, <1>2, <2>1, <2>3, <3>1, TurnIs
  <2> QED BY <2>1, <2>2, <2>3
<1>8. EndedTurnsRest'
  BY <1>3 DEF EndedTurnsRest, Sending, Exporters
<1>9. Underway = {} /\ (lock' # None => pc'[lock'] \notin {"send", "record"})
  BY <1>2, <1>3 DEF Underway
<1>10. SpansAreTrue' /\ BatchesAreNew' /\ RootsAreLast' /\ ReceivedIsKnown' /\ SentOnce'
  BY <1>1, <1>2, <1>9, SentRests
<1> QED BY <1>4, <1>5, <1>6, <1>7, <1>8, <1>10 DEF LiveInv

LEMMA ReadingKeeps ==
  ASSUME LiveInv, NEW e \in Exporters, lock = e, pc[e] \in Reading,
         NEW x \in Reading \cup {"thread"}, pc' = [pc EXCEPT ![e] = x], lock' = lock, left' \subseteq Threads,
         key' \in [Exporters -> [Threads -> Nat]], view' \in [Exporters -> [Threads -> Seq(Parsed)]],
         UNCHANGED <<codex, batches, ledger, received, doubts>>,
         ViewsAreOfFiles', ParentsAreRead', EndedTurnsRest'
  PROVE  LiveInv'
<1>1. CodexInv /\ ExporterTypeOK /\ SpansAreTrue /\ BatchesAreNew /\ RootsAreLast /\ ReceivedIsKnown /\ SentOnce
  BY DEF LiveInv
<1>2. x \in {"idle"} \cup Reading \cup Sending /\ lock' = IF x = "idle" THEN None ELSE e
  BY DEF Reading, Sending
<1>3. /\ lock' \in Exporters \cup {None} /\ pc' \in [Exporters -> {"idle"} \cup Reading \cup Sending]
      /\ pc'[e] = x /\ \A o \in Exporters : pc'[o] # "idle" <=> lock' = o
  BY <1>1, <1>2, PassGoesOn
<1>4. ExporterTypeOK'
  <2>1. Received' = Received
    BY DEF Received
  <2> QED BY <1>1, <1>3, <2>1 DEF ExporterTypeOK
<1>5. Underway = {} /\ (lock' # None => pc'[lock'] \notin {"send", "record"})
  BY <1>3 DEF Underway, Reading
<1>6. SpansAreTrue' /\ BatchesAreNew' /\ RootsAreLast' /\ ReceivedIsKnown' /\ SentOnce'
  BY <1>1, <1>5, SentRests
<1>7. CodexInv'
  BY <1>1, TruthRests
<1> QED BY <1>4, <1>6, <1>7 DEF LiveInv

LEMMA StatKeeps ==
  ASSUME LiveInv, NEW e \in Exporters, NEW t \in Threads, Stat(e, t)
  PROVE  LiveInv'
<1>1. CodexInv /\ ExporterTypeOK /\ ViewsAreOfFiles /\ ParentsAreRead /\ EndedTurnsRest
  BY DEF LiveInv
<1>2. /\ lock = e /\ pc[e] = "stat" /\ IsNext(t)
      /\ UNCHANGED <<codex, lock, view, held, stale, batches, ledger, received, doubts, faults>>
      /\ \/ key[e][t] = size[t] /\ left' = left \ {t} /\ pc' = pc /\ key' = key
         \/ key[e][t] # size[t] /\ key' = [key EXCEPT ![e][t] = size[t]] /\ pc' = [pc EXCEPT ![e] = "parse"] /\ left' = left
  BY DEF Stat
<1>3. /\ pc \in [Exporters -> {"idle"} \cup Reading \cup Sending] /\ left \subseteq Threads
      /\ key \in [Exporters -> [Threads -> Nat]] /\ view \in [Exporters -> [Threads -> Seq(Parsed)]]
      /\ size \in [Threads -> Nat]
  BY <1>1 DEF ExporterTypeOK, CodexInv
<1>4. \A o \in Exporters : o # e => pc[o] = "idle"
  BY <1>1, <1>2, OneRuns
<1>5. PICK x \in {"stat", "parse"} : pc' = [pc EXCEPT ![e] = x]
  <2>1. [pc EXCEPT ![e] = "stat"] = pc
    BY <1>2, <1>3
  <2> QED BY <1>2, <2>1
<1>6. pc'[e] = x /\ \A o \in Exporters : o # e => pc'[o] = "idle"
  BY <1>3, <1>4, <1>5
<1>7. /\ CodexInv' /\ TurnsNow' = TurnsNow /\ \A u \in Threads : Turns(u)' = Turns(u) /\ size'[u] = size[u]
      /\ \A u \in Threads : Spawners(TurnsNow, u, 1)' = Spawners(TurnsNow, u, 1) /\ IsMain(u)' = IsMain(u)
  BY <1>1, <1>2, TruthRests
<1>8. /\ left' \subseteq Threads /\ key' \in [Exporters -> [Threads -> Nat]]
      /\ \A o \in Exporters, u \in Threads : <<o, u>> # <<e, t>> => key'[o][u] = key[o][u]
      /\ key'[e][t] = size[t]
  <2>1. CASE key[e][t] = size[t]
    BY <1>2, <1>3, <2>1
  <2>2. CASE key[e][t] # size[t]
    <3>1. key' = [key EXCEPT ![e][t] = size[t]] /\ left' = left /\ size[t] \in Nat
      BY <1>2, <1>3, <2>2
    <3>2. \A o \in Exporters, u \in Threads : <<o, u>> # <<e, t>> => key'[o][u] = key[o][u]
      <4> TAKE o \in Exporters, u \in Threads
      <4>1. CASE o = e /\ u # t
        BY <1>3, <3>1, <4>1
      <4>2. CASE o # e
        BY <1>3, <3>1, <4>2
      <4> QED BY <4>1, <4>2
    <3> QED BY <1>3, <3>1, <3>2
  <2> QED BY <2>1, <2>2
<1>9. ViewsAreOfFiles'
  <2> SUFFICES ASSUME NEW o \in Exporters, NEW u \in Threads
               PROVE  /\ Earlier(view[o][u], Turns(u)) /\ key'[o][u] <= size[u]
                      /\ key'[o][u] = size[u] => view[o][u] = Turns(u) \/ (pc'[o] = "parse" /\ IsNext(u)')
    BY <1>2, <1>7 DEF ViewsAreOfFiles
  <2>1. Earlier(view[o][u], Turns(u)) /\ key[o][u] <= size[u] /\ size[u] \in Nat
    BY <1>1, <1>3 DEF ViewsAreOfFiles
  <2>2. key[o][u] = size[u] => view[o][u] = Turns(u)
    <3>1. pc[o] # "parse"
      BY <1>2, <1>4
    <3> QED BY <1>1, <3>1, ViewIsNow
  <2>3. CASE <<o, u>> # <<e, t>>
    BY <1>8, <2>1, <2>2, <2>3
  <2>4. CASE o = e /\ u = t
    <3>1. key[e][t] # size[t] => pc'[e] = "parse" /\ IsNext(t)'
      BY <1>2, <1>3 DEF IsNext
    <3> QED BY <1>8, <2>1, <2>2, <2>4, <3>1
  <2> QED BY <2>3, <2>4
<1>10. ParentsAreRead'
  <2> SUFFICES ASSUME NEW u \in Threads, ~IsMain(u), u \in left' \/ view[e][u] # <<>>
               PROVE  size[u] > 0 /\ (Caught(e, u)' \/ (Parent[u] \in left' /\ ~(x = "cache" /\ IsNext(Parent[u])')))
    <3>1. \A o \in Exporters : o # e => pc'[o] \notin Reading \cup Sending
      BY <1>6 DEF Reading, Sending
    <3>2. pc'[e] \notin Sending
      BY <1>6 DEF Sending
    <3> QED BY <1>2, <1>6, <1>7, <3>1, <3>2 DEF ParentsAreRead
  <2>1. size[u] > 0 /\ (Caught(e, u) \/ Parent[u] \in left)
    BY <1>1, <1>2 DEF ParentsAreRead, Reading
  <2>2. x # "cache"
    OBVIOUS
  <2>3. Caught(e, u) => Caught(e, u)'
    BY <1>2, <1>7 DEF Caught
  <2>4. Parent[u] \in left \ left' => Caught(e, u)
    <3> SUFFICES ASSUME Parent[u] \in left \ left' PROVE Caught(e, u)
      OBVIOUS
    <3>1. Parent[u] = t /\ key[e][t] = size[t]
      BY <1>2
    <3>2. view[e][t] = Turns(t)
      BY <1>1, <1>2, <3>1, ViewIsNow
    <3> QED BY <3>1, <3>2 DEF Caught, Spawners, TurnsNow
  <2> QED BY <2>1, <2>2, <2>3, <2>4
<1>11. EndedTurnsRest'
  BY <1>2, <1>6 DEF EndedTurnsRest, Sending, Exporters
<1>12. x \in Reading \cup {"thread"} /\ pc[e] \in Reading
  BY <1>2 DEF Reading
<1> QED BY <1>2, <1>3, <1>5, <1>8, <1>9, <1>10, <1>11, <1>12, ReadingKeeps

LEMMA ParseFileKeeps ==
  ASSUME LiveInv, NEW e \in Exporters, NEW t \in Threads, ParseFile(e, t)
  PROVE  LiveInv'
<1>1. CodexInv /\ ExporterTypeOK /\ ViewsAreOfFiles /\ ParentsAreRead /\ EndedTurnsRest
  BY DEF LiveInv
<1>2. /\ lock = e /\ pc[e] = "parse" /\ IsNext(t) /\ view' = [view EXCEPT ![e][t] = Turns(t)] /\ pc' = [pc EXCEPT ![e] = "cache"]
      /\ UNCHANGED <<codex, lock, left, key, held, stale, batches, ledger, received, doubts, faults>>
  BY DEF ParseFile
<1>3. /\ pc \in [Exporters -> {"idle"} \cup Reading \cup Sending] /\ left \subseteq Threads
      /\ key \in [Exporters -> [Threads -> Nat]] /\ view \in [Exporters -> [Threads -> Seq(Parsed)]]
      /\ Turns(t) \in Seq(Parsed)
  BY <1>1, TurnIs DEF ExporterTypeOK
<1>4. pc'[e] = "cache" /\ \A o \in Exporters : o # e => pc[o] = "idle" /\ pc'[o] = "idle"
  BY <1>1, <1>2, <1>3, OneRuns
<1>5. /\ CodexInv' /\ TurnsNow' = TurnsNow /\ \A u \in Threads : Turns(u)' = Turns(u) /\ size'[u] = size[u]
      /\ \A u \in Threads : Spawners(TurnsNow, u, 1)' = Spawners(TurnsNow, u, 1) /\ IsMain(u)' = IsMain(u)
  BY <1>1, <1>2, TruthRests
<1>6. /\ view' \in [Exporters -> [Threads -> Seq(Parsed)]] /\ view'[e][t] = Turns(t)
      /\ \A o \in Exporters, u \in Threads : <<o, u>> # <<e, t>> => view'[o][u] = view[o][u]
  BY <1>2, <1>3
<1>7. \A u : IsNext(u) => u = t
  BY <1>2, <1>3, NextIsOne
<1>8. ViewsAreOfFiles'
  <2> SUFFICES ASSUME NEW o \in Exporters, NEW u \in Threads
               PROVE  /\ Earlier(view'[o][u], Turns(u)) /\ key[o][u] <= size[u]
                      /\ key[o][u] = size[u] => view'[o][u] = Turns(u)
    BY <1>2, <1>5 DEF ViewsAreOfFiles
  <2>1. Earlier(view[o][u], Turns(u)) /\ key[o][u] <= size[u]
    BY <1>1 DEF ViewsAreOfFiles
  <2>2. CASE o = e /\ u = t
    BY <1>3, <1>6, <2>1, <2>2, EarlierOrder
  <2>3. CASE <<o, u>> # <<e, t>>
    <3>1. ~(pc[o] = "parse" /\ IsNext(u))
      BY <1>4, <1>7, <2>3
    <3>2. key[o][u] = size[u] => view[o][u] = Turns(u)
      BY <1>1, <3>1 DEF ViewsAreOfFiles
    <3> QED BY <1>6, <2>1, <2>3, <3>2
  <2> QED BY <2>2, <2>3
<1>9. ParentsAreRead'
  <2> SUFFICES ASSUME NEW u \in Threads, ~IsMain(u), u \in left \/ view'[e][u] # <<>>
               PROVE  size[u] > 0 /\ (Caught(e, u)' \/ (Parent[u] \in left /\ Parent[u] # t))
    <3>1. \A o \in Exporters : o # e => pc'[o] \notin Reading \cup Sending
      BY <1>4 DEF Reading, Sending
    <3>2. pc'[e] \notin Sending
      BY <1>4 DEF Sending
    <3>3. \A u \in Threads : IsNext(u)' = IsNext(u)
      BY <1>2 DEF IsNext
    <3> QED BY <1>2, <1>4, <1>5, <1>7, <3>1, <3>2, <3>3, ParentIs DEF ParentsAreRead
  <2>1. u \in left \/ view[e][u] # <<>>
    BY <1>2, <1>6 DEF IsNext
  <2>2. size[u] > 0 /\ (Caught(e, u) \/ Parent[u] \in left) /\ Parent[u] \in Threads
    BY <1>1, <1>2, <2>1, ParentIs DEF ParentsAreRead, Reading
  <2>3. CASE Parent[u] = t
    <3>1. Spawners(TurnsNow, u, 1) \subseteq DOMAIN view'[e][Parent[u]]
      BY <1>6, <2>3 DEF Spawners, TurnsNow
    <3> QED BY <1>5, <2>2, <3>1 DEF Caught
  <2>4. CASE Parent[u] # t
    <3>1. view'[e][Parent[u]] = view[e][Parent[u]]
      BY <1>6, <2>2, <2>4
    <3>2. Caught(e, u) => Caught(e, u)'
      BY <1>5, <3>1 DEF Caught
    <3> QED BY <2>2, <2>4, <3>2
  <2> QED BY <2>3, <2>4
<1>10. EndedTurnsRest'
  BY <1>2, <1>4 DEF EndedTurnsRest, Sending, Exporters
<1>11. "cache" \in Reading \cup {"thread"} /\ pc[e] \in Reading
  BY <1>2 DEF Reading
<1> QED BY <1>2, <1>3, <1>6, <1>8, <1>9, <1>10, <1>11, ReadingKeeps

LEMMA CacheFileKeeps ==
  ASSUME LiveInv, NEW e \in Exporters, NEW t \in Threads, CacheFile(e, t)
  PROVE  LiveInv'
<1>1. CodexInv /\ ExporterTypeOK /\ ViewsAreOfFiles /\ ParentsAreRead /\ EndedTurnsRest
  BY DEF LiveInv
<1>2. /\ lock = e /\ pc[e] = "cache" /\ IsNext(t) /\ key' = [key EXCEPT ![e][t] = key[e][t]] /\ pc' = [pc EXCEPT ![e] = "stat"]
      /\ left' = left \ {t}
      /\ UNCHANGED <<codex, lock, view, held, stale, batches, ledger, received, doubts, faults>>
  BY DEF CacheFile, Seen
<1>3. /\ pc \in [Exporters -> {"idle"} \cup Reading \cup Sending] /\ left \subseteq Threads
      /\ key \in [Exporters -> [Threads -> Nat]] /\ view \in [Exporters -> [Threads -> Seq(Parsed)]]
  BY <1>1 DEF ExporterTypeOK
<1>4. pc'[e] = "stat" /\ \A o \in Exporters : o # e => pc[o] = "idle" /\ pc'[o] = "idle"
  BY <1>1, <1>2, <1>3, OneRuns
<1>5. /\ CodexInv' /\ TurnsNow' = TurnsNow /\ \A u \in Threads : Turns(u)' = Turns(u) /\ size'[u] = size[u]
      /\ \A u \in Threads : Spawners(TurnsNow, u, 1)' = Spawners(TurnsNow, u, 1) /\ IsMain(u)' = IsMain(u)
  BY <1>1, <1>2, TruthRests
<1>6. key' = key
  BY <1>2, <1>3
<1>7. ViewsAreOfFiles'
  <2>1. \A o \in Exporters : pc[o] # "parse"
    BY <1>2, <1>4
  <2> QED BY <1>1, <1>2, <1>5, <1>6, <2>1 DEF ViewsAreOfFiles
<1>8. ParentsAreRead'
  <2> SUFFICES ASSUME NEW u \in Threads, ~IsMain(u), u \in left' \/ view[e][u] # <<>>
               PROVE  size[u] > 0 /\ (Caught(e, u)' \/ Parent[u] \in left')
    <3>1. \A o \in Exporters : o # e => pc'[o] \notin Reading \cup Sending
      BY <1>4 DEF Reading, Sending
    <3>2. pc'[e] \notin Sending
      BY <1>4 DEF Sending
    <3> QED BY <1>2, <1>4, <1>5, <3>1, <3>2 DEF ParentsAreRead
  <2>1. size[u] > 0 /\ (Caught(e, u) \/ (Parent[u] \in left /\ ~IsNext(Parent[u])))
    BY <1>1, <1>2 DEF ParentsAreRead, Reading
  <2>2. Caught(e, u) => Caught(e, u)'
    BY <1>2, <1>5 DEF Caught
  <2> QED BY <1>2, <2>1, <2>2
<1>9. EndedTurnsRest'
  BY <1>2, <1>4 DEF EndedTurnsRest, Sending, Exporters
<1>10. "stat" \in Reading \cup {"thread"} /\ pc[e] \in Reading /\ left' \subseteq Threads
  BY <1>2, <1>3 DEF Reading
<1> QED BY <1>2, <1>3, <1>6, <1>7, <1>8, <1>9, <1>10, ReadingKeeps

LEMMA LookKeeps ==
  ASSUME LiveInv, NEW e \in Exporters, Look(e)
  PROVE  LiveInv'
<1>1. CodexInv /\ ExporterTypeOK /\ ViewsAreOfFiles /\ ParentsAreRead /\ EndedTurnsRest
  BY DEF LiveInv
<1>2. /\ lock = e /\ pc[e] = "stat" /\ left = {} /\ pc' = [pc EXCEPT ![e] = "thread"]
      /\ left' = {t \in Threads : view[e][t] # <<>>}
      /\ e = Finalizer => held' = HeldOpen /\ stale' = {t \in Threads \ held' : view[e][t] # Turns(t)}
      /\ UNCHANGED <<codex, lock, key, view, batches, ledger, received, doubts, faults>>
  BY DEF Look
<1>3. /\ pc \in [Exporters -> {"idle"} \cup Reading \cup Sending]
      /\ key \in [Exporters -> [Threads -> Nat]] /\ view \in [Exporters -> [Threads -> Seq(Parsed)]]
  BY <1>1 DEF ExporterTypeOK
<1>4. pc'[e] = "thread" /\ \A o \in Exporters : o # e => pc[o] = "idle" /\ pc'[o] = "idle"
  BY <1>1, <1>2, <1>3, OneRuns
<1>5. /\ CodexInv' /\ TurnsNow' = TurnsNow /\ \A u \in Threads : Turns(u)' = Turns(u) /\ size'[u] = size[u]
      /\ \A u \in Threads : Spawners(TurnsNow, u, 1)' = Spawners(TurnsNow, u, 1) /\ IsMain(u)' = IsMain(u)
      /\ \A u \in Threads : AtTurnEnd(u)' = AtTurnEnd(u)
  BY <1>1, <1>2, TruthRests
<1>6. ViewsAreOfFiles'
  <2>1. \A o \in Exporters : pc[o] # "parse"
    BY <1>2, <1>4
  <2> QED BY <1>1, <1>2, <1>5, <2>1 DEF ViewsAreOfFiles
<1>7. ParentsAreRead'
  <2> SUFFICES ASSUME NEW u \in Threads, ~IsMain(u), view[e][u] # <<>>
               PROVE  Caught(e, u)'
    <3>1. \A o \in Exporters : o # e => pc'[o] \notin Reading \cup Sending
      BY <1>4 DEF Reading, Sending
    <3>2. pc'[e] \notin Reading
      BY <1>4 DEF Reading
    <3> QED BY <1>2, <1>4, <1>5, <3>1, <3>2 DEF ParentsAreRead
  <2>1. Caught(e, u)
    BY <1>1, <1>2 DEF ParentsAreRead, Reading
  <2> QED BY <1>2, <1>5, <2>1 DEF Caught
<1>8. EndedTurnsRest'
  <2> SUFFICES ASSUME e = Finalizer, NEW t \in Threads \ (held' \cup stale'), IsOpen(view[e][t])
               PROVE  LET n == Len(view[e][t]) IN Turns(t)[n] = view[e][t][n] /\ AtTurnEnd(t)
    <3>1. Finalizer # e => pc'[Finalizer] \notin Sending
      BY <1>4 DEF Sending, Exporters
    <3> QED BY <1>2, <1>5, <3>1 DEF EndedTurnsRest
  <2>1. view[e][t] = Turns(t) /\ Root(t) \notin alive
    BY <1>2 DEF HeldOpen
  <2>2. AtTurnEnd(t)
    BY <1>1, <2>1, TurnIs DEF TurnsFollow, IsOpen
  <2> QED BY <2>1, <2>2
<1>9. "thread" \in Reading \cup {"thread"} /\ pc[e] \in Reading /\ left' \subseteq Threads
  BY <1>2 DEF Reading
<1> QED BY <1>2, <1>3, <1>6, <1>7, <1>8, <1>9, ReadingKeeps

----------------------------------------------------------------------------
(* The live exporter: the spans of a file *)

\* What an exporter finds of the parent of a subagent.
LEMMA SpawnersSeen ==
  ASSUME CodexInv, ExporterTypeOK, ViewsAreOfFiles, NEW e \in Exporters, NEW t \in Threads, ~IsMain(t), NEW n \in DOMAIN view[e][t]
  PROVE  LET seen == view[e][Parent[t]]
         IN  /\ Spawners(view[e], t, n) = Spawners(TurnsNow, t, n) \cap DOMAIN seen
             /\ Len(seen) \in Nat /\ DOMAIN seen = 1..Len(seen)
             /\ \A k \in DOMAIN seen : seen[k].id = TurnsNow[Parent[t]][k].id
<1> DEFINE seen == view[e][Parent[t]]
           outer == Turns(Parent[t])
<1>1. Parent[t] \in Threads
  BY ParentIs
<1>2. Earlier(seen, outer) /\ Earlier(view[e][t], Turns(t)) /\ seen \in Seq(Parsed) /\ outer \in Seq(Parsed)
  BY <1>1, ViewIs, TurnIs
<1>3. TurnsNow[t] = Turns(t) /\ TurnsNow[Parent[t]] = outer
  BY <1>1 DEF TurnsNow
<1>4. Turns(t)[n].started = view[e][t][n].started
  BY <1>2 DEF Earlier, TurnGrows
<1> HIDE DEF outer
<1>5. /\ Len(seen) \in Nat /\ DOMAIN seen = 1..Len(seen) /\ DOMAIN seen \subseteq DOMAIN outer
      /\ \A k \in DOMAIN seen : seen[k].id = outer[k].id /\ seen[k].started = outer[k].started
  BY <1>2 DEF Earlier, TurnGrows
<1> QED BY <1>3, <1>4, <1>5 DEF Spawners

\* A span of the n-th turn of a file.
Sends(e, t, n, p, s) ==
  LET finalize == e = Finalizer /\ t \notin held
      turn == view[e][t][n]
      last == n = Len(view[e][t])
  IN  /\ p \in Observations(turn, finalize /\ last) /\ IsTraced(view[e], t, n)
      /\ s = Span(t, turn, n, Trace(view[e], t, n), p, finalize /\ last /\ turn.end = None /\ t \in stale)

LEMMA PendingIs ==
  ASSUME NEW e, NEW t
  PROVE  \A s : s \in Pending(e, t, e = Finalizer /\ t \notin held) <=>
           s.id \notin ledger[t] /\ \E n \in DOMAIN view[e][t] : \E p : Sends(e, t, n, p, s)
<1> DEFINE finalize == e = Finalizer /\ t \notin held
<1>1. \A n, s : s \in Spans(view[e], t, n, finalize) <=> \E p : Sends(e, t, n, p, s)
  BY DEF Spans, Sends
<1> HIDE DEF finalize
<1>2. \A s : s \in Pending(e, t, finalize) <=>
        s.id \notin ledger[t] /\ \E n \in DOMAIN view[e][t] : s \in Spans(view[e], t, n, finalize)
  BY DEF Pending
<1> QED BY <1>1, <1>2 DEF finalize

LEMMA SpanFields ==
  \A t, turn, n, trace, p, cut :
    LET s == Span(t, turn, n, trace, p, cut)
    IN  /\ s.id = <<t, turn.id, p.kind, p.n>> /\ s.turn = n /\ s.trace = trace /\ s.says = p.says /\ s.cut = cut
        /\ s.id[1] = t /\ s.id[2] = turn.id /\ s.id[3] = p.kind /\ s.id[4] = p.n
BY DEF Span

\* A turn that is sent as ended is not written on, but for its being superseded.
LEMMA SeenTurn ==
  ASSUME LiveInv, NEW e \in Exporters, pc[e] \in Sending, NEW t \in Threads, NEW n \in DOMAIN view[e][t]
  PROVE  LET turn == view[e][t][n]
             finalize == e = Finalizer /\ t \notin held /\ n = Len(view[e][t])
         IN  /\ turn \in Parsed /\ n \in DOMAIN Turns(t) /\ Turns(t)[n] \in Parsed /\ TurnGrows(turn, Turns(t)[n])
             /\ (turn.end # None \/ finalize) /\ ~(finalize /\ turn.end = None /\ t \in stale) =>
                  Settled(t, n) /\ (Turns(t)[n] = turn \/ (turn.end = None /\ Turns(t)[n] = Ended(turn)))
<1> DEFINE turn == view[e][t][n]
           finalize == e = Finalizer /\ t \notin held /\ n = Len(view[e][t])
<1>1. CodexInv /\ ExporterTypeOK /\ ViewsAreOfFiles /\ EndedTurnsRest
  BY DEF LiveInv
<1>2. Earlier(view[e][t], Turns(t)) /\ view[e][t] \in Seq(Parsed) /\ Turns(t) \in Seq(Parsed)
  BY <1>1, ViewIs, TurnIs
<1>3. turn \in Parsed /\ n \in DOMAIN Turns(t) /\ Turns(t)[n] \in Parsed /\ TurnGrows(turn, Turns(t)[n])
  BY <1>2 DEF Earlier
<1>4. CASE turn.end # None
  BY <1>3, <1>4 DEF TurnGrows, Settled
<1>5. CASE turn.end = None /\ finalize /\ t \notin stale
  <2>1. IsOpen(view[e][t])
    BY <1>2, <1>5 DEF IsOpen, Newest
  <2>2. \/ Turns(t)[n] = turn /\ AtTurnEnd(t)
        \/ Turns(t)[n] = Ended(turn)
    BY <1>1, <1>5, <2>1 DEF EndedTurnsRest
  <2>3. Ended(turn).end # None
    BY <1>3, EndedIs DEF EndedFields, None
  <2> QED BY <1>3, <1>5, <2>2, <2>3 DEF Settled
<1> QED BY <1>3, <1>4, <1>5

LEMMA SpanIsSent ==
  ASSUME LiveInv, NEW e \in Exporters, pc[e] \in Sending, NEW t \in Threads, NEW n \in DOMAIN view[e][t],
         NEW p, NEW s, Sends(e, t, n, p, s)
  PROVE  /\ SpanHolds(s) /\ s.id[1] = t /\ s.turn = n
         /\ s.id[3] = "root" /\ ~s.cut =>
              \A id \in TurnIds(s) : \E q, r : Sends(e, t, n, q, r) /\ r.id = id
<1> DEFINE turn == view[e][t][n]
           finalize == e = Finalizer /\ t \notin held /\ n = Len(view[e][t])
           cut == finalize /\ turn.end = None /\ t \in stale
           trace == Trace(view[e], t, n)
<1>1. CodexInv /\ ExporterTypeOK /\ ViewsAreOfFiles /\ ParentsAreRead
  BY DEF LiveInv
<1>2. finalize \in BOOLEAN /\ p \in Observations(turn, finalize) /\ IsTraced(view[e], t, n) /\ s = Span(t, turn, n, trace, p, cut)
  BY DEF Sends
<1>3. /\ turn \in Parsed /\ n \in DOMAIN Turns(t) /\ Turns(t)[n] \in Parsed /\ TurnGrows(turn, Turns(t)[n])
      /\ (turn.end # None \/ finalize) /\ ~cut =>
           Settled(t, n) /\ (Turns(t)[n] = turn \/ (turn.end = None /\ Turns(t)[n] = Ended(turn)))
  BY SeenTurn
<1>4. \A q, r : q \in Observations(turn, finalize) /\ r = Span(t, turn, n, trace, q, cut) => Sends(e, t, n, q, r)
  BY <1>2 DEF Sends
<1> HIDE DEF turn, finalize, cut, trace
<1>5. /\ s.id = <<t, turn.id, p.kind, p.n>> /\ s.turn = n /\ s.trace = trace /\ s.says = p.says /\ s.cut = cut
      /\ s.id[1] = t /\ s.id[2] = turn.id /\ s.id[3] = p.kind /\ s.id[4] = p.n
  BY <1>2, SpanFields
<1>6. p = Piece(p.kind, p.n, p.says) /\ p.n \in Nat /\ p.kind \in DOMAIN Rank /\ (p.kind = "root" => turn.end # None \/ finalize)
  BY <1>2, <1>3, PieceIs
<1>7. Turns(t)[n].id = turn.id
  BY <1>3 DEF TurnGrows
<1>8. IsPlaced(s)
  <2>1. IsTraced(TurnsNow, t, n)
    BY <1>1, <1>2, SpawnersSeen DEF IsTraced
  <2>2. n = 1 => trace = Trace(TurnsNow, t, 1)
    <3> SUFFICES ASSUME n = 1 PROVE trace = Trace(TurnsNow, t, 1)
      OBVIOUS
    <3>1. view[e][t][1].id = TurnsNow[t][1].id
      BY <1>7 DEF TurnsNow, turn
    <3>2. CASE IsMain(t)
      BY <1>2, <3>1, <3>2, TraceSame DEF trace
    <3>3. CASE ~IsMain(t)
      <4>1. view[e][t] # <<>>
        BY <1>1, ViewIs
      <4>2. Caught(e, t)
        BY <1>1, <3>3, <4>1 DEF ParentsAreRead
      <4>3. /\ Spawners(view[e], t, 1) = Spawners(TurnsNow, t, 1) \cap DOMAIN view[e][Parent[t]]
            /\ Len(view[e][Parent[t]]) \in Nat /\ DOMAIN view[e][Parent[t]] = 1..Len(view[e][Parent[t]])
            /\ \A k \in DOMAIN view[e][Parent[t]] : view[e][Parent[t]][k].id = TurnsNow[Parent[t]][k].id
        BY <1>1, <3>3, SpawnersSeen
      <4>4. Spawners(view[e], t, 1) = Spawners(TurnsNow, t, 1) /\ Spawners(view[e], t, 1) \subseteq 1..Len(view[e][Parent[t]])
        BY <4>2, <4>3 DEF Caught
      <4> QED BY <1>2, <3>1, <4>3, <4>4, TraceSame DEF trace
    <3> QED BY <3>2, <3>3
  <2> QED BY <1>3, <1>5, <1>6, <1>7, <2>1, <2>2 DEF IsPlaced
<1>9. ~s.cut => IsTrue(s)
  <2> SUFFICES ASSUME ~cut PROVE Tells(Turns(t)[n], Settled(t, n), s)
    BY <1>5 DEF IsTrue
  <2>1. Tells(turn, finalize, s)
    BY <1>2, <1>5, <1>6 DEF Tells
  <2>2. PICK y \in BOOLEAN : y = Settled(t, n)
    BY DEF Settled, AtTurnEnd
  <2>3. turn.end # None \/ finalize => y /\ (Turns(t)[n] = turn \/ (turn.end = None /\ Turns(t)[n] = Ended(turn)))
    BY <1>3, <2>2
  <2>4. Tells(Turns(t)[n], y, s)
    BY <1>2, <1>3, <2>1, <2>3, TellsStays
  <2> QED BY <2>2, <2>4
<1>10. ASSUME s.id[3] = "root", ~s.cut, NEW id \in TurnIds(s) PROVE \E q, r : Sends(e, t, n, q, r) /\ r.id = id
  <2>1. turn.end # None \/ finalize
    BY <1>5, <1>6, <1>10
  <2>2. Turns(t)[n] = turn \/ (turn.end = None /\ Turns(t)[n] = Ended(turn))
    BY <1>3, <1>5, <1>10, <2>1
  <2>3. id \in PieceIds(t, Turns(t)[n])
    BY <1>5, <1>10 DEF TurnIds
  <2>4. id \in PieceIds(t, turn)
    BY <1>3, <2>2, <2>3, SamePieces
  <2>5. PICK q \in Observations(turn, TRUE) : id = <<t, turn.id, q.kind, q.n>>
    BY <2>4 DEF PieceIds
  <2>6. q \in Observations(turn, finalize)
    BY <1>2, <2>1, <2>5, EndedIsWhole
  <2>7. Sends(e, t, n, q, Span(t, turn, n, trace, q, cut)) /\ Span(t, turn, n, trace, q, cut).id = id
    BY <1>4, <2>5, <2>6, SpanFields
  <2> QED BY <2>7
<1> QED BY <1>5, <1>8, <1>9, <1>10 DEF SpanHolds

LEMMA PendingIsFinite ==
  ASSUME LiveInv, NEW e \in Exporters, NEW t \in Threads, NEW finalize \in BOOLEAN
  PROVE  IsFiniteSet(Pending(e, t, finalize))
<1>1. view[e][t] \in Seq(Parsed)
  BY DEF LiveInv, ExporterTypeOK
<1> DEFINE seen == view[e][t]
           spans == [n \in DOMAIN seen |-> Spans(view[e], t, n, finalize)]
<1>2. DOMAIN seen = 1..Len(seen) /\ Len(seen) \in Nat
  BY <1>1
<1>3. IsFiniteSet(DOMAIN seen)
  <2>1. \A k \in Nat : IsFiniteSet(1..k)
    BY FS_Interval
  <2> QED BY <1>2, <2>1
<1>4. ASSUME NEW n \in DOMAIN seen PROVE IsFiniteSet(Spans(view[e], t, n, finalize))
  <2> DEFINE all == Observations(seen[n], finalize /\ n = Len(seen))
             span == [p \in all |-> Span(t, seen[n], n, Trace(view[e], t, n), p,
                                         finalize /\ n = Len(seen) /\ seen[n].end = None /\ t \in stale)]
  <2>1. IsFiniteSet(all)
    BY <1>1, ObservationsAreFinite
  <2>2. Spans(view[e], t, n, finalize) \subseteq {span[p] : p \in all}
    BY DEF Spans
  <2> HIDE DEF all, span
  <2>3. IsFiniteSet({span[p] : p \in all})
    BY <2>1, ImageIsFinite
  <2> QED BY <2>2, <2>3, FS_Subset
<1>5. Pending(e, t, finalize) \subseteq UNION {spans[n] : n \in DOMAIN seen}
  BY DEF Pending
<1>6. \A n \in DOMAIN seen : IsFiniteSet(spans[n])
  BY <1>4
<1> HIDE DEF spans, seen
<1>7. IsFiniteSet({spans[n] : n \in DOMAIN seen})
  BY <1>3, ImageIsFinite
<1>8. IsFiniteSet(UNION {spans[n] : n \in DOMAIN seen})
  BY <1>6, <1>7, FS_UNION
<1> QED BY <1>5, <1>8, FS_Subset

LEMMA SpansDiffer ==
  ASSUME LiveInv, NEW e \in Exporters, pc[e] \in Sending, NEW t \in Threads,
         NEW n \in DOMAIN view[e][t], NEW m \in DOMAIN view[e][t], NEW p, NEW q, NEW r, NEW s,
         Sends(e, t, n, p, r), Sends(e, t, m, q, s), r.id = s.id
  PROVE  r = s
<1>1. /\ view[e][t][n] \in Parsed /\ n \in DOMAIN Turns(t) /\ TurnGrows(view[e][t][n], Turns(t)[n])
      /\ view[e][t][m] \in Parsed /\ m \in DOMAIN Turns(t) /\ TurnGrows(view[e][t][m], Turns(t)[m])
  BY SeenTurn
<1>2. /\ r.id[2] = view[e][t][n].id /\ r.id[3] = p.kind /\ r.id[4] = p.n
      /\ s.id[2] = view[e][t][m].id /\ s.id[3] = q.kind /\ s.id[4] = q.n
  BY SpanFields DEF Sends
<1>3. Turns(t)[n].id = Turns(t)[m].id
  BY <1>1, <1>2 DEF TurnGrows
<1>4. n = m
  BY <1>1, <1>3, TurnIs DEF TurnsFollow, LiveInv
<1>5. PICK turn \in Parsed, finalize \in BOOLEAN :
        turn = view[e][t][n] /\ finalize = (e = Finalizer /\ t \notin held /\ n = Len(view[e][t]))
  BY <1>1
<1>6. p \in Observations(turn, finalize) /\ q \in Observations(turn, finalize)
  BY <1>4, <1>5 DEF Sends
<1>7. p.kind = q.kind /\ p.n = q.n
  BY <1>2
<1>8. p = q
  BY <1>6, <1>7, PiecesDiffer
<1> QED BY <1>4, <1>8 DEF Sends

----------------------------------------------------------------------------
(* The live exporter: sending keeps the invariant *)

\* What an exporter has read stays while it sends.
LEMMA SendingGoesOn ==
  ASSUME LiveInv, NEW e \in Exporters, lock = e, pc[e] \in Sending,
         NEW x \in Sending, pc' = [pc EXCEPT ![e] = x], lock' = lock, UNCHANGED <<codex, key, view, held, stale>>
  PROVE  /\ CodexInv' /\ ViewsAreOfFiles' /\ ParentsAreRead' /\ EndedTurnsRest'
         /\ lock' \in Exporters \cup {None} /\ pc' \in [Exporters -> {"idle"} \cup Reading \cup Sending]
         /\ pc'[e] = x /\ \A o \in Exporters : pc'[o] # "idle" <=> lock' = o
         /\ key' \in [Exporters -> [Threads -> Nat]] /\ view' \in [Exporters -> [Threads -> Seq(Parsed)]]
<1>1. CodexInv /\ ExporterTypeOK /\ ViewsAreOfFiles /\ ParentsAreRead /\ EndedTurnsRest
  BY DEF LiveInv
<1>2. x \in {"idle"} \cup Reading \cup Sending /\ lock' = IF x = "idle" THEN None ELSE e
  BY DEF Sending
<1>3. /\ lock' \in Exporters \cup {None} /\ pc' \in [Exporters -> {"idle"} \cup Reading \cup Sending]
      /\ pc'[e] = x /\ \A o \in Exporters : pc'[o] # "idle" <=> lock' = o
      /\ \A o \in Exporters : o # e => pc[o] = "idle" /\ pc'[o] = "idle"
  BY <1>1, <1>2, PassGoesOn
<1>4. /\ CodexInv' /\ TurnsNow' = TurnsNow /\ \A u \in Threads : Turns(u)' = Turns(u) /\ size'[u] = size[u]
      /\ \A u \in Threads : Spawners(TurnsNow, u, 1)' = Spawners(TurnsNow, u, 1) /\ IsMain(u)' = IsMain(u)
      /\ \A u \in Threads : AtTurnEnd(u)' = AtTurnEnd(u)
  BY <1>1, TruthRests
<1>5. ViewsAreOfFiles'
  <2>1. \A o \in Exporters : pc[o] # "parse"
    BY <1>3 DEF Sending
  <2> QED BY <1>1, <1>4, <2>1 DEF ViewsAreOfFiles
<1>6. \A o \in Exporters : pc'[o] \notin Reading /\ (pc'[o] \in Sending => o = e)
  <2>1. x \notin Reading /\ "idle" \notin Reading \cup Sending
    BY DEF Reading, Sending
  <2> QED BY <1>3, <2>1
<1>7. ParentsAreRead'
  <2>1. \A t \in Threads : Caught(e, t)' = Caught(e, t)
    BY <1>4 DEF Caught
  <2> QED BY <1>1, <1>4, <1>6, <2>1 DEF ParentsAreRead
<1>8. EndedTurnsRest'
  BY <1>1, <1>4, <1>6 DEF EndedTurnsRest, Exporters
<1>9. key' \in [Exporters -> [Threads -> Nat]] /\ view' \in [Exporters -> [Threads -> Seq(Parsed)]]
  BY <1>1 DEF ExporterTypeOK
<1> QED BY <1>3, <1>4, <1>5, <1>7, <1>8, <1>9

LEMMA StartThreadKeeps ==
  ASSUME LiveInv, NEW e \in Exporters, NEW t \in Threads, StartThread(e, t)
  PROVE  LiveInv'
<1>1. CodexInv /\ ExporterTypeOK /\ SpansAreTrue /\ BatchesAreNew /\ RootsAreLast /\ ReceivedIsKnown /\ SentOnce
  BY DEF LiveInv
<1>2. /\ lock = e /\ pc[e] = "thread" /\ IsSentNext(t) /\ pc' = [pc EXCEPT ![e] = "send"]
      /\ batches' = Pending(e, t, e = Finalizer /\ t \notin held)
      /\ UNCHANGED <<codex, lock, left, key, view, held, stale, ledger, received, doubts, faults>>
  BY DEF StartThread
<1>3. "send" \in Sending /\ pc[e] \in Sending
  BY <1>2 DEF Sending
<1>4. /\ CodexInv' /\ ViewsAreOfFiles' /\ ParentsAreRead' /\ EndedTurnsRest'
      /\ lock' \in Exporters \cup {None} /\ pc' \in [Exporters -> {"idle"} \cup Reading \cup Sending]
      /\ pc'[e] = "send" /\ \A o \in Exporters : pc'[o] # "idle" <=> lock' = o
      /\ key' \in [Exporters -> [Threads -> Nat]] /\ view' \in [Exporters -> [Threads -> Seq(Parsed)]]
  BY <1>2, <1>3, SendingGoesOn
<1>5. Received' = Received
  BY <1>2 DEF Received
<1>6. ExporterTypeOK'
  BY <1>1, <1>2, <1>4, <1>5 DEF ExporterTypeOK
<1>7. \A s : SpanHolds(s) => SpanHolds(s)' /\ TurnIds(s)' = TurnIds(s)
  BY <1>1, <1>2, TruthRests
<1>8. \A s : s \in batches' <=> s.id \notin ledger[t] /\ \E n \in DOMAIN view[e][t] : \E p : Sends(e, t, n, p, s)
  BY <1>2, PendingIs
<1>9. ASSUME NEW s \in batches'
      PROVE  /\ SpanHolds(s) /\ s.id[1] = t /\ s.id \notin ledger[t]
             /\ s.id[3] = "root" /\ ~s.cut => TurnIds(s) \subseteq ledger[t] \cup Ids(batches')
  <2>1. PICK n \in DOMAIN view[e][t] : \E p : Sends(e, t, n, p, s)
    BY <1>8
  <2>2. /\ SpanHolds(s) /\ s.id[1] = t
        /\ s.id[3] = "root" /\ ~s.cut =>
              \A id \in TurnIds(s) : \E q, r : Sends(e, t, n, q, r) /\ r.id = id
    BY <1>3, <2>1, SpanIsSent
  <2>3. \A id : (\E q, r : Sends(e, t, n, q, r) /\ r.id = id) => id \in ledger[t] \cup Ids(batches')
    <3> SUFFICES ASSUME NEW q, NEW r, Sends(e, t, n, q, r), r.id \notin ledger[t] PROVE r.id \in Ids(batches')
      OBVIOUS
    <3>1. r \in batches'
      BY <1>8
    <3> QED BY <3>1 DEF Ids
  <2> QED BY <1>8, <2>2, <2>3
<1>10. SpansAreTrue'
  <2>1. \A s \in Received \cup batches' : SpanHolds(s)
    BY <1>1, <1>9 DEF SpansAreTrue, SpanHolds
  <2> QED BY <1>5, <1>7, <2>1 DEF SpansAreTrue, SpanHolds
<1>11. BatchesAreNew'
  <2>1. IsFiniteSet(batches')
    BY <1>2, PendingIsFinite
  <2>2. \A r, s \in batches' : r.id = s.id => r = s
    BY <1>3, <1>8, SpansDiffer
  <2>3. IsSentNext(t)'
    BY <1>2 DEF IsSentNext, IsMain
  <2>4. \A s \in batches' : IsSentNext(s.id[1])' /\ s.id \notin ledger'[s.id[1]]
    BY <1>2, <1>9, <2>3
  <2>5. \A s \in batches' : s.id[3] = "root" /\ ~s.cut => TurnIds(s)' \subseteq ledger'[s.id[1]] \cup Ids(batches')
    BY <1>2, <1>7, <1>9
  <2> QED BY <2>1, <2>2, <2>4, <2>5 DEF BatchesAreNew, Ids
<1>12. RootsAreLast'
  <2>1. \A i \in DOMAIN received : \A s \in received[i] : SpanHolds(s)
    BY <1>1 DEF Received, SpansAreTrue, SpanHolds
  <2> QED BY <1>1, <1>2, <1>7, <2>1 DEF RootsAreLast, Arrived
<1>13. Underway = {} /\ Underway' = {}
  BY <1>2, <1>4 DEF Underway
<1>14. ReceivedIsKnown' /\ SentOnce'
  BY <1>1, <1>2, <1>5, <1>13 DEF ReceivedIsKnown, SentOnce
<1> QED BY <1>4, <1>6, <1>10, <1>11, <1>12, <1>14 DEF LiveInv

LEMMA RankIs ==
  /\ Rank["started"] < Rank["root"] /\ Rank["step"] < Rank["root"] /\ Rank["tool"] < Rank["root"] /\ Rank["record"] < Rank["root"]
  /\ \A kind \in DOMAIN Rank : Rank[kind] \in Nat /\ (kind # "root" => Rank[kind] < Rank["root"])
  /\ "root" \in DOMAIN Rank
BY DEF Rank

LEMMA RootIsNought ==
  ASSUME NEW turn, NEW finalize, NEW p \in Observations(turn, finalize), p.kind = "root"
  PROVE  p.n = 0
<1>1. IsObserved(p, turn, EndOf(turn, finalize))
  BY Observed
<1>2. \A kind, n, says : p = Piece(kind, n, says) => kind = "root"
  BY PieceFields
<1>3. p = RootOf(turn, EndOf(turn, finalize))
  BY <1>1, <1>2 DEF IsObserved
<1> QED BY <1>3, RootFields

LEMMA Appended ==
  ASSUME NEW S, NEW q \in Seq(S), NEW x \in S
  PROVE  /\ Append(q, x) \in Seq(S) /\ Len(Append(q, x)) = Len(q) + 1 /\ Len(q) \in Nat
         /\ DOMAIN Append(q, x) = 1..Len(q) + 1 /\ DOMAIN q = 1..Len(q)
         /\ Append(q, x)[Len(q) + 1] = x /\ \A n \in 1..Len(q) : Append(q, x)[n] = q[n]
OBVIOUS

\* What comes before a span of a batch in its turn is in the batch, or was in one before.
LEMMA BatchIsDown ==
  ASSUME IsFiniteSet(batches), NEW r \in batches, NEW s \in NextBatch, r.turn = s.turn, Rank[r.id[3]] < Rank[s.id[3]],
         \A x \in batches : x.turn \in Nat /\ x.id[3] \in DOMAIN Rank
  PROVE  r \in NextBatch
<1> DEFINE AheadOf(x) == {b \in batches : Precedes(b, x)}
<1>1. s \in batches /\ Cardinality(AheadOf(s)) < Batch /\ Batch \in Nat
  BY LiveTraceAssumption DEF NextBatch
<1>2. ASSUME NEW x \in batches, Precedes(x, r) PROVE Precedes(x, s)
  <2>1. x.turn \in Nat /\ r.turn \in Nat /\ Rank[x.id[3]] \in Nat /\ Rank[r.id[3]] \in Nat /\ Rank[s.id[3]] \in Nat
    BY <1>1, RankIs
  <2>2. CASE x.turn < r.turn
    BY <2>2 DEF Precedes
  <2>3. CASE x.turn = r.turn /\ (Rank[x.id[3]] < Rank[r.id[3]] \/ x.id[3] = r.id[3])
    <3>1. Rank[x.id[3]] < Rank[s.id[3]]
      BY <2>1, <2>3
    <3> QED BY <2>3, <3>1 DEF Precedes
  <2> QED BY <1>2, <2>2, <2>3 DEF Precedes
<1>3. AheadOf(r) \subseteq AheadOf(s)
  BY <1>2
<1>4. IsFiniteSet(AheadOf(s))
  <2>1. AheadOf(s) \in SUBSET batches
    OBVIOUS
  <2> QED BY <2>1, FS_Subset
<1> HIDE DEF AheadOf
<1>5. Cardinality(AheadOf(r)) <= Cardinality(AheadOf(s)) /\ Cardinality(AheadOf(r)) \in Nat /\ Cardinality(AheadOf(s)) \in Nat
  BY <1>3, <1>4, FS_Subset, FS_CardinalityType
<1>6. Cardinality(AheadOf(r)) < Batch
  BY <1>1, <1>5
<1> QED BY <1>6 DEF NextBatch, AheadOf

\* The root of a turn is in a batch with what is left of the turn.
LEMMA BatchHasTurn ==
  ASSUME CodexInv, SpansAreTrue, BatchesAreNew, NEW s \in NextBatch, s.id[3] = "root", ~s.cut
  PROVE  TurnIds(s) \subseteq ledger[s.id[1]] \cup Ids(NextBatch)
<1>1. /\ s \in batches /\ IsPlaced(s) /\ IsTrue(s) /\ TurnIds(s) \subseteq ledger[s.id[1]] \cup Ids(batches)
      /\ IsFiniteSet(batches) /\ \A r \in batches : r.id = s.id => r = s
      /\ \A x \in batches : IsPlaced(x)
  BY DEF NextBatch, SpansAreTrue, BatchesAreNew
<1> SUFFICES ASSUME NEW r \in batches, r.id \in TurnIds(s) PROVE r \in NextBatch
  BY <1>1 DEF Ids
<1>2. PICK t \in Threads, n \in Nat : t = s.id[1] /\ n = s.turn /\ n \in DOMAIN Turns(t) /\ Turns(t)[n].id = s.id[2]
  BY TurnIs, <1>1 DEF IsPlaced
<1>3. PICK q \in Observations(Turns(t)[n], TRUE) : r.id = <<t, Turns(t)[n].id, q.kind, q.n>>
  BY <1>2 DEF TurnIds, PieceIds
<1>4. /\ Turns(t) \in Seq(Parsed) /\ Turns(t)[n] \in Parsed /\ DOMAIN Turns(t) \subseteq Nat
      /\ \A i, j \in DOMAIN Turns(t) : i # j => Turns(t)[i].id # Turns(t)[j].id
  BY <1>2, TurnIs DEF TurnsFollow
<1>5. r.turn = s.turn
  <2>1. r.id[1] = t /\ r.id[2] = Turns(t)[n].id /\ r.turn \in DOMAIN Turns(r.id[1]) /\ Turns(r.id[1])[r.turn].id = r.id[2]
    BY <1>1, <1>3 DEF IsPlaced
  <2> QED BY <1>2, <1>4, <2>1
<1>6. r.id[3] = q.kind /\ r.id[4] = q.n /\ q.kind \in DOMAIN Rank
  <2>1. q.kind \in DOMAIN Rank
    BY <1>3, <1>4, PieceIs
  <2> QED BY <1>3, <2>1
<1>7. CASE q.kind = "root"
  <2>1. q.n = 0
    BY <1>3, <1>7, RootIsNought
  <2>2. s.id[4] = 0
    <3> DEFINE p == Piece(s.id[3], s.id[4], s.says)
    <3>1. p.kind = "root" /\ p.n = s.id[4]
      BY PieceFields
    <3>2. p \in Observations(Turns(t)[n], Settled(t, n)) \/ p = RootOf(Turns(t)[n], "stopped")
      BY <1>1, <1>2 DEF IsTrue, Tells
    <3> HIDE DEF p
    <3> QED BY <3>1, <3>2, RootIsNought, RootFields
  <2>3. r.id = s.id
    BY <1>1, <1>2, <1>3, <1>7, <2>1, <2>2 DEF IsPlaced
  <2> QED BY <1>1, <2>3
<1>8. CASE q.kind # "root"
  <2>1. Rank[r.id[3]] < Rank[s.id[3]]
    BY <1>6, <1>8, RankIs
  <2>2. \A x \in batches : x.turn \in Nat /\ x.id[3] \in DOMAIN Rank
    BY SMTT(30), <1>1, TurnIs DEF IsPlaced
  <2> QED BY <1>1, <1>5, <2>1, <2>2, BatchIsDown
<1> QED BY <1>7, <1>8

LEMMA AcceptedKeeps ==
  ASSUME LiveInv, NEW e \in Exporters, Accepted(e)
  PROVE  LiveInv'
<1>1. CodexInv /\ ExporterTypeOK /\ SpansAreTrue /\ BatchesAreNew /\ RootsAreLast /\ ReceivedIsKnown /\ SentOnce
  BY DEF LiveInv
<1>2. /\ lock = e /\ pc[e] = "send" /\ pc' = [pc EXCEPT ![e] = "record"] /\ received' = Append(received, NextBatch)
      /\ UNCHANGED <<codex, lock, left, key, view, held, stale, batches, ledger, doubts, faults>>
  BY DEF Accepted
<1>3. "record" \in Sending /\ pc[e] \in Sending /\ e # None
  BY <1>1, <1>2, OneRuns DEF Sending
<1>4. /\ CodexInv' /\ ViewsAreOfFiles' /\ ParentsAreRead' /\ EndedTurnsRest'
      /\ lock' \in Exporters \cup {None} /\ pc' \in [Exporters -> {"idle"} \cup Reading \cup Sending]
      /\ pc'[e] = "record" /\ \A o \in Exporters : pc'[o] # "idle" <=> lock' = o
      /\ key' \in [Exporters -> [Threads -> Nat]] /\ view' \in [Exporters -> [Threads -> Seq(Parsed)]]
  BY <1>2, <1>3, SendingGoesOn
<1> DEFINE len == Len(received)
           all == Received \cup NextBatch
<1>5. received \in Seq(SUBSET all)
  <2>1. received \in Seq(SUBSET Received) /\ SUBSET Received \subseteq SUBSET all
    BY <1>1 DEF ExporterTypeOK
  <2>2. \A n \in 1..len : received[n] \in SUBSET all
    BY <2>1
  <2> QED BY <2>1, <2>2
<1>6. /\ received' \in Seq(SUBSET all) /\ Len(received') = len + 1 /\ len \in Nat
      /\ DOMAIN received' = 1..len + 1 /\ DOMAIN received = 1..len
      /\ received'[len + 1] = NextBatch /\ \A n \in 1..len : received'[n] = received[n]
  <2>1. NextBatch \in SUBSET all
    OBVIOUS
  <2> HIDE DEF all
  <2> QED BY <1>2, <1>5, <2>1, Appended
<1> HIDE DEF len
<1>7. \A n \in 1..len + 1 : n \in 1..len \/ n = len + 1
  BY <1>6
<1>8. Received' = all
  <2>1. len + 1 \in 1..len + 1 /\ 1..len \subseteq 1..len + 1
    BY <1>6
  <2> QED BY <1>6, <1>7, <2>1 DEF Received
<1>9. NextBatch \subseteq batches /\ NextBatch' = NextBatch
  BY <1>2 DEF NextBatch
<1>10. \A s : SpanHolds(s) => SpanHolds(s)' /\ TurnIds(s)' = TurnIds(s)
  BY <1>1, <1>2, TruthRests
<1>11. \A s \in Received \cup batches : SpanHolds(s)
  BY <1>1 DEF SpansAreTrue, SpanHolds
<1>12. Ids(Received) \subseteq Ids(Received') /\ Ids(NextBatch) \subseteq Ids(Received')
  BY <1>8 DEF Ids
<1>13. \A t \in Threads : ledger[t] \subseteq Ids(Received)
  BY <1>1 DEF ExporterTypeOK
<1>14. ExporterTypeOK'
  <2>1. ledger' \in [Threads -> SUBSET Ids(Received')]
    BY <1>1, <1>2, <1>12 DEF ExporterTypeOK
  <2>2. left' \subseteq Threads
    BY <1>1, <1>2 DEF ExporterTypeOK
  <2> QED BY <1>4, <1>6, <1>8, <2>1, <2>2 DEF ExporterTypeOK
<1>15. SpansAreTrue'
  BY <1>2, <1>8, <1>9, <1>10, <1>11 DEF SpansAreTrue, SpanHolds
<1>16. BatchesAreNew'
  <2>1. lock # None /\ pc[lock] \in {"send", "record"}
    BY <1>2, <1>3
  <2>2. \A t : IsSentNext(t)' = IsSentNext(t)
    BY <1>2 DEF IsSentNext, IsMain
  <2> QED BY <1>1, <1>2, <1>10, <1>11, <2>1, <2>2 DEF BatchesAreNew
<1>17. \A i \in 1..len : Arrived(i)' = Arrived(i)
  <2> TAKE i \in 1..len
  <2>1. 1..i \subseteq 1..len
    BY <1>6
  <2>2. \A j \in 1..i : received'[j] = received[j]
    BY <1>6, <2>1
  <2> QED BY <2>2 DEF Arrived
<1>18. Ids(Received') \subseteq UNION {Ids(received'[j]) : j \in 1..len + 1}
  BY <1>6 DEF Received, Ids
<1>19. RootsAreLast'
  <2> SUFFICES ASSUME NEW i \in 1..len + 1, NEW s \in received'[i], s.id[3] = "root", ~s.cut
               PROVE  TurnIds(s)' \subseteq Arrived(i)'
    BY <1>6 DEF RootsAreLast
  <2>1. CASE i \in 1..len
    <3>1. s \in received[i] /\ s \in Received
      BY <1>6, <2>1 DEF Received
    <3>2. TurnIds(s) \subseteq Arrived(i)
      BY <1>1, <1>6, <2>1, <3>1 DEF RootsAreLast
    <3> QED BY <1>10, <1>11, <1>17, <2>1, <3>1, <3>2
  <2>2. CASE i = len + 1
    <3>1. s \in NextBatch
      BY <1>6, <2>2
    <3>2. TurnIds(s) \subseteq ledger[s.id[1]] \cup Ids(NextBatch) /\ s.id[1] \in Threads
      BY <1>1, <1>9, <1>11, <3>1, BatchHasTurn DEF SpanHolds, IsPlaced
    <3>3. TurnIds(s) \subseteq Ids(Received')
      BY <1>12, <1>13, <3>2
    <3>4. Arrived(i)' = UNION {Ids(received'[j]) : j \in 1..len + 1}
      BY <2>2 DEF Arrived
    <3> QED BY <1>9, <1>10, <1>11, <1>18, <3>1, <3>3, <3>4
  <2> QED BY <1>7, <2>1, <2>2
<1>20. Underway = {} /\ Underway' = Ids(NextBatch)
  BY <1>2, <1>3, <1>4, <1>9 DEF Underway
<1>21. ReceivedIsKnown'
  <2>1. \A s \in Received : s.id \in ledger[s.id[1]] \cup doubts
    BY <1>1, <1>20 DEF ReceivedIsKnown
  <2>2. \A s \in NextBatch : s.id \in Ids(NextBatch)
    BY DEF Ids
  <2> QED BY <1>2, <1>8, <1>12, <1>20, <2>1, <2>2 DEF ReceivedIsKnown
<1>22. SentOnce'
  <2> SUFFICES ASSUME NEW i \in 1..len + 1, NEW j \in 1..len + 1, i < j,
                      NEW id \in Ids(received'[i]) \cap Ids(received'[j])
               PROVE  id \in doubts
    BY <1>2, <1>6 DEF SentOnce
  <2>1. i \in 1..len
    BY <1>6
  <2>2. received'[i] = received[i]
    BY <1>6, <2>1
  <2>3. CASE j \in 1..len
    <3>1. received'[j] = received[j]
      BY <1>6, <2>3
    <3> QED BY <1>1, <1>6, <2>1, <2>2, <2>3, <3>1 DEF SentOnce
  <2>4. CASE j = len + 1
    <3>1. PICK r \in received[i] : r.id = id
      BY <2>2 DEF Ids
    <3>2. PICK s \in NextBatch : s.id = id
      BY <1>6, <2>4 DEF Ids
    <3>3. id \notin ledger[id[1]]
      BY <1>1, <1>2, <1>3, <1>9, <3>2 DEF BatchesAreNew
    <3>4. r \in Received
      BY <1>6, <2>1 DEF Received
    <3> QED BY <1>1, <1>20, <3>1, <3>3, <3>4 DEF ReceivedIsKnown
  <2> QED BY <1>7, <2>3, <2>4
<1> QED BY <1>4, <1>14, <1>15, <1>16, <1>19, <1>21, <1>22 DEF LiveInv

LEMMA RecordKeeps ==
  ASSUME LiveInv, NEW e \in Exporters, NEW t \in Threads, Record(e, t)
  PROVE  LiveInv'
<1>1. CodexInv /\ ExporterTypeOK /\ SpansAreTrue /\ BatchesAreNew /\ RootsAreLast /\ ReceivedIsKnown /\ SentOnce
  BY DEF LiveInv
<1>2. /\ lock = e /\ pc[e] = "record" /\ IsSentNext(t) /\ pc' = [pc EXCEPT ![e] = "send"]
      /\ ledger' = [ledger EXCEPT ![t] = @ \cup Ids(NextBatch)] /\ batches' = batches \ NextBatch
      /\ UNCHANGED <<codex, lock, left, key, view, held, stale, received, doubts, faults>>
  BY DEF Record
<1>3. "send" \in Sending /\ pc[e] \in Sending /\ e # None
  BY <1>1, <1>2, OneRuns DEF Sending
<1>4. /\ CodexInv' /\ ViewsAreOfFiles' /\ ParentsAreRead' /\ EndedTurnsRest'
      /\ lock' \in Exporters \cup {None} /\ pc' \in [Exporters -> {"idle"} \cup Reading \cup Sending]
      /\ pc'[e] = "send" /\ \A o \in Exporters : pc'[o] # "idle" <=> lock' = o
      /\ key' \in [Exporters -> [Threads -> Nat]] /\ view' \in [Exporters -> [Threads -> Seq(Parsed)]]
  BY <1>2, <1>3, SendingGoesOn
<1>5. Received' = Received
  BY <1>2 DEF Received
<1>6. \A s : SpanHolds(s) => SpanHolds(s)' /\ TurnIds(s)' = TurnIds(s)
  BY <1>1, <1>2, TruthRests
<1>7. \A s \in Received \cup batches : SpanHolds(s)
  BY <1>1 DEF SpansAreTrue, SpanHolds
<1>8. Underway = Ids(NextBatch) /\ Ids(NextBatch) \subseteq Ids(Received)
  BY <1>1, <1>2, <1>3 DEF Underway, ReceivedIsKnown
<1>9. Underway' = {}
  BY <1>2, <1>4 DEF Underway
<1>10. /\ ledger' \in [Threads -> SUBSET Ids(Received)] /\ ledger'[t] = ledger[t] \cup Ids(NextBatch)
       /\ \A u \in Threads : ledger[u] \subseteq ledger'[u]
  BY <1>1, <1>2, <1>8 DEF ExporterTypeOK
<1>11. \A s \in batches : s.id[1] = t
  <2> TAKE s \in batches
  <2>1. IsSentNext(s.id[1])
    BY <1>1, <1>2, <1>3 DEF BatchesAreNew
  <2> QED BY <1>1, <1>2, <2>1, NextIsOne DEF ExporterTypeOK
<1>12. NextBatch \subseteq batches
  BY DEF NextBatch
<1>13. ExporterTypeOK'
  BY <1>1, <1>2, <1>4, <1>5, <1>10 DEF ExporterTypeOK
<1>14. SpansAreTrue'
  BY <1>2, <1>5, <1>6, <1>7 DEF SpansAreTrue, SpanHolds
<1>15. BatchesAreNew'
  <2>1. IsFiniteSet(batches') /\ \A r, s \in batches' : r.id = s.id => r = s
    BY <1>1, <1>2, FS_Subset DEF BatchesAreNew
  <2>2. \A u : IsSentNext(u)' = IsSentNext(u)
    BY <1>2 DEF IsSentNext, IsMain
  <2>3. ASSUME NEW s \in batches' PROVE IsSentNext(s.id[1])' /\ s.id \notin ledger'[s.id[1]]
    <3>1. s \in batches /\ s \notin NextBatch /\ s.id[1] = t
      BY <1>2, <1>11
    <3>2. s.id \notin ledger[t] /\ IsSentNext(t)
      BY <1>1, <1>2, <1>3, <3>1 DEF BatchesAreNew
    <3>3. s.id \notin Ids(NextBatch)
      BY <1>1, <1>12, <3>1 DEF BatchesAreNew, Ids
    <3> QED BY <1>10, <2>2, <3>1, <3>2, <3>3
  <2>4. ASSUME NEW s \in batches', s.id[3] = "root", ~s.cut PROVE TurnIds(s)' \subseteq ledger'[s.id[1]] \cup Ids(batches')
    <3>1. s \in batches /\ s.id[1] = t
      BY <1>2, <1>11
    <3>2. TurnIds(s) \subseteq ledger[t] \cup Ids(batches)
      BY <1>1, <2>4, <3>1 DEF BatchesAreNew
    <3>3. Ids(batches) \subseteq Ids(NextBatch) \cup Ids(batches')
      BY <1>2 DEF Ids
    <3> QED BY <1>6, <1>7, <1>10, <3>1, <3>2, <3>3
  <2> QED BY <2>1, <2>3, <2>4 DEF BatchesAreNew, Ids
<1>16. RootsAreLast'
  <2>1. \A i \in DOMAIN received : \A s \in received[i] : SpanHolds(s)
    BY <1>7 DEF Received
  <2> QED BY <1>1, <1>2, <1>6, <2>1 DEF RootsAreLast, Arrived
<1>17. ReceivedIsKnown'
  <2> SUFFICES ASSUME NEW s \in Received PROVE s.id \in ledger'[s.id[1]] \cup doubts
    BY <1>2, <1>5, <1>9 DEF ReceivedIsKnown
  <2>1. s.id \in ledger[s.id[1]] \cup doubts \cup Ids(NextBatch) /\ s.id[1] \in Threads
    BY <1>1, <1>7, <1>8 DEF ReceivedIsKnown, SpanHolds, IsPlaced
  <2>2. CASE s.id \in Ids(NextBatch)
    <3>1. PICK r \in NextBatch : r.id = s.id
      BY <2>2 DEF Ids
    <3>2. s.id[1] = t
      BY <1>11, <1>12, <3>1
    <3> QED BY <1>10, <2>2, <3>2
  <2> QED BY <1>10, <2>1, <2>2
<1>18. SentOnce'
  BY <1>1, <1>2 DEF SentOnce
<1> QED BY <1>4, <1>13, <1>14, <1>15, <1>16, <1>17, <1>18 DEF LiveInv

\* What is pending may be dropped, if what Langfuse may have of it is doubted.
LEMMA DroppingRests ==
  ASSUME LiveInv, UNCHANGED <<codex, ledger, received>>, batches' = {}, doubts' = doubts \cup Underway, Underway' = {}
  PROVE  SpansAreTrue' /\ BatchesAreNew' /\ RootsAreLast' /\ ReceivedIsKnown' /\ SentOnce'
<1>1. CodexInv /\ SpansAreTrue /\ RootsAreLast /\ ReceivedIsKnown /\ SentOnce
  BY DEF LiveInv
<1>2. \A s \in Received : SpanHolds(s)' /\ TurnIds(s)' = TurnIds(s)
  BY <1>1, TruthRests DEF SpansAreTrue, SpanHolds
<1>3. Received' = Received
  BY DEF Received
<1>4. SpansAreTrue'
  BY <1>2, <1>3 DEF SpansAreTrue, SpanHolds
<1>5. BatchesAreNew'
  BY FS_EmptySet DEF BatchesAreNew
<1>6. RootsAreLast'
  <2>1. \A i \in DOMAIN received : \A s \in received[i] : s \in Received
    BY DEF Received
  <2> QED BY <1>1, <1>2, <2>1 DEF RootsAreLast, Arrived
<1>7. ReceivedIsKnown'
  BY <1>1, <1>3 DEF ReceivedIsKnown
<1>8. SentOnce'
  BY <1>1 DEF SentOnce
<1> QED BY <1>4, <1>5, <1>6, <1>7, <1>8

LEMMA NextThreadKeeps ==
  ASSUME LiveInv, NEW e \in Exporters, NEW t \in Threads, Sent(e, t) \/ Refused(e, t) \/ AnswerLost(e, t)
  PROVE  LiveInv'
<1>1. ExporterTypeOK
  BY DEF LiveInv
<1>2. /\ lock = e /\ pc[e] \in {"send", "record"} /\ pc' = [pc EXCEPT ![e] = "thread"]
      /\ left' = left \ {t} /\ batches' = {}
      /\ UNCHANGED <<codex, lock, key, view, held, stale, ledger, received>>
  BY DEF Sent, Refused, AnswerLost, NextThread
<1>3. "thread" \in Sending /\ pc[e] \in Sending /\ e # None
  BY <1>1, <1>2, OneRuns DEF Sending
<1>4. doubts' = doubts \cup Underway
  <2>1. CASE Sent(e, t) \/ Refused(e, t)
    <3>1. Underway = {} /\ doubts' = doubts
      BY <2>1 DEF Sent, Refused, Underway
    <3> QED BY <3>1
  <2>2. CASE AnswerLost(e, t)
    BY <1>3, <2>2 DEF AnswerLost, Underway
  <2> QED BY <2>1, <2>2
<1>5. /\ CodexInv' /\ ViewsAreOfFiles' /\ ParentsAreRead' /\ EndedTurnsRest'
      /\ lock' \in Exporters \cup {None} /\ pc' \in [Exporters -> {"idle"} \cup Reading \cup Sending]
      /\ pc'[e] = "thread" /\ \A o \in Exporters : pc'[o] # "idle" <=> lock' = o
      /\ key' \in [Exporters -> [Threads -> Nat]] /\ view' \in [Exporters -> [Threads -> Seq(Parsed)]]
  BY <1>2, <1>3, SendingGoesOn
<1>6. Received' = Received /\ left' \subseteq Threads
  BY <1>1, <1>2 DEF Received, ExporterTypeOK
<1>7. ExporterTypeOK'
  BY <1>1, <1>2, <1>5, <1>6 DEF ExporterTypeOK
<1>8. Underway' = {}
  BY <1>2, <1>5 DEF Underway
<1>9. SpansAreTrue' /\ BatchesAreNew' /\ RootsAreLast' /\ ReceivedIsKnown' /\ SentOnce'
  BY <1>2, <1>4, <1>8, DroppingRests
<1> QED BY <1>5, <1>7, <1>9 DEF LiveInv

\* An exporter ends its pass, and its memory may end with it.
LEMMA PassEnds ==
  ASSUME LiveInv, NEW e \in Exporters, lock = e, lock' = None, pc' = [pc EXCEPT ![e] = "idle"], left' \subseteq Threads,
         Forget(e) \/ (pc[e] # "parse" /\ UNCHANGED <<key, view>>), UNCHANGED <<codex, ledger, received>>
  PROVE  CodexInv' /\ ExporterTypeOK' /\ ViewsAreOfFiles' /\ ParentsAreRead' /\ EndedTurnsRest' /\ Underway' = {}
<1>1. CodexInv /\ ExporterTypeOK /\ ViewsAreOfFiles
  BY DEF LiveInv
<1>2. /\ pc' \in [Exporters -> {"idle"} \cup Reading \cup Sending] /\ \A o \in Exporters : pc'[o] = "idle"
      /\ \A o \in Exporters : pc'[o] # "idle" <=> lock' = o
      /\ \A o \in Exporters : o # e => pc[o] = "idle"
  <2>1. "idle" \in {"idle"} \cup Reading \cup Sending /\ lock' = IF "idle" = "idle" THEN None ELSE e
    OBVIOUS
  <2> QED BY <1>1, <2>1, PassGoesOn
<1>3. CodexInv' /\ \A t \in Threads : Turns(t)' = Turns(t) /\ size'[t] = size[t]
  BY <1>1, TruthRests
<1>4. /\ key' \in [Exporters -> [Threads -> Nat]] /\ view' \in [Exporters -> [Threads -> Seq(Parsed)]]
      /\ \A o \in Exporters : \A t \in Threads :
           \/ key'[o][t] = 0 /\ view'[o][t] = <<>>
           \/ key'[o][t] = key[o][t] /\ view'[o][t] = view[o][t] /\ pc[o] # "parse"
  <2>1. Unseen \in [Threads -> Nat] /\ Unread \in [Threads -> Seq(Parsed)] /\ \A t \in Threads : Unseen[t] = 0 /\ Unread[t] = <<>>
    BY DEF Unseen, Unread
  <2>2. CASE Forget(e)
    BY <1>1, <1>2, <2>1, <2>2 DEF ExporterTypeOK, Forget
  <2>3. CASE pc[e] # "parse" /\ UNCHANGED <<key, view>>
    BY <1>1, <1>2, <2>3 DEF ExporterTypeOK
  <2> QED BY <2>2, <2>3
<1>5. ExporterTypeOK'
  <2>1. Received' = Received
    BY DEF Received
  <2> QED BY <1>1, <1>2, <1>4, <2>1 DEF ExporterTypeOK
<1>6. ViewsAreOfFiles'
  <2> SUFFICES ASSUME NEW o \in Exporters, NEW t \in Threads
               PROVE  /\ Earlier(view'[o][t], Turns(t)) /\ key'[o][t] <= size[t]
                      /\ key'[o][t] = size[t] => view'[o][t] = Turns(t)
    BY <1>3 DEF ViewsAreOfFiles
  <2>1. CASE key'[o][t] = 0 /\ view'[o][t] = <<>>
    BY <1>1, <2>1, NothingIsAView
  <2>2. CASE key'[o][t] = key[o][t] /\ view'[o][t] = view[o][t] /\ pc[o] # "parse"
    BY <1>1, <2>2 DEF ViewsAreOfFiles
  <2> QED BY <1>4, <2>1, <2>2
<1>7. ParentsAreRead' /\ EndedTurnsRest'
  <2>1. \A o \in Exporters : pc'[o] \notin Reading /\ pc'[o] \notin Sending
    BY <1>2 DEF Reading, Sending
  <2> QED BY <2>1 DEF ParentsAreRead, EndedTurnsRest, Exporters
<1>8. Underway' = {}
  BY DEF Underway
<1> QED BY <1>3, <1>5, <1>6, <1>7, <1>8

LEMMA EndPassKeeps ==
  ASSUME LiveInv, NEW e \in Exporters, EndPass(e)
  PROVE  LiveInv'
<1>1. CodexInv /\ ExporterTypeOK /\ SpansAreTrue /\ BatchesAreNew /\ RootsAreLast /\ ReceivedIsKnown /\ SentOnce
  BY DEF LiveInv
<1>2. /\ lock = e /\ pc[e] = "thread" /\ lock' = None /\ pc' = [pc EXCEPT ![e] = "idle"] /\ left' = left
      /\ Forget(e) \/ UNCHANGED <<key, view>>
      /\ UNCHANGED <<codex, batches, ledger, received, doubts>>
  BY DEF EndPass
<1>3. left' \subseteq Threads
  BY <1>1, <1>2 DEF ExporterTypeOK
<1>4. CodexInv' /\ ExporterTypeOK' /\ ViewsAreOfFiles' /\ ParentsAreRead' /\ EndedTurnsRest'
  BY <1>2, <1>3, PassEnds
<1>5. Underway = {} /\ (lock' # None => pc'[lock'] \notin {"send", "record"})
  BY <1>2 DEF Underway
<1>6. SpansAreTrue' /\ BatchesAreNew' /\ RootsAreLast' /\ ReceivedIsKnown' /\ SentOnce'
  BY <1>1, <1>2, <1>5, SentRests
<1> QED BY <1>4, <1>6 DEF LiveInv

LEMMA CrashKeeps ==
  ASSUME LiveInv, NEW e \in Exporters, Crash(e)
  PROVE  LiveInv'
<1>1. /\ lock = e /\ lock' = None /\ pc' = [pc EXCEPT ![e] = "idle"] /\ left' = {} /\ batches' = {} /\ Forget(e)
      /\ doubts' = doubts \cup (IF pc[e] = "record" THEN Ids(NextBatch) ELSE {})
      /\ UNCHANGED <<codex, ledger, received>>
  BY DEF Crash
<1>2. CodexInv' /\ ExporterTypeOK' /\ ViewsAreOfFiles' /\ ParentsAreRead' /\ EndedTurnsRest' /\ Underway' = {}
  BY <1>1, PassEnds
<1>3. e # None
  BY OneRuns DEF LiveInv
<1>4. doubts' = doubts \cup Underway
  BY <1>1, <1>3 DEF Underway
<1>5. SpansAreTrue' /\ BatchesAreNew' /\ RootsAreLast' /\ ReceivedIsKnown' /\ SentOnce'
  BY <1>1, <1>2, <1>4, DroppingRests
<1> QED BY <1>2, <1>5 DEF LiveInv

LEMMA LiveBegins == Init => LiveInv
<1> SUFFICES ASSUME Init PROVE LiveInv
  OBVIOUS
<1>1. CodexInv
  BY CodexBegins
<1>2. /\ size = [t \in Threads |-> 0]
      /\ lock = None /\ pc = [e \in Exporters |-> "idle"] /\ left = {}
      /\ key = [e \in Exporters |-> Unseen] /\ view = [e \in Exporters |-> Unread] /\ batches = {}
      /\ ledger = [t \in Threads |-> {}] /\ received = <<>> /\ doubts = {}
  BY DEF Init
<1>3. Received = {}
  BY <1>2 DEF Received
<1>4. \A e \in Exporters : e # None /\ pc[e] = "idle"
  BY <1>2, LiveTraceAssumption DEF Exporters
<1>5. Unseen \in [Threads -> Nat] /\ Unread \in [Threads -> Seq(Parsed)] /\ \A t \in Threads : Unseen[t] = 0 /\ Unread[t] = <<>>
  BY DEF Unseen, Unread
<1>6. ExporterTypeOK
  BY <1>2, <1>4, <1>5 DEF ExporterTypeOK
<1>7. ViewsAreOfFiles
  BY <1>1, <1>2, <1>5, NothingIsAView DEF ViewsAreOfFiles
<1>8. ParentsAreRead /\ EndedTurnsRest
  BY <1>4 DEF ParentsAreRead, EndedTurnsRest, Reading, Sending, Exporters
<1>9. SpansAreTrue /\ BatchesAreNew
  BY <1>2, <1>3, FS_EmptySet DEF SpansAreTrue, BatchesAreNew
<1>10. RootsAreLast /\ SentOnce
  BY <1>2 DEF RootsAreLast, SentOnce
<1>11. ReceivedIsKnown
  BY <1>2, <1>3 DEF ReceivedIsKnown, Underway
<1> QED BY <1>1, <1>6, <1>7, <1>8, <1>9, <1>10, <1>11 DEF LiveInv

LEMMA LiveKeeps == LiveInv /\ [Next]_vars => LiveInv'
<1> SUFFICES ASSUME LiveInv, [Next]_vars PROVE LiveInv'
  OBVIOUS
<1>1. CASE UNCHANGED vars
  <2>1. UNCHANGED <<codex, exporter, ledger, received, doubts>>
    BY <1>1 DEF vars
  <2>2. /\ UNCHANGED <<codex, script, next, size, parsed, now, alive, stops>>
        /\ UNCHANGED <<lock, pc, left, key, view, held, stale, batches, ledger, received, doubts>>
    BY <2>1 DEF codex, exporter
  <2>3. CodexInv /\ ExporterTypeOK /\ ViewsAreOfFiles /\ ParentsAreRead /\ EndedTurnsRest
        /\ SpansAreTrue /\ BatchesAreNew /\ RootsAreLast /\ ReceivedIsKnown /\ SentOnce
    BY DEF LiveInv
  <2>4. /\ CodexInv' /\ TurnsNow' = TurnsNow
        /\ \A t \in Threads : Spawners(TurnsNow, t, 1)' = Spawners(TurnsNow, t, 1) /\ IsMain(t)' = IsMain(t)
        /\ \A t \in Threads : Turns(t)' = Turns(t) /\ AtTurnEnd(t)' = AtTurnEnd(t) /\ size'[t] = size[t]
        /\ \A s : SpanHolds(s) => SpanHolds(s)' /\ TurnIds(s)' = TurnIds(s)
    BY <2>2, <2>3, TruthRests
  <2>5. Received' = Received /\ NextBatch' = NextBatch /\ \A t : IsNext(t)' = IsNext(t) /\ IsSentNext(t)' = IsSentNext(t)
    BY <2>2 DEF Received, NextBatch, IsNext, IsSentNext, IsMain
  <2>6. ExporterTypeOK'
    BY <2>2, <2>3, <2>5 DEF ExporterTypeOK
  <2>7. ViewsAreOfFiles'
    BY <2>2, <2>3, <2>4, <2>5 DEF ViewsAreOfFiles
  <2>8. ParentsAreRead'
    <3>1. \A e \in Exporters : \A t \in Threads : Caught(e, t)' = Caught(e, t)
      BY <2>2, <2>4 DEF Caught
    <3> QED BY <2>2, <2>3, <2>4, <2>5, <3>1 DEF ParentsAreRead
  <2>9. EndedTurnsRest'
    BY <2>2, <2>3, <2>4 DEF EndedTurnsRest
  <2>10. \A s \in Received \cup batches : SpanHolds(s)
    BY <2>3 DEF SpansAreTrue, SpanHolds
  <2>11. SpansAreTrue'
    BY <2>2, <2>4, <2>5, <2>10 DEF SpansAreTrue, SpanHolds
  <2>12. BatchesAreNew'
    BY <2>2, <2>3, <2>4, <2>5, <2>10 DEF BatchesAreNew
  <2>13. RootsAreLast'
    <3>1. \A i \in DOMAIN received : \A s \in received[i] : SpanHolds(s)
      BY <2>10 DEF Received
    <3> QED BY <2>2, <2>3, <2>4, <3>1 DEF RootsAreLast, Arrived
  <2>14. ReceivedIsKnown'
    BY <2>2, <2>3, <2>5 DEF ReceivedIsKnown, Underway
  <2>15. SentOnce'
    BY <2>2, <2>3 DEF SentOnce
  <2> QED BY <2>4, <2>6, <2>7, <2>8, <2>9, <2>11, <2>12, <2>13, <2>14, <2>15 DEF LiveInv
<1>2. CASE \E t \in Threads : StartCodex(t) \/ StopCodex(t) \/ Write(t)
  BY <1>2, CodexKeeps
<1>3. ASSUME NEW e \in Exporters, Read(e) PROVE LiveInv'
  BY <1>3, BeginPassKeeps, LookKeeps, StatKeeps, ParseFileKeeps, CacheFileKeeps DEF Read
<1>4. ASSUME NEW e \in Exporters, Send(e) PROVE LiveInv'
  BY <1>4, AcceptedKeeps, EndPassKeeps, StartThreadKeeps, RecordKeeps, NextThreadKeeps DEF Send
<1>5. ASSUME NEW e \in Exporters, Rejected(e) \/ Fails(e) PROVE LiveInv'
  BY <1>5, CrashKeeps, NextThreadKeeps DEF Rejected, Fails
<1> QED BY <1>1, <1>2, <1>3, <1>4, <1>5 DEF Next

----------------------------------------------------------------------------
(* The live exporter: its traces are true *)

\* What is true of a turn is what it says as if it ended here.
IsTheTruth(o, t, n, p) ==
  /\ IsTraced(TurnsNow, t, n) /\ p \in Observations(Turns(t)[n], TRUE)
  /\ o = Span(t, Turns(t)[n], n, Trace(TurnsNow, t, n), p, n = Len(Turns(t)) /\ Turns(t)[n].end = None /\ t \in stale)

LEMMA TruthIs ==
  ASSUME CodexInv
  PROVE  \A o : o \in Truth <=> \E t \in Threads : \E n \in DOMAIN Turns(t) : \E p : IsTheTruth(o, t, n, p)
<1>1. ASSUME NEW t \in Threads, NEW n \in DOMAIN Turns(t), NEW o
      PROVE  o \in Spans(TurnsNow, t, n, TRUE) <=> \E p : IsTheTruth(o, t, n, p)
  <2> DEFINE last == TRUE /\ n = Len(Turns(t))
             cut == last /\ Turns(t)[n].end = None /\ t \in stale
  <2>1. TurnsNow[t] = Turns(t)
    BY DEF TurnsNow
  <2>2. Observations(Turns(t)[n], last) = Observations(Turns(t)[n], TRUE)
    <3>1. CASE n = Len(Turns(t))
      BY <3>1
    <3>2. CASE n # Len(Turns(t))
      <4>1. Turns(t)[n].end # None
        BY <3>2, TurnIs DEF TurnsFollow
      <4> QED BY <4>1, EndedIsWhole
    <3> QED BY <3>1, <3>2
  <2>3. Spans(TurnsNow, t, n, TRUE) =
          {Span(t, Turns(t)[n], n, Trace(TurnsNow, t, n), p, cut) :
             p \in {p \in Observations(Turns(t)[n], last) : IsTraced(TurnsNow, t, n)}}
    BY <2>1 DEF Spans
  <2>4. cut = (n = Len(Turns(t)) /\ Turns(t)[n].end = None /\ t \in stale)
    OBVIOUS
  <2> HIDE DEF last, cut
  <2> QED BY <2>2, <2>3, <2>4 DEF IsTheTruth
<1>2. \A o : o \in Truth <=> \E t \in Threads : \E n \in DOMAIN Turns(t) : o \in Spans(TurnsNow, t, n, TRUE)
  <2> DEFINE Of(t) == UNION {Spans(TurnsNow, t, n, TRUE) : n \in DOMAIN Turns(t)}
  <2>1. Truth = UNION {Of(t) : t \in Threads}
    BY Zenon DEF Truth
  <2>2. \A t, o : o \in Of(t) <=> \E n \in DOMAIN Turns(t) : o \in Spans(TurnsNow, t, n, TRUE)
    OBVIOUS
  <2> HIDE DEF Of
  <2>3. \A o : o \in UNION {Of(t) : t \in Threads} <=> \E t \in Threads : o \in Of(t)
    OBVIOUS
  <2> QED BY <2>1, <2>2, <2>3
<1> QED BY <1>1, <1>2

LEMMA WhatIsSentIsFinal ==
  ASSUME LiveInv
  PROVE  SentIsFinal
<1>1. CodexInv /\ SpansAreTrue
  BY DEF LiveInv
<1> SUFFICES ASSUME NEW s \in Received, ~s.cut PROVE \E o \in Truth : o.id = s.id /\ Same(s.says, o.says)
  BY DEF SentIsFinal
<1>2. IsPlaced(s) /\ IsTrue(s)
  BY <1>1 DEF SpansAreTrue
<1>3. PICK t \in Threads : t = s.id[1]
  BY <1>2 DEF IsPlaced
<1>4. PICK n \in DOMAIN Turns(t) : n = s.turn
  BY <1>2, <1>3 DEF IsPlaced
<1>5. PICK turn \in Parsed : turn = Turns(t)[n]
  BY <1>1, TurnIs
<1>6. s.id = <<t, turn.id, s.id[3], s.id[4]>> /\ IsTraced(TurnsNow, t, n)
  BY <1>2, <1>3, <1>4, <1>5 DEF IsPlaced
<1> DEFINE p == Piece(s.id[3], s.id[4], s.says)
           The(q) == Span(t, turn, n, Trace(TurnsNow, t, n), q, n = Len(Turns(t)) /\ turn.end = None /\ t \in stale)
<1>7. \A q : q \in Observations(turn, TRUE) => The(q) \in Truth
  BY <1>1, <1>5, <1>6, TruthIs DEF IsTheTruth
<1>8. \A q : The(q).id = <<t, turn.id, q.kind, q.n>> /\ The(q).says = q.says
  BY SpanFields
<1>9. p.kind = s.id[3] /\ p.n = s.id[4] /\ p.says = s.says
  BY PieceFields
<1>10. p \in Observations(turn, Settled(t, n)) \/ (turn.end = "superseded" /\ p = RootOf(turn, "stopped"))
  BY <1>2, <1>3, <1>4, <1>5 DEF IsTrue, Tells
<1> HIDE DEF p, The
<1>11. CASE p \in Observations(turn, Settled(t, n))
  <2>1. p \in Observations(turn, TRUE)
    <3>1. Settled(t, n) \in BOOLEAN
      BY DEF Settled, AtTurnEnd
    <3>2. Observations(turn, FALSE) \subseteq Observations(turn, TRUE)
      BY GrowthOrder, CompleteStays
    <3>3. CASE Settled(t, n) = TRUE
      BY <1>11, <3>3
    <3>4. CASE Settled(t, n) = FALSE
      BY <1>11, <3>2, <3>4
    <3> QED BY <3>1, <3>3, <3>4
  <2>2. The(p) \in Truth /\ The(p).id = s.id /\ The(p).says = s.says
    BY <1>6, <1>7, <1>8, <1>9, <2>1
  <2> QED BY <2>2 DEF Same
<1>12. CASE turn.end = "superseded" /\ p = RootOf(turn, "stopped")
  <2> DEFINE q == RootOf(turn, "superseded")
  <2>1. q \in Observations(turn, TRUE)
    <3>1. EndOf(turn, TRUE) = "superseded" /\ "superseded" # None
      BY <1>12 DEF EndOf, None
    <3> QED BY <3>1, Observed DEF IsObserved
  <2>2. /\ q.kind = p.kind /\ q.n = p.n
        /\ q.says = [end |-> "superseded", prompt |-> turn.prompt, tools |-> Len(turn.tools)]
        /\ p.says = [end |-> "stopped", prompt |-> turn.prompt, tools |-> Len(turn.tools)]
    BY <1>12, RootFields
  <2> HIDE DEF q
  <2>3. The(q) \in Truth /\ The(q).id = s.id /\ The(q).says = q.says
    BY <1>6, <1>7, <1>8, <1>9, <2>1, <2>2
  <2>4. \A x, y : Same([end |-> "stopped", prompt |-> x, tools |-> y], [end |-> "superseded", prompt |-> x, tools |-> y])
    BY DEF Same
  <2>5. Same(s.says, q.says)
    BY <1>9, <2>2, <2>4
  <2> QED BY <2>3, <2>5
<1> QED BY <1>10, <1>11, <1>12

LEMMA RootsComeLast ==
  ASSUME LiveInv
  PROVE  RootIsLast
<1>1. CodexInv /\ SpansAreTrue /\ RootsAreLast
  BY DEF LiveInv
<1> SUFFICES ASSUME NEW i \in DOMAIN received, NEW root \in received[i], root.id[3] = "root", ~root.cut,
                    NEW o \in Truth, o.id[1] = root.id[1], o.id[2] = root.id[2]
             PROVE  \E j \in 1..i : o.id \in Ids(received[j])
  BY DEF RootIsLast
<1>2. IsPlaced(root) /\ TurnIds(root) \subseteq Arrived(i)
  BY <1>1 DEF SpansAreTrue, Received, RootsAreLast
<1>3. PICK t \in Threads : \E n \in DOMAIN Turns(t) : \E p : IsTheTruth(o, t, n, p)
  BY <1>1, TruthIs
<1>4. PICK n \in DOMAIN Turns(t) : \E p : IsTheTruth(o, t, n, p)
  BY <1>3
<1>5. PICK p : IsTheTruth(o, t, n, p)
  BY <1>4
<1>6. o.id = <<t, Turns(t)[n].id, p.kind, p.n>> /\ o.id[1] = t /\ o.id[2] = Turns(t)[n].id
  BY <1>5, SpanFields DEF IsTheTruth
<1>7. root.id[1] = t /\ root.turn \in DOMAIN Turns(t) /\ Turns(t)[root.turn].id = Turns(t)[n].id
  BY <1>2, <1>6 DEF IsPlaced
<1>8. root.turn = n
  BY <1>1, <1>7, TurnIs DEF TurnsFollow
<1>9. o.id \in TurnIds(root)
  BY <1>5, <1>6, <1>7, <1>8 DEF TurnIds, PieceIds, IsTheTruth
<1> QED BY <1>2, <1>9 DEF Arrived

LEMMA SpawnedJoins ==
  ASSUME LiveInv
  PROVE  JoinsItsSpawner
<1>1. CodexInv /\ SpansAreTrue
  BY DEF LiveInv
<1> SUFFICES ASSUME NEW s \in Received, s.id[2] = Turns(s.id[1])[1].id PROVE s.trace = Trace(TurnsNow, s.id[1], 1)
  BY DEF JoinsItsSpawner
<1>2. IsPlaced(s)
  BY <1>1 DEF SpansAreTrue
<1>3. PICK t \in Threads : t = s.id[1]
  BY <1>2 DEF IsPlaced
<1>4. s.turn \in DOMAIN Turns(t) /\ Turns(t)[s.turn].id = Turns(t)[1].id
  BY <1>2, <1>3 DEF IsPlaced
<1>5. 1 \in DOMAIN Turns(t)
  BY <1>1, <1>4, TurnIs
<1>6. s.turn = 1
  BY <1>1, <1>4, <1>5, TurnIs DEF TurnsFollow
<1> QED BY <1>2, <1>6 DEF IsPlaced

\* live_trace: what Langfuse has of the turns is final, arrives once and whole, in the
\* trace it belongs to, whatever Codex writes, whoever sends, and whatever is lost.
THEOREM TracesAreTrueHolds == Spec => []TracesAreTrue
<1>1. LiveInv => TracesAreTrue
  <2> SUFFICES ASSUME LiveInv PROVE TracesAreTrue
    OBVIOUS
  <2>1. SentOnce
    BY DEF LiveInv
  <2> QED BY <2>1, WhatIsSentIsFinal, RootsComeLast, SpawnedJoins
        DEF TracesAreTrue, SentOnceAndFinal, TracesHangTogether
<1> QED BY <1>1, LiveBegins, LiveKeeps, PTL DEF Spec
=============================================================================
