----------------------------- MODULE Steering -----------------------------
(***************************************************************************)
(* Operator steering: the durable inbox and escalation outbox of           *)
(* crux_scaffold/steering.py, the delivery of pending messages at a model  *)
(* boundary (_select_input of openai_agents_sdk.py) and the polls of a     *)
(* resting tool (RunContext.wait of workspace.py).                         *)
(*                                                                         *)
(* The state is saved whole, and wherever it changed before anything is    *)
(* awaited, so that the file and the memory of a running process agree     *)
(* between steps.  Slack is external.  Timestamps count messages: 1, 2 ... *)
(***************************************************************************)
EXTENDS Naturals, Sequences, FiniteSets

CONSTANTS
  Resters,      \* tool calls that rest and poll
  Escalators,   \* tool calls that escalate
  Requests,     \* request ids
  Bodies,       \* what an escalation may say
  PageSize,     \* messages on a page of the MCP server
  MaxPages,     \* the option max_pages
  MaxMessages,  \* bound: messages in the channel
  MaxCrashes    \* bound: restarts

Boundary == "boundary"   \* the orchestrator's model boundary
Pollers == {Boundary} \cup Resters
Users == Pollers \cup Escalators
Nil == "none"

ASSUME SteeringAssumption ==
  /\ PageSize \in Nat \ {0} /\ {MaxPages, MaxMessages, MaxCrashes} \subseteq Nat
  /\ Resters \cap Escalators = {} /\ Boundary \notin Resters \cup Escalators /\ Nil \notin Users

VARIABLES
  threaded,   \* whether the options name a thread, in which the operators reply
  sent,       \* messages in the channel or thread
  steering,   \* those of allowlisted operators and in scope
  posts,      \* how often each request was posted to Slack
  cursor, inbox, delivered, status, outbox,  \* steering.json
  session,    \* steering envelopes in the orchestrator's session
  lock,       \* holder of the lock
  pc,         \* where each user is
  scan,       \* the pages the holder has read
  asked,      \* the request of each escalating call
  batch,      \* what the boundary has yet to deliver
  crashes

slack == <<threaded, sent, steering, posts>>
file == <<cursor, inbox, delivered, status, outbox>>
steeringVars == <<slack, file, session, lock, pc, scan, asked, batch, crashes>>

NoEntry == [body |-> Nil, status |-> Nil]
NoAsk == [request |-> Nil, body |-> Nil]
NoScan == [pages |-> 0, got |-> {}, next |-> 0]

SteeringInit ==
  /\ threaded \in BOOLEAN
  /\ sent = 0 /\ steering = {} /\ posts = [r \in Requests |-> 0]
  /\ cursor = 0 /\ inbox = <<>> /\ delivered = {} /\ status = "new"
  /\ outbox = [r \in Requests |-> NoEntry]
  /\ session = <<>>
  /\ lock = Nil /\ pc = [u \in Users |-> "idle"] /\ scan = NoScan
  /\ asked = [e \in Escalators |-> NoAsk]
  /\ batch = <<>> /\ crashes = 0

Members(s) == {s[i] : i \in 1..Len(s)}

\* The elements of s that are in S, in their order.
Kept(s, S) ==
  LET kept[n \in 0..Len(s)] == IF n = 0 THEN <<>>
                               ELSE IF s[n] \in S THEN Append(kept[n - 1], s[n]) ELSE kept[n - 1]
  IN  kept[Len(s)]

----------------------------------------------------------------------------
(* Slack: a message is written, by an operator in scope or by someone else. *)

Write ==
  /\ sent < MaxMessages
  /\ sent' = sent + 1
  /\ steering' \in {steering, steering \cup {sent + 1}}
  /\ UNCHANGED <<threaded, posts, file, session, lock, pc, scan, asked, batch, crashes>>

\* A page of the channel is newest first and of a thread oldest first, and its
\* cursor goes on from the last message; the last page has none.
Page ==
  IF threaded
  THEN {m \in 1..sent : m > scan.next /\ m <= scan.next + PageSize}
  ELSE LET top == IF scan.pages = 0 THEN sent ELSE scan.next - 1
       IN  {m \in 1..sent : m <= top /\ m + PageSize > top}

MorePages == IF threaded THEN Page # {} /\ \A m \in Page : m < sent
             ELSE Page # {} /\ \A m \in Page : m > 1

----------------------------------------------------------------------------
(* Steering.poll *)

Waits(u, where) == pc[u] = "idle" /\ pc' = [pc EXCEPT ![u] = where]

WantPoll(p) ==
  /\ Waits(p, "lock")
  /\ UNCHANGED <<slack, file, session, lock, scan, asked, batch, crashes>>

StartScan(p) ==
  /\ pc[p] = "lock" /\ lock = Nil
  /\ lock' = p /\ scan' = NoScan
  /\ pc' = [pc EXCEPT ![p] = "scan"]
  /\ UNCHANGED <<slack, file, session, asked, batch, crashes>>

\* What a poll leaves its caller with: the boundary delivers what is pending, a
\* rest goes on with its chunk of sleep or wakes.
EndPoll(p) ==
  /\ lock' = Nil /\ scan' = NoScan
  /\ pc' = [pc EXCEPT ![p] = IF p = Boundary THEN "deliver" ELSE "idle"]
  /\ batch' = IF p = Boundary THEN Kept(inbox', Members(inbox') \ delivered) ELSE batch
  /\ UNCHANGED <<slack, delivered, outbox, session, asked, crashes>>

\* Messages by timestamp.
Sorted(messages) == Kept([m \in 1..sent |-> m], messages)

\* The new messages of operators, by timestamp.
Added(got) ==
  Sorted({m \in got \cap steering : m > cursor /\ m \notin Members(inbox)})

Newest(got) == CHOOSE m \in got \cup {cursor} : \A n \in got \cup {cursor} : n <= m

\* More pages than max_pages allows: the cursor stays.
ScanIncomplete(p) ==
  /\ pc[p] = "scan" /\ scan.pages = MaxPages
  /\ status' = "scan_incomplete"
  /\ UNCHANGED <<cursor, inbox>>
  /\ EndPoll(p)

\* Fault: without a thread, one page is enough.
Fault_LastPage == ~threaded \/ ~MorePages

\* Nothing follows the page, or in a channel it reaches what was read before.
LastPage == ~MorePages \/ (~threaded /\ \E m \in Page : m <= cursor)

ReadPage(p) ==
  /\ pc[p] = "scan" /\ scan.pages < MaxPages
  /\ IF LastPage
     THEN LET got == scan.got \cup Page
          IN  /\ inbox' = inbox \o Added(got)
              /\ cursor' = Newest(got)
              /\ status' = "ok"
              /\ EndPoll(p)
     ELSE /\ scan' = [pages |-> scan.pages + 1, got |-> scan.got \cup Page,
                      next |-> CHOOSE m \in Page : \A n \in Page : IF threaded THEN n <= m ELSE n >= m]
          /\ UNCHANGED <<slack, file, session, lock, pc, asked, batch, crashes>>

\* A read fails, or answers something that is not the expected CSV.
ReadFails(p) ==
  /\ pc[p] = "scan" /\ scan.pages < MaxPages
  /\ status' = "read_failed"
  /\ UNCHANGED <<cursor, inbox>>
  /\ EndPoll(p)

----------------------------------------------------------------------------
(* Delivery at the model boundary *)

\* Fault: the session is not asked first.
Fault_AddEnvelope ==
  /\ pc[Boundary] = "deliver" /\ batch # <<>>
  /\ session' = Append(session, Head(batch))
  /\ pc' = [pc EXCEPT ![Boundary] = "mark"]
  /\ UNCHANGED <<slack, file, lock, scan, asked, batch, crashes>>

\* The envelope is added to the session, unless it is there already ...
AddEnvelope ==
  /\ pc[Boundary] = "deliver" /\ batch # <<>>
  /\ session' = IF Head(batch) \in Members(session) THEN session ELSE Append(session, Head(batch))
  /\ pc' = [pc EXCEPT ![Boundary] = "mark"]
  /\ UNCHANGED <<slack, file, lock, scan, asked, batch, crashes>>

\* ... and the message marked delivered.
MarkDelivered ==
  /\ pc[Boundary] = "mark"
  /\ delivered' = delivered \cup {Head(batch)}
  /\ batch' = Tail(batch)
  /\ pc' = [pc EXCEPT ![Boundary] = "deliver"]
  /\ UNCHANGED <<slack, cursor, inbox, status, outbox, session, lock, scan, asked, crashes>>

\* The model call and the tools it asks for; then comes the next boundary.
CallModel ==
  /\ pc[Boundary] = "deliver" /\ batch = <<>>
  /\ pc' = [pc EXCEPT ![Boundary] = "idle"]
  /\ UNCHANGED <<slack, file, session, lock, scan, asked, batch, crashes>>

----------------------------------------------------------------------------
(* Steering.escalate *)

WantEscalate(e, r, b) ==
  /\ Waits(e, "lock")
  /\ asked' = [asked EXCEPT ![e] = [request |-> r, body |-> b]]
  /\ UNCHANGED <<slack, file, session, lock, scan, batch, crashes>>

Entry(e) == outbox[asked[e].request]

\* A request id that is known is answered, or refused if it says another thing.
Answer(e) ==
  /\ pc[e] = "lock" /\ lock = Nil /\ Entry(e) # NoEntry
  /\ pc' = [pc EXCEPT ![e] = "idle"]
  /\ asked' = [asked EXCEPT ![e] = NoAsk]
  /\ UNCHANGED <<slack, file, session, lock, scan, batch, crashes>>

\* Fault: the entry is kept in memory until its outcome is known.
Fault_Recorded(e) == UNCHANGED outbox

\* The entry is saved before anything is sent.
Recorded(e) ==
  outbox' = [outbox EXCEPT ![asked[e].request] = [body |-> asked[e].body, status |-> "sending"]]

Escalate(e) ==
  /\ pc[e] = "lock" /\ lock = Nil /\ Entry(e) = NoEntry
  /\ lock' = e
  /\ Recorded(e)
  /\ pc' = [pc EXCEPT ![e] = "sending"]
  /\ UNCHANGED <<slack, cursor, inbox, delivered, status, session, scan, asked, batch, crashes>>

\* Slack posts the message; whether the answer arrives is another matter.
Posted(e) ==
  /\ pc[e] = "sending"
  /\ posts' = [posts EXCEPT ![asked[e].request] = @ + 1]
  /\ pc' = [pc EXCEPT ![e] = "posted"]
  /\ UNCHANGED <<threaded, sent, steering, file, session, lock, scan, asked, batch, crashes>>

\* What the transport may report: an error of the MCP server, which may come
\* after Slack took the message, or its own.
Outcomes(e) == {"rejected", "uncertain"} \cup (IF pc[e] = "posted" THEN {"posted"} ELSE {})

Settle(e) ==
  /\ pc[e] \in {"sending", "posted"}
  /\ \E outcome \in Outcomes(e) :
       outbox' = [outbox EXCEPT ![asked[e].request] = [body |-> asked[e].body, status |-> outcome]]
  /\ lock' = Nil
  /\ pc' = [pc EXCEPT ![e] = "idle"]
  /\ asked' = [asked EXCEPT ![e] = NoAsk]
  /\ UNCHANGED <<slack, cursor, inbox, delivered, status, session, scan, batch, crashes>>

\* The delegate that rests or escalates is interrupted: the lock is let go, a
\* scan changes nothing, and an entry keeps saying that it is being sent.
CancelTool(u) ==
  /\ u # Boundary /\ pc[u] # "idle"
  /\ pc' = [pc EXCEPT ![u] = "idle"]
  /\ IF lock = u THEN lock' = Nil /\ scan' = NoScan ELSE UNCHANGED <<lock, scan>>
  /\ asked' = [e \in Escalators |-> IF e = u THEN NoAsk ELSE asked[e]]
  /\ UNCHANGED <<slack, file, session, batch, crashes>>

----------------------------------------------------------------------------
(* A crash or a stop at any await, a failed delivery, which ends the process, *)
(* and the next start, which cannot know what became of what was being sent.  *)

\* The outbox a process starts with: what was being sent may have been posted.
Loaded == [r \in Requests |-> IF outbox[r].status = "sending"
                              THEN [outbox[r] EXCEPT !.status = "uncertain"] ELSE outbox[r]]

StartAgain ==
  /\ crashes < MaxCrashes /\ crashes' = crashes + 1
  /\ outbox' = Loaded
  /\ lock' = Nil /\ pc' = [u \in Users |-> "idle"] /\ scan' = NoScan
  /\ asked' = [e \in Escalators |-> NoAsk]
  /\ batch' = <<>>

Crash == StartAgain /\ UNCHANGED <<slack, cursor, inbox, delivered, status, session>>

DeliveryFails ==
  /\ pc[Boundary] \in {"deliver", "mark"} /\ batch # <<>>
  /\ status' = "delivery_failed"
  /\ StartAgain
  /\ UNCHANGED <<slack, cursor, inbox, delivered, session>>

----------------------------------------------------------------------------

Poll(p) == StartScan(p) \/ ReadPage(p) \/ ReadFails(p) \/ ScanIncomplete(p)

Deliver == AddEnvelope \/ MarkDelivered \/ CallModel

Escalation(e) == Answer(e) \/ Escalate(e) \/ Posted(e) \/ Settle(e)

SteeringNext ==
  \/ Write \/ Deliver \/ DeliveryFails \/ Crash
  \/ \E p \in Pollers : WantPoll(p) \/ Poll(p)
  \/ \E u \in Users : CancelTool(u)
  \/ \E e \in Escalators : Escalation(e) \/ \E r \in Requests, b \in Bodies : WantEscalate(e, r, b)

SteeringSpec == SteeringInit /\ [][SteeringNext]_steeringVars

\* Boundaries recur while a run lasts, awaited calls return, the lock is fair
\* (asyncio.Lock is first come, first served), and a page that is asked for again
\* and again is read at some time.
Fairness ==
  /\ WF_steeringVars(WantPoll(Boundary)) /\ SF_steeringVars(StartScan(Boundary)) /\ WF_steeringVars(Deliver)
  /\ \A p \in Pollers : WF_steeringVars(ReadPage(p) \/ ReadFails(p) \/ ScanIncomplete(p))
  /\ \A n \in 0..MaxPages - 1 : SF_steeringVars(scan.pages = n /\ ReadPage(Boundary))
  /\ \A e \in Escalators : WF_steeringVars(Settle(e))

FairSteeringSpec == SteeringSpec /\ Fairness

----------------------------------------------------------------------------
(* Properties *)

\* Every variable keeps its type, and only the holder of the lock scans or sends.
SteeringTypeOK ==
  /\ threaded \in BOOLEAN /\ sent \in 0..MaxMessages /\ steering \subseteq 1..sent
  /\ posts \in [Requests -> Nat]
  /\ cursor \in 0..sent /\ inbox \in Seq(steering) /\ delivered \subseteq Members(inbox)
  /\ status \in {"new", "ok", "read_failed", "scan_incomplete", "delivery_failed"}
  /\ outbox \in [Requests -> [body : Bodies \cup {Nil},
                              status : {Nil, "sending", "posted", "rejected", "uncertain"}]]
  /\ session \in Seq(steering) /\ batch \in Seq(steering)
  /\ \A u \in Users : (pc[u] \in {"scan", "sending", "posted"}) = (lock = u)
  /\ scan # NoScan => lock \in Pollers
  /\ asked \in [Escalators -> {NoAsk} \cup [request : Requests, body : Bodies]]
  /\ crashes \in 0..MaxCrashes

\* An escalation reaches the channel at most once per request id, whatever is
\* retried, times out, or crashes while it is being sent.
PostedOnce == \A r \in Requests : posts[r] <= 1

\* The outbox vouches for Slack: a request id that may still be sent was never
\* posted, and one that is called posted was.
OutboxIsTrue ==
  \A r \in Requests :
    /\ outbox[r] = NoEntry => posts[r] = 0
    /\ outbox[r].status = "posted" => posts[r] = 1

\* Everything an operator wrote up to the cursor is in the inbox: no poll that
\* fails, is cut short, or overlaps new messages leaves a message behind.
NothingSkipped == \A m \in steering : m <= cursor => m \in Members(inbox)

\* The session receives the operators' messages once each and in order.
Channel == INSTANCE SteeringChannel
             WITH Messages <- 1..MaxMessages,
                  written <- Sorted(steering),
                  received <- session
ChannelSpec == Channel!Spec

\* A message of an operator reaches the session, unless there are more pages
\* than max_pages lets a poll read, which the status tells.
MessagesArrive ==
  \A m \in 1..MaxMessages :
    m \in steering ~> m \in Members(session) \/ status = "scan_incomplete"

\* steering.py: an escalation is posted at most once, the outbox vouches for Slack, and
\* no poll leaves a message behind.
SteeringIsTrue == SteeringTypeOK /\ PostedOnce /\ OutboxIsTrue /\ NothingSkipped
=============================================================================
