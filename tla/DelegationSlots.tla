------------------------- MODULE DelegationSlots -------------------------
(***************************************************************************)
(* AgentRuntime.delegation_slot, delegation_wait and _suspend_delegate     *)
(* (crux_scaffold/agent_runtimes/base.py): the asyncio.Condition that      *)
(* bounds the delegated calls of one runtime at delegation.max_concurrent. *)
(* A call nested in another one takes over its parent's slot; the parent   *)
(* is suspended until its last child ends.                                 *)
(*                                                                         *)
(* Python code runs without interruption from one await to the next, and   *)
(* the body of every "async with changed" awaits nothing but               *)
(* Condition.wait, so a critical section that finds its predicate true     *)
(* runs on through the next one: one action is everything a task does      *)
(* before it really waits.  In particular a child that ends releases its   *)
(* slot and gives it back to its parent in one step.                       *)
(***************************************************************************)
EXTENDS Naturals, FiniteSets

CONSTANTS Calls,   \* delegated calls; each is made at most once
          Limit,   \* delegation.max_concurrent
          NoCall   \* no delegated caller: the orchestrator, or background=True

ASSUME SlotAssumption ==
  /\ IsFiniteSet(Calls)
  /\ Limit \in Nat \ {0}
  /\ NoCall \notin Calls

VARIABLES
  pc,              \* where each call's task is
  kind,            \* "slot": delegation_slot; "wait": delegation_wait
  parent,          \* the call it suspends, or NoCall
  active,          \* the calls with _DelegateCall.active
  children,        \* _DelegateCall.children
  activeDelegates, \* AgentRuntime._active_delegates
  woken,           \* waiting tasks notified since they last tested their predicate
  cancelling       \* calls whose task has been cancelled (Task.cancelling())

vars == <<pc, kind, parent, active, children, activeDelegates, woken, cancelling>>

Init ==
  /\ pc = [c \in Calls |-> "idle"]
  /\ kind = [c \in Calls |-> "slot"]
  /\ parent = [c \in Calls |-> NoCall]
  /\ active = {}
  /\ children = [c \in Calls |-> 0]
  /\ activeDelegates = 0
  /\ woken = {}
  /\ cancelling = {}

Waiters == {c \in Calls : pc[c] \in {"acquiring", "resuming"}}

Open(c) == pc[c] \in {"acquiring", "running", "resuming"}

Closed(c) == pc[c] \in {"resuming", "done"}

ChildrenOf(p) == {c \in Calls : parent[c] = p /\ Open(c)}

\* What _suspend_delegate and the release subtract from the counter.
HeldBy(p) == IF p \in active THEN 1 ELSE 0

\* A call the running parent p may make: the orchestrator has no slot to give up.
MayCall(p) == p # NoCall => (pc[p] = "running" /\ kind[p] = "slot" /\ p \notin cancelling)

ChildAdded(p) == [q \in Calls |-> IF q = p THEN children[q] + 1 ELSE children[q]]

ChildRemoved(p) == [q \in Calls |-> IF q = p THEN children[q] - 1 ELSE children[q]]

\* notify_all, with the waiters there were before the step.
NotifyAll == woken' = Waiters

----------------------------------------------------------------------------
(* Entering *)

\* Fault: a nested call competes for a slot with the parent that awaits it.
CallWithoutSuspending(c, p) ==
  /\ pc[c] = "idle" /\ MayCall(p)
  /\ kind' = [kind EXCEPT ![c] = "slot"]
  /\ parent' = [parent EXCEPT ![c] = p]
  /\ children' = ChildAdded(p)
  /\ woken' = Waiters
  /\ IF activeDelegates < Limit
     THEN /\ pc' = [pc EXCEPT ![c] = "running"]
          /\ active' = active \cup {c} /\ activeDelegates' = activeDelegates + 1
     ELSE pc' = [pc EXCEPT ![c] = "acquiring"] /\ UNCHANGED <<active, activeDelegates>>
  /\ UNCHANGED cancelling

\* delegation_slot up to its first real wait: suspend the parent, then take a
\* slot at once if one is free, whoever else has been waiting for it.
CallDelegate(c, p) ==
  /\ pc[c] = "idle" /\ MayCall(p)
  /\ kind' = [kind EXCEPT ![c] = "slot"]
  /\ parent' = [parent EXCEPT ![c] = p]
  /\ children' = ChildAdded(p)
  /\ IF p = NoCall THEN UNCHANGED woken ELSE NotifyAll
  /\ \/ /\ activeDelegates - HeldBy(p) < Limit
        /\ pc' = [pc EXCEPT ![c] = "running"]
        /\ active' = (active \ {p}) \cup {c}
        /\ activeDelegates' = activeDelegates - HeldBy(p) + 1
     \/ /\ activeDelegates - HeldBy(p) >= Limit
        /\ pc' = [pc EXCEPT ![c] = "acquiring"]
        /\ active' = active \ {p}
        /\ activeDelegates' = activeDelegates - HeldBy(p)
  /\ UNCHANGED cancelling

\* delegation_wait: the caller gives its slot up and awaits another worker.
WaitForWorker(c, p) ==
  /\ pc[c] = "idle" /\ p # NoCall /\ MayCall(p)
  /\ kind' = [kind EXCEPT ![c] = "wait"]
  /\ parent' = [parent EXCEPT ![c] = p]
  /\ children' = ChildAdded(p)
  /\ NotifyAll
  /\ pc' = [pc EXCEPT ![c] = "running"]
  /\ active' = active \ {p}
  /\ activeDelegates' = activeDelegates - HeldBy(p)
  /\ UNCHANGED cancelling

\* A notified caller finds a free slot.
Acquire(c) ==
  /\ pc[c] = "acquiring" /\ c \in woken /\ c \notin cancelling
  /\ activeDelegates < Limit
  /\ pc' = [pc EXCEPT ![c] = "running"]
  /\ active' = active \cup {c}
  /\ activeDelegates' = activeDelegates + 1
  /\ woken' = woken \ {c}
  /\ UNCHANGED <<kind, parent, children, cancelling>>

----------------------------------------------------------------------------
(* Leaving *)

\* The reasons for which an ending child leaves its parent as it is, when the
\* parent is left with n children and the slots with the holders act.
LeavesParent(p, n, act) == Closed(p) \/ p \in cancelling \/ n > 0 \/ p \in act

\* Fault: the parent is reactivated whether or not a slot is free.
LeaveUnbounded(c, act, n) ==
  LET p == parent[c]
  IN  /\ children' = ChildRemoved(p)
      /\ pc' = [pc EXCEPT ![c] = "done"]
      /\ IF p # NoCall /\ ~LeavesParent(p, children[p] - 1, act)
         THEN active' = act \cup {p} /\ activeDelegates' = n + 1
         ELSE active' = act /\ activeDelegates' = n
      /\ UNCHANGED <<kind, parent>>

\* The end of delegation_slot or delegation_wait for c, once its own slot is
\* released and the slots have the holders act, n of them: leave the parent
\* alone, reactivate it, or wait for a slot for it.
Leave(c, act, n) ==
  LET p == parent[c]
  IN  /\ children' = ChildRemoved(p)
      /\ \/ /\ p # NoCall => LeavesParent(p, children[p] - 1, act)
            /\ pc' = [pc EXCEPT ![c] = "done"]
            /\ active' = act
            /\ activeDelegates' = n
         \/ /\ p # NoCall /\ ~LeavesParent(p, children[p] - 1, act)
            /\ n < Limit
            /\ pc' = [pc EXCEPT ![c] = "done"]
            /\ active' = act \cup {p}
            /\ activeDelegates' = n + 1
         \/ /\ p # NoCall /\ ~LeavesParent(p, children[p] - 1, act)
            /\ n >= Limit
            /\ pc' = [pc EXCEPT ![c] = "resuming"]
            /\ active' = act
            /\ activeDelegates' = n
      /\ UNCHANGED <<kind, parent>>

\* The body of a call ends once the tool calls it made have ended.
Finish(c) ==
  /\ pc[c] = "running" /\ ChildrenOf(c) = {}
  /\ Leave(c, active \ {c}, activeDelegates - HeldBy(c))
  /\ NotifyAll
  /\ UNCHANGED cancelling

\* The body fails or is cancelled while tool calls it made are still open.
Abort(c) ==
  /\ pc[c] = "running" /\ ChildrenOf(c) # {}
  /\ Leave(c, active \ {c}, activeDelegates - HeldBy(c))
  /\ NotifyAll
  /\ UNCHANGED cancelling

\* CancelledError out of the wait for a slot: no slot was taken.
CancelAcquire(c) ==
  /\ pc[c] = "acquiring" /\ c \in cancelling
  /\ Leave(c, active, activeDelegates)
  /\ woken' = (IF parent[c] = NoCall THEN woken ELSE Waiters) \ {c}
  /\ UNCHANGED cancelling

\* A notified child that was waiting for a slot for its parent ends: either
\* nothing is left to do for the parent, or it is given a slot.
Resume(c) ==
  LET p == parent[c]
  IN  /\ pc[c] = "resuming" /\ c \in woken /\ c \notin cancelling
      /\ pc' = [pc EXCEPT ![c] = "done"]
      /\ \/ /\ LeavesParent(p, children[p], active)
            /\ woken' = woken \ {c}
            /\ UNCHANGED <<active, activeDelegates>>
         \/ /\ ~LeavesParent(p, children[p], active)
            /\ activeDelegates < Limit
            /\ active' = active \cup {p}
            /\ activeDelegates' = activeDelegates + 1
            /\ woken' = Waiters \ {c}
      /\ UNCHANGED <<kind, parent, children, cancelling>>

\* CancelledError out of that wait.
CancelResume(c) ==
  /\ pc[c] = "resuming" /\ c \in cancelling
  /\ pc' = [pc EXCEPT ![c] = "done"]
  /\ woken' = woken \ {c}
  /\ UNCHANGED <<kind, parent, active, children, activeDelegates, cancelling>>

----------------------------------------------------------------------------

\* A notified task finds its predicate false and waits again.
Sleep(c) ==
  /\ c \in woken /\ c \notin cancelling /\ activeDelegates >= Limit
  /\ pc[c] = "resuming" => ~LeavesParent(parent[c], children[parent[c]], active)
  /\ woken' = woken \ {c}
  /\ UNCHANGED <<pc, kind, parent, active, children, activeDelegates, cancelling>>

\* Task.cancel(): stop() and the end of a run cancel an outermost call, and the
\* cancellation reaches the tool calls it awaits.
Cancel(c) ==
  /\ Open(c) /\ c \notin cancelling
  /\ parent[c] = NoCall \/ parent[c] \in cancelling
  /\ cancelling' = cancelling \cup {c}
  /\ UNCHANGED <<pc, kind, parent, active, children, activeDelegates, woken>>

Terminated == (\A c \in Calls : pc[c] = "done") /\ UNCHANGED vars

Step(c) ==
  \/ Acquire(c) \/ Finish(c) \/ Abort(c) \/ CancelAcquire(c)
  \/ Resume(c) \/ CancelResume(c) \/ Sleep(c) \/ Cancel(c)

Next ==
  \/ \E c \in Calls, p \in Calls \cup {NoCall} : CallDelegate(c, p) \/ WaitForWorker(c, p)
  \/ \E c \in Calls : Step(c)
  \/ Terminated

Spec == Init /\ [][Next]_vars

\* The event loop runs every task that can run, every delegated body ends
\* (agents have a turn limit), and a cancellation reaches the nested calls.
Fairness ==
  \A c \in Calls :
    /\ WF_vars(Finish(c) \/ Acquire(c) \/ Resume(c) \/ Sleep(c) \/ CancelAcquire(c) \/ CancelResume(c))
    /\ WF_vars(parent[c] \in cancelling /\ Cancel(c))
    /\ WF_vars(c \in cancelling /\ Abort(c))

FairSpec == Spec /\ Fairness

----------------------------------------------------------------------------
\* Every variable keeps its type: a call suspends at most one other, and neither
\* the counter of the runtime nor a call's count of children drops below zero.
TypeOK ==
  /\ pc \in [Calls -> {"idle", "acquiring", "running", "resuming", "done"}]
  /\ kind \in [Calls -> {"slot", "wait"}]
  /\ parent \in [Calls -> Calls \cup {NoCall}]
  /\ active \in SUBSET Calls
  /\ children \in [Calls -> Nat]
  /\ activeDelegates \in Nat
  /\ woken \in SUBSET Calls
  /\ cancelling \in SUBSET Calls

\* The counter _active_delegates always equals the number of calls that hold a
\* slot, through nesting, failures and cancellations, and never passes the limit.
Capacity == activeDelegates = Cardinality(active) /\ activeDelegates <= Limit

\* A slot is held only by a call that is in its body with no nested call keeping
\* it suspended: a suspended parent and a closed call hold none.
OnlyRunningHolds ==
  \A c \in active : pc[c] = "running" /\ kind[c] = "slot" /\ children[c] = 0

\* What an operator means by max_concurrent: the calls that are working on their
\* own turn, rather than awaiting a nested call, never exceed the limit.
Working == {c \in Calls : /\ pc[c] = "running" /\ kind[c] = "slot"
                          /\ c \notin cancelling /\ ChildrenOf(c) = {}}
WorkingBounded == Working \subseteq active /\ Cardinality(Working) <= Limit

\* No lost wake-up: a task that sleeps on the condition has nothing it could do,
\* unless its parent was just cancelled and the cancellation is on its way to it.
NoLostWakeup ==
  \A c \in Waiters \ woken :
    \/ activeDelegates >= Limit
       /\ (pc[c] = "resuming" => ~LeavesParent(parent[c], children[parent[c]], active))
    \/ parent[c] \in cancelling

\* Nesting never deadlocks, even with one slot: every call that is made ends, that
\* is, as each is made at most once, the time comes when no call is open any more.
EveryCallEnds == <>[](\A c \in Calls : ~Open(c))

\* base.py: through nesting, failure and cancellation, the counter is true and within
\* the limit, so are the delegates at work, and nobody sleeps through a free slot.
SlotsAreKept == TypeOK /\ Capacity /\ WorkingBounded /\ NoLostWakeup
=============================================================================
