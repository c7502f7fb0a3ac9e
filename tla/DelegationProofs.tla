--------------------------- MODULE DelegationProofs ---------------------------
(***************************************************************************)
(* Proofs about delegation.                                                *)
(*                                                                         *)
(* DelegationSlots, for every finite set of calls and every limit.  The    *)
(* inductive invariant is IInv: the capacity invariant needs to know who   *)
(* may hold a slot (OnlyRunningHolds), that in turn what children counts   *)
(* (ChildrenCounted), and both the shape of the nesting (CallTree).        *)
(*                                                                         *)
(* DelegateTasks.  For any number of calls at a time the tables keep their *)
(* types, and a receipt follows the session (Handed).  For one call at a   *)
(* time, what the PI is told is true: a row says running while its         *)
(* conversation is live, or until the call that ended it looks (Told),     *)
(* such a row is the latest of its name and not collected (Held), and      *)
(* nothing but a call of a running turn ends one (Asked).  With that,      *)
(* every step is one of DelegateBoard, or changes nothing there.           *)
(***************************************************************************)
EXTENDS DelegationSlots, DelegateTasks, FiniteSetTheorems, TLAPS

\* children is the number of nested calls that still keep their parent suspended:
\* no exit path of _suspend_delegate, cancelled or not, forgets or repeats its
\* decrement.
Suspending(p) == {c \in Calls : parent[c] = p /\ pc[c] \in {"acquiring", "running"}}
ChildrenCounted == \A p \in Calls : children[p] = Cardinality(Suspending(p))

\* The nesting is a tree whose inner calls have all held a slot, a task waits to
\* resume a parent only if it has one, and a cancelled nested call has a
\* cancelled parent.
CallTree ==
  \A c \in Calls :
    /\ parent[c] # NoCall =>
         /\ parent[c] # c /\ pc[c] # "idle"
         /\ pc[parent[c]] \in {"running", "resuming", "done"}
         /\ kind[parent[c]] = "slot"
         /\ c \in cancelling => parent[c] \in cancelling
    /\ pc[c] = "resuming" => parent[c] # NoCall
    /\ pc[c] = "acquiring" => kind[c] = "slot"
    /\ pc[c] = "idle" => c \notin cancelling

IInv == TypeOK /\ Capacity /\ OnlyRunningHolds /\ ChildrenCounted /\ CallTree

\* How a slot is taken: the counter and the set grow together.
LEMMA HolderAdded ==
  ASSUME NEW A \in SUBSET Calls, NEW c \in Calls \ A
  PROVE  Cardinality(A \cup {c}) = Cardinality(A) + 1
BY SlotAssumption, FS_Subset, FS_AddElement

\* How a slot is given up, by a call that may hold none.
LEMMA HolderRemoved ==
  ASSUME NEW A \in SUBSET Calls, NEW p
  PROVE  Cardinality(A \ {p}) = Cardinality(A) - (IF p \in A THEN 1 ELSE 0)
<1>1. IsFiniteSet(A)  BY SlotAssumption, FS_Subset
<1>2. Cardinality(A) \in Nat  BY <1>1, FS_CardinalityType
<1>3. QED  BY <1>1, <1>2, FS_RemoveElement

\* Counts of sets of calls are natural numbers.
LEMMA FiniteCount ==
  ASSUME NEW A \in SUBSET Calls
  PROVE  IsFiniteSet(A) /\ Cardinality(A) \in Nat
BY SlotAssumption, FS_Subset, FS_CardinalityType

\* AgentRuntime.__init__ leaves no call, no holder and no child to count.
LEMMA InitIInv == Init => IInv
<1> SUFFICES ASSUME Init PROVE IInv  OBVIOUS
<1>1. TypeOK  BY SlotAssumption DEF Init, TypeOK
<1>2. Capacity  BY SlotAssumption, FS_EmptySet DEF Init, Capacity
<1>3. OnlyRunningHolds  BY DEF Init, OnlyRunningHolds
<1>4. ChildrenCounted
  <2>1. ASSUME NEW p \in Calls PROVE Suspending(p) = {}
    BY SlotAssumption DEF Init, Suspending
  <2> QED  BY <2>1, FS_EmptySet DEF Init, ChildrenCounted
<1>5. CallTree  BY DEF Init, CallTree
<1> QED  BY <1>1, <1>2, <1>3, <1>4, <1>5 DEF IInv

----------------------------------------------------------------------------
\* A nested call enters: its parent p is suspended once more.
LEMMA EnterCounts ==
  ASSUME IInv, NEW c \in Calls, NEW p \in Calls \cup {NoCall}, NEW k,
         pc[c] = "idle", MayCall(p),
         parent' = [parent EXCEPT ![c] = p], children' = ChildAdded(p),
         k \in {"running", "acquiring"}, pc' = [pc EXCEPT ![c] = k]
  PROVE  ChildrenCounted' /\ children' \in [Calls -> Nat]
<1>1. children' \in [Calls -> Nat]  BY DEF IInv, TypeOK, ChildAdded
<1>2. ASSUME NEW q \in Calls PROVE children'[q] = Cardinality(Suspending(q)')
  <2>1. CASE q = p
    <3>1. Suspending(q)' = Suspending(q) \cup {c} /\ c \notin Suspending(q)
      BY <2>1 DEF IInv, TypeOK, Suspending
    <3>2. Cardinality(Suspending(q)') = Cardinality(Suspending(q)) + 1
      BY <3>1, HolderAdded DEF Suspending
    <3> QED  BY <2>1, <3>2 DEF ChildAdded, IInv, ChildrenCounted
  <2>2. CASE q # p
    <3>1. Suspending(q)' = Suspending(q)
      BY <2>2 DEF IInv, TypeOK, Suspending
    <3> QED  BY <2>2, <3>1 DEF ChildAdded, IInv, ChildrenCounted
  <2> QED  BY <2>1, <2>2
<1> QED  BY <1>1, <1>2 DEF ChildrenCounted

\* A call leaves: its parent's count goes down by one, and stays natural.
LEMMA LeaveCounts ==
  ASSUME IInv, NEW c \in Calls, NEW k, NEW p, p = parent[c],
         pc[c] \in {"running", "acquiring"},
         parent' = parent, children' = ChildRemoved(p),
         k \in {"resuming", "done"}, pc' = [pc EXCEPT ![c] = k]
  PROVE  ChildrenCounted' /\ children' \in [Calls -> Nat]
<1>1. ASSUME NEW q \in Calls
      PROVE  children'[q] = Cardinality(Suspending(q)') /\ children'[q] \in Nat
  <2>0. IsFiniteSet(Suspending(q)) /\ Cardinality(Suspending(q)) \in Nat
        /\ children[q] = Cardinality(Suspending(q))
    BY FiniteCount DEF Suspending, IInv, ChildrenCounted
  <2>1. CASE q = p
    <3>1. Suspending(q)' = Suspending(q) \ {c} /\ c \in Suspending(q)
      BY <2>1 DEF IInv, TypeOK, Suspending
    <3>2. Cardinality(Suspending(q)') = Cardinality(Suspending(q)) - 1
      BY <3>1, HolderRemoved DEF Suspending
    <3>3. Cardinality(Suspending(q)') \in Nat
      BY <2>0, <3>1, FS_RemoveElement, FS_CardinalityType
    <3> QED  BY <2>0, <2>1, <3>2, <3>3 DEF ChildRemoved
  <2>2. CASE q # p
    <3>1. Suspending(q)' = Suspending(q)
      BY <2>2 DEF IInv, TypeOK, Suspending
    <3> QED  BY <2>0, <2>2, <3>1 DEF ChildRemoved
  <2> QED  BY <2>1, <2>2
<1>2. children' \in [Calls -> Nat]  BY <1>1 DEF ChildRemoved
<1> QED  BY <1>1, <1>2 DEF ChildrenCounted

\* Steps that neither open, close nor re-parent a call leave the counts alone.
LEMMA CountsUnchanged ==
  ASSUME IInv, UNCHANGED <<parent, children>>,
         pc' \in [Calls -> {"idle", "acquiring", "running", "resuming", "done"}],
         \A d \in Calls : pc[d] \in {"acquiring", "running"} <=> pc'[d] \in {"acquiring", "running"}
  PROVE  ChildrenCounted'
<1>1. ASSUME NEW q \in Calls PROVE Suspending(q)' = Suspending(q)
  BY DEF Suspending
<1> QED  BY <1>1 DEF IInv, ChildrenCounted

\* A call that is not yet running has no nested call, so nothing is counted for it.
LEMMA NoChildrenYet ==
  ASSUME IInv, NEW c \in Calls, pc[c] \in {"idle", "acquiring"}
  PROVE  children[c] = 0
<1>1. Suspending(c) = {}  BY SlotAssumption DEF IInv, TypeOK, CallTree, Suspending
<1> QED  BY <1>1, FS_EmptySet DEF IInv, ChildrenCounted

\* Giving up the slot of a call, if it holds one, keeps the counter exact.
LEMMA SlotGivenUp ==
  ASSUME IInv, NEW p
  PROVE  /\ activeDelegates - HeldBy(p) = Cardinality(active \ {p})
         /\ activeDelegates - HeldBy(p) \in Nat
         /\ activeDelegates - HeldBy(p) <= Limit
<1>1. active \ {p} \in SUBSET Calls  BY DEF IInv, TypeOK
<1>2. activeDelegates - HeldBy(p) = Cardinality(active \ {p})
  BY HolderRemoved DEF IInv, TypeOK, Capacity, HeldBy
<1> QED  BY <1>1, <1>2, FiniteCount, SlotAssumption DEF IInv, TypeOK, Capacity, HeldBy

----------------------------------------------------------------------------
(* One lemma per action: it preserves the inductive invariant. *)

\* Entering delegation_slot: a parent gives up its slot and is suspended once more.
LEMMA CallDelegateStep ==
  ASSUME IInv, NEW c \in Calls, NEW p \in Calls \cup {NoCall}, CallDelegate(c, p)
  PROVE  IInv'
<1> USE DEF IInv
<1>1. c \notin active /\ c # p
  BY SlotAssumption DEF OnlyRunningHolds, CallDelegate, MayCall
<1>2. PICK k \in {"running", "acquiring"} : pc' = [pc EXCEPT ![c] = k]
  BY DEF CallDelegate
<1>3. ChildrenCounted' /\ children' \in [Calls -> Nat]
  BY <1>2, EnterCounts DEF CallDelegate
<1>4. /\ active' \in SUBSET Calls /\ activeDelegates' \in Nat
      /\ Capacity'
  <2> DEFINE left == activeDelegates - HeldBy(p)
  <2>1. left = Cardinality(active \ {p}) /\ left \in Nat /\ left <= Limit
    BY SlotGivenUp
  <2>2. CASE left < Limit
    <3>1. active' = (active \ {p}) \cup {c} /\ activeDelegates' = left + 1
      BY <2>1, <2>2, SlotAssumption DEF CallDelegate
    <3>2. Cardinality(active') = Cardinality(active \ {p}) + 1
      BY <1>1, <3>1, HolderAdded DEF TypeOK
    <3> HIDE DEF left
    <3> QED  BY <2>1, <2>2, <3>1, <3>2, SlotAssumption DEF TypeOK, Capacity
  <2>3. CASE left >= Limit
    <3>1. active' = active \ {p} /\ activeDelegates' = left
      BY <2>1, <2>3, SlotAssumption DEF CallDelegate
    <3> HIDE DEF left
    <3> QED  BY <2>1, <3>1 DEF TypeOK, Capacity
  <2> HIDE DEF left
  <2> QED  BY <2>1, <2>2, <2>3, SlotAssumption
<1>5. TypeOK'
  BY <1>2, <1>3, <1>4 DEF TypeOK, CallDelegate, NotifyAll, Waiters
<1>6. OnlyRunningHolds'
  <2>1. children[c] = 0  BY NoChildrenYet DEF CallDelegate
  <2> QED  BY <1>1, <1>2, <2>1 DEF OnlyRunningHolds, CallDelegate, TypeOK, ChildAdded
<1>7. CallTree'
  <2> SUFFICES ASSUME NEW d \in Calls
               PROVE  /\ parent'[d] # NoCall =>
                           /\ parent'[d] # d /\ pc'[d] # "idle"
                           /\ pc'[parent'[d]] \in {"running", "resuming", "done"}
                           /\ kind'[parent'[d]] = "slot"
                           /\ d \in cancelling' => parent'[d] \in cancelling'
                      /\ pc'[d] = "resuming" => parent'[d] # NoCall
                      /\ pc'[d] = "acquiring" => kind'[d] = "slot"
                      /\ pc'[d] = "idle" => d \notin cancelling'
    BY DEF CallTree
  <2>0. c \notin cancelling  BY DEF CallDelegate, CallTree
  <2>1. CASE d = c
    BY <1>1, <1>2, <2>0, <2>1 DEF CallDelegate, MayCall, TypeOK
  <2>2. CASE d # c
    BY <1>1, <1>2, <2>2, SlotAssumption DEF CallDelegate, MayCall, TypeOK, CallTree
  <2> QED  BY <2>1, <2>2
<1> QED  BY <1>3, <1>4, <1>5, <1>6, <1>7

\* Entering delegation_wait suspends the caller as a nested call does.
LEMMA WaitForWorkerStep ==
  ASSUME IInv, NEW c \in Calls, NEW p \in Calls \cup {NoCall}, WaitForWorker(c, p)
  PROVE  IInv'
<1> USE DEF IInv
<1>1. c \notin active /\ c # p /\ p \in Calls /\ c \notin cancelling
  BY DEF OnlyRunningHolds, WaitForWorker, MayCall, CallTree
<1>2. pc' = [pc EXCEPT ![c] = "running"]  BY DEF WaitForWorker
<1>3. ChildrenCounted' /\ children' \in [Calls -> Nat]
  BY <1>2, EnterCounts DEF WaitForWorker
<1>4. active' \in SUBSET Calls /\ activeDelegates' \in Nat /\ Capacity'
  BY SlotGivenUp DEF WaitForWorker, TypeOK, Capacity
<1>5. TypeOK'
  BY <1>2, <1>3, <1>4 DEF TypeOK, WaitForWorker, NotifyAll, Waiters
<1>6. OnlyRunningHolds'
  BY <1>1, <1>2 DEF OnlyRunningHolds, WaitForWorker, TypeOK, ChildAdded
<1>7. CallTree'
  BY <1>1, <1>2, SlotAssumption DEF CallTree, WaitForWorker, MayCall, TypeOK
<1> QED  BY <1>3, <1>4, <1>5, <1>6, <1>7

\* Steps that leave the tree's shape alone and only move one call forward.
LEMMA AcquireStep ==
  ASSUME IInv, NEW c \in Calls, Acquire(c)
  PROVE  IInv'
<1> USE DEF IInv
<1>1. c \notin active /\ children[c] = 0
  BY NoChildrenYet DEF OnlyRunningHolds, Acquire
<1>2. Cardinality(active') = activeDelegates + 1
  BY <1>1, HolderAdded DEF Acquire, TypeOK, Capacity
<1>3. TypeOK' /\ Capacity'
  BY <1>2, SlotAssumption DEF Acquire, TypeOK, Capacity
<1>4. OnlyRunningHolds'
  BY <1>1, SlotAssumption DEF Acquire, OnlyRunningHolds, CallTree, TypeOK
<1>5. ChildrenCounted'  BY <1>3, CountsUnchanged DEF Acquire, TypeOK
<1>6. CallTree'  BY DEF CallTree, Acquire, TypeOK
<1> QED  BY <1>3, <1>4, <1>5, <1>6

\* Whatever ends a call, its slot is released and its parent is left alone,
\* given the slot, or waited for.
LEMMA LeaveStep ==
  ASSUME IInv, NEW c \in Calls, pc[c] \in {"acquiring", "running"},
         Leave(c, active \ {c}, activeDelegates - HeldBy(c)),
         woken' \in SUBSET Calls, UNCHANGED cancelling
  PROVE  IInv'
<1> USE DEF IInv
<1> DEFINE p == parent[c]
           held == active \ {c}
           left == activeDelegates - HeldBy(c)
<1>0. held \in SUBSET Calls /\ left = Cardinality(held) /\ left \in Nat /\ left <= Limit
  BY SlotGivenUp DEF TypeOK
<1>1. PICK k \in {"resuming", "done"} :
        pc' = [pc EXCEPT ![c] = k] /\ (k = "resuming" => p # NoCall)
  BY DEF Leave
<1>2. parent' = parent /\ kind' = kind /\ children' = ChildRemoved(p)
  BY DEF Leave
<1>3. ChildrenCounted' /\ children' \in [Calls -> Nat]
  <2> HIDE DEF IInv, p
  <2> QED  BY <1>1, <1>2, LeaveCounts DEF p
<1>4. \/ active' = held /\ activeDelegates' = left
      \/ /\ p # NoCall /\ ~LeavesParent(p, children[p] - 1, held) /\ left < Limit
         /\ active' = held \cup {p} /\ activeDelegates' = left + 1
  BY DEF Leave
<1>5. p # NoCall => p \in Calls /\ p # c  BY DEF TypeOK, CallTree
<1>6. active' \in SUBSET Calls /\ activeDelegates' \in Nat /\ Capacity'
  <2> HIDE DEF held, left, p
  <2>1. CASE active' = held /\ activeDelegates' = left
    BY <1>0, <2>1 DEF Capacity
  <2>2. CASE /\ p # NoCall /\ ~LeavesParent(p, children[p] - 1, held) /\ left < Limit
             /\ active' = held \cup {p} /\ activeDelegates' = left + 1
    <3>1. Cardinality(active') = Cardinality(held) + 1
      BY <1>0, <1>5, <2>2, HolderAdded DEF LeavesParent
    <3> QED  BY <1>0, <1>5, <2>2, <3>1, SlotAssumption DEF Capacity
  <2> QED  BY <1>4, <2>1, <2>2
<1>7. TypeOK'  BY <1>1, <1>2, <1>3, <1>6 DEF TypeOK
<1>8. OnlyRunningHolds'
  <2> SUFFICES ASSUME NEW d \in active'
               PROVE  pc'[d] = "running" /\ kind'[d] = "slot" /\ children'[d] = 0
    BY DEF OnlyRunningHolds
  <2>1. CASE d \in held
    <3>1. d # c /\ pc[d] = "running" /\ kind[d] = "slot" /\ children[d] = 0 /\ d \in Calls
      BY <2>1 DEF OnlyRunningHolds, TypeOK
    <3>2. d # p
      <4>1. c \in Suspending(p)  BY DEF Suspending
      <4>2. children[d] = Cardinality(Suspending(d)) /\ IsFiniteSet(Suspending(d))
        BY <3>1, FiniteCount DEF ChildrenCounted, Suspending
      <4> QED  BY <3>1, <4>1, <4>2, FS_EmptySet
    <3> QED  BY <1>1, <1>2, <3>1, <3>2 DEF TypeOK, ChildRemoved
  <2>2. CASE d \notin held
    <3>1. d = p /\ p \in Calls /\ p # c /\ ~LeavesParent(p, children[p] - 1, held)
      BY <1>4, <1>5, <2>2
    <3>2. pc[p] = "running" /\ kind[p] = "slot"
      BY <3>1, SlotAssumption DEF LeavesParent, Closed, CallTree, TypeOK
    <3>3. children'[p] = children[p] - 1 /\ children'[p] \in Nat /\ ~(children[p] - 1 > 0)
      BY <1>2, <1>3, <3>1 DEF ChildRemoved, LeavesParent
    <3> HIDE DEF p
    <3> QED  BY <1>1, <1>2, <3>1, <3>2, <3>3 DEF TypeOK
  <2> QED  BY <2>1, <2>2
<1>9. CallTree'  BY <1>1, <1>2, <1>5 DEF CallTree, TypeOK
<1> QED  BY <1>3, <1>6, <1>7, <1>8, <1>9

\* A call that returns or raises leaves as LeaveStep says, whoever is notified.
LEMMA FinishStep ==
  ASSUME IInv, NEW c \in Calls, Finish(c) \/ Abort(c)
  PROVE  IInv'
BY LeaveStep DEF Finish, Abort, NotifyAll, Waiters

\* A call cancelled while it waits for a slot leaves without ever having held one.
LEMMA CancelAcquireStep ==
  ASSUME IInv, NEW c \in Calls, CancelAcquire(c)
  PROVE  IInv'
<1>1. active \ {c} = active /\ activeDelegates - HeldBy(c) = activeDelegates
  BY DEF IInv, TypeOK, OnlyRunningHolds, CancelAcquire, HeldBy
<1>2. woken' \in SUBSET Calls
  BY DEF IInv, TypeOK, CancelAcquire, Waiters
<1>3. Leave(c, active \ {c}, activeDelegates - HeldBy(c))
  BY <1>1 DEF CancelAcquire
<1> QED  BY <1>2, <1>3, LeaveStep DEF CancelAcquire

\* A notified call gives its parent the slot back, or leaves it suspended or closed.
LEMMA ResumeStep ==
  ASSUME IInv, NEW c \in Calls, Resume(c)
  PROVE  IInv'
<1> USE DEF IInv
<1> DEFINE p == parent[c]
<1>1. p \in Calls /\ p # c /\ pc[p] \in {"running", "resuming", "done"} /\ kind[p] = "slot"
  BY SlotAssumption DEF Resume, CallTree, TypeOK
<1>2. pc' = [pc EXCEPT ![c] = "done"] /\ UNCHANGED <<kind, parent, children, cancelling>>
  BY DEF Resume
<1>3. CASE UNCHANGED <<active, activeDelegates>>
  <2>1. TypeOK' /\ Capacity'
    BY <1>2, <1>3 DEF TypeOK, Capacity, Resume, Waiters
  <2>2. OnlyRunningHolds'
    BY <1>2, <1>3 DEF TypeOK, OnlyRunningHolds, Resume
  <2>3. ChildrenCounted'  BY <1>2, <2>1, CountsUnchanged DEF Resume, TypeOK
  <2>4. CallTree'  BY <1>2 DEF CallTree, TypeOK, Resume
  <2> QED  BY <2>1, <2>2, <2>3, <2>4
<1>4. CASE /\ ~LeavesParent(p, children[p], active)
           /\ activeDelegates < Limit
           /\ active' = active \cup {p}
           /\ activeDelegates' = activeDelegates + 1
  <2>1. p \notin active /\ pc[p] = "running" /\ children[p] = 0
    BY <1>1, <1>4 DEF LeavesParent, Closed, TypeOK
  <2>2. Cardinality(active') = activeDelegates + 1
    BY <1>1, <1>4, <2>1, HolderAdded DEF TypeOK, Capacity
  <2>3. TypeOK' /\ Capacity'
    BY <1>1, <1>2, <1>4, <2>2, SlotAssumption DEF TypeOK, Capacity, Resume, Waiters
  <2>4. OnlyRunningHolds'
    BY <1>1, <1>2, <1>4, <2>1 DEF TypeOK, OnlyRunningHolds, Resume
  <2>5. ChildrenCounted'  BY <1>2, <2>3, CountsUnchanged DEF Resume, TypeOK
  <2>6. CallTree'  BY <1>2 DEF CallTree, TypeOK, Resume
  <2> QED  BY <2>3, <2>4, <2>5, <2>6
<1> QED  BY <1>3, <1>4 DEF Resume

\* Cancelling a task, a cancelled task's resumption and a test of the predicate that
\* fails change no slot.
LEMMA OtherSteps ==
  ASSUME IInv, NEW c \in Calls, CancelResume(c) \/ Sleep(c) \/ Cancel(c)
  PROVE  IInv'
<1> USE DEF IInv
<1>1. TypeOK' /\ Capacity'
  BY DEF TypeOK, Capacity, CancelResume, Sleep, Cancel
<1>2. OnlyRunningHolds'
  BY DEF TypeOK, OnlyRunningHolds, CancelResume, Sleep, Cancel
<1>3. ChildrenCounted'
  BY <1>1, CountsUnchanged DEF TypeOK, CancelResume, Sleep, Cancel
<1>4. CallTree'
  <2>1. CASE CancelResume(c) \/ Sleep(c)
    BY <2>1 DEF CallTree, TypeOK, CancelResume, Sleep
  <2>2. CASE Cancel(c)
    BY <2>2 DEF CallTree, TypeOK, Cancel, Open
  <2> QED  BY <2>1, <2>2
<1> QED  BY <1>1, <1>2, <1>3, <1>4

\* A step that changes nothing preserves the invariant.
LEMMA StutterStep ==
  ASSUME IInv, UNCHANGED vars
  PROVE  IInv'
<1> USE DEF IInv, vars
<1>1. TypeOK' /\ Capacity' /\ OnlyRunningHolds' /\ CallTree'
  BY DEF TypeOK, Capacity, OnlyRunningHolds, CallTree
<1>2. ChildrenCounted'  BY <1>1, CountsUnchanged DEF TypeOK
<1> QED  BY <1>1, <1>2

\* Every step preserves the inductive invariant.
LEMMA NextIInv ==
  ASSUME IInv, [Next]_vars
  PROVE  IInv'
<1>1. ASSUME NEW c \in Calls, NEW p \in Calls \cup {NoCall},
             CallDelegate(c, p) \/ WaitForWorker(c, p)
      PROVE  IInv'
  BY <1>1, CallDelegateStep, WaitForWorkerStep
<1>2. ASSUME NEW c \in Calls, Step(c)
      PROVE  IInv'
  BY <1>2, AcquireStep, FinishStep, CancelAcquireStep, ResumeStep, OtherSteps DEF Step
<1>3. CASE UNCHANGED vars  BY <1>3, StutterStep
<1> QED  BY <1>1, <1>2, <1>3 DEF Next, Terminated

----------------------------------------------------------------------------
\* The inductive invariant holds in every reachable state.
THEOREM Invariance == Spec => []IInv
<1>1. Init => IInv  BY InitIInv
<1>2. IInv /\ [Next]_vars => IInv'  BY NextIInv
<1> QED  BY <1>1, <1>2, PTL DEF Spec

\* Type correctness of the slot counter and of the calls' records.
THEOREM TypeCorrect == Spec => []TypeOK
<1>1. IInv => TypeOK  BY DEF IInv
<1> QED  BY <1>1, Invariance, PTL

\* _active_delegates is the number of calls that hold a slot and never passes
\* max_concurrent, whatever nesting, failure or cancellation does.
THEOREM CapacityHolds == Spec => []Capacity
<1>1. IInv => Capacity  BY DEF IInv
<1> QED  BY <1>1, Invariance, PTL

\* A suspended parent and a closed call never hold a slot.
THEOREM HoldersRun == Spec => []OnlyRunningHolds
<1>1. IInv => OnlyRunningHolds  BY DEF IInv
<1> QED  BY <1>1, Invariance, PTL

\* children counts exactly the nested calls that keep their parent suspended: no
\* exit path forgets or repeats its decrement.
THEOREM ChildrenCountedHolds == Spec => []ChildrenCounted
<1>1. IInv => ChildrenCounted  BY DEF IInv
<1> QED  BY <1>1, Invariance, PTL

----------------------------------------------------------------------------
\* Every call that works on its own turn keeps or regains a slot at each step.
WorkingHolds == Working \subseteq active

\* Whoever works after a step holds a slot, if whoever worked before it did.
LEMMA WorkingStep ==
  ASSUME IInv, IInv', WorkingHolds, [Next]_vars
  PROVE  WorkingHolds'
<1> USE DEF WorkingHolds, Working
<1> SUFFICES ASSUME NEW d \in Calls, d \in Working'
             PROVE  d \in active'
  OBVIOUS
<1>0. /\ pc'[d] = "running" /\ kind'[d] = "slot" /\ d \notin cancelling'
      /\ ~ (children'[d] > 0)
  <2>1. Suspending(d)' \subseteq ChildrenOf(d)'  BY DEF Suspending, ChildrenOf, Open
  <2>2. children'[d] = Cardinality(Suspending(d)')  BY DEF IInv, ChildrenCounted
  <2>3. Suspending(d)' = {}  BY <2>1
  <2> QED  BY <2>2, <2>3, FS_EmptySet
<1>1. ASSUME NEW c \in Calls, NEW p \in Calls \cup {NoCall}, CallDelegate(c, p)
      PROVE  d \in active'
  <2>1. p # d
    BY <1>0, <1>1, SlotAssumption DEF CallDelegate, ChildrenOf, Open, IInv, TypeOK
  <2>2. CASE d = c
    BY <1>0, <1>1, <2>2 DEF CallDelegate, IInv, TypeOK
  <2>3. CASE d # c
    <3>1. ChildrenOf(d)' = ChildrenOf(d)
      BY <1>1, <2>1, <2>3 DEF CallDelegate, ChildrenOf, Open, IInv, TypeOK
    <3> QED  BY <1>0, <1>1, <2>1, <2>3, <3>1 DEF CallDelegate, IInv, TypeOK
  <2> QED  BY <2>2, <2>3
<1>2. ASSUME NEW c \in Calls, NEW p \in Calls \cup {NoCall}, WaitForWorker(c, p)
      PROVE  d \in active'
  <2>1. p # d /\ d # c
    BY <1>0, <1>2, SlotAssumption DEF WaitForWorker, ChildrenOf, Open, IInv, TypeOK
  <2>2. ChildrenOf(d)' = ChildrenOf(d)
    BY <1>2, <2>1 DEF WaitForWorker, ChildrenOf, Open, IInv, TypeOK
  <2> QED  BY <1>0, <1>2, <2>1, <2>2 DEF WaitForWorker, IInv, TypeOK
<1>3. ASSUME NEW c \in Calls, pc[c] \in {"acquiring", "running"}, UNCHANGED cancelling,
             Leave(c, active \ {c}, activeDelegates - HeldBy(c))
      PROVE  d \in active'
  <2>1. d # c  BY <1>0, <1>3 DEF Leave, IInv, TypeOK
  <2>2. CASE d = parent[c]
    <3>1. pc'[c] # "resuming"
      BY <1>3, <2>1, <2>2 DEF Leave, ChildrenOf, Open
    <3>2. children'[d] = children[d] - 1
      BY <1>3, <2>2 DEF Leave, ChildRemoved
    <3>3. ~Closed(d) /\ d \notin cancelling /\ d # NoCall
      BY <1>0, <1>3, <2>1, SlotAssumption DEF Leave, Closed, IInv, TypeOK
    <3> QED  BY <1>0, <1>3, <2>1, <2>2, <3>1, <3>2, <3>3 DEF Leave, LeavesParent, IInv, TypeOK
  <2>3. CASE d # parent[c]
    <3>1. ChildrenOf(d)' = ChildrenOf(d)
      BY <1>3, <2>1, <2>3 DEF Leave, ChildrenOf, Open, IInv, TypeOK
    <3>2. d \in active
      BY <1>0, <1>3, <2>1, <3>1 DEF Leave, IInv, TypeOK
    <3> QED  BY <1>3, <2>1, <3>2 DEF Leave
  <2> QED  BY <2>2, <2>3
<1>4. ASSUME NEW c \in Calls, Finish(c) \/ Abort(c) PROVE d \in active'
  BY <1>3, <1>4 DEF Finish, Abort
<1>5. ASSUME NEW c \in Calls, CancelAcquire(c) PROVE d \in active'
  <2>1. active \ {c} = active /\ activeDelegates - HeldBy(c) = activeDelegates
    BY <1>5 DEF IInv, TypeOK, OnlyRunningHolds, CancelAcquire, HeldBy
  <2>2. Leave(c, active \ {c}, activeDelegates - HeldBy(c))
    BY <1>5, <2>1 DEF CancelAcquire
  <2> QED  BY <1>3, <1>5, <2>2 DEF CancelAcquire
<1>6. ASSUME NEW c \in Calls, Resume(c) \/ CancelResume(c) PROVE d \in active'
  <2>1. d # c /\ pc[c] = "resuming" /\ active \subseteq active'
        /\ UNCHANGED <<kind, parent, children, cancelling>> /\ pc' = [pc EXCEPT ![c] = "done"]
    BY <1>0, <1>6 DEF Resume, CancelResume, IInv, TypeOK
  <2>2. CASE d = parent[c]
    <3>1. c \notin cancelling
      BY <1>0, <2>1, <2>2, SlotAssumption DEF IInv, CallTree
    <3>2. ~Closed(d)  BY <1>0, <2>1 DEF Closed, IInv, TypeOK
    <3>3. Resume(c)  BY <1>6, <3>1 DEF CancelResume
    <3> QED  BY <1>0, <2>1, <2>2, <3>2, <3>3 DEF Resume, LeavesParent
  <2>3. CASE d # parent[c]
    <3>1. ChildrenOf(d)' = ChildrenOf(d)
      BY <2>1, <2>3 DEF ChildrenOf, Open, IInv, TypeOK
    <3> QED  BY <1>0, <2>1, <3>1 DEF IInv, TypeOK
  <2> QED  BY <2>2, <2>3
<1>7. ASSUME NEW c \in Calls, Acquire(c) PROVE d \in active'
  <2>1. CASE d = c  BY <1>7, <2>1 DEF Acquire
  <2>2. CASE d # c
    <3>1. ChildrenOf(d)' = ChildrenOf(d)
      BY <1>7 DEF Acquire, ChildrenOf, Open, IInv, TypeOK
    <3> QED  BY <1>0, <1>7, <2>2, <3>1 DEF Acquire, IInv, TypeOK
  <2> QED  BY <2>1, <2>2
<1>8. ASSUME \/ UNCHANGED vars
             \/ \E c \in Calls : Sleep(c) \/ Cancel(c)
      PROVE  d \in active'
  <2>1. UNCHANGED <<pc, kind, parent, active>> /\ cancelling \subseteq cancelling'
    BY <1>8 DEF vars, Sleep, Cancel
  <2>2. ChildrenOf(d)' = ChildrenOf(d)  BY <2>1 DEF ChildrenOf, Open
  <2> QED  BY <1>0, <2>1, <2>2
<1> QED
  BY <1>1, <1>2, <1>4, <1>5, <1>6, <1>7, <1>8 DEF Next, Step, Terminated

\* max_concurrent bounds the calls that work on their own turn, at every instant.
THEOREM WorkingBoundedHolds == Spec => []WorkingBounded
<1>1. Init => WorkingHolds
  BY DEF Init, Working, WorkingHolds
<1>2. IInv /\ WorkingHolds => WorkingBounded
  <2> SUFFICES ASSUME IInv, WorkingHolds PROVE WorkingBounded
    OBVIOUS
  <2>1. IsFiniteSet(active) /\ Cardinality(active) \in Nat
    BY FiniteCount DEF IInv, TypeOK
  <2>2. Cardinality(Working) <= Cardinality(active) /\ Cardinality(Working) \in Nat
    BY <2>1, FS_Subset, FS_CardinalityType DEF WorkingHolds
  <2> QED  BY <2>1, <2>2, SlotAssumption DEF WorkingBounded, WorkingHolds, IInv, Capacity, TypeOK
<1>3. IInv /\ IInv' /\ WorkingHolds /\ [Next]_vars => WorkingHolds'
  BY WorkingStep
<1> QED  BY <1>1, <1>2, <1>3, Invariance, PTL DEF Spec

----------------------------------------------------------------------------
\* What keeps a sleeping task asleep.
Blocked(d) ==
  \/ activeDelegates >= Limit
     /\ (pc[d] = "resuming" => ~LeavesParent(parent[d], children[parent[d]], active))
  \/ parent[d] \in cancelling

\* Every step that could unblock a sleeping task notifies it.
LEMMA WakeupStep ==
  ASSUME IInv, IInv', NoLostWakeup, [Next]_vars
  PROVE  NoLostWakeup'
<1> USE DEF Waiters
<1> SUFFICES ASSUME NEW d \in Calls, d \in Waiters', d \notin woken'
             PROVE  Blocked(d)'
  BY DEF NoLostWakeup, Blocked
<1>0. d \in Waiters /\ d \notin woken => Blocked(d)
  BY DEF NoLostWakeup, Blocked
<1>1. ASSUME NEW c \in Calls, NEW p \in Calls \cup {NoCall}, CallDelegate(c, p)
      PROVE  Blocked(d)'
  <2>1. CASE d = c
    BY <1>1, <2>1 DEF CallDelegate, Blocked, IInv, TypeOK
  <2>2. CASE d # c
    <3>1. p = NoCall /\ d \in Waiters /\ d \notin woken /\ pc'[d] = pc[d]
      BY <1>1, <2>2 DEF CallDelegate, NotifyAll, IInv, TypeOK
    <3>2. \/ active' = active \cup {c} /\ activeDelegates' = activeDelegates + 1
          \/ active' = active /\ activeDelegates' = activeDelegates
      <4>1. active \ {p} = active /\ HeldBy(p) = 0
        BY <3>1, SlotAssumption DEF HeldBy, IInv, TypeOK
      <4>2. activeDelegates - HeldBy(p) = activeDelegates
        BY <4>1 DEF IInv, TypeOK
      <4> QED  BY <1>1, <4>1, <4>2 DEF CallDelegate
    <3>3. parent'[d] = parent[d] /\ UNCHANGED cancelling /\ children' = children
      BY <1>1, <2>2, <3>1, SlotAssumption DEF CallDelegate, ChildAdded, IInv, TypeOK
    <3>4. CASE parent[d] \in cancelling  BY <3>3, <3>4 DEF Blocked
    <3>5. CASE parent[d] \notin cancelling
      <4>1. activeDelegates >= Limit /\ activeDelegates' >= Limit
        BY <1>0, <3>1, <3>2, <3>5, SlotAssumption DEF Blocked, IInv, TypeOK
      <4>2. ASSUME pc[d] = "resuming"
            PROVE  ~LeavesParent(parent[d], children[parent[d]], active)'
        <5>1. parent[d] \in Calls /\ parent[d] # c
          BY <1>1, <4>2, SlotAssumption DEF CallDelegate, IInv, TypeOK, CallTree
        <5>2. ~LeavesParent(parent[d], children[parent[d]], active)
          BY <1>0, <3>1, <3>5, <4>2 DEF Blocked
        <5> QED  BY <1>1, <3>2, <3>3, <5>1, <5>2 DEF LeavesParent, Closed, CallDelegate, IInv, TypeOK
      <4> QED  BY <3>1, <3>3, <4>1, <4>2 DEF Blocked
    <3> QED  BY <3>4, <3>5
  <2> QED  BY <2>1, <2>2
<1>2. ASSUME NEW c \in Calls, NEW p \in Calls \cup {NoCall}, WaitForWorker(c, p)
      PROVE  Blocked(d)'
  BY <1>2 DEF WaitForWorker, NotifyAll, IInv, TypeOK
\* A call that leaves notifies everyone but itself, and sleeps only when blocked.
<1>3. ASSUME NEW c \in Calls, pc[c] \in {"acquiring", "running"}, UNCHANGED cancelling,
             Leave(c, active \ {c}, activeDelegates - HeldBy(c)),
             d = c
      PROVE  Blocked(d)'
  <2>1. pc'[c] = "resuming"  BY <1>3 DEF Leave, IInv, TypeOK
  <2>2. /\ parent[c] # NoCall /\ parent' = parent
        /\ ~LeavesParent(parent[c], children[parent[c]] - 1, active \ {c})
        /\ activeDelegates' >= Limit /\ active' = active \ {c}
        /\ pc' = [pc EXCEPT ![c] = "resuming"]
    BY <1>3, <2>1 DEF Leave, IInv, TypeOK
  <2>3. parent[c] \in Calls /\ parent[c] # c  BY <2>2 DEF IInv, TypeOK, CallTree
  <2>4. children'[parent[c]] = children[parent[c]] - 1
    BY <1>3, <2>3 DEF Leave, ChildRemoved
  <2>5. ~LeavesParent(parent[c], children[parent[c]], active)'
    BY <1>3, <2>2, <2>3, <2>4 DEF LeavesParent, Closed, IInv, TypeOK
  <2> QED  BY <1>3, <2>2, <2>5 DEF Blocked
<1>4. ASSUME NEW c \in Calls, Finish(c) \/ Abort(c) PROVE Blocked(d)'
  <2>1. d = c
    BY <1>4 DEF Finish, Abort, Leave, NotifyAll, IInv, TypeOK
  <2> QED  BY <1>3, <1>4, <2>1 DEF Finish, Abort
<1>5. ASSUME NEW c \in Calls, CancelAcquire(c) PROVE Blocked(d)'
  <2>1. active \ {c} = active /\ activeDelegates - HeldBy(c) = activeDelegates
    BY <1>5 DEF IInv, TypeOK, OnlyRunningHolds, CancelAcquire, HeldBy
  <2>2. Leave(c, active \ {c}, activeDelegates - HeldBy(c))
    BY <1>5, <2>1 DEF CancelAcquire
  <2>3. CASE d = c  BY <1>3, <1>5, <2>2, <2>3 DEF CancelAcquire
  <2>4. CASE d # c
    <3>1. parent[c] = NoCall /\ d \in Waiters /\ d \notin woken
      BY <1>5, <2>4 DEF CancelAcquire, Leave, IInv, TypeOK
    <3>2. /\ UNCHANGED <<active, activeDelegates, parent, cancelling>>
          /\ pc' = [pc EXCEPT ![c] = "done"]
      BY <1>5, <3>1 DEF CancelAcquire, Leave
    <3>3. children' = children
      BY <1>5, <3>1, SlotAssumption DEF CancelAcquire, Leave, ChildRemoved, IInv, TypeOK
    <3>4. pc[d] = "resuming" => parent[d] # c
      BY <1>5, SlotAssumption DEF CancelAcquire, IInv, TypeOK, CallTree
    <3> QED  BY <1>0, <2>4, <3>1, <3>2, <3>3, <3>4 DEF Blocked, LeavesParent, Closed, IInv, TypeOK
  <2> QED  BY <2>3, <2>4
<1>6. ASSUME NEW c \in Calls, Acquire(c) PROVE Blocked(d)'
  <2>1. d # c /\ d \in Waiters /\ d \notin woken
    BY <1>6 DEF Acquire, IInv, TypeOK
  <2>2. parent[d] \in cancelling
    BY <1>0, <1>6, <2>1, SlotAssumption DEF Acquire, Blocked, IInv, TypeOK
  <2> QED  BY <1>6, <2>2 DEF Acquire, Blocked
<1>7. ASSUME NEW c \in Calls, Resume(c) PROVE Blocked(d)'
  <2>1. d # c /\ d \in Waiters  BY <1>7 DEF Resume, IInv, TypeOK
  <2>2. d \notin woken /\ UNCHANGED <<active, activeDelegates, parent, children, cancelling>>
        /\ pc' = [pc EXCEPT ![c] = "done"] /\ pc[c] = "resuming"
    BY <1>7, <2>1 DEF Resume
  <2>3. \A p : Closed(p)' => Closed(p)  BY <2>2 DEF Closed, IInv, TypeOK
  <2> QED  BY <1>0, <2>1, <2>2, <2>3 DEF Blocked, LeavesParent, IInv, TypeOK
<1>8. ASSUME NEW c \in Calls, CancelResume(c) PROVE Blocked(d)'
  <2>1. d # c /\ d \in Waiters /\ d \notin woken  BY <1>8 DEF CancelResume, IInv, TypeOK
  <2>2. UNCHANGED <<active, activeDelegates, parent, children, cancelling>>
        /\ pc' = [pc EXCEPT ![c] = "done"] /\ pc[c] = "resuming"
    BY <1>8 DEF CancelResume
  <2>3. \A p : Closed(p)' => Closed(p)  BY <2>2 DEF Closed, IInv, TypeOK
  <2> QED  BY <1>0, <2>1, <2>2, <2>3 DEF Blocked, LeavesParent, IInv, TypeOK
<1>9. ASSUME NEW c \in Calls, Sleep(c) PROVE Blocked(d)'
  <2>1. UNCHANGED <<pc, kind, parent, active, children, activeDelegates, cancelling>>
    BY <1>9 DEF Sleep
  <2>2. Blocked(d)
    <3>1. CASE d = c  BY <1>9, <3>1 DEF Sleep, Blocked
    <3>2. CASE d # c  BY <1>0, <1>9, <2>1, <3>2 DEF Sleep
    <3> QED  BY <3>1, <3>2
  <2> QED  BY <2>1, <2>2 DEF Blocked, LeavesParent, Closed
<1>10. ASSUME NEW c \in Calls, Cancel(c) PROVE Blocked(d)'
  BY <1>0, <1>10 DEF Cancel, Blocked, LeavesParent, Closed
<1>11. CASE UNCHANGED vars
  BY <1>0, <1>11 DEF vars, Blocked, LeavesParent, Closed
<1> QED
  BY <1>1, <1>2, <1>4, <1>5, <1>6, <1>7, <1>8, <1>9, <1>10, <1>11 DEF Next, Step, Terminated

\* No wake-up is lost, for any number of calls and any limit.
THEOREM NoLostWakeupHolds == Spec => []NoLostWakeup
<1>1. Init => NoLostWakeup  BY DEF Init, NoLostWakeup, Waiters
<1>2. IInv /\ IInv' /\ NoLostWakeup /\ [Next]_vars => NoLostWakeup'  BY WakeupStep
<1> QED  BY <1>1, <1>2, Invariance, PTL DEF Spec

\* What base.py promises of its slots, for any calls and any limit: the counter is true
\* and bounded, the delegates at work hold what it counts, and nobody sleeps through a
\* free slot.
THEOREM SlotsAreKeptHolds == Spec => []SlotsAreKept
<1>1. TypeOK /\ Capacity /\ WorkingBounded /\ NoLostWakeup => SlotsAreKept  BY DEF SlotsAreKept
<1> QED
  BY <1>1, TypeCorrect, CapacityHolds, WorkingBoundedHolds, NoLostWakeupHolds, PTL

----------------------------------------------------------------------------
Statuses == {"none", "running", "completed", "failed", "interrupted"}
Stages == {"idle", "scheduled", "executing", "cancelling", "dropping"}
Turns == {"running", "completed", "incomplete", "closing", "down"}

\* What a call may be waiting for.
Waiting ==
  [op : {"send", "stop"}, task : Rows, stage : {"awaiting", "resume"}]
    \cup [op : {"result"}, task : Rows, stage : {"polling"}]

\* The tables.
Tables ==
  /\ created \in 0..MaxTasks /\ restarts \in 0..MaxRestarts
  /\ name \in [TaskIds -> Names] /\ status \in [TaskIds -> Statuses]
  /\ \A t \in TaskIds : (status[t] = "none") = (t > created)
  /\ collected \in [TaskIds -> BOOLEAN]

\* The mail, and where a message has come to.
Handed ==
  /\ mail \in Seq(Recipients) /\ Len(mail) <= MaxMail
  /\ delivered \subseteq seen /\ seen \subseteq DOMAIN mail
  /\ handed \in [Recipients -> SUBSET seen]

\* The process: a reader of mail is there until it has marked it.
Process ==
  /\ conv \in [TaskIds -> Stages] /\ \A t \in TaskIds : Live(t) => t \in Rows
  /\ \A t \in TaskIds : handed[t] # {} => Live(t)
  /\ handed[PI] # {} => turn = "running"
  /\ call \in [CallIds -> {NoTool, Done} \cup Waiting]
  /\ turn \in Turns
  /\ closing \subseteq Rows /\ (closing # {} => turn = "closing")

Types == Tables /\ Handed /\ Process

\* What goes down may start again.
RestartIsLeft == turn \in {"closing", "down"} => restarts < MaxRestarts

----------------------------------------------------------------------------

LEMMA Ids ==
  /\ Rows \subseteq TaskIds \/ created \notin 0..MaxTasks
  /\ TaskIds \subseteq Recipients /\ PI \in Recipients /\ PI \notin TaskIds
  /\ {MaxTasks, MaxMail, MaxCalls, MaxRestarts} \subseteq Nat
BY TasksAssumption DEF Rows, TaskIds, Recipients, PI

LEMMA TypesAreTypeOK == Types => TasksTypeOK
<1> SUFFICES ASSUME Types PROVE TasksTypeOK  OBVIOUS
<1>1. /\ created \in 0..MaxTasks /\ restarts \in 0..MaxRestarts /\ name \in [TaskIds -> Names]
      /\ status \in [TaskIds -> {"none", "running", "completed", "failed", "interrupted"}]
      /\ \A t \in TaskIds : (status[t] = "none") = (t > created)
      /\ collected \in [TaskIds -> BOOLEAN]
  BY DEF Types, Tables, Statuses
<1>2. /\ mail \in Seq(Recipients) /\ Len(mail) <= MaxMail
      /\ delivered \subseteq DOMAIN mail /\ seen \subseteq DOMAIN mail
      /\ handed \in [Recipients -> SUBSET DOMAIN mail]
  BY DEF Types, Handed
<1>3. \A k \in CallIds : call[k] \in {NoTool, Done} \/
       /\ call[k].task \in Rows
       /\ <<call[k].op, call[k].stage>> \in
            ({"send", "stop"} \X {"awaiting", "resume"}) \cup {<<"result", "polling">>}
  <2> SUFFICES ASSUME NEW k \in CallIds, call[k] \notin {NoTool, Done}
               PROVE  /\ call[k].task \in Rows
                      /\ <<call[k].op, call[k].stage>> \in
                           ({"send", "stop"} \X {"awaiting", "resume"}) \cup {<<"result", "polling">>}
    OBVIOUS
  <2>1. call[k] \in Waiting  BY DEF Types, Process
  <2> QED  BY <2>1 DEF Waiting
<1>4. /\ conv \in [TaskIds -> {"idle", "scheduled", "executing", "cancelling", "dropping"}]
      /\ \A t \in TaskIds : handed[t] # {} => Live(t)
      /\ handed[PI] # {} => turn = "running"
      /\ turn \in {"running", "completed", "incomplete", "closing", "down"}
      /\ closing \subseteq Rows /\ (closing # {} => turn = "closing")
  BY DEF Types, Process, Stages, Turns
<1> QED  BY <1>1, <1>2, <1>3, <1>4 DEF TasksTypeOK

LEMMA InitTypes == TasksInit => Types
<1> SUFFICES ASSUME TasksInit PROVE Types  OBVIOUS
<1>1. (CHOOSE n \in Names : TRUE) \in Names  BY TasksAssumption
<1>2. Tables  BY <1>1, TasksAssumption DEF TasksInit, Tables, Statuses, TaskIds
<1>3. Handed  BY TasksAssumption DEF TasksInit, Handed
<1>4. Process  BY Ids DEF TasksInit, Process, Live, Stages, Turns
<1> QED  BY <1>2, <1>3, <1>4 DEF Types

----------------------------------------------------------------------------
(* What the parts of a step keep *)

LEMMA SameTables == ASSUME Tables, UNCHANGED <<created, name, status, collected, restarts>> PROVE Tables'
BY DEF Tables

LEMMA SameMail == ASSUME Handed, UNCHANGED <<mail, delivered, seen, handed>> PROVE Handed'
BY DEF Handed

\* A row's status changes after it was written.
LEMMA StatusChanges ==
  ASSUME Tables, UNCHANGED <<created, name, restarts>>,
         status' \in [TaskIds -> Statuses], \A t \in TaskIds : (status'[t] = "none") = (status[t] = "none"),
         collected' \in [TaskIds -> BOOLEAN]
  PROVE  Tables'
BY DEF Tables

LEMMA Launched ==
  ASSUME Tables, NEW t \in Rows, Launch(t), UNCHANGED <<created, name, restarts>>
  PROVE  Tables' /\ conv' = [conv EXCEPT ![t] = "scheduled"]
<1>1. /\ status' = [status EXCEPT ![t] = "running"] /\ collected' = [collected EXCEPT ![t] = FALSE]
      /\ conv' = [conv EXCEPT ![t] = "scheduled"]
  BY DEF Launch
<1>2. t \in TaskIds /\ status[t] # "none"  BY Ids DEF Tables, Rows, TaskIds
<1>3. /\ status' \in [TaskIds -> Statuses] /\ collected' \in [TaskIds -> BOOLEAN]
      /\ \A u \in TaskIds : (status'[u] = "none") = (status[u] = "none")
  BY <1>1, <1>2 DEF Tables, Statuses
<1> QED  BY <1>1, <1>3, StatusChanges

LEMMA Posted ==
  ASSUME Handed, NEW r \in Recipients, Post(r), UNCHANGED <<delivered, seen, handed>>
  PROVE  Handed'
<1>1. mail \in Seq(Recipients) /\ Len(mail) < MaxMail /\ mail' = Append(mail, r)  BY DEF Handed, Post
<1>2. mail' \in Seq(Recipients) /\ Len(mail') = Len(mail) + 1 /\ DOMAIN mail \subseteq DOMAIN mail'
  BY <1>1
<1>3. Len(mail') <= MaxMail  BY <1>1, <1>2, Ids
<1> QED  BY <1>2, <1>3 DEF Handed

LEMMA CallsTyped ==
  ASSUME call \in [CallIds -> {NoTool, Done} \cup Waiting]
  PROVE  /\ \A t : Woken(t) \in [CallIds -> {NoTool, Done} \cup Waiting]
         /\ \A k \in CallIds, t \in Rows :
              /\ \A op \in {"send", "stop"} : Await(k, op, t, "awaiting") => call' \in [CallIds -> {NoTool, Done} \cup Waiting]
              /\ Await(k, "result", t, "polling") => call' \in [CallIds -> {NoTool, Done} \cup Waiting]
         /\ \A k \in CallIds : Returns(k) => call' \in [CallIds -> {NoTool, Done} \cup Waiting]
<1>1. ASSUME NEW t PROVE Woken(t) \in [CallIds -> {NoTool, Done} \cup Waiting]
  <2>1. ASSUME NEW k \in CallIds, call[k].stage = "awaiting" PROVE [call[k] EXCEPT !.stage = "resume"] \in Waiting
    <3>1. NoTool.stage = "none" /\ Done.stage = "done"  BY DEF NoTool, Done
    <3>2. call[k] \in Waiting  BY <2>1, <3>1
    <3> QED  BY <2>1, <3>2 DEF Waiting
  <2> QED  BY <2>1 DEF Woken
<1>2. ASSUME NEW k \in CallIds, NEW t \in Rows
      PROVE  /\ \A op \in {"send", "stop"} : Await(k, op, t, "awaiting") => call' \in [CallIds -> {NoTool, Done} \cup Waiting]
             /\ Await(k, "result", t, "polling") => call' \in [CallIds -> {NoTool, Done} \cup Waiting]
  <2>1. \A op \in {"send", "stop"} : [op |-> op, task |-> t, stage |-> "awaiting"] \in Waiting  BY DEF Waiting
  <2>2. [op |-> "result", task |-> t, stage |-> "polling"] \in Waiting  BY DEF Waiting
  <2> QED  BY <2>1, <2>2 DEF Await
<1>3. ASSUME NEW k \in CallIds, Returns(k) PROVE call' \in [CallIds -> {NoTool, Done} \cup Waiting]
  BY <1>3 DEF Returns
<1> QED  BY <1>1, <1>2, <1>3

\* Neither rows nor the process change, or only a call of it.
LEMMA SameProcess ==
  ASSUME Tables, Process, UNCHANGED <<created, conv, handed, turn, closing>>,
         call' \in [CallIds -> {NoTool, Done} \cup Waiting]
  PROVE  Process'
<1>1. Rows' = Rows /\ Waiting' = Waiting /\ \A t : Live(t)' = Live(t)  BY DEF Rows, Waiting, Live
<1> QED  BY <1>1 DEF Process

\* Conversations come and go, for rows.
LEMMA ConvChanges ==
  ASSUME Tables, Process, UNCHANGED <<created, handed, turn, closing>>,
         conv' \in [TaskIds -> Stages],
         \A t \in TaskIds : Live(t) => conv'[t] # "idle",
         \A t \in TaskIds : conv'[t] # "idle" => t \in Rows,
         call' \in [CallIds -> {NoTool, Done} \cup Waiting]
  PROVE  Process'
<1>1. Rows' = Rows /\ Waiting' = Waiting /\ \A t : Live(t)' = (conv'[t] # "idle")  BY DEF Rows, Waiting, Live
<1> QED  BY <1>1 DEF Process

----------------------------------------------------------------------------
(* Every step keeps the types *)

LEMMA EndTypes ==
  ASSUME Types, NEW t \in Rows, NEW s \in Statuses \ {"none"}, End(t, s)
  PROVE  Types'
<1>1. /\ status' = [status EXCEPT ![t] = s] /\ conv' = [conv EXCEPT ![t] = "idle"]
      /\ handed' = [handed EXCEPT ![t] = {}] /\ call' = Woken(t)
      /\ UNCHANGED <<created, name, collected, mail, delivered, seen, turn, closing, restarts>>
  BY DEF End
<1>2. t \in TaskIds /\ t \in Recipients /\ t # PI /\ status[t] # "none"  BY Ids DEF Types, Tables, Rows, TaskIds
<1>3. Tables'
  <2>1. status' \in [TaskIds -> Statuses] /\ \A u \in TaskIds : (status'[u] = "none") = (status[u] = "none")
    BY <1>1, <1>2 DEF Types, Tables
  <2> QED  BY <1>1, <2>1, StatusChanges DEF Types, Tables
<1>4. Handed'  BY <1>1, <1>2 DEF Types, Handed
<1>5. Process'
  <2>1. Rows' = Rows /\ Waiting' = Waiting  BY <1>1 DEF Rows, Waiting
  <2>2. \A u \in TaskIds : Live(u)' = (u # t /\ Live(u))  BY <1>1, <1>2 DEF Live, Types, Process
  <2>3. conv' \in [TaskIds -> Stages]  BY <1>1 DEF Types, Process, Stages
  <2>4. \A r \in Recipients : handed'[r] = (IF r = t THEN {} ELSE handed[r])  BY <1>1 DEF Types, Handed
  <2>5. call' \in [CallIds -> {NoTool, Done} \cup Waiting]  BY <1>1, CallsTyped DEF Types, Process
  <2> QED  BY <1>1, <1>2, <2>1, <2>2, <2>3, <2>4, <2>5, Ids DEF Types, Process
<1> QED  BY <1>3, <1>4, <1>5 DEF Types

LEMMA ConversationTypes ==
  ASSUME Types, NEW t \in Rows, Conversation(t) \/ Ask(t) \/ LoseReceipt(t)
  PROVE  Types'
<1>1. t \in TaskIds /\ t \in Recipients /\ t # PI /\ status[t] \in Statuses \ {"none"}
  BY Ids DEF Types, Tables, Rows, TaskIds
<1>2. CASE Begin(t)
  <2>1. /\ conv[t] = "scheduled" /\ conv' = [conv EXCEPT ![t] = "executing"]
        /\ UNCHANGED <<created, name, status, collected, mail, delivered, seen, handed, call, turn, closing, restarts>>
    BY <1>2 DEF Begin, durable
  <2>2. conv' \in [TaskIds -> Stages] /\ \A u \in TaskIds : (conv'[u] # "idle") = (conv[u] # "idle")
    BY <1>1, <2>1 DEF Types, Process, Stages
  <2>3. Process'  BY <2>1, <2>2, ConvChanges DEF Types, Process, Live
  <2> QED  BY <2>1, <2>3, SameTables, SameMail DEF Types
<1>3. CASE Complete(t)  BY <1>3, EndTypes DEF Complete, Statuses
<1>4. CASE Fail(t)  BY <1>4, EndTypes DEF Fail, Statuses
<1>5. CASE Interrupt(t)  BY <1>5, EndTypes DEF Interrupt, Statuses
<1>6. CASE Drop(t)  BY <1>1, <1>6, EndTypes DEF Drop
<1>7. CASE Ask(t)
  <2>1. Post(PI) /\ UNCHANGED <<created, name, status, collected, delivered, seen, conv, handed, call, turn, closing, restarts>>
    BY <1>7 DEF Ask
  <2>2. Process'  BY <2>1, SameProcess DEF Types, Process
  <2> QED  BY <2>1, <2>2, Posted, SameTables, Ids DEF Types
<1>8. CASE LoseReceipt(t)
  <2>1. /\ handed' = [handed EXCEPT ![t] = {}]
        /\ UNCHANGED <<created, name, status, collected, mail, delivered, seen, conv, call, turn, closing, restarts>>
    BY <1>8 DEF LoseReceipt, durable
  <2>2. /\ handed' \in [Recipients -> SUBSET seen]
        /\ \A r \in Recipients : handed'[r] # {} => handed[r] # {}
    BY <1>1, <2>1 DEF Types, Handed
  <2>3. Handed'  BY <2>1, <2>2 DEF Types, Handed
  <2>4. Rows' = Rows /\ Waiting' = Waiting /\ \A u : Live(u)' = Live(u)  BY <2>1 DEF Rows, Waiting, Live
  <2>5. Process'  BY <2>1, <2>2, <2>4, Ids DEF Types, Process
  <2> QED  BY <2>1, <2>3, <2>5, SameTables DEF Types
<1> QED  BY <1>2, <1>3, <1>4, <1>5, <1>6, <1>7, <1>8 DEF Conversation

LEMMA ReaderTypes == ASSUME Types, NEW r \in Recipients, Reader(r) PROVE Types'
<1>1. ASSUME NEW batch \in Batches(r), CopyMail(r, batch) PROVE Types'
  <2>1. /\ ReadsMail(r) /\ handed' = [handed EXCEPT ![r] = batch] /\ seen' = seen \cup batch
        /\ UNCHANGED <<created, name, status, collected, mail, delivered, conv, call, turn, closing, restarts>>
    BY <1>1 DEF CopyMail
  <2>2. batch \subseteq DOMAIN mail  BY <1>1 DEF Batches, Pending
  <2>3. handed' \in [Recipients -> SUBSET seen']
    BY <2>1 DEF Types, Handed
  <2>4. Handed'  BY <2>1, <2>2, <2>3 DEF Types, Handed
  <2>5. \A q \in Recipients \ {r} : handed'[q] = handed[q]  BY <2>1 DEF Types, Handed
  <2>6. (r # PI => Live(r)) /\ (r = PI => turn = "running")  BY <2>1 DEF ReadsMail, Live
  <2>7. Rows' = Rows /\ Waiting' = Waiting /\ \A u : Live(u)' = Live(u)  BY <2>1 DEF Rows, Waiting, Live
  <2>8. Process'  BY <2>1, <2>5, <2>6, <2>7, Ids DEF Types, Process
  <2> QED  BY <2>1, <2>4, <2>8, SameTables DEF Types
<1>2. CASE MarkDelivered(r)
  <2>1. /\ delivered' = delivered \cup handed[r] /\ handed' = [handed EXCEPT ![r] = {}]
        /\ UNCHANGED <<created, name, status, collected, mail, seen, conv, call, turn, closing, restarts>>
    BY <1>2 DEF MarkDelivered
  <2>2. /\ handed' \in [Recipients -> SUBSET seen] /\ handed[r] \subseteq seen
        /\ \A q \in Recipients : handed'[q] # {} => handed[q] # {}
    BY <2>1 DEF Types, Handed
  <2>3. Handed'  BY <2>1, <2>2 DEF Types, Handed
  <2>4. Rows' = Rows /\ Waiting' = Waiting /\ \A u : Live(u)' = Live(u)  BY <2>1 DEF Rows, Waiting, Live
  <2>5. Process'  BY <2>1, <2>2, <2>4, Ids DEF Types, Process
  <2> QED  BY <2>1, <2>3, <2>5, SameTables DEF Types
<1> QED  BY <1>1, <1>2 DEF Reader

LEMMA StartTypes == ASSUME Types, NEW k \in CallIds, NEW n \in Names, Start(k, n) PROVE Types'
<1> PICK t : t = created + 1  OBVIOUS
<1>1. /\ created < MaxTasks /\ created' = t /\ name' = [name EXCEPT ![t] = n]
      /\ status' = [status EXCEPT ![t] = "running"] /\ collected' = [collected EXCEPT ![t] = FALSE]
      /\ conv' = [conv EXCEPT ![t] = "scheduled"]
      /\ UNCHANGED <<mail, delivered, seen, handed, call, turn, closing, restarts>>
  BY DEF Start, Launch
<1>2. /\ created \in Nat /\ t \in TaskIds /\ created' \in 0..MaxTasks
      /\ \A u \in TaskIds : (u > created') = (u > created /\ u # t)
  BY <1>1, Ids DEF Types, Tables, TaskIds
<1>3. Tables'
  <2>1. /\ name' \in [TaskIds -> Names] /\ collected' \in [TaskIds -> BOOLEAN] /\ status' \in [TaskIds -> Statuses]
        /\ \A u \in TaskIds : (status'[u] = "none") = (u # t /\ status[u] = "none")
    BY <1>1, <1>2 DEF Types, Tables, Statuses
  <2> QED  BY <1>1, <1>2, <2>1 DEF Types, Tables
<1>4. Process'
  <2>1. Rows \subseteq Rows' /\ t \in Rows'  BY <1>1, <1>2 DEF Rows, TaskIds
  <2>2. Waiting \subseteq Waiting'  BY <2>1 DEF Waiting
  <2>3. /\ conv' \in [TaskIds -> Stages]
        /\ \A u \in TaskIds : Live(u)' = (u = t \/ Live(u))
    BY <1>1, <1>2 DEF Types, Process, Stages, Live
  <2>4. call' \in [CallIds -> {NoTool, Done} \cup Waiting']  BY <1>1, <2>2 DEF Types, Process
  <2> QED  BY <1>1, <2>1, <2>3, <2>4 DEF Types, Process
<1> QED  BY <1>1, <1>3, <1>4, SameMail DEF Types

LEMMA IdleTask ==
  ASSUME Types, NEW t \in Rows
  PROVE  /\ t \in TaskIds /\ t \in Recipients
         /\ \A s \in Stages : [conv EXCEPT ![t] = s] \in [TaskIds -> Stages]
         /\ \A s \in Stages : \A u \in TaskIds : [conv EXCEPT ![t] = s][u] = (IF u = t THEN s ELSE conv[u])
         /\ Cancelled(t) \in Stages \ {"idle"}
BY Ids DEF Types, Tables, Process, Cancelled, Stages

\* A conversation that is launched or cancelled.
LEMMA OneConv ==
  ASSUME Types, NEW t \in Rows, NEW s \in Stages \ {"idle"}, conv' = [conv EXCEPT ![t] = s],
         UNCHANGED <<created, handed, turn, closing>>, call' \in [CallIds -> {NoTool, Done} \cup Waiting]
  PROVE  Process'
<1>1. /\ conv' \in [TaskIds -> Stages] /\ \A u \in TaskIds : conv'[u] = (IF u = t THEN s ELSE conv[u])
  BY IdleTask
<1> QED  BY <1>1, ConvChanges DEF Types, Process, Live

LEMMA ToolStartTypes == ASSUME Types, NEW k \in CallIds, ToolStarts(k) PROVE Types'
<1>1. ASSUME NEW n \in Names, Start(k, n) PROVE Types'  BY <1>1, StartTypes
<1>2. ASSUME NEW t \in Rows, Send(k, t) PROVE Types'
  <2>1. Post(t) /\ UNCHANGED <<created, name, delivered, seen, handed, call, turn, closing, restarts>>
    BY <1>2 DEF Send
  <2>2. Handed'  BY <2>1, Posted, IdleTask DEF Types
  <2>3. CASE Live(t) /\ UNCHANGED <<status, collected, conv>>
    <3>1. Process'  BY <2>1, <2>3, SameProcess DEF Types, Process
    <3> QED  BY <2>1, <2>2, <2>3, <3>1, SameTables DEF Types
  <2>4. CASE Launch(t)
    <3>1. Tables' /\ conv' = [conv EXCEPT ![t] = "scheduled"]  BY <2>1, <2>4, Launched DEF Types
    <3>2. Process'  BY <2>1, <3>1, OneConv DEF Types, Process, Stages
    <3> QED  BY <2>2, <3>1, <3>2 DEF Types
  <2> QED  BY <1>2, <2>3, <2>4 DEF Send
<1>3. ASSUME NEW t \in Rows, SendInterrupting(k, t) PROVE Types'
  <2>1. /\ Post(t) /\ conv' = [conv EXCEPT ![t] = Cancelled(t)] /\ Await(k, "send", t, "awaiting")
        /\ UNCHANGED <<created, name, status, collected, delivered, seen, handed, turn, closing, restarts>>
    BY <1>3 DEF SendInterrupting
  <2>2. Handed'  BY <2>1, Posted, IdleTask DEF Types
  <2>3. call' \in [CallIds -> {NoTool, Done} \cup Waiting]  BY <2>1, CallsTyped DEF Types, Process
  <2>4. Process'  BY <2>1, <2>3, OneConv, IdleTask
  <2> QED  BY <2>1, <2>2, <2>4, SameTables DEF Types
<1>4. ASSUME NEW t \in Rows, Stop(k, t) PROVE Types'
  <2>1. /\ conv' = [conv EXCEPT ![t] = Cancelled(t)] /\ Await(k, "stop", t, "awaiting")
        /\ UNCHANGED <<created, name, status, collected, mail, delivered, seen, handed, turn, closing, restarts>>
    BY <1>4 DEF Stop, durable
  <2>3. call' \in [CallIds -> {NoTool, Done} \cup Waiting]  BY <2>1, CallsTyped DEF Types, Process
  <2>4. Process'  BY <2>1, <2>3, OneConv, IdleTask
  <2> QED  BY <2>1, <2>4, SameTables, SameMail DEF Types
<1>5. ASSUME NEW t \in Rows, RequestProgress(k, t) PROVE Types'
  <2>1. Post(t) /\ UNCHANGED <<created, name, status, collected, delivered, seen, conv, handed, call, turn, closing, restarts>>
    BY <1>5 DEF RequestProgress
  <2>2. Handed'  BY <2>1, Posted, IdleTask DEF Types
  <2>3. Process'  BY <2>1, SameProcess DEF Types, Process
  <2> QED  BY <2>1, <2>2, <2>3, SameTables DEF Types
<1>6. ASSUME NEW t \in Rows, Result(k, t) PROVE Types'
  <2>1. /\ collected' = [collected EXCEPT ![t] = @ \/ status[t] # "running"]
        /\ UNCHANGED <<created, name, status, mail, delivered, seen, conv, handed, call, turn, closing, restarts>>
    BY <1>6 DEF Result, Collect
  <2>2. Tables'  BY <2>1, StatusChanges DEF Types, Tables
  <2>3. Process'  BY <2>1, SameProcess DEF Types, Process
  <2> QED  BY <2>1, <2>2, <2>3, SameMail DEF Types
<1>7. ASSUME NEW t \in Rows, ResultWaits(k, t) PROVE Types'
  <2>1. /\ Await(k, "result", t, "polling")
        /\ UNCHANGED <<created, name, status, collected, mail, delivered, seen, conv, handed, turn, closing, restarts>>
    BY <1>7 DEF ResultWaits, durable
  <2>2. call' \in [CallIds -> {NoTool, Done} \cup Waiting]  BY <2>1, CallsTyped DEF Types, Process
  <2>3. Process'  BY <2>1, <2>2, SameProcess DEF Types
  <2> QED  BY <2>1, <2>3, SameTables, SameMail DEF Types
<1> QED  BY <1>1, <1>2, <1>3, <1>4, <1>5, <1>6, <1>7 DEF ToolStarts

LEMMA ToolReturnTypes == ASSUME Types, NEW k \in CallIds, ToolReturns(k) \/ ResultLetsGo(k) PROVE Types'
<1> PICK t : t = call[k].task  OBVIOUS
<1>1. t \in Rows /\ t \in TaskIds
  <2>1. NoTool.op = "none" /\ Done.op = "none"  BY DEF NoTool, Done
  <2>2. call[k] \in Waiting  BY <2>1 DEF Types, Process, ToolReturns, SendResumes, StopReturns, ResultEnds, ResultLetsGo
  <2>3. t \in Rows  BY <2>2 DEF Waiting
  <2> QED  BY <2>3, IdleTask
<1>2. call' \in [CallIds -> {NoTool, Done} \cup Waiting]
  BY CallsTyped DEF Types, Process, ToolReturns, SendResumes, StopReturns, ResultEnds, ResultLetsGo
<1>3. Settled(t) \in [TaskIds -> Statuses] /\ \A u \in TaskIds : (Settled(t)[u] = "none") = (status[u] = "none")
  BY <1>1 DEF Types, Tables, Settled, Statuses
<1>4. CASE SendResumes(k)
  <2>1. UNCHANGED <<created, name, mail, delivered, seen, handed, turn, closing, restarts>>
    BY <1>4 DEF SendResumes
  <2>2. CASE status' = Settled(t) /\ UNCHANGED <<collected, conv>>
    <3>1. Tables'  BY <1>3, <2>1, <2>2, StatusChanges DEF Types, Tables
    <3>2. Process'  BY <1>2, <2>1, <2>2, SameProcess DEF Types
    <3> QED  BY <2>1, <3>1, <3>2, SameMail DEF Types
  <2>3. CASE Launch(t)
    <3>1. Tables' /\ conv' = [conv EXCEPT ![t] = "scheduled"]  BY <1>1, <2>1, <2>3, Launched DEF Types
    <3>2. Process'  BY <1>1, <1>2, <2>1, <3>1, OneConv DEF Stages
    <3> QED  BY <2>1, <3>1, <3>2, SameMail DEF Types
  <2> QED  BY <1>4, <2>2, <2>3 DEF SendResumes
<1>5. CASE StopReturns(k)
  <2>1. status' = Settled(t) /\ UNCHANGED <<created, name, collected, mail, delivered, seen, conv, handed, turn, closing, restarts>>
    BY <1>5 DEF StopReturns
  <2>2. Tables'  BY <1>3, <2>1, StatusChanges DEF Types, Tables
  <2>3. Process'  BY <1>2, <2>1, SameProcess DEF Types
  <2> QED  BY <2>1, <2>2, <2>3, SameMail DEF Types
<1>6. CASE ResultEnds(k)
  <2>1. /\ collected' = [collected EXCEPT ![t] = @ \/ status[t] # "running"]
        /\ UNCHANGED <<created, name, status, mail, delivered, seen, conv, handed, turn, closing, restarts>>
    BY <1>6 DEF ResultEnds, Collect
  <2>2. Tables'  BY <2>1, StatusChanges DEF Types, Tables
  <2>3. Process'  BY <1>2, <2>1, SameProcess DEF Types
  <2> QED  BY <2>1, <2>2, <2>3, SameMail DEF Types
<1>7. CASE ResultLetsGo(k)
  <2>1. UNCHANGED <<created, name, status, collected, mail, delivered, seen, conv, handed, turn, closing, restarts>>
    BY <1>7 DEF ResultLetsGo, durable
  <2>3. Process'  BY <1>2, <2>1, SameProcess DEF Types
  <2> QED  BY <2>1, <2>3, SameTables, SameMail DEF Types
<1> QED  BY <1>4, <1>5, <1>6, <1>7 DEF ToolReturns

\* A conversation that a close stops, or a crash ends.
LEMMA TurnTypes ==
  ASSUME Types, RestartIsLeft, EndTurn \/ BeginTurn \/ Close \/ CloseEnds \/ Crash \/ Restart
  PROVE  Types'
<1>1. UNCHANGED <<created, name, collected, mail, delivered, seen>> /\ Rows' = Rows /\ Waiting' = Waiting
  BY DEF EndTurn, BeginTurn, Close, CloseEnds, Crash, Restart, durable, Rows, Waiting
<1>2. NoTool \in {NoTool, Done} \cup Waiting  OBVIOUS
<1>3. CASE EndTurn \/ BeginTurn
  <2>1. /\ UNCHANGED <<status, conv, handed, call, closing, restarts>> /\ turn' \in Turns
        /\ turn # "closing" /\ (handed[PI] # {} => turn' = "running")
    BY <1>3 DEF EndTurn, BeginTurn, durable, Turns, Types, Process
  <2>2. \A t : Live(t)' = Live(t)  BY <2>1 DEF Live
  <2>3. Process'  BY <1>1, <2>1, <2>2 DEF Types, Process
  <2> QED  BY <1>1, <2>1, <2>3, SameTables, SameMail DEF Types
<1>4. CASE Close
  <2>1. /\ turn' = "closing" /\ UNCHANGED <<status, restarts>>
        /\ conv' = [t \in TaskIds |-> IF Live(t) THEN Cancelled(t) ELSE "idle"]
        /\ closing' \subseteq {t \in TaskIds : Live(t)}
        /\ call' = [k \in CallIds |-> NoTool] /\ handed' = [handed EXCEPT ![PI] = {}]
    BY <1>4 DEF Close, durable
  <2>2. conv' \in [TaskIds -> Stages] /\ \A t \in TaskIds : Live(t)' = Live(t)
    BY <2>1 DEF Live, Cancelled, Stages, Types, Process
  <2>3. /\ handed' \in [Recipients -> SUBSET seen] /\ handed'[PI] = {}
        /\ \A r \in Recipients : handed'[r] # {} => handed[r] # {}
    BY <2>1, Ids DEF Types, Handed
  <2>4. Handed'  BY <1>1, <2>3 DEF Types, Handed
  <2>5. Process'  BY <1>1, <1>2, <2>1, <2>2, <2>3, Ids DEF Types, Process, Turns
  <2> QED  BY <1>1, <2>1, <2>4, <2>5, SameTables DEF Types
<1>5. CASE CloseEnds
  <2>1. /\ turn = "closing" /\ turn' = "down" /\ closing' = {} /\ UNCHANGED <<conv, handed, call, restarts>>
        /\ status' = [t \in TaskIds |-> IF t \in closing /\ status[t] = "running" THEN "interrupted" ELSE status[t]]
    BY <1>5 DEF CloseEnds
  <2>2. status' \in [TaskIds -> Statuses] /\ \A t \in TaskIds : (status'[t] = "none") = (status[t] = "none")
    BY <2>1 DEF Types, Tables, Statuses
  <2>3. Tables'  BY <1>1, <2>1, <2>2, StatusChanges DEF Types, Tables
  <2>4. \A t : Live(t)' = Live(t)  BY <2>1 DEF Live
  <2>5. Process'  BY <1>1, <2>1, <2>4 DEF Types, Process, Turns
  <2> QED  BY <1>1, <2>1, <2>3, <2>5, SameMail DEF Types
<1>6. CASE Crash
  <2>1. /\ turn' = "down" /\ closing' = {} /\ UNCHANGED <<status, restarts>>
        /\ conv' = [t \in TaskIds |-> "idle"] /\ call' = [k \in CallIds |-> NoTool]
        /\ handed' = [r \in Recipients |-> {}]
    BY <1>6 DEF Crash, durable
  <2>2. \A t \in TaskIds : ~Live(t)'  BY <2>1 DEF Live
  <2>3. Handed'  BY <1>1, <2>1 DEF Types, Handed
  <2>4. Process'  BY <1>1, <1>2, <2>1, <2>2, Ids DEF Process, Turns, Stages
  <2> QED  BY <1>1, <2>1, <2>3, <2>4, SameTables DEF Types
<1>7. CASE Restart
  <2>1. /\ turn = "down" /\ turn' = "running" /\ UNCHANGED <<conv, handed, call, closing>>
        /\ status' = [t \in TaskIds |-> IF t \in Latest /\ status[t] = "running" THEN "interrupted" ELSE status[t]]
        /\ restarts' = restarts + 1
    BY <1>7 DEF Restart, Recovered
  <2>2. status' \in [TaskIds -> Statuses] /\ \A t \in TaskIds : (status'[t] = "none") = (status[t] = "none")
    BY <2>1 DEF Types, Tables, Statuses
  <2>3. restarts' \in 0..MaxRestarts  BY <2>1, Ids DEF Types, Tables, RestartIsLeft
  <2>4. Tables'  BY <1>1, <2>2, <2>3 DEF Types, Tables
  <2>5. \A t : Live(t)' = Live(t)  BY <2>1 DEF Live
  <2>6. Process'  BY <1>1, <2>1, <2>5 DEF Types, Process, Turns
  <2> QED  BY <1>1, <2>1, <2>4, <2>6, SameMail DEF Types
<1> QED  BY <1>3, <1>4, <1>5, <1>6, <1>7

LEMMA NextRestartIsLeft == ASSUME RestartIsLeft, [TasksNext]_taskVars PROVE RestartIsLeft'
<1>1. CASE UNCHANGED <<turn, restarts>>  BY <1>1 DEF RestartIsLeft
<1>2. CASE EndTurn \/ BeginTurn \/ Restart  BY <1>2 DEF EndTurn, BeginTurn, Restart, RestartIsLeft
<1>3. CASE Close \/ CloseEnds \/ Crash  BY <1>3 DEF Close, CloseEnds, Crash, RestartIsLeft
<1>4. ASSUME NEW t \in Rows, Conversation(t) \/ Ask(t) \/ LoseReceipt(t) PROVE UNCHANGED <<turn, restarts>>
  BY <1>4 DEF Conversation, Begin, Complete, Fail, Interrupt, Drop, End, Ask, LoseReceipt
<1>5. ASSUME NEW r \in Recipients, Reader(r) PROVE UNCHANGED <<turn, restarts>>
  BY <1>5 DEF Reader, CopyMail, MarkDelivered
<1>6. ASSUME NEW k \in CallIds, ToolStarts(k) \/ ToolReturns(k) \/ ResultLetsGo(k) PROVE UNCHANGED <<turn, restarts>>
  BY <1>6 DEF ToolStarts, Start, Send, SendInterrupting, Stop, RequestProgress, Result, ResultWaits,
              ToolReturns, SendResumes, StopReturns, ResultEnds, ResultLetsGo
<1> QED  BY <1>1, <1>2, <1>3, <1>4, <1>5, <1>6 DEF TasksNext, taskVars

LEMMA NextTypes == ASSUME Types, RestartIsLeft, [TasksNext]_taskVars PROVE Types'
<1>1. CASE UNCHANGED taskVars
  <2>1. UNCHANGED <<created, name, status, collected, mail, delivered, seen, conv, handed, call, turn, closing, restarts>>
    BY <1>1 DEF taskVars, durable
  <2> QED  BY <2>1, SameTables, SameMail, SameProcess DEF Types, Process
<1>2. CASE TasksNext
  BY <1>2, ConversationTypes, ReaderTypes, ToolStartTypes, ToolReturnTypes, TurnTypes DEF TasksNext
<1> QED  BY <1>1, <1>2

\* The types, for any number of calls at a time.
LEMMA AlwaysTyped == TasksSpec => [](Types /\ RestartIsLeft)
<1>1. TasksInit => Types /\ RestartIsLeft  BY InitTypes DEF TasksInit, RestartIsLeft
<1>2. Types /\ RestartIsLeft /\ [TasksNext]_taskVars => (Types /\ RestartIsLeft)'  BY NextTypes, NextRestartIsLeft
<1> QED  BY <1>1, <1>2, PTL DEF TasksSpec

----------------------------------------------------------------------------

\* A row is completed by a conversation that has no mail waiting, and by nothing else.
LEMMA CompletedStep ==
  ASSUME Types, [TasksNext]_taskVars, NEW t \in TaskIds, status[t] # "completed", status'[t] = "completed"
  PROVE  {m \in DOMAIN mail : mail[m] = t} \subseteq delivered
<1>0. status \in [TaskIds -> Statuses]  BY DEF Types, Tables
<1>1. ASSUME NEW u \in Rows, Conversation(u) PROVE Complete(u) /\ u = t
  <2>1. Begin(u) \/ Fail(u) \/ Interrupt(u) \/ Drop(u) => status'[t] # "completed"
    BY <1>0 DEF Begin, Fail, Interrupt, Drop, End, durable
  <2>2. Complete(u)  BY <1>1, <2>1 DEF Conversation
  <2> QED  BY <1>0, <2>2 DEF Complete, End
<1>2. ASSUME NEW u \in Rows, Ask(u) \/ LoseReceipt(u) PROVE FALSE  BY <1>2 DEF Ask, LoseReceipt, durable
<1>3. ASSUME NEW r \in Recipients, Reader(r) PROVE FALSE  BY <1>3 DEF Reader, CopyMail, MarkDelivered
<1>4. ASSUME NEW k \in CallIds, ToolStarts(k) PROVE FALSE
  BY <1>0, <1>4 DEF ToolStarts, Start, Send, SendInterrupting, Stop, RequestProgress, Result, ResultWaits, Launch, durable
<1>5. ASSUME NEW k \in CallIds, ToolReturns(k) \/ ResultLetsGo(k) PROVE FALSE
  BY <1>0, <1>5 DEF ToolReturns, SendResumes, StopReturns, ResultEnds, ResultLetsGo, Settled, Launch, durable
<1>6. ASSUME EndTurn \/ BeginTurn \/ Close \/ CloseEnds \/ Crash \/ Restart \/ UNCHANGED taskVars PROVE FALSE
  BY <1>0, <1>6 DEF EndTurn, BeginTurn, Close, CloseEnds, Crash, Restart, Recovered, taskVars, durable
<1>7. PICK u \in Rows : Complete(u) /\ u = t
  BY <1>1, <1>2, <1>3, <1>4, <1>5, <1>6 DEF TasksNext
<1> QED  BY <1>7 DEF Complete, Pending

\* delegate_mailboxes.py: whatever calls overlap, crash or lose their answer, a receipt
\* follows the session, and a conversation completes once it was handed all its mail.
THEOREM MailIsReadHolds == TasksSpec => MailIsRead
<1>1. Types => DeliveredIsInSession  BY DEF Types, Handed, DeliveredIsInSession
<1>2. Types /\ [TasksNext]_taskVars =>
        [\A t \in TaskIds :
           status[t] # "completed" /\ status'[t] = "completed" =>
             {m \in DOMAIN mail : mail[m] = t} \subseteq delivered]_taskVars
  BY CompletedStep
<1> QED  BY <1>1, <1>2, AlwaysTyped, PTL DEF TasksSpec, MailIsRead, CompletedReadAllMail
----------------------------------------------------------------------------
(* One call at a time *)

Up == {"running", "completed", "incomplete"}
Asking(t) == call[1].task = t /\ call[1].stage = "awaiting"
Looking(t) == call[1].task = t /\ call[1].stage = "resume"
Ending == {"cancelling", "dropping"}

\* A row that says running is the latest of its name and not collected; the others are.
Held ==
  /\ \A t \in TaskIds : status[t] = "running" => IsLatest(t) /\ ~collected[t]
  /\ \A t \in Rows : ~IsLatest(t) => collected[t]

\* A row says running while its conversation lasts, and until the call that ended it looks.
Told ==
  /\ \A t \in TaskIds : Live(t) => status[t] = "running"
  /\ turn \in Up => \A t \in TaskIds : status[t] = "running" => Live(t) \/ Looking(t)

\* A call is of a running turn and about the latest row of a name; only it ends the
\* row's conversation, and it waits until that has ended.
Asked ==
  /\ call[1] # NoTool => turn = "running" /\ call[1] \in Waiting /\ IsLatest(call[1].task)
  /\ \A t \in TaskIds : Asking(t) => conv[t] \in Ending
  /\ \A t \in TaskIds : Looking(t) => ~Live(t)
  /\ turn \in Up => \A t \in TaskIds : conv[t] \in Ending => Asking(t)
  /\ turn = "down" => \A t \in TaskIds : ~Live(t)

\* The gates find nothing live and nothing to collect.
Gated == turn = "completed" => \A t \in Rows : ~Live(t) /\ collected[t]

OneInv == Held /\ Told /\ Asked /\ Gated

LEMMA OneCall ==
  ASSUME MaxCalls = 1, Types
  PROVE  /\ CallIds = {1} /\ call[1] \in {NoTool, Done} \cup Waiting /\ call = [k \in CallIds |-> call[1]]
         /\ NoTool.task = 0 /\ NoTool.stage = "none" /\ NoTool.op = "none" /\ Done # NoTool
         /\ status \in [TaskIds -> Statuses] /\ collected \in [TaskIds -> BOOLEAN] /\ conv \in [TaskIds -> Stages]
         /\ Rows \subseteq TaskIds /\ created \in Nat
         /\ \A t \in TaskIds : Live(t) => t \in Rows
         /\ \A t \in TaskIds : status[t] = "running" => t \in Rows
<1>1. CallIds = {1}  BY DEF CallIds
<1>2. call \in [CallIds -> {NoTool, Done} \cup Waiting]  BY DEF Types, Process
<1>3. call[1] \in {NoTool, Done} \cup Waiting /\ call = [k \in CallIds |-> call[1]]  BY <1>1, <1>2
<1>4. /\ status \in [TaskIds -> Statuses] /\ collected \in [TaskIds -> BOOLEAN] /\ conv \in [TaskIds -> Stages]
      /\ \A t \in TaskIds : Live(t) => t \in Rows
      /\ Rows \subseteq TaskIds /\ created \in Nat
  BY Ids DEF Types, Tables, Process
<1>5. \A t \in TaskIds : status[t] = "running" => t \in Rows
  <2>1. \A t \in TaskIds : (status[t] = "none") = (t > created)  BY DEF Types, Tables
  <2> QED  BY <1>4, <2>1 DEF Rows, TaskIds
<1> QED  BY <1>1, <1>3, <1>4, <1>5 DEF NoTool, Done

LEMMA InitOne == ASSUME MaxCalls = 1, TasksInit PROVE OneInv
<1>1. call[1] = NoTool /\ NoTool.stage = "none"  BY DEF TasksInit, CallIds, NoTool
<1>2. \A t \in TaskIds : conv[t] = "idle" /\ status[t] = "none" /\ ~Live(t)  BY DEF TasksInit, Live
<1>3. Rows = {} /\ turn = "running"  BY DEF TasksInit, Rows
<1> QED  BY <1>1, <1>2, <1>3 DEF OneInv, Held, Told, Asked, Gated, Asking, Looking, Ending

\* The rows stay, and what is the latest of them.
LEMMA SameRows ==
  ASSUME UNCHANGED <<created, name>>
  PROVE  Rows' = Rows /\ Waiting' = Waiting /\ \A t : IsLatest(t)' = IsLatest(t)
BY DEF Rows, Waiting, IsLatest, RowsOf

LEMMA CallIsLatest ==
  ASSUME UNCHANGED <<created, name>>, IsLatest(call'[1].task)
  PROVE  IsLatest(call[1].task)'
BY DEF IsLatest, RowsOf, Rows

\* Nothing that the PI is told of changes.
LEMMA SameTold ==
  ASSUME Types, OneInv, UNCHANGED <<created, name, status, collected, call, turn>>,
         \A t \in TaskIds : Live(t)' = Live(t), \A t \in TaskIds : (conv[t] \in Ending)' = (conv[t] \in Ending)
  PROVE  OneInv'
<1>1. Rows' = Rows /\ Waiting' = Waiting /\ \A t : IsLatest(t)' = IsLatest(t)  BY SameRows
<1>2. \A t : Asking(t)' = Asking(t) /\ Looking(t)' = Looking(t)  BY DEF Asking, Looking
<1>3. Held'  BY <1>1 DEF OneInv, Held
<1>4. Told'  BY <1>1, <1>2 DEF OneInv, Told
<1>5. Asked'  BY <1>1, <1>2 DEF OneInv, Asked
<1>6. Gated'
  <2>1. turn = "completed" => \A t \in Rows : ~Live(t)' /\ collected[t]
    BY Ids DEF OneInv, Gated, Types, Tables
  <2> QED  BY <1>1, <2>1 DEF Gated
<1> QED  BY <1>3, <1>4, <1>5, <1>6 DEF OneInv

LEMMA EndOne ==
  ASSUME MaxCalls = 1, Types, OneInv, NEW t \in Rows, NEW s \in Statuses, Live(t), End(t, s),
         s = "running" /\ turn \in Up => Asking(t)
  PROVE  OneInv'
<1>1. /\ status' = [status EXCEPT ![t] = s] /\ conv' = [conv EXCEPT ![t] = "idle"] /\ call' = Woken(t)
      /\ UNCHANGED <<created, name, collected, turn>>
  BY DEF End
<1>2. /\ CallIds = {1} /\ call[1] \in {NoTool, Done} \cup Waiting /\ t \in TaskIds /\ Rows \subseteq TaskIds
      /\ status \in [TaskIds -> Statuses] /\ conv \in [TaskIds -> Stages]
      /\ NoTool.stage = "none" /\ NoTool.task = 0
  BY OneCall
<1>3. /\ \A u \in TaskIds : status'[u] = (IF u = t THEN s ELSE status[u])
      /\ \A u \in TaskIds : conv'[u] = (IF u = t THEN "idle" ELSE conv[u])
      /\ \A u \in TaskIds : Live(u)' = (u # t /\ Live(u))
  BY <1>1, <1>2 DEF Live
<1>4. Rows' = Rows /\ Waiting' = Waiting /\ \A u : IsLatest(u)' = IsLatest(u)  BY <1>1, SameRows
<1>5. status[t] = "running" /\ turn # "down" /\ turn # "completed"
  BY <1>2 DEF OneInv, Told, Asked, Gated
<1>6. \/ ~Asking(t) /\ call'[1] = call[1]
      \/ /\ Asking(t) /\ call[1] \in Waiting /\ call'[1] \in Waiting
         /\ call'[1].task = t /\ call'[1].stage = "resume"
  <2>1. CASE Asking(t)
    <3>1. call[1] # NoTool  BY <1>2, <2>1 DEF Asking
    <3>2. call[1] \in Waiting  BY <3>1 DEF OneInv, Asked
    <3>3. call'[1] = [call[1] EXCEPT !.stage = "resume"]  BY <1>1, <1>2, <2>1 DEF Woken, Asking
    <3> QED  BY <2>1, <3>2, <3>3 DEF Waiting, Asking
  <2>2. CASE ~Asking(t)  BY <1>1, <1>2, <2>2 DEF Woken, Asking
  <2> QED  BY <2>1, <2>2
<1>7. Held'  BY <1>1, <1>3, <1>4, <1>5 DEF OneInv, Held
<1>8. Told'
  <2>1. turn \in Up /\ s = "running" => Looking(t)'  BY <1>6 DEF Looking
  <2>2. \A u \in TaskIds : u # t /\ Looking(u) => Looking(u)'  BY <1>6 DEF Looking, Asking
  <2> QED  BY <1>1, <1>3, <2>1, <2>2 DEF OneInv, Told
<1>9. Asked'
  <2>1. call'[1] # NoTool => turn = "running" /\ call'[1] \in Waiting /\ IsLatest(call'[1].task)
    BY <1>2, <1>6 DEF OneInv, Asked, Asking
  <2>2. \A u \in TaskIds : Asking(u)' => u # t /\ Asking(u)  BY <1>6 DEF Asking
  <2>3. \A u \in TaskIds : Looking(u)' => u = t \/ Looking(u)  BY <1>6 DEF Looking
  <2>4. \A u \in TaskIds : u # t /\ Asking(u) => Asking(u)'  BY <1>6 DEF Asking
  <2>5. call'[1] # NoTool => turn' = "running" /\ call'[1] \in Waiting' /\ IsLatest(call[1].task)'
    BY <1>1, <1>4, <2>1, CallIsLatest
  <2>6. \A u \in TaskIds : Asking(u)' => conv'[u] \in Ending
    BY <1>3, <2>2 DEF OneInv, Asked
  <2>7. \A u \in TaskIds : Looking(u)' => ~Live(u)'
    BY <1>3, <2>3 DEF OneInv, Asked
  <2>8. turn' \in Up => \A u \in TaskIds : conv'[u] \in Ending => Asking(u)'
    <3>1. "idle" \notin Ending  BY DEF Ending
    <3> QED  BY <1>1, <1>3, <2>4, <3>1 DEF OneInv, Asked
  <2> QED  BY <1>1, <1>5, <2>5, <2>6, <2>7, <2>8 DEF Asked
<1>10. Gated'  BY <1>1, <1>5 DEF Gated
<1> QED  BY <1>7, <1>8, <1>9, <1>10 DEF OneInv

LEMMA ConversationOne ==
  ASSUME MaxCalls = 1, Types, OneInv, NEW t \in Rows, Conversation(t) \/ Ask(t) \/ LoseReceipt(t)
  PROVE  OneInv'
<1>0. t \in TaskIds /\ conv \in [TaskIds -> Stages] /\ status[t] \in Statuses /\ Rows \subseteq TaskIds  BY OneCall
<1>1. CASE Begin(t)
  <2>1. /\ conv[t] = "scheduled" /\ conv' = [conv EXCEPT ![t] = "executing"]
        /\ UNCHANGED <<created, name, status, collected, call, turn>>
    BY <1>1 DEF Begin, durable
  <2>2. /\ \A u \in TaskIds : Live(u)' = Live(u)
        /\ \A u \in TaskIds : (conv[u] \in Ending)' = (conv[u] \in Ending)
    BY <1>0, <2>1 DEF Live, Ending
  <2> QED  BY <2>1, <2>2, SameTold
<1>2. CASE Complete(t)  BY <1>2, EndOne DEF Complete, Live, Statuses
<1>3. CASE Fail(t)  BY <1>3, EndOne DEF Fail, Live, Statuses
<1>4. CASE Interrupt(t)  BY <1>4, EndOne DEF Interrupt, Live, Statuses
<1>5. CASE Drop(t)
  <2>1. conv[t] = "dropping" /\ Live(t) /\ End(t, status[t])  BY <1>5 DEF Drop, Live
  <2>2. turn \in Up => Asking(t)  BY <1>0, <2>1 DEF OneInv, Asked, Ending
  <2> QED  BY <1>0, <2>1, <2>2, EndOne
<1>6. CASE Ask(t) \/ LoseReceipt(t)
  <2>1. UNCHANGED <<created, name, status, collected, call, turn, conv>>  BY <1>6 DEF Ask, LoseReceipt, durable
  <2> QED  BY <2>1, SameTold DEF Live
<1> QED  BY <1>1, <1>2, <1>3, <1>4, <1>5, <1>6 DEF Conversation

LEMMA ReaderOne == ASSUME Types, OneInv, NEW r \in Recipients, Reader(r) PROVE OneInv'
<1>1. UNCHANGED <<created, name, status, collected, call, turn, conv>>  BY DEF Reader, CopyMail, MarkDelivered
<1> QED  BY <1>1, SameTold DEF Live

\* A conversation of the latest row is launched, by a call that returns at once or that
\* waited for it to end.
LEMMA LaunchOne ==
  ASSUME MaxCalls = 1, Types, OneInv, NEW t \in Rows, IsLatest(t), ~Live(t), Launch(t),
         turn = "running", UNCHANGED <<created, name, turn>>,
         call[1] = NoTool \/ Looking(t), call'[1] = NoTool
  PROVE  OneInv'
<1>1. /\ status' = [status EXCEPT ![t] = "running"] /\ collected' = [collected EXCEPT ![t] = FALSE]
      /\ conv' = [conv EXCEPT ![t] = "scheduled"]
  BY DEF Launch
<1>2. /\ t \in TaskIds /\ Rows \subseteq TaskIds /\ status \in [TaskIds -> Statuses]
      /\ collected \in [TaskIds -> BOOLEAN] /\ conv \in [TaskIds -> Stages] /\ NoTool.stage = "none"
  BY OneCall
<1>3. /\ \A u \in TaskIds : status'[u] = (IF u = t THEN "running" ELSE status[u])
      /\ \A u \in TaskIds : collected'[u] = (IF u = t THEN FALSE ELSE collected[u])
      /\ \A u \in TaskIds : conv'[u] = (IF u = t THEN "scheduled" ELSE conv[u])
      /\ \A u \in TaskIds : Live(u)' = (u = t \/ Live(u))
  BY <1>1, <1>2 DEF Live
<1>4. Rows' = Rows /\ \A u : IsLatest(u)' = IsLatest(u)  BY SameRows
<1>5. /\ \A u \in TaskIds : ~Asking(u) /\ (Looking(u) => u = t)
      /\ \A u \in TaskIds : ~Asking(u)' /\ ~Looking(u)'
  BY <1>2 DEF Asking, Looking
<1>6. Held'  BY <1>2, <1>3, <1>4 DEF OneInv, Held
<1>7. Told'  BY <1>3, <1>5 DEF OneInv, Told, Up
<1>8. Asked'
  <2>1. \A u \in TaskIds : conv'[u] \notin Ending
    BY <1>3, <1>5 DEF OneInv, Asked, Up, Ending
  <2> QED  BY <1>5, <2>1 DEF Asked
<1>9. Gated'  BY DEF Gated
<1> QED  BY <1>6, <1>7, <1>8, <1>9 DEF OneInv

LEMMA StartOne == ASSUME MaxCalls = 1, Types, OneInv, NEW n \in Names, Start(1, n) PROVE OneInv'
<1> PICK t : t = created + 1  OBVIOUS
<1>1. /\ created < MaxTasks /\ created' = t /\ name' = [name EXCEPT ![t] = n]
      /\ status' = [status EXCEPT ![t] = "running"] /\ collected' = [collected EXCEPT ![t] = FALSE]
      /\ conv' = [conv EXCEPT ![t] = "scheduled"]
      /\ turn = "running" /\ call[1] = NoTool /\ UNCHANGED <<call, turn>> /\ MayStart(n)
  BY DEF Start, Launch, Calling
<1>2. /\ created \in Nat /\ t \in TaskIds /\ Rows \subseteq TaskIds /\ status \in [TaskIds -> Statuses]
      /\ collected \in [TaskIds -> BOOLEAN] /\ conv \in [TaskIds -> Stages] /\ name \in [TaskIds -> Names]
      /\ NoTool.stage = "none" /\ \A u \in TaskIds : status[u] = "running" => u \in Rows
  BY <1>1, OneCall, Ids DEF Types, Tables, TaskIds
<1>3. /\ \A u \in TaskIds : status'[u] = (IF u = t THEN "running" ELSE status[u])
      /\ \A u \in TaskIds : collected'[u] = (IF u = t THEN FALSE ELSE collected[u])
      /\ \A u \in TaskIds : conv'[u] = (IF u = t THEN "scheduled" ELSE conv[u])
      /\ \A u \in TaskIds : name'[u] = (IF u = t THEN n ELSE name[u])
      /\ \A u \in TaskIds : Live(u)' = (u = t \/ Live(u))
  BY <1>1, <1>2 DEF Live
<1>4. Rows' = Rows \cup {t} /\ t \notin Rows /\ \A u \in Rows : u < t /\ u \in Nat  BY <1>1, <1>2 DEF Rows
<1>5. IsLatest(t)' /\ \A u \in Rows : IsLatest(u)' = (IsLatest(u) /\ name[u] # n)
  <2>1. IsLatest(t)'  BY <1>2, <1>4 DEF IsLatest, RowsOf
  <2>2. ASSUME NEW u \in Rows PROVE IsLatest(u)' = (IsLatest(u) /\ name[u] # n)
    <3>1. u \in TaskIds /\ u # t /\ ~(t <= u)  BY <1>2, <1>4
    <3>2. name'[u] = name[u] /\ name'[t] = n  BY <1>2, <1>3, <3>1
    <3>3. RowsOf(name[u])' = RowsOf(name[u]) \cup (IF name[u] = n THEN {t} ELSE {})
      BY <1>2, <1>3, <1>4, <3>2 DEF RowsOf
    <3> QED  BY <1>4, <3>1, <3>2, <3>3 DEF IsLatest
  <2> QED  BY <2>1, <2>2
<1>6. \A u \in Rows : IsLatest(u) /\ name[u] = n => collected[u]  BY <1>1 DEF MayStart, RowsOf
<1>7. Held'
  <2>1. \A u \in TaskIds : status'[u] = "running" => IsLatest(u)' /\ ~collected'[u]
    BY <1>2, <1>3, <1>5, <1>6 DEF OneInv, Held
  <2>2. \A u \in Rows' : ~IsLatest(u)' => collected'[u]
    BY <1>2, <1>3, <1>4, <1>5, <1>6 DEF OneInv, Held
  <2> QED  BY <2>1, <2>2 DEF Held
<1>8. \A u \in TaskIds : ~Asking(u) /\ ~Looking(u) /\ ~Asking(u)' /\ ~Looking(u)'
  BY <1>1, <1>2 DEF Asking, Looking
<1>9. Told'  BY <1>1, <1>3, <1>8 DEF OneInv, Told, Up
<1>10. Asked'
  <2>1. \A u \in TaskIds : conv'[u] \notin Ending
    BY <1>1, <1>3, <1>8 DEF OneInv, Asked, Up, Ending
  <2> QED  BY <1>1, <1>8, <2>1 DEF Asked
<1>11. Gated'  BY <1>1 DEF Gated
<1> QED  BY <1>7, <1>9, <1>10, <1>11 DEF OneInv

\* A call that waits for no conversation begins, goes on or returns.
LEMMA QuietCall ==
  ASSUME MaxCalls = 1, Types, OneInv, turn = "running", UNCHANGED <<created, name, status, conv, turn>>,
         call[1].stage \notin {"awaiting", "resume"}, call'[1].stage \notin {"awaiting", "resume"},
         call'[1] # NoTool => call'[1] \in Waiting /\ IsLatest(call'[1].task),
         \/ UNCHANGED collected
         \/ \E t \in TaskIds : collected' = [collected EXCEPT ![t] = @ \/ status[t] # "running"]
  PROVE  OneInv'
<1>1. Rows' = Rows /\ Waiting' = Waiting /\ (\A u : IsLatest(u)' = IsLatest(u)) /\ \A u : Live(u)' = Live(u)
  BY SameRows DEF Live
<1>2. \A u \in TaskIds : ~Asking(u) /\ ~Looking(u) /\ ~Asking(u)' /\ ~Looking(u)'  BY DEF Asking, Looking
<1>3. \A u \in TaskIds : /\ collected[u] => collected'[u]
                         /\ status[u] = "running" => collected'[u] = collected[u]
  BY OneCall
<1>4. Held'  BY <1>1, <1>3, OneCall DEF OneInv, Held
<1>5. Told'  BY <1>1, <1>2 DEF OneInv, Told
<1>6. Asked'
  <2>1. call'[1] # NoTool => turn' = "running" /\ call'[1] \in Waiting' /\ IsLatest(call[1].task)'
    BY <1>1, CallIsLatest
  <2>2. \A u \in TaskIds : conv'[u] \notin Ending  BY <1>2 DEF OneInv, Asked, Up
  <2> QED  BY <1>2, <2>1, <2>2 DEF Asked
<1>7. Gated'  BY DEF Gated
<1> QED  BY <1>4, <1>5, <1>6, <1>7 DEF OneInv

\* A call asks a live conversation to end.
LEMMA CancelOne ==
  ASSUME MaxCalls = 1, Types, OneInv, NEW t \in Rows, NEW op \in {"send", "stop"}, IsLatest(t), Live(t),
         Await(1, op, t, "awaiting"), conv' = [conv EXCEPT ![t] = Cancelled(t)],
         call[1] = NoTool, turn = "running", UNCHANGED <<created, name, status, collected, turn>>
  PROVE  OneInv'
<1>1. /\ t \in TaskIds /\ CallIds = {1} /\ NoTool.stage = "none" /\ call = [k \in CallIds |-> call[1]]
      /\ \A u \in TaskIds : conv'[u] = (IF u = t THEN Cancelled(t) ELSE conv[u])
  BY OneCall
<1>2. Cancelled(t) \in Ending /\ Cancelled(t) # "idle"  BY DEF Cancelled, Ending
<1>3. \A u \in TaskIds : Live(u)' = Live(u)  BY <1>1, <1>2 DEF Live
<1>4. call'[1] = [op |-> op, task |-> t, stage |-> "awaiting"]  BY <1>1 DEF Await
<1>5. /\ call'[1] \in Waiting /\ call'[1].task = t /\ call'[1].stage = "awaiting"
  BY <1>4 DEF Waiting
<1>6. /\ \A u \in TaskIds : ~Looking(u) /\ ~Asking(u) /\ ~Looking(u)'
      /\ \A u \in TaskIds : Asking(u)' = (u = t)
  BY <1>1, <1>5 DEF Asking, Looking
<1>7. Rows' = Rows /\ Waiting' = Waiting /\ \A u : IsLatest(u)' = IsLatest(u)  BY SameRows
<1>8. Held'  BY <1>7 DEF OneInv, Held
<1>9. Told'  BY <1>3, <1>6 DEF OneInv, Told
<1>10. Asked'
  <2>1. call'[1] # NoTool => turn' = "running" /\ call'[1] \in Waiting' /\ IsLatest(call[1].task)'
    BY <1>5, <1>7, CallIsLatest
  <2>2. \A u \in TaskIds : conv'[u] \in Ending => u = t
    BY <1>1, <1>6 DEF OneInv, Asked, Up
  <2>3. conv'[t] \in Ending  BY <1>1, <1>2
  <2> QED  BY <1>6, <2>1, <2>2, <2>3 DEF Asked
<1>11. Gated'  BY DEF Gated
<1> QED  BY <1>8, <1>9, <1>10, <1>11 DEF OneInv

LEMMA ToolStartOne == ASSUME MaxCalls = 1, Types, OneInv, ToolStarts(1) PROVE OneInv'
<1>1. /\ NoTool.stage = "none" /\ Rows \subseteq TaskIds /\ CallIds = {1} /\ call = [k \in CallIds |-> call[1]]
  BY OneCall
<1>2. Calling(1) => turn = "running" /\ call[1] = NoTool  BY DEF Calling
<1>3. ASSUME NEW n \in Names, Start(1, n) PROVE OneInv'  BY <1>3, StartOne
<1>4. ASSUME NEW t \in Rows, Send(1, t) PROVE OneInv'
  <2>1. /\ Calling(1) /\ IsLatest(t) /\ UNCHANGED <<created, name, call, turn>>
        /\ \/ Live(t) /\ UNCHANGED <<status, collected, conv>>
           \/ ~Live(t) /\ Launch(t)
    BY <1>4 DEF Send
  <2>2. CASE Live(t) /\ UNCHANGED <<status, collected, conv>>  BY <2>1, <2>2, SameTold DEF Live
  <2>3. CASE ~Live(t) /\ Launch(t)  BY <1>2, <2>1, <2>3, LaunchOne
  <2> QED  BY <2>1, <2>2, <2>3
<1>5. ASSUME NEW t \in Rows, SendInterrupting(1, t) PROVE OneInv'
  BY <1>2, <1>5, CancelOne DEF SendInterrupting
<1>6. ASSUME NEW t \in Rows, Stop(1, t) PROVE OneInv'
  BY <1>2, <1>6, CancelOne DEF Stop, durable
<1>7. ASSUME NEW t \in Rows, RequestProgress(1, t) PROVE OneInv'
  BY <1>7, SameTold DEF RequestProgress, Live
<1>8. ASSUME NEW t \in Rows, Result(1, t) PROVE OneInv'
  <2>1. /\ Calling(1) /\ collected' = [collected EXCEPT ![t] = @ \/ status[t] # "running"] /\ t \in TaskIds
        /\ UNCHANGED <<created, name, status, conv, call, turn>>
    BY <1>1, <1>8 DEF Result, Collect
  <2> QED  BY <1>1, <1>2, <2>1, QuietCall
<1>9. ASSUME NEW t \in Rows, ResultWaits(1, t) PROVE OneInv'
  <2>1. /\ Calling(1) /\ IsLatest(t) /\ Await(1, "result", t, "polling")
        /\ UNCHANGED <<created, name, status, collected, conv, turn>>
    BY <1>9 DEF ResultWaits, durable
  <2>2. call'[1] = [op |-> "result", task |-> t, stage |-> "polling"]  BY <1>1, <2>1 DEF Await
  <2>3. call'[1] \in Waiting /\ call'[1].task = t /\ call'[1].stage = "polling"  BY <2>2 DEF Waiting
  <2> QED  BY <1>1, <1>2, <2>1, <2>3, QuietCall
<1> QED  BY <1>3, <1>4, <1>5, <1>6, <1>7, <1>8, <1>9 DEF ToolStarts

LEMMA ToolReturnOne ==
  ASSUME MaxCalls = 1, Types, OneInv, ToolReturns(1) \/ ResultLetsGo(1)
  PROVE  OneInv'
<1> PICK t : t = call[1].task  OBVIOUS
<1>1. /\ CallIds = {1} /\ NoTool.stage = "none" /\ NoTool.op = "none" /\ status \in [TaskIds -> Statuses]
  BY OneCall
<1>2. call'[1] = NoTool
  BY <1>1 DEF ToolReturns, SendResumes, StopReturns, ResultEnds, ResultLetsGo, Returns
<1>3. call[1] # NoTool /\ turn = "running" /\ call[1] \in Waiting /\ IsLatest(t)
  BY <1>1 DEF OneInv, Asked, ToolReturns, SendResumes, StopReturns, ResultEnds, ResultLetsGo
<1>4. t \in Rows /\ t \in TaskIds  BY <1>3, OneCall DEF Waiting
<1>5. CASE SendResumes(1)
  <2>1. Looking(t) /\ ~Live(t)  BY <1>4, <1>5 DEF SendResumes, Looking, OneInv, Asked
  <2>2. Launch(t) /\ UNCHANGED <<created, name, turn>>  BY <1>5, <2>1 DEF SendResumes
  <2> QED  BY <1>2, <1>3, <1>4, <2>1, <2>2, LaunchOne
<1>6. CASE StopReturns(1)
  <2>1. /\ Looking(t) /\ ~Live(t) /\ UNCHANGED <<created, name, collected, conv, turn>>
        /\ status' = [status EXCEPT ![t] = IF @ = "running" THEN "interrupted" ELSE @]
    BY <1>4, <1>6 DEF StopReturns, Settled, Looking, OneInv, Asked
  <2>2. \A u \in TaskIds : status'[u] = "running" => status[u] = "running" /\ u # t  BY <1>1, <1>4, <2>1
  <2>3. \A u \in TaskIds : u # t => status'[u] = status[u]  BY <1>1, <2>1
  <2>4. Rows' = Rows /\ (\A u : IsLatest(u)' = IsLatest(u)) /\ \A u : Live(u)' = Live(u)
    BY <2>1, SameRows DEF Live
  <2>5. \A u \in TaskIds : (Looking(u) => u = t) /\ ~Asking(u) /\ ~Asking(u)' /\ ~Looking(u)'
    BY <1>1, <1>2, <2>1 DEF Looking, Asking
  <2>6. Held'  BY <2>1, <2>2, <2>4 DEF OneInv, Held
  <2>7. Told'  BY <2>1, <2>2, <2>3, <2>4, <2>5 DEF OneInv, Told
  <2>8. Asked'
    <3>1. \A u \in TaskIds : conv'[u] \notin Ending  BY <1>3, <2>1, <2>5 DEF OneInv, Asked, Up
    <3> QED  BY <1>2, <1>3, <2>1, <2>5, <3>1 DEF Asked
  <2>9. Gated'  BY <1>3, <2>1 DEF Gated
  <2> QED  BY <2>6, <2>7, <2>8, <2>9 DEF OneInv
<1>7. CASE ResultEnds(1)
  <2>1. /\ call[1].op = "result" /\ UNCHANGED <<created, name, status, conv, turn>>
        /\ collected' = [collected EXCEPT ![t] = @ \/ status[t] # "running"]
    BY <1>7 DEF ResultEnds, Collect
  <2>2. call[1].stage = "polling"  BY <1>3, <2>1 DEF Waiting
  <2> QED  BY <1>1, <1>2, <1>3, <1>4, <2>1, <2>2, QuietCall
<1>8. CASE ResultLetsGo(1)
  <2>1. call[1].op = "result" /\ UNCHANGED <<created, name, status, collected, conv, turn>>
    BY <1>8 DEF ResultLetsGo, durable
  <2>2. call[1].stage = "polling"  BY <1>3, <2>1 DEF Waiting
  <2> QED  BY <1>1, <1>2, <1>3, <2>1, <2>2, QuietCall
<1> QED  BY <1>5, <1>6, <1>7, <1>8 DEF ToolReturns

\* The turn ends, or the process goes down and comes back.
LEMMA TurnOne ==
  ASSUME MaxCalls = 1, Types, OneInv, EndTurn \/ BeginTurn \/ Close \/ CloseEnds \/ Crash \/ Restart
  PROVE  OneInv'
<1>1. UNCHANGED <<created, name, collected>>
  BY DEF EndTurn, BeginTurn, Close, CloseEnds, Crash, Restart, durable
<1>2. Rows' = Rows /\ Waiting' = Waiting /\ \A t : IsLatest(t)' = IsLatest(t)  BY <1>1, SameRows
<1>3. /\ CallIds = {1} /\ NoTool.stage = "none" /\ Rows \subseteq TaskIds
      /\ status \in [TaskIds -> Statuses] /\ conv \in [TaskIds -> Stages]
      /\ \A t \in TaskIds : status[t] = "running" => t \in Rows
  BY OneCall
<1>4. CASE EndTurn
  <2>1. /\ turn = "running" /\ call[1] = NoTool /\ UNCHANGED <<status, conv, call>>
        /\ turn' \in {"completed", "incomplete"} /\ (turn' = "completed" => Outstanding = {})
    BY <1>3, <1>4 DEF EndTurn, durable
  <2>2. /\ \A t : Live(t)' = Live(t)
        /\ \A t \in TaskIds : ~Asking(t) /\ ~Looking(t) /\ ~Asking(t)' /\ ~Looking(t)'
    BY <1>3, <2>1 DEF Live, Asking, Looking
  <2>3. Held'  BY <1>1, <1>2, <2>1 DEF OneInv, Held
  <2>4. Told'  BY <2>1, <2>2 DEF OneInv, Told, Up
  <2>5. Asked'
    <3>1. \A t \in TaskIds : conv'[t] \notin Ending  BY <2>1, <2>2 DEF OneInv, Asked, Up
    <3> QED  BY <2>1, <2>2, <3>1 DEF Asked
  <2>6. Gated'
    <3>1. ASSUME Outstanding = {}, NEW t \in Rows PROVE ~Live(t) /\ collected[t]
      <4>1. collected[t]  BY <3>1 DEF Outstanding, Latest, OneInv, Held
      <4>2. status[t] # "running"  BY <1>3, <4>1 DEF OneInv, Held
      <4> QED  BY <1>3, <4>1, <4>2 DEF OneInv, Told
    <3> QED  BY <1>1, <1>2, <2>1, <2>2, <3>1 DEF Gated
  <2> QED  BY <2>3, <2>4, <2>5, <2>6 DEF OneInv
<1>5. CASE BeginTurn
  <2>1. turn \in {"completed", "incomplete"} /\ turn' = "running" /\ UNCHANGED <<status, conv, call>>
    BY <1>5 DEF BeginTurn, durable
  <2>2. call[1] = NoTool  BY <2>1 DEF OneInv, Asked
  <2>3. /\ \A t : Live(t)' = Live(t)
        /\ \A t \in TaskIds : ~Asking(t) /\ ~Looking(t) /\ ~Asking(t)' /\ ~Looking(t)'
    BY <1>3, <2>1, <2>2 DEF Live, Asking, Looking
  <2>4. Held'  BY <1>1, <1>2, <2>1 DEF OneInv, Held
  <2>5. Told'  BY <2>1, <2>3 DEF OneInv, Told, Up
  <2>6. Asked'
    <3>1. \A t \in TaskIds : conv'[t] \notin Ending  BY <2>1, <2>3 DEF OneInv, Asked, Up
    <3> QED  BY <2>1, <2>2, <2>3, <3>1 DEF Asked
  <2>7. Gated'  BY <2>1 DEF Gated
  <2> QED  BY <2>4, <2>5, <2>6, <2>7 DEF OneInv
<1>6. CASE Close
  <2>1. /\ turn' = "closing" /\ UNCHANGED status /\ call' = [k \in CallIds |-> NoTool]
        /\ conv' = [t \in TaskIds |-> IF Live(t) THEN Cancelled(t) ELSE "idle"]
    BY <1>6 DEF Close, durable
  <2>2. \A t \in TaskIds : Live(t)' = Live(t)  BY <2>1 DEF Live, Cancelled
  <2>3. call'[1] = NoTool /\ \A t \in TaskIds : ~Asking(t)' /\ ~Looking(t)'
    BY <1>3, <2>1 DEF Asking, Looking
  <2>4. Held'  BY <1>1, <1>2, <2>1 DEF OneInv, Held
  <2>5. Told'  BY <2>1, <2>2 DEF OneInv, Told, Up
  <2>6. Asked'  BY <2>1, <2>3 DEF Asked, Up
  <2>7. Gated'  BY <2>1 DEF Gated
  <2> QED  BY <2>4, <2>5, <2>6, <2>7 DEF OneInv
<1>7. CASE CloseEnds
  <2>1. /\ turn = "closing" /\ turn' = "down" /\ UNCHANGED <<conv, call>> /\ \A t \in TaskIds : ~Live(t)
        /\ status' = [t \in TaskIds |-> IF t \in closing /\ status[t] = "running" THEN "interrupted" ELSE status[t]]
    BY <1>7 DEF CloseEnds
  <2>2. \A t \in TaskIds : status'[t] = "running" => status[t] = "running"  BY <2>1
  <2>3. call[1] = NoTool /\ \A t \in TaskIds : ~Live(t)'  BY <2>1 DEF OneInv, Asked, Live
  <2>4. \A t \in TaskIds : ~Asking(t)' /\ ~Looking(t)'  BY <1>3, <2>1, <2>3 DEF Asking, Looking
  <2>5. Held'  BY <1>1, <1>2, <2>2 DEF OneInv, Held
  <2>6. Told'  BY <2>1, <2>3 DEF Told, Up
  <2>7. Asked'  BY <2>1, <2>3, <2>4 DEF Asked, Up
  <2>8. Gated'  BY <2>1 DEF Gated
  <2> QED  BY <2>5, <2>6, <2>7, <2>8 DEF OneInv
<1>8. CASE Crash
  <2>1. /\ turn' = "down" /\ UNCHANGED status
        /\ conv' = [t \in TaskIds |-> "idle"] /\ call' = [k \in CallIds |-> NoTool]
    BY <1>8 DEF Crash, durable
  <2>2. \A t \in TaskIds : ~Live(t)'  BY <2>1 DEF Live
  <2>3. call'[1] = NoTool /\ \A t \in TaskIds : ~Asking(t)' /\ ~Looking(t)'
    BY <1>3, <2>1 DEF Asking, Looking
  <2>4. Held'  BY <1>1, <1>2, <2>1 DEF OneInv, Held
  <2>5. Told'  BY <2>1, <2>2 DEF Told, Up
  <2>6. Asked'  BY <2>1, <2>2, <2>3 DEF Asked, Up
  <2>7. Gated'  BY <2>1 DEF Gated
  <2> QED  BY <2>4, <2>5, <2>6, <2>7 DEF OneInv
<1>9. CASE Restart
  <2>1. /\ turn = "down" /\ turn' = "running" /\ UNCHANGED <<conv, call>>
        /\ status' = [t \in TaskIds |-> IF t \in Latest /\ status[t] = "running" THEN "interrupted" ELSE status[t]]
    BY <1>9 DEF Restart, Recovered
  <2>2. \A t \in TaskIds : status'[t] # "running"
    <3>1. \A t \in TaskIds : status[t] = "running" => t \in Latest
      BY <1>3 DEF OneInv, Held, Latest
    <3> QED  BY <2>1, <3>1
  <2>3. call[1] = NoTool /\ \A t \in TaskIds : ~Live(t) /\ ~Live(t)'  BY <2>1 DEF OneInv, Asked, Live
  <2>4. /\ \A t \in TaskIds : ~Asking(t)' /\ ~Looking(t)' /\ conv'[t] \notin Ending
    BY <1>3, <2>1, <2>3 DEF Asking, Looking, Live, Ending
  <2>5. Held'  BY <1>1, <1>2, <2>2 DEF OneInv, Held
  <2>6. Told'  BY <2>2, <2>3 DEF Told
  <2>7. Asked'  BY <2>1, <2>3, <2>4 DEF Asked
  <2>8. Gated'  BY <2>1 DEF Gated
  <2> QED  BY <2>5, <2>6, <2>7, <2>8 DEF OneInv
<1> QED  BY <1>4, <1>5, <1>6, <1>7, <1>8, <1>9

LEMMA NextOne == ASSUME MaxCalls = 1, Types, OneInv, [TasksNext]_taskVars PROVE OneInv'
<1>1. CASE UNCHANGED taskVars
  <2>1. UNCHANGED <<created, name, status, collected, call, turn, conv>>  BY <1>1 DEF taskVars, durable
  <2> QED  BY <2>1, SameTold DEF Live
<1>2. CallIds = {1}  BY OneCall
<1>3. CASE TasksNext
  BY <1>2, <1>3, ConversationOne, ReaderOne, ToolStartOne, ToolReturnOne, TurnOne DEF TasksNext
<1> QED  BY <1>1, <1>3

LEMMA AlwaysOne == ASSUME MaxCalls = 1 PROVE TasksSpec => [](Types /\ RestartIsLeft /\ OneInv)
<1>1. TasksInit => OneInv  BY InitOne
<1>2. Types /\ OneInv /\ [TasksNext]_taskVars => OneInv'  BY NextOne
<1> QED  BY <1>1, <1>2, AlwaysTyped, PTL DEF TasksSpec

LEMMA OneIsTrue == ASSUME MaxCalls = 1, Types, OneInv PROVE ConversationsAreTrue
<1>1. /\ CallIds = {1} /\ Rows \subseteq TaskIds /\ \A t \in TaskIds : Live(t) => t \in Rows
      /\ \A t \in Rows : t \in Nat
  BY OneCall DEF Rows
<1>2. OneConversation
  <2> SUFFICES ASSUME NEW t \in TaskIds, NEW u \in TaskIds, Live(t), Live(u), name[t] = name[u] PROVE t = u
    BY DEF OneConversation
  <2>1. IsLatest(t) /\ IsLatest(u) /\ t \in Rows /\ u \in Rows  BY <1>1 DEF OneInv, Told, Held
  <2> QED  BY <1>1, <2>1 DEF IsLatest, RowsOf
<1>3. SupersededCollected  BY DEF SupersededCollected, Latest, OneInv, Held
<1>4. GatesSeeNoWork  BY DEF GatesSeeNoWork, OneInv, Gated
<1>5. StatusTruthful  BY <1>1 DEF StatusTruthful, OneInv, Told, Up, Looking
<1> QED  BY <1>2, <1>3, <1>4, <1>5, TypesAreTypeOK DEF ConversationsAreTrue

\* delegate_tasks.py: while the PI makes one call at a time, a name has one conversation,
\* statuses are the truth, no result is lost under a newer brief, and the gates see no work.
THEOREM ConversationsAreTrueHolds == ASSUME MaxCalls = 1 PROVE TasksSpec => []ConversationsAreTrue
<1>1. Types /\ RestartIsLeft /\ OneInv => ConversationsAreTrue  BY OneIsTrue
<1> QED  BY <1>1, AlwaysOne, PTL

----------------------------------------------------------------------------
(* The conversations implement the board *)

\* The phase of a name with a latest row is that row's, now and after a step that
\* starts no brief.
LEMMA OnePhase ==
  ASSUME Types, NEW t \in Rows, IsLatest(t), UNCHANGED <<created, name>>
  PROVE  /\ name[t] \in Names
         /\ Phase(name[t]) = IF Live(t) THEN "working" ELSE IF ~collected[t] THEN "ended" ELSE "free"
         /\ \A n \in Names : name[t] = n =>
              Phase(n)' = IF Live(t)' THEN "working" ELSE IF ~collected'[t] THEN "ended" ELSE "free"
<1>1. t \in TaskIds /\ Rows \subseteq Nat /\ name[t] \in Names  BY Ids DEF Types, Tables, Rows
<1>2. {u \in RowsOf(name[t]) : IsLatest(u)} = {t}
  <2>1. t \in RowsOf(name[t])  BY DEF RowsOf
  <2>2. ASSUME NEW u \in RowsOf(name[t]), IsLatest(u) PROVE u = t
    <3>1. u \in Rows /\ u <= t /\ t <= u  BY <2>1, <2>2 DEF IsLatest, RowsOf
    <3> QED  BY <1>1, <3>1
  <2> QED  BY <2>1, <2>2
<1>3. Phase(name[t]) = IF Live(t) THEN "working" ELSE IF ~collected[t] THEN "ended" ELSE "free"
  BY <1>2 DEF Phase
<1>4. ASSUME NEW n \in Names, name[t] = n
      PROVE  Phase(n)' = IF Live(t)' THEN "working" ELSE IF ~collected'[t] THEN "ended" ELSE "free"
  <2>1. RowsOf(n)' = RowsOf(n) /\ \A u : IsLatest(u)' = IsLatest(u)  BY SameRows DEF RowsOf
  <2>2. {u \in RowsOf(n) : IsLatest(u)}' = {t}  BY <1>2, <1>4, <2>1
  <2> QED  BY <2>2 DEF Phase
<1> QED  BY <1>1, <1>3, <1>4

\* What happens to one row concerns its name alone.
LEMMA OtherPhase ==
  ASSUME Types, NEW t \in Rows, UNCHANGED <<created, name>>,
         \A u \in TaskIds \ {t} : collected'[u] = collected[u] /\ Live(u)' = Live(u),
         NEW n \in Names, n # name[t]
  PROVE  Phase(n)' = Phase(n)
<1>1. RowsOf(n)' = RowsOf(n) /\ RowsOf(n) \subseteq TaskIds \ {t} /\ \A u : IsLatest(u)' = IsLatest(u)
  BY SameRows, Ids DEF RowsOf, Types, Tables
<1> QED  BY <1>1 DEF Phase

LEMMA SamePhase ==
  ASSUME Types, UNCHANGED <<created, name>>,
         \A u \in TaskIds : collected'[u] = collected[u] /\ Live(u)' = Live(u)
  PROVE  \A n \in Names : Phase(n)' = Phase(n)
<1> SUFFICES ASSUME NEW n \in Names PROVE Phase(n)' = Phase(n)  OBVIOUS
<1>1. RowsOf(n)' = RowsOf(n) /\ RowsOf(n) \subseteq TaskIds /\ \A u : IsLatest(u)' = IsLatest(u)
  BY SameRows, Ids DEF RowsOf, Types, Tables
<1> QED  BY <1>1 DEF Phase

LEMMA Unseen ==
  ASSUME Types, UNCHANGED <<created, name>>,
         \A u \in TaskIds : collected'[u] = collected[u] /\ Live(u)' = Live(u),
         (turn' = "completed") = (turn = "completed")
  PROVE  UNCHANGED Board!vars
<1>1. \A n \in Names : Phase(n)' = Phase(n)  BY SamePhase
<1> QED  BY <1>1 DEF Board!vars

\* A conversation is launched for the latest row of a name that is not at work.
LEMMA BoardWorks ==
  ASSUME Types, NEW t \in Rows, IsLatest(t), ~Live(t), Launch(t), turn = "running", UNCHANGED <<created, name, turn>>
  PROVE  Board!Work(name[t])
<1>1. /\ t \in TaskIds /\ conv \in [TaskIds -> Stages] /\ collected \in [TaskIds -> BOOLEAN]
      /\ collected' = [collected EXCEPT ![t] = FALSE] /\ conv' = [conv EXCEPT ![t] = "scheduled"]
  BY Ids DEF Types, Tables, Process, Launch
<1>2. Live(t)' /\ \A u \in TaskIds \ {t} : collected'[u] = collected[u] /\ Live(u)' = Live(u)  BY <1>1 DEF Live
<1>3. Phase(name[t]) # "working" /\ \A n \in Names : n = name[t] => Phase(n)' = "working"
  BY <1>2, OnePhase
<1>4. \A n \in Names : n # name[t] => Phase(n)' = Phase(n)  BY <1>2, OtherPhase
<1>5. name[t] \in Names  BY OnePhase
<1> QED  BY <1>3, <1>4, <1>5 DEF Board!Work

LEMMA BoardEnds ==
  ASSUME MaxCalls = 1, Types, OneInv, NEW t \in Rows, NEW s \in Statuses, Live(t), End(t, s)
  PROVE  Board!Ends
<1>1. /\ t \in TaskIds /\ conv \in [TaskIds -> Stages]
      /\ conv' = [conv EXCEPT ![t] = "idle"] /\ UNCHANGED <<created, name, collected, turn>>
  BY OneCall DEF End
<1>2. ~Live(t)' /\ \A u \in TaskIds \ {t} : collected'[u] = collected[u] /\ Live(u)' = Live(u)  BY <1>1 DEF Live
<1>3. IsLatest(t) /\ ~collected[t] /\ turn # "completed"
  BY <1>1 DEF OneInv, Told, Held, Gated
<1>4. /\ name[t] \in Names /\ Phase(name[t]) = "working"
      /\ \A n \in Names : n = name[t] => Phase(n)' = "ended"
  BY <1>1, <1>2, <1>3, OnePhase
<1>5. \A n \in Names : n # name[t] => Phase(n)' = Phase(n)  BY <1>1, <1>2, OtherPhase
<1> PICK some : some = {name[t]}  OBVIOUS
<1>6. some \in SUBSET {n \in Names : Phase(n) = "working"}  BY <1>4
<1>7. \A n \in Names : Phase(n)' = IF n \in some THEN "ended" ELSE Phase(n)  BY <1>4, <1>5
<1>8. (turn = "completed")' = FALSE  BY <1>1, <1>3
<1> QED  BY <1>6, <1>7, <1>8 DEF Board!Ends

\* The result of the latest row of a name is asked for.
LEMMA BoardCollects ==
  ASSUME MaxCalls = 1, Types, OneInv, NEW t \in Rows, IsLatest(t), turn = "running",
         collected' = [collected EXCEPT ![t] = @ \/ status[t] # "running"],
         UNCHANGED <<created, name, status, conv, turn>>
  PROVE  Board!Collected(name[t]) \/ UNCHANGED Board!vars
<1>1. /\ t \in TaskIds /\ collected \in [TaskIds -> BOOLEAN] /\ \A u : Live(u)' = Live(u)
      /\ \A u \in TaskIds \ {t} : collected'[u] = collected[u]
      /\ collected'[t] = (collected[t] \/ status[t] # "running")
  BY OneCall DEF Live
<1>2. CASE collected'[t] = collected[t]
  <2>1. \A u \in TaskIds : collected'[u] = collected[u]  BY <1>1, <1>2
  <2> QED  BY <1>1, <2>1, Unseen
<1>3. CASE collected'[t] # collected[t]
  <2>1. ~collected[t] /\ collected'[t] /\ status[t] # "running"  BY <1>1, <1>3
  <2>2. ~Live(t)  BY <1>1, <2>1 DEF OneInv, Told
  <2>3. /\ name[t] \in Names /\ Phase(name[t]) = "ended"
        /\ \A n \in Names : n = name[t] => Phase(n)' = "free"
    BY <1>1, <2>1, <2>2, OnePhase
  <2>4. \A n \in Names : n # name[t] => Phase(n)' = Phase(n)  BY <1>1, OtherPhase
  <2> QED  BY <2>3, <2>4 DEF Board!Collected
<1> QED  BY <1>2, <1>3

LEMMA BoardConversation ==
  ASSUME MaxCalls = 1, Types, OneInv, NEW t \in Rows, Conversation(t) \/ Ask(t) \/ LoseReceipt(t)
  PROVE  Board!Ends \/ UNCHANGED Board!vars
<1>0. t \in TaskIds /\ conv \in [TaskIds -> Stages] /\ status[t] \in Statuses  BY OneCall
<1>1. CASE Begin(t)
  <2>1. conv[t] = "scheduled" /\ conv' = [conv EXCEPT ![t] = "executing"] /\ UNCHANGED <<created, name, collected, turn>>
    BY <1>1 DEF Begin, durable
  <2>2. \A u \in TaskIds : Live(u)' = Live(u)  BY <1>0, <2>1 DEF Live
  <2> QED  BY <2>1, <2>2, Unseen
<1>2. CASE Complete(t)  BY <1>2, BoardEnds DEF Complete, Live, Statuses
<1>3. CASE Fail(t)  BY <1>3, BoardEnds DEF Fail, Live, Statuses
<1>4. CASE Interrupt(t)  BY <1>4, BoardEnds DEF Interrupt, Live, Statuses
<1>5. CASE Drop(t)  BY <1>0, <1>5, BoardEnds DEF Drop, Live
<1>6. CASE Ask(t) \/ LoseReceipt(t)
  <2>1. UNCHANGED <<created, name, collected, turn, conv>>  BY <1>6 DEF Ask, LoseReceipt, durable
  <2> QED  BY <2>1, Unseen DEF Live
<1> QED  BY <1>1, <1>2, <1>3, <1>4, <1>5, <1>6 DEF Conversation

\* A new brief: its row becomes the latest of a name whose last one was collected.
LEMMA BoardStarts ==
  ASSUME MaxCalls = 1, Types, OneInv, NEW n \in Names, Start(1, n)
  PROVE  Board!Work(n)
<1> PICK t : t = created + 1  OBVIOUS
<1>1. /\ created < MaxTasks /\ created' = t /\ name' = [name EXCEPT ![t] = n]
      /\ collected' = [collected EXCEPT ![t] = FALSE] /\ conv' = [conv EXCEPT ![t] = "scheduled"]
      /\ turn = "running" /\ UNCHANGED turn /\ MayStart(n)
  BY DEF Start, Launch, Calling
<1>2. /\ created \in Nat /\ t \in TaskIds /\ Rows \subseteq TaskIds /\ name \in [TaskIds -> Names]
      /\ collected \in [TaskIds -> BOOLEAN] /\ conv \in [TaskIds -> Stages]
  BY <1>1, OneCall, Ids DEF Types, Tables, TaskIds
<1>3. /\ \A u \in TaskIds : name'[u] = (IF u = t THEN n ELSE name[u])
      /\ Live(t)' /\ \A u \in TaskIds \ {t} : collected'[u] = collected[u] /\ Live(u)' = Live(u)
  BY <1>1, <1>2 DEF Live
<1>4. Rows' = Rows \cup {t} /\ t \notin Rows /\ \A u \in Rows : u < t  BY <1>1, <1>2 DEF Rows
<1>5. t \in RowsOf(n)' /\ IsLatest(t)'
  BY <1>2, <1>3, <1>4 DEF IsLatest, RowsOf, Rows
<1>6. Phase(n)' = "working"
  <2>1. t \in {u \in RowsOf(n) : IsLatest(u)}'  BY <1>5
  <2> QED  BY <1>3, <2>1 DEF Phase
<1>7. Phase(n) # "working"
  <2>1. ASSUME NEW u \in RowsOf(n), IsLatest(u) PROVE ~Live(u)
    <3>1. u \in TaskIds /\ collected[u]  BY <1>1, <1>2, <2>1 DEF MayStart, RowsOf
    <3> QED  BY <3>1 DEF OneInv, Told, Held
  <2> QED  BY <2>1 DEF Phase
<1>8. ASSUME NEW m \in Names, m # n PROVE Phase(m)' = Phase(m)
  <2>1. RowsOf(m)' = RowsOf(m) /\ RowsOf(m) \subseteq TaskIds \ {t}
    BY <1>2, <1>3, <1>4, <1>8 DEF RowsOf
  <2>2. \A u \in RowsOf(m) : IsLatest(u)' = IsLatest(u)
    <3> SUFFICES ASSUME NEW u \in RowsOf(m) PROVE IsLatest(u)' = IsLatest(u)  OBVIOUS
    <3>1. u \in Rows /\ u \in Rows' /\ name[u] = m /\ name'[u] = m  BY <1>2, <1>3, <1>4, <2>1 DEF RowsOf
    <3> QED  BY <2>1, <3>1 DEF IsLatest
  <2> QED  BY <1>3, <2>1, <2>2 DEF Phase
<1> QED  BY <1>1, <1>6, <1>7, <1>8 DEF Board!Work

LEMMA BoardTools ==
  ASSUME MaxCalls = 1, Types, OneInv, ToolStarts(1) \/ ToolReturns(1) \/ ResultLetsGo(1)
  PROVE  [Board!Next]_Board!vars
<1>1. /\ NoTool.stage = "none" /\ NoTool.op = "none" /\ CallIds = {1} /\ Rows \subseteq TaskIds
      /\ \A t \in Rows : name[t] \in Names
  BY OneCall DEF Types, Tables
<1>2. ASSUME NEW n \in Names, Start(1, n) PROVE [Board!Next]_Board!vars
  BY <1>2, BoardStarts DEF Board!Next
<1>3. ASSUME NEW t \in Rows, Send(1, t) PROVE [Board!Next]_Board!vars
  <2>1. /\ turn = "running" /\ IsLatest(t) /\ UNCHANGED <<created, name, turn>>
        /\ \/ Live(t) /\ UNCHANGED <<status, collected, conv>>
           \/ ~Live(t) /\ Launch(t)
    BY <1>3 DEF Send, Calling
  <2>2. CASE Live(t) /\ UNCHANGED <<status, collected, conv>>  BY <2>1, <2>2, Unseen DEF Live
  <2>3. CASE ~Live(t) /\ Launch(t)  BY <1>1, <2>1, <2>3, BoardWorks DEF Board!Next
  <2> QED  BY <2>1, <2>2, <2>3
<1>4. ASSUME NEW t \in Rows, SendInterrupting(1, t) \/ Stop(1, t) PROVE [Board!Next]_Board!vars
  <2>1. conv' = [conv EXCEPT ![t] = Cancelled(t)] /\ Live(t) /\ UNCHANGED <<created, name, collected, turn>>
    BY <1>4 DEF SendInterrupting, Stop, durable
  <2>2. \A u \in TaskIds : Live(u)' = Live(u)  BY <2>1, OneCall DEF Live, Cancelled
  <2> QED  BY <2>1, <2>2, Unseen
<1>5. ASSUME NEW t \in Rows, RequestProgress(1, t) \/ ResultWaits(1, t) PROVE [Board!Next]_Board!vars
  <2>1. UNCHANGED <<created, name, collected, turn, conv>>  BY <1>5 DEF RequestProgress, ResultWaits, durable
  <2> QED  BY <2>1, Unseen DEF Live
<1>6. ASSUME NEW t \in Rows, Result(1, t) PROVE [Board!Next]_Board!vars
  <2>1. /\ turn = "running" /\ IsLatest(t) /\ UNCHANGED <<created, name, status, conv, turn>>
        /\ collected' = [collected EXCEPT ![t] = @ \/ status[t] # "running"]
    BY <1>6 DEF Result, Collect, Calling
  <2> QED  BY <1>1, <2>1, BoardCollects DEF Board!Next
<1>7. CASE ToolReturns(1) \/ ResultLetsGo(1)
  <2> PICK t : t = call[1].task  OBVIOUS
  <2>1. call[1] # NoTool /\ turn = "running" /\ call[1] \in Waiting /\ IsLatest(t)
    BY <1>1, <1>7 DEF OneInv, Asked, ToolReturns, SendResumes, StopReturns, ResultEnds, ResultLetsGo
  <2>2. t \in Rows /\ t \in TaskIds  BY <1>1, <2>1 DEF Waiting
  <2>3. CASE SendResumes(1)
    <3>1. ~Live(t)  BY <2>2, <2>3 DEF SendResumes, Looking, OneInv, Asked
    <3>2. Launch(t) /\ UNCHANGED <<created, name, turn>>  BY <2>3, <3>1 DEF SendResumes
    <3> QED  BY <1>1, <2>1, <2>2, <3>1, <3>2, BoardWorks DEF Board!Next
  <2>4. CASE StopReturns(1) \/ ResultLetsGo(1)
    <3>1. UNCHANGED <<created, name, collected, turn, conv>>  BY <2>4 DEF StopReturns, ResultLetsGo, durable
    <3> QED  BY <3>1, Unseen DEF Live
  <2>5. CASE ResultEnds(1)
    <3>1. /\ collected' = [collected EXCEPT ![t] = @ \/ status[t] # "running"]
          /\ UNCHANGED <<created, name, status, conv, turn>>
      BY <2>5 DEF ResultEnds, Collect
    <3> QED  BY <1>1, <2>1, <2>2, <3>1, BoardCollects DEF Board!Next
  <2> QED  BY <1>7, <2>3, <2>4, <2>5 DEF ToolReturns
<1> QED  BY <1>2, <1>3, <1>4, <1>5, <1>6, <1>7 DEF ToolStarts

LEMMA BoardTurns ==
  ASSUME MaxCalls = 1, Types, OneInv, EndTurn \/ BeginTurn \/ Close \/ CloseEnds \/ Crash \/ Restart
  PROVE  [Board!Next]_Board!vars
<1>1. UNCHANGED <<created, name, collected>>
  BY DEF EndTurn, BeginTurn, Close, CloseEnds, Crash, Restart, durable
<1>2. CASE ~Crash
  <2>1. \A t \in TaskIds : Live(t)' = Live(t)
    BY <1>2 DEF EndTurn, BeginTurn, Close, CloseEnds, Restart, Live, Cancelled
  <2>2. \A n \in Names : Phase(n)' = Phase(n)  BY <1>1, <2>1, SamePhase
  <2>3. CASE (turn' = "completed") = (turn = "completed")  BY <1>1, <2>1, <2>3, Unseen
  <2>4. CASE turn = "completed" /\ turn' # "completed"  BY <2>2, <2>4 DEF Board!Next, Board!CloseGates
  <2>5. CASE turn # "completed" /\ turn' = "completed"
    <3>1. EndTurn /\ Outstanding = {}
      BY <1>2, <2>5 DEF EndTurn, BeginTurn, Close, CloseEnds, Restart
    <3>2. \A n \in Names : Phase(n) = "free"
      <4> SUFFICES ASSUME NEW n \in Names, NEW t \in RowsOf(n), IsLatest(t) PROVE ~Live(t) /\ collected[t]
        BY DEF Phase
      <4>1. t \in Rows /\ t \in TaskIds  BY OneCall DEF RowsOf
      <4>2. collected[t]  BY <3>1, <4>1 DEF Outstanding, Latest
      <4> QED  BY <4>1, <4>2 DEF OneInv, Told, Held
    <3> QED  BY <2>2, <2>5, <3>2 DEF Board!Next, Board!OpenGates
  <2> QED  BY <2>3, <2>4, <2>5
<1>3. CASE Crash
  <2>1. turn' = "down" /\ \A t \in TaskIds : ~Live(t)'  BY <1>3 DEF Crash, Live
  <2> PICK some : some = {n \in Names : Phase(n) = "working"}  OBVIOUS
  <2>2. ASSUME NEW n \in Names PROVE Phase(n)' = IF n \in some THEN "ended" ELSE Phase(n)
    <3>1. /\ RowsOf(n)' = RowsOf(n) /\ RowsOf(n) \subseteq TaskIds /\ RowsOf(n) \subseteq Rows
          /\ \A u : IsLatest(u)' = IsLatest(u)
      BY <1>1, SameRows, OneCall DEF RowsOf
    <3>2. \A t \in RowsOf(n) : Live(t) => ~collected[t]  BY <3>1 DEF OneInv, Told, Held
    <3>3. CASE \E t \in RowsOf(n) : IsLatest(t) /\ Live(t)
      BY <1>1, <2>1, <3>1, <3>2, <3>3 DEF Phase
    <3>4. CASE ~\E t \in RowsOf(n) : IsLatest(t) /\ Live(t)
      BY <1>1, <2>1, <3>1, <3>4 DEF Phase
    <3> QED  BY <3>3, <3>4
  <2>3. some \in SUBSET {n \in Names : Phase(n) = "working"}  OBVIOUS
  <2> QED  BY <2>1, <2>2, <2>3 DEF Board!Next, Board!Ends
<1> QED  BY <1>2, <1>3

LEMMA BoardStep ==
  ASSUME MaxCalls = 1, Types, OneInv, [TasksNext]_taskVars
  PROVE  [Board!Next]_Board!vars
<1>1. CASE UNCHANGED taskVars
  <2>1. UNCHANGED <<created, name, collected, turn, conv>>  BY <1>1 DEF taskVars, durable
  <2> QED  BY <2>1, Unseen DEF Live
<1>2. CallIds = {1}  BY OneCall
<1>3. ASSUME NEW t \in Rows, Conversation(t) \/ Ask(t) \/ LoseReceipt(t) PROVE [Board!Next]_Board!vars
  BY <1>3, BoardConversation DEF Board!Next
<1>4. ASSUME NEW r \in Recipients, Reader(r) PROVE [Board!Next]_Board!vars
  <2>1. UNCHANGED <<created, name, collected, turn, conv>>  BY <1>4 DEF Reader, CopyMail, MarkDelivered
  <2> QED  BY <2>1, Unseen DEF Live
<1> QED  BY <1>1, <1>2, <1>3, <1>4, BoardTools, BoardTurns DEF TasksNext

LEMMA BoardInit == TasksInit => Board!Init
<1> SUFFICES ASSUME TasksInit PROVE Board!Init  OBVIOUS
<1>1. Rows = {} /\ turn = "running"  BY DEF TasksInit, Rows
<1>2. \A n \in Names : Phase(n) = "free"  BY <1>1 DEF Phase, RowsOf
<1> QED  BY <1>1, <1>2 DEF Board!Init

\* delegate_tasks.py, openai_agents_sdk.py: while the PI makes one call at a time, the
\* conversations implement the board it is promised.
THEOREM BoardIsImplemented == ASSUME MaxCalls = 1 PROVE TasksSpec => BoardSpec
<1>1. TasksInit => Board!Init  BY BoardInit
<1>2. Types /\ OneInv /\ [TasksNext]_taskVars => [Board!Next]_Board!vars  BY BoardStep
<1> QED  BY <1>1, <1>2, AlwaysOne, PTL DEF TasksSpec, BoardSpec, Board!Spec
===============================================================================
