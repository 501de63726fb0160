------------------------- MODULE BlenderLeaseProofs -------------------------
(***************************************************************************)
(* Proofs about BlenderLease for every set of tasks, every set of tickets  *)
(* and any number of cancellations.                                        *)
(***************************************************************************)
EXTENDS BlenderLease, FiniteSetTheorems, TLAPS

\* The waiters form a queue: ahead orders them, and only its head is woken,
\* and only while the lock is free.
QueueInv ==
    /\ \A t \in Task : pc[t] = "queued" <=> t \in waiters
    /\ \A t \in Task : ahead[t] \subseteq waiters /\ t \notin ahead[t]
    /\ \A s, t \in waiters : s # t => s \in ahead[t] \/ t \in ahead[s]
    /\ \A t \in waiters : fut[t] = "woken" => ahead[t] = {} /\ ~locked

\* The lock is taken exactly while its one owner is inside the lease.
OwnerInv ==
    /\ \A t \in Task : pc[t] \in InLease <=> owner = t
    /\ locked <=> owner # None
    /\ \A t \in Task : owner = t => holder = scope[t]

WaitInv == TryNeverQueues /\ WaitCountExact

SlicerInv == \A t \in slicers : pc[t] \in {"slicing", "draining"}

\* A command is in flight only when there is no quarantine, and the quarantine
\* carries the ticket of the one command in doubt.
EngineInv ==
    /\ \A t \in Task : pc[t] = "mutating" => ticket = None
    /\ running \subseteq {ticket}
    /\ running \intersect ended = {}

IInv == TypeOK /\ QueueInv /\ OwnerInv /\ WaitInv /\ SlicerInv /\ EngineInv

-----------------------------------------------------------------------------
\* Each action of Next, for one task or one ticket: the case split every
\* inductive step below uses.
LEMMA NextCases ==
    ASSUME [Next]_vars, NEW P,
           ASSUME NEW t \in Task, Hold(t) \/ TryHold(t) \/ Command(t) PROVE P,
           ASSUME NEW t \in Task, Resume(t) \/ ResumeCancelled(t) PROVE P,
           ASSUME NEW t \in Task, Leave(t) \/ DrainEnds(t) PROVE P,
           ASSUME NEW t \in Task, CommandReturns(t) \/ CommandInDoubt(t) PROVE P,
           ASSUME NEW t \in Task, NestedCommand(t) \/ QuarantineHeld(t) PROVE P,
           ASSUME NEW t \in Task, StartSlice(t) \/ SliceReturns(t) \/ SliceCancelled(t) PROVE P,
           ASSUME NEW t \in Task, SlicerExits(t) \/ Cancel(t) PROVE P,
           ASSUME NEW k \in Ticket, EngineEnds(k) \/ Resolve(k) \/ Restore(k) PROVE P,
           ASSUME UNCHANGED vars PROVE P
    PROVE  P
BY Zenon DEF Next, TaskStep

\* The lock's bookkeeping, by itself: what a task that asks for the lease, or
\* leaves the queue, does to it.
LEMMA AcquireType ==
    ASSUME TypeOK, NEW t \in Task, NEW kind \in Scope, Acquire(t, kind)
    PROVE  TypeOK'
<1> USE DEF TypeOK, Acquire, AcquireIf, lockVars, leaseVars, engineVars
<1>1. pc' \in [Task -> Place] /\ scope' \in [Task -> Scope]
  BY DEF Granted, Place, InLease, Scope, Queueing, Trying
<1>2. waiters' \subseteq Task /\ ahead' \in [Task -> SUBSET Task]
      /\ fut' \in [Task -> {"pending", "woken", "cancelled"}] /\ waiting' \in Nat
  BY DEF Granted, Enqueue
<1>3. locked' \in BOOLEAN /\ holder' \in Scope \union {None} /\ owner' \in Task \union {None}
  BY DEF Granted
<1> QED BY <1>1, <1>2, <1>3

LEMMA DequeueType ==
    ASSUME TypeOK, NEW t \in Task, NEW b \in BOOLEAN, Dequeue(t, b)
    PROVE  /\ waiters' \subseteq Task
           /\ ahead' \in [Task -> SUBSET Task]
           /\ fut' \in [Task -> {"pending", "woken", "cancelled"}]
BY DEF TypeOK, Dequeue, Without, Woken

\* A queued task is counted in _waiting, so taking it out leaves a natural.
LEMMA WaitingPositive ==
    ASSUME TypeOK, WaitCountExact, NEW t \in waiters
    PROVE  waiting - 1 \in Nat
<1>1. IsFiniteSet(waiters)
  BY FS_Subset, LeaseAssumption DEF TypeOK
<1>2. Cardinality(waiters) # 0
  BY <1>1, FS_EmptySet
<1> QED BY <1>2 DEF TypeOK, WaitCountExact

\* The state stays within its types.
LEMMA TypeStep == TypeOK /\ WaitCountExact /\ QueueInv /\ [Next]_vars => TypeOK'
<1> SUFFICES ASSUME TypeOK, WaitCountExact, QueueInv, [Next]_vars PROVE TypeOK'
  OBVIOUS
<1>1. ASSUME NEW t \in Task, Hold(t) \/ TryHold(t) \/ Command(t) PROVE TypeOK'
  BY <1>1, AcquireType DEF Hold, TryHold, Command, Scope, Queueing, Trying
<1>2. ASSUME NEW t \in Task, Resume(t) \/ ResumeCancelled(t) PROVE TypeOK'
  <2>1. waiting' \in Nat
    <3>1. t \in waiters
      BY <1>2 DEF QueueInv, Resume, ResumeCancelled
    <3> QED BY <1>2, <3>1, WaitingPositive DEF Resume, ResumeCancelled
  <2>2. PICK b \in BOOLEAN : Dequeue(t, b)
    BY <1>2 DEF Resume, ResumeCancelled
  <2>3. /\ locked' \in BOOLEAN /\ holder' \in Scope \union {None}
        /\ owner' \in Task \union {None} /\ pc' \in [Task -> Place]
    <3>1. CASE Granted(t, scope[t])
      BY <3>1 DEF TypeOK, Granted, Place, InLease
    <3>2. CASE pc' = [pc EXCEPT ![t] = "idle"] /\ UNCHANGED <<locked, holder, owner>>
      BY <3>2 DEF TypeOK, Place
    <3> QED BY <1>2, <3>1, <3>2 DEF Resume, ResumeCancelled
  <2>4. ticket' = ticket /\ scope' = scope /\ slicers' = slicers /\ running' = running
        /\ ended' = ended /\ cancels' = cancels /\ cancelReq' \in [Task -> BOOLEAN]
    BY <1>2 DEF TypeOK, Resume, ResumeCancelled, engineVars
  <2> QED BY <2>1, <2>2, <2>3, <2>4, DequeueType DEF TypeOK
<1>3. ASSUME NEW t \in Task, Leave(t) \/ DrainEnds(t) PROVE TypeOK'
  <2>1. Released(t) /\ UNCHANGED <<waiters, ahead, waiting, ticket, scope, slicers, engineVars>> /\ cancels' = cancels
    BY <1>3 DEF Leave, DrainEnds
  <2>2. fut' \in [Task -> {"pending", "woken", "cancelled"}]
    BY <2>1 DEF TypeOK, Released, Woken
  <2>3. /\ locked' \in BOOLEAN /\ holder' \in Scope \union {None} /\ owner' \in Task \union {None}
        /\ pc' \in [Task -> Place] /\ cancelReq' \in [Task -> BOOLEAN]
    BY <2>1 DEF TypeOK, Released, Place
  <2> QED BY <2>1, <2>2, <2>3 DEF TypeOK, engineVars
<1>4. ASSUME NEW t \in Task, CommandReturns(t) \/ CommandInDoubt(t) PROVE TypeOK'
  <2>1. /\ ticket' \in Ticket \union {None} /\ running' \subseteq Ticket /\ ended' \subseteq Ticket
    BY <1>4 DEF TypeOK, CommandReturns, CommandInDoubt, Quarantine, engineVars
  <2>2. /\ locked' \in BOOLEAN /\ holder' \in Scope \union {None}
        /\ owner' \in Task \union {None} /\ pc' \in [Task -> Place]
        /\ fut' \in [Task -> {"pending", "woken", "cancelled"}]
        /\ cancelReq' \in [Task -> BOOLEAN]
    <3>1. CommandEnds(t)
      BY <1>4 DEF CommandReturns, CommandInDoubt
    <3>2. CASE scope[t] = "command" /\ Released(t)
      BY <3>2 DEF TypeOK, Released, Woken, Place
    <3>3. CASE /\ pc' = [pc EXCEPT ![t] = "held"]
               /\ UNCHANGED <<locked, holder, owner, fut, cancelReq>>
      BY <3>3 DEF TypeOK, Place, InLease
    <3> QED BY <3>1, <3>2, <3>3 DEF CommandEnds
  <2>3. /\ waiters' = waiters /\ ahead' = ahead /\ waiting' = waiting
        /\ scope' = scope /\ slicers' = slicers /\ cancels' = cancels
    BY <1>4 DEF CommandReturns, CommandInDoubt
  <2> QED BY <2>1, <2>2, <2>3 DEF TypeOK
<1>5. ASSUME NEW t \in Task, NestedCommand(t) \/ QuarantineHeld(t) PROVE TypeOK'
  BY <1>5 DEF TypeOK, NestedCommand, QuarantineHeld, Quarantine, lockVars, leaseVars,
              engineVars, Place, InLease
<1>6. ASSUME NEW t \in Task, StartSlice(t) \/ SliceReturns(t) \/ SliceCancelled(t) PROVE TypeOK'
  BY <1>6 DEF TypeOK, StartSlice, SliceReturns, SliceCancelled, lockVars, leaseVars,
              engineVars, Place, InLease
<1>7. ASSUME NEW t \in Task, SlicerExits(t) \/ Cancel(t) PROVE TypeOK'
  <2>1. CASE SlicerExits(t)
    BY <2>1 DEF TypeOK, SlicerExits, lockVars, leaseVars, engineVars
  <2>2. CASE Cancel(t)
    <3>1. /\ fut' = fut \/ fut' = [fut EXCEPT ![t] = "cancelled"]
          /\ cancelReq' = cancelReq \/ cancelReq' = [cancelReq EXCEPT ![t] = TRUE]
          /\ cancels' = cancels + 1
      BY <2>2 DEF Cancel
    <3>2. UNCHANGED <<locked, waiters, ahead, leaseVars, ticket, pc, scope, slicers, engineVars>>
      BY <2>2 DEF Cancel
    <3>3. fut' \in [Task -> {"pending", "woken", "cancelled"}]
      BY <3>1 DEF TypeOK
    <3>4. cancels' \in Nat
      BY <3>1 DEF TypeOK
    <3>5. ASSUME cancelReq' = [cancelReq EXCEPT ![t] = TRUE]
          PROVE  cancelReq' \in [Task -> BOOLEAN]
      BY <3>5 DEF TypeOK
    <3>6. cancelReq' \in [Task -> BOOLEAN]
      BY <3>1, <3>5 DEF TypeOK
    <3> QED BY <3>2, <3>3, <3>4, <3>6 DEF TypeOK, leaseVars, engineVars
  <2> QED BY <1>7, <2>1, <2>2
<1>8. ASSUME NEW k \in Ticket, EngineEnds(k) \/ Resolve(k) \/ Restore(k) PROVE TypeOK'
  BY <1>8 DEF TypeOK, EngineEnds, Resolve, Restore, lockVars, leaseVars, engineVars
<1>9. ASSUME UNCHANGED vars PROVE TypeOK'
  BY <1>9 DEF TypeOK, vars, lockVars, leaseVars, engineVars
<1> QED BY <1>1, <1>2, <1>3, <1>4, <1>5, <1>6, <1>7, <1>8, <1>9, NextCases, Zenon

-----------------------------------------------------------------------------
\* A step that moves nobody into or out of the queue or the lease, and wakes
\* nobody, keeps both orders.
LEMMA Frame ==
    ASSUME TypeOK, QueueInv, OwnerInv,
           UNCHANGED <<locked, waiters, ahead, owner, holder, scope>>,
           \A u \in Task : /\ pc'[u] = "queued" <=> pc[u] = "queued"
                           /\ pc'[u] \in InLease <=> pc[u] \in InLease
                           /\ fut'[u] = "woken" => fut[u] = "woken"
    PROVE  QueueInv' /\ OwnerInv'
<1>1. QueueInv'
  BY DEF TypeOK, QueueInv
<1>2. OwnerInv'
  BY DEF OwnerInv
<1> QED BY <1>1, <1>2

\* Taking the free lock finds no live waiter; anybody else goes to the back.
LEMMA AcquireInv ==
    ASSUME TypeOK, QueueInv, OwnerInv, NEW t \in Task, NEW kind \in Scope,
           pc[t] = "idle", Acquire(t, kind)
    PROVE  QueueInv' /\ OwnerInv'
<1> USE LeaseAssumption
<1>1. CASE LockIsFree /\ Granted(t, kind) /\ UNCHANGED <<waiters, ahead, fut, waiting>>
  <2>1. pc'[t] \in {"held", "mutating"} /\ \A u \in Task \ {t} : pc'[u] = pc[u]
    BY <1>1 DEF Granted, TypeOK
  <2>2. QueueInv'
    BY <1>1, <2>1 DEF QueueInv, TypeOK, LockIsFree
  <2>3. owner = None
    BY <1>1 DEF OwnerInv, LockIsFree
  <2>4. OwnerInv'
    BY <1>1, <2>1, <2>3 DEF OwnerInv, TypeOK, Granted, InLease, Acquire, AcquireIf
  <2> QED BY <2>2, <2>4
<1>2. CASE Enqueue(t) /\ pc' = [pc EXCEPT ![t] = "queued"] /\ UNCHANGED <<locked, holder, owner>>
  <2>1. pc'[t] = "queued" /\ \A u \in Task \ {t} : pc'[u] = pc[u]
    BY <1>2 DEF TypeOK
  <2>2. /\ ahead'[t] = waiters /\ fut'[t] = "pending" /\ t \notin waiters
        /\ \A u \in Task \ {t} : ahead'[u] = ahead[u] /\ fut'[u] = fut[u]
    BY <1>2 DEF Enqueue, TypeOK, QueueInv
  <2>3. QueueInv'
    BY <1>2, <2>1, <2>2 DEF QueueInv, TypeOK, Enqueue
  <2>4. owner # t
    BY DEF OwnerInv, InLease
  <2>5. OwnerInv'
    BY <1>2, <2>1, <2>4 DEF OwnerInv, TypeOK, InLease, Acquire, AcquireIf
  <2> QED BY <2>3, <2>5
<1> QED BY <1>1, <1>2 DEF Acquire, AcquireIf

\* Leaving the lease frees the lock and wakes at most the head of the queue.
LEMMA ReleasedInv ==
    ASSUME TypeOK, QueueInv, OwnerInv, NEW t \in Task, pc[t] \in InLease,
           Released(t), UNCHANGED <<waiters, ahead, scope>>
    PROVE  QueueInv' /\ OwnerInv'
<1>1. pc'[t] = "idle" /\ \A u \in Task \ {t} : pc'[u] = pc[u]
  BY DEF Released, TypeOK
<1>2. t \notin waiters
  BY DEF QueueInv, InLease
<1>3. \A u \in waiters : fut'[u] = "woken" => ahead[u] = {}
  BY DEF Released, Woken, QueueInv, TypeOK
<1>4. QueueInv'
  BY <1>1, <1>2, <1>3 DEF QueueInv, TypeOK, Released
<1>5. OwnerInv'
  BY <1>1, LeaseAssumption DEF OwnerInv, TypeOK, Released, InLease
<1> QED BY <1>4, <1>5

\* Leaving the queue keeps its order, and only its head can be woken.
LEMMA DequeueInv ==
    ASSUME TypeOK, QueueInv, NEW t \in waiters, NEW b \in BOOLEAN, Dequeue(t, b),
           b => fut[t] = "woken", locked' = (IF b THEN TRUE ELSE locked)
    PROVE  /\ waiters' = waiters \ {t}
           /\ \A u \in Task : ahead'[u] \subseteq waiters' /\ u \notin ahead'[u]
           /\ \A u, v \in waiters' : u # v => u \in ahead'[v] \/ v \in ahead'[u]
           /\ \A u \in waiters' : fut'[u] = "woken" => ahead'[u] = {} /\ ~locked'
<1>0. waiters' = waiters \ {t} /\ t \in Task
  BY DEF Dequeue, TypeOK
<1>1. ahead'[t] = {} /\ \A u \in Task \ {t} : ahead'[u] = ahead[u] \ {t}
  BY <1>0 DEF Dequeue, Without, TypeOK
<1>2. \A u \in waiters' : fut'[u] = "woken" => fut[u] = "woken" \/ (~b /\ ~locked /\ ahead'[u] = {})
  BY <1>0, <1>1 DEF Dequeue, Without, Woken, TypeOK
<1>3. \A u \in waiters' : b => fut[u] # "woken"
  BY <1>0 DEF QueueInv
<1> QED BY <1>0, <1>1, <1>2, <1>3 DEF QueueInv, TypeOK

\* The queue stays a queue, and the owner is the one task inside the lease.
LEMMA OrderStep ==
    TypeOK /\ QueueInv /\ OwnerInv /\ [Next]_vars => QueueInv' /\ OwnerInv'
<1> SUFFICES ASSUME TypeOK, QueueInv, OwnerInv, [Next]_vars PROVE QueueInv' /\ OwnerInv'
  OBVIOUS
<1> DEFINE Goal == QueueInv' /\ OwnerInv'
<1>1. ASSUME NEW t \in Task, Hold(t) \/ TryHold(t) \/ Command(t) PROVE Goal
  BY <1>1, AcquireInv DEF Hold, TryHold, Command, Scope, Queueing, Trying
<1>2. ASSUME NEW t \in Task, Resume(t) \/ ResumeCancelled(t) PROVE Goal
  <2>0. t \in waiters /\ pc[t] = "queued" /\ owner # t
    BY <1>2 DEF Resume, ResumeCancelled, QueueInv, OwnerInv, InLease
  <2>1. CASE Dequeue(t, TRUE) /\ Granted(t, scope[t]) /\ fut[t] = "woken" /\ scope' = scope
    <3>1. pc'[t] \in {"held", "mutating"} /\ \A u \in Task \ {t} : pc'[u] = pc[u]
      BY <2>1 DEF Granted, TypeOK
    <3>2. QueueInv'
      <4>1. locked' = (IF TRUE THEN TRUE ELSE locked)
        BY <2>1 DEF Granted
      <4>2. TRUE => fut[t] = "woken"
        BY <2>1
      <4>3. /\ waiters' = waiters \ {t}
            /\ \A u \in Task : ahead'[u] \subseteq waiters' /\ u \notin ahead'[u]
            /\ \A u, v \in waiters' : u # v => u \in ahead'[v] \/ v \in ahead'[u]
            /\ \A u \in waiters' : fut'[u] = "woken" => ahead'[u] = {} /\ ~locked'
        BY <2>0, <2>1, <4>1, <4>2, DequeueInv
      <4> QED BY <2>0, <3>1, <4>3 DEF QueueInv
    <3>3. owner = None
      BY <2>0, <2>1 DEF QueueInv, OwnerInv
    <3>4. OwnerInv'
      BY <2>1, <3>1, <3>3, LeaseAssumption DEF OwnerInv, Granted, InLease, TypeOK
    <3> QED BY <3>2, <3>4
  <2>2. CASE Dequeue(t, FALSE) /\ pc' = [pc EXCEPT ![t] = "idle"]
             /\ UNCHANGED <<locked, holder, owner, scope>>
    <3>1. pc'[t] = "idle" /\ \A u \in Task \ {t} : pc'[u] = pc[u]
      BY <2>2 DEF TypeOK
    <3>2. QueueInv'
      <4>1. locked' = (IF FALSE THEN TRUE ELSE locked)
        BY <2>2
      <4>2. /\ waiters' = waiters \ {t}
            /\ \A u \in Task : ahead'[u] \subseteq waiters' /\ u \notin ahead'[u]
            /\ \A u, v \in waiters' : u # v => u \in ahead'[v] \/ v \in ahead'[u]
            /\ \A u \in waiters' : fut'[u] = "woken" => ahead'[u] = {} /\ ~locked'
        BY <2>0, <2>2, <4>1, DequeueInv
      <4> QED BY <2>0, <3>1, <4>2 DEF QueueInv
    <3>3. OwnerInv'
      BY <2>0, <2>2, <3>1 DEF OwnerInv, InLease
    <3> QED BY <3>2, <3>3
  <2> QED BY <1>2, <2>1, <2>2 DEF Resume, ResumeCancelled
<1>3. ASSUME NEW t \in Task, Leave(t) \/ DrainEnds(t) PROVE Goal
  BY <1>3, ReleasedInv DEF Leave, DrainEnds, InLease
<1>4. ASSUME NEW t \in Task, CommandReturns(t) \/ CommandInDoubt(t) PROVE Goal
  <2>1. pc[t] = "mutating" /\ CommandEnds(t) /\ UNCHANGED <<waiters, ahead, scope>>
    BY <1>4 DEF CommandReturns, CommandInDoubt
  <2>2. CASE Released(t)
    BY <2>1, <2>2, ReleasedInv DEF InLease
  <2>3. CASE pc' = [pc EXCEPT ![t] = "held"] /\ UNCHANGED <<locked, holder, owner, fut>>
    BY <2>1, <2>3, Frame DEF TypeOK, InLease
  <2> QED BY <2>1, <2>2, <2>3 DEF CommandEnds
<1>5. ASSUME NEW t \in Task, NestedCommand(t) \/ QuarantineHeld(t) PROVE Goal
  BY <1>5, Frame DEF TypeOK, NestedCommand, QuarantineHeld, lockVars, leaseVars, InLease
<1>6. ASSUME NEW t \in Task, StartSlice(t) \/ SliceReturns(t) \/ SliceCancelled(t) PROVE Goal
  BY <1>6, Frame DEF TypeOK, StartSlice, SliceReturns, SliceCancelled, lockVars, leaseVars, InLease
<1>7. ASSUME NEW t \in Task, SlicerExits(t) \/ Cancel(t) PROVE Goal
  BY <1>7, Frame DEF TypeOK, SlicerExits, Cancel, lockVars, leaseVars
<1>8. ASSUME NEW k \in Ticket, EngineEnds(k) \/ Resolve(k) \/ Restore(k) PROVE Goal
  BY <1>8, Frame DEF EngineEnds, Resolve, Restore, lockVars, leaseVars
<1>9. ASSUME UNCHANGED vars PROVE Goal
  BY <1>9, Frame DEF vars, lockVars, leaseVars
<1> QED BY <1>1, <1>2, <1>3, <1>4, <1>5, <1>6, <1>7, <1>8, <1>9, NextCases, Zenon

-----------------------------------------------------------------------------
\* While the lease is not busy nobody waits, so try_hold enters at once; and
\* _waiting moves with the waiters of the lock.
LEMMA WaitStep ==
    TypeOK /\ QueueInv /\ WaitInv /\ [Next]_vars => WaitInv'
<1> SUFFICES ASSUME TypeOK, QueueInv, WaitInv, [Next]_vars PROVE WaitInv'
  OBVIOUS
<1> USE DEF WaitInv
<1>0. IsFiniteSet(waiters)
  BY FS_Subset, LeaseAssumption DEF TypeOK
<1>1. ASSUME NEW t \in Task, Hold(t) \/ TryHold(t) \/ Command(t) PROVE WaitInv'
  <2>0. pc[t] = "idle" /\ t \notin waiters
    BY <1>1 DEF Hold, TryHold, Command, QueueInv
  <2>1. PICK kind \in Scope : Acquire(t, kind) /\ (kind \in Trying => ~Busy)
    BY <1>1 DEF Hold, TryHold, Command, Scope, Trying, Queueing
  <2>2. CASE LockIsFree /\ Granted(t, kind) /\ UNCHANGED <<waiters, waiting>>
    <3>1. pc'[t] # "queued" /\ \A u \in Task \ {t} : pc'[u] = pc[u] /\ scope'[u] = scope[u]
      BY <2>1, <2>2 DEF Granted, TypeOK, Acquire, AcquireIf
    <3> QED BY <2>2, <3>1 DEF TryNeverQueues, WaitCountExact
  <2>3. CASE ~LockIsFree /\ Enqueue(t) /\ waiting' = waiting + 1
             /\ pc' = [pc EXCEPT ![t] = "queued"]
    <3>1. kind \notin Trying
      <4>1. waiting = 0 => waiters = {}
        BY <1>0, FS_EmptySet DEF WaitCountExact
      <4> QED BY <2>1, <2>3, <4>1 DEF Busy, LockIsFree, TypeOK
    <3>2. scope'[t] = kind /\ \A u \in Task \ {t} : pc'[u] = pc[u] /\ scope'[u] = scope[u]
      BY <2>1, <2>3 DEF Acquire, AcquireIf, TypeOK
    <3>3. Cardinality(waiters') = Cardinality(waiters) + 1
      BY <1>0, <2>0, <2>3, FS_AddElement DEF Enqueue
    <3> QED BY <2>3, <3>1, <3>2, <3>3 DEF TryNeverQueues, WaitCountExact
  <2> QED BY <2>1, <2>2, <2>3 DEF Acquire, AcquireIf
<1>2. ASSUME NEW t \in Task, Resume(t) \/ ResumeCancelled(t) PROVE WaitInv'
  <2>1. t \in waiters /\ waiters' = waiters \ {t} /\ waiting' = waiting - 1 /\ scope' = scope
    BY <1>2 DEF Resume, ResumeCancelled, QueueInv, Dequeue
  <2>2. Cardinality(waiters') = Cardinality(waiters) - 1
    BY <1>0, <2>1, FS_RemoveElement
  <2>3. pc'[t] # "queued" /\ \A u \in Task \ {t} : pc'[u] = pc[u]
    BY <1>2 DEF Resume, ResumeCancelled, Granted, TypeOK
  <2> QED BY <2>1, <2>2, <2>3 DEF TryNeverQueues, WaitCountExact
<1> DEFINE Quiet == /\ UNCHANGED <<waiters, waiting, scope>>
                    /\ \A u \in Task : pc'[u] = "queued" => pc[u] = "queued"
<1>q. ASSUME Quiet PROVE WaitInv'
  BY <1>q DEF TryNeverQueues, WaitCountExact
<1> HIDE DEF WaitInv
<1>3. ASSUME NEW t \in Task, Leave(t) \/ DrainEnds(t) PROVE WaitInv'
  BY <1>3, <1>q DEF Leave, DrainEnds, Released, TypeOK
<1>4. ASSUME NEW t \in Task, CommandReturns(t) \/ CommandInDoubt(t) PROVE WaitInv'
  BY <1>4, <1>q DEF CommandReturns, CommandInDoubt, CommandEnds, Released, TypeOK
<1>5. ASSUME NEW t \in Task, NestedCommand(t) \/ QuarantineHeld(t) PROVE WaitInv'
  BY <1>5, <1>q DEF NestedCommand, QuarantineHeld, TypeOK, lockVars, leaseVars
<1>6. ASSUME NEW t \in Task, StartSlice(t) \/ SliceReturns(t) \/ SliceCancelled(t) PROVE WaitInv'
  BY <1>6, <1>q DEF StartSlice, SliceReturns, SliceCancelled, TypeOK, lockVars, leaseVars
<1>7. ASSUME NEW t \in Task, SlicerExits(t) \/ Cancel(t) PROVE WaitInv'
  BY <1>7, <1>q DEF SlicerExits, Cancel, lockVars, leaseVars
<1>8. ASSUME NEW k \in Ticket, EngineEnds(k) \/ Resolve(k) \/ Restore(k) PROVE WaitInv'
  BY <1>8, <1>q DEF EngineEnds, Resolve, Restore, lockVars, leaseVars
<1>9. ASSUME UNCHANGED vars PROVE WaitInv'
  BY <1>9, <1>q DEF vars, lockVars, leaseVars
<1> QED BY <1>1, <1>2, <1>3, <1>4, <1>5, <1>6, <1>7, <1>8, <1>9, NextCases, Zenon

\* A slicer is alive only under a task suspended on it.
LEMMA SlicerStep == TypeOK /\ SlicerInv /\ [Next]_vars => SlicerInv'
<1> SUFFICES ASSUME TypeOK, SlicerInv, [Next]_vars PROVE SlicerInv'
  OBVIOUS
<1> USE DEF TypeOK, SlicerInv
<1>1. ASSUME NEW t \in Task, Hold(t) \/ TryHold(t) \/ Command(t) PROVE SlicerInv'
  BY <1>1 DEF Hold, TryHold, Command, Acquire, AcquireIf, Granted
<1>2. ASSUME NEW t \in Task, Resume(t) \/ ResumeCancelled(t) PROVE SlicerInv'
  BY <1>2 DEF Resume, ResumeCancelled, Granted
<1>3. ASSUME NEW t \in Task, Leave(t) \/ DrainEnds(t) PROVE SlicerInv'
  BY <1>3 DEF Leave, DrainEnds, Released
<1>4. ASSUME NEW t \in Task, CommandReturns(t) \/ CommandInDoubt(t) PROVE SlicerInv'
  BY <1>4 DEF CommandReturns, CommandInDoubt, CommandEnds, Released
<1>5. ASSUME NEW t \in Task, NestedCommand(t) \/ QuarantineHeld(t) PROVE SlicerInv'
  BY <1>5 DEF NestedCommand, QuarantineHeld
<1>6. ASSUME NEW t \in Task, StartSlice(t) \/ SliceReturns(t) \/ SliceCancelled(t) PROVE SlicerInv'
  BY <1>6 DEF StartSlice, SliceReturns, SliceCancelled
<1>7. ASSUME NEW t \in Task, SlicerExits(t) \/ Cancel(t) PROVE SlicerInv'
  BY <1>7 DEF SlicerExits, Cancel
<1>8. ASSUME NEW k \in Ticket, EngineEnds(k) \/ Resolve(k) \/ Restore(k) PROVE SlicerInv'
  BY <1>8 DEF EngineEnds, Resolve, Restore
<1>9. ASSUME UNCHANGED vars PROVE SlicerInv'
  BY <1>9 DEF vars
<1> HIDE DEF SlicerInv
<1> QED BY <1>1, <1>2, <1>3, <1>4, <1>5, <1>6, <1>7, <1>8, <1>9, NextCases, Zenon

\* No command is sent under quarantine, and only its own ticket is in doubt.
LEMMA EngineStep ==
    TypeOK /\ QueueInv /\ OwnerInv /\ EngineInv /\ [Next]_vars => EngineInv'
<1> SUFFICES ASSUME TypeOK, QueueInv, OwnerInv, EngineInv, [Next]_vars PROVE EngineInv'
  OBVIOUS
<1> USE LeaseAssumption
<1>1. ASSUME NEW t \in Task, Hold(t) \/ TryHold(t) \/ Command(t) PROVE EngineInv'
  BY <1>1 DEF EngineInv, TypeOK, Hold, TryHold, Command, Acquire, AcquireIf, Granted, Busy, engineVars
<1>2. ASSUME NEW t \in Task, Resume(t) \/ ResumeCancelled(t) PROVE EngineInv'
  BY <1>2 DEF EngineInv, TypeOK, Resume, ResumeCancelled, Granted, engineVars
<1>3. ASSUME NEW t \in Task, Leave(t) \/ DrainEnds(t) PROVE EngineInv'
  BY <1>3 DEF EngineInv, TypeOK, Leave, DrainEnds, Released, engineVars
<1>4. ASSUME NEW t \in Task, CommandReturns(t) \/ CommandInDoubt(t) PROVE EngineInv'
  <2>1. CASE CommandReturns(t)
    BY <2>1 DEF EngineInv, TypeOK, CommandReturns, CommandEnds, Released, engineVars
  <2>2. CASE CommandInDoubt(t)
    <3>1. pc[t] = "mutating" /\ CommandEnds(t) /\ Quarantine(t) /\ ticket = None /\ running = {}
      BY <2>2 DEF CommandInDoubt, EngineInv, TypeOK
    <3>2. \A u \in Task : pc'[u] # "mutating"
      <4>1. pc'[t] # "mutating" /\ \A u \in Task \ {t} : pc'[u] = pc[u]
        BY <3>1 DEF CommandEnds, Released, TypeOK
      <4>2. \A u \in Task \ {t} : pc[u] # "mutating"
        BY <3>1 DEF OwnerInv, InLease
      <4> QED BY <4>1, <4>2
    <3>3. running' \subseteq {ticket'} /\ running' \intersect ended' = {}
      BY <3>1 DEF Quarantine, EngineInv, TypeOK, engineVars
    <3> QED BY <3>2, <3>3 DEF EngineInv
  <2> QED BY <1>4, <2>1, <2>2
<1>5. ASSUME NEW t \in Task, NestedCommand(t) \/ QuarantineHeld(t) PROVE EngineInv'
  <2>1. CASE NestedCommand(t)
    BY <2>1 DEF EngineInv, TypeOK, NestedCommand, engineVars
  <2>2. CASE QuarantineHeld(t)
    <3>1. \A u \in Task : pc[u] # "mutating"
      BY <2>2 DEF QuarantineHeld, OwnerInv, InLease
    <3> QED BY <2>2, <3>1 DEF QuarantineHeld, Quarantine, EngineInv, TypeOK, engineVars
  <2> QED BY <1>5, <2>1, <2>2
<1>6. ASSUME NEW t \in Task, StartSlice(t) \/ SliceReturns(t) \/ SliceCancelled(t) PROVE EngineInv'
  BY <1>6 DEF EngineInv, TypeOK, StartSlice, SliceReturns, SliceCancelled, engineVars
<1>7. ASSUME NEW t \in Task, SlicerExits(t) \/ Cancel(t) PROVE EngineInv'
  BY <1>7 DEF EngineInv, SlicerExits, Cancel, engineVars
<1>8. ASSUME NEW k \in Ticket, EngineEnds(k) \/ Resolve(k) \/ Restore(k) PROVE EngineInv'
  <2>1. CASE EngineEnds(k) \/ Resolve(k)
    BY <2>1 DEF EngineInv, TypeOK, EngineEnds, Resolve, engineVars
  <2>2. CASE Restore(k)
    <3>1. \A u \in Task : pc[u] # "mutating"
      BY <2>2 DEF Restore, OwnerInv, InLease, TypeOK
    <3> QED BY <2>2, <3>1 DEF EngineInv, TypeOK, Restore
  <2> QED BY <1>8, <2>1, <2>2
<1>9. ASSUME UNCHANGED vars PROVE EngineInv'
  BY <1>9 DEF EngineInv, vars, engineVars
<1> QED BY <1>1, <1>2, <1>3, <1>4, <1>5, <1>6, <1>7, <1>8, <1>9, NextCases, Zenon

-----------------------------------------------------------------------------
\* The inductive invariant holds in every reachable state.
THEOREM Invariance == Spec => []IInv
<1>1. Init => IInv
  <2> SUFFICES ASSUME Init PROVE IInv
    OBVIOUS
  <2> USE LeaseAssumption DEF Init
  <2>1. TypeOK
    BY DEF TypeOK, Scope, Queueing, Trying, Place
  <2>2. QueueInv /\ OwnerInv /\ SlicerInv /\ EngineInv /\ TryNeverQueues
    BY DEF QueueInv, OwnerInv, SlicerInv, EngineInv, TryNeverQueues, InLease
  <2>3. WaitCountExact
    BY FS_EmptySet DEF WaitCountExact
  <2> QED BY <2>1, <2>2, <2>3 DEF IInv, WaitInv
<1>2. IInv /\ [Next]_vars => IInv'
  BY TypeStep, OrderStep, WaitStep, SlicerStep, EngineStep DEF IInv, WaitInv
<1> QED BY <1>1, <1>2, PTL DEF Spec

\* Every state stays within its types.
THEOREM TypeCorrect == Spec => []TypeOK
<1>1. IInv => TypeOK
  BY DEF IInv
<1> QED BY <1>1, Invariance, PTL

\* Two tasks are never in the lease together, whatever is queued or cancelled.
THEOREM MutualExclusion == Spec => []LeaseExclusive
<1>1. IInv => LeaseExclusive
  BY LeaseAssumption DEF IInv, OwnerInv, LeaseExclusive, TypeOK
<1> QED BY <1>1, Invariance, PTL

\* Blender never holds two mutations, awaited or abandoned.
THEOREM OneMutation == Spec => []EngineExclusive
<1>1. IInv => EngineExclusive
  <2> SUFFICES ASSUME IInv PROVE EngineExclusive
    OBVIOUS
  <2>1. \A s, t \in {u \in Task : pc[u] = "mutating"} : s = t
    BY DEF IInv, OwnerInv, InLease
  <2>2. \A j, k \in running : j = k
    BY DEF IInv, EngineInv
  <2>3. (\E t \in Task : pc[t] = "mutating") => running = {}
    BY LeaseAssumption DEF IInv, EngineInv, TypeOK
  <2> QED BY <2>1, <2>2, <2>3 DEF EngineExclusive
<1> QED BY <1>1, Invariance, PTL

\* The lease is never released under a live slicer.
THEOREM SlicerCovered == Spec => []SlicerInsideLease
<1>1. IInv => SlicerInsideLease
  BY DEF IInv, SlicerInv, OwnerInv, SlicerInsideLease, InLease, TypeOK
<1> QED BY <1>1, Invariance, PTL

\* try_hold and command answer at once.
THEOREM TryAnswersAtOnce == Spec => []TryNeverQueues
<1>1. IInv => TryNeverQueues
  BY DEF IInv, WaitInv
<1> QED BY <1>1, Invariance, PTL

\* busy counts every waiter, so it never reports a lease free that is not.
THEOREM WaitersCounted == Spec => []WaitCountExact
<1>1. IInv => WaitCountExact
  BY DEF IInv, WaitInv
<1> QED BY <1>1, Invariance, PTL

\* A quarantine is lifted only by recovery of its own, ended, command.
THEOREM QuarantineKept == Spec => QuarantineSticks
<1> DEFINE Kept == ticket # None => (ticket' = ticket \/ (ticket' = None /\ ticket \in ended))
<1>1. [Next]_vars => [Kept]_vars
  <2> SUFFICES ASSUME [Next]_vars PROVE Kept
    OBVIOUS
  <2>1. ASSUME NEW t \in Task, Hold(t) \/ TryHold(t) \/ Command(t) PROVE Kept
    BY <2>1 DEF Hold, TryHold, Command, Acquire, AcquireIf
  <2>2. ASSUME NEW t \in Task, Resume(t) \/ ResumeCancelled(t) PROVE Kept
    BY <2>2 DEF Resume, ResumeCancelled
  <2>3. ASSUME NEW t \in Task, Leave(t) \/ DrainEnds(t) PROVE Kept
    BY <2>3 DEF Leave, DrainEnds
  <2>4. ASSUME NEW t \in Task, CommandReturns(t) \/ CommandInDoubt(t) PROVE Kept
    BY <2>4 DEF CommandReturns, CommandInDoubt, Quarantine
  <2>5. ASSUME NEW t \in Task, NestedCommand(t) \/ QuarantineHeld(t) PROVE Kept
    BY <2>5 DEF NestedCommand, QuarantineHeld, Quarantine
  <2>6. ASSUME NEW t \in Task, StartSlice(t) \/ SliceReturns(t) \/ SliceCancelled(t) PROVE Kept
    BY <2>6 DEF StartSlice, SliceReturns, SliceCancelled
  <2>7. ASSUME NEW t \in Task, SlicerExits(t) \/ Cancel(t) PROVE Kept
    BY <2>7 DEF SlicerExits, Cancel
  <2>8. ASSUME NEW k \in Ticket, EngineEnds(k) \/ Resolve(k) \/ Restore(k) PROVE Kept
    BY <2>8 DEF EngineEnds, Resolve, Restore
  <2>9. ASSUME UNCHANGED vars PROVE Kept
    BY <2>9 DEF vars
  <2> HIDE DEF Kept
  <2> QED BY <2>1, <2>2, <2>3, <2>4, <2>5, <2>6, <2>7, <2>8, <2>9, NextCases, Zenon
<1> QED BY <1>1, PTL DEF Spec, QuarantineSticks

\* Entering the lease, from the free lock or from the queue, passes nobody.
THEOREM Fifo == Spec => NoOvertaking
<1> DEFINE Passed(t) == IF t \in waiters THEN ahead[t] ELSE waiters
           Fair == \A t \in Task : owner' = t /\ owner # t
                                     => \A w \in Passed(t) : fut[w] = "cancelled"
<1>1. IInv /\ [Next]_vars => [Fair]_vars
  <2> SUFFICES ASSUME IInv, [Next]_vars PROVE Fair
    OBVIOUS
  <2> USE LeaseAssumption DEF IInv, TypeOK
  <2>0. ASSUME owner' \in {owner, None} PROVE Fair
    BY <2>0
  <2>1. ASSUME NEW t \in Task, Hold(t) \/ TryHold(t) \/ Command(t) PROVE Fair
    BY <2>1 DEF Hold, TryHold, Command, Acquire, AcquireIf, Granted, LockIsFree, QueueInv
  <2>2. ASSUME NEW t \in Task, Resume(t) \/ ResumeCancelled(t) PROVE Fair
    <3>1. owner' = owner \/ (owner' = t /\ t \in waiters /\ ahead[t] = {})
      BY <2>2 DEF Resume, ResumeCancelled, Granted, QueueInv
    <3> QED BY <3>1
  <2> HIDE DEF Fair, IInv, TypeOK
  <2>3. ASSUME NEW t \in Task, Leave(t) \/ DrainEnds(t) PROVE Fair
    BY <2>3, <2>0 DEF Leave, DrainEnds, Released
  <2>4. ASSUME NEW t \in Task, CommandReturns(t) \/ CommandInDoubt(t) PROVE Fair
    BY <2>4, <2>0 DEF CommandReturns, CommandInDoubt, CommandEnds, Released
  <2>5. ASSUME NEW t \in Task, NestedCommand(t) \/ QuarantineHeld(t) PROVE Fair
    BY <2>5, <2>0 DEF NestedCommand, QuarantineHeld, leaseVars
  <2>6. ASSUME NEW t \in Task, StartSlice(t) \/ SliceReturns(t) \/ SliceCancelled(t) PROVE Fair
    BY <2>6, <2>0 DEF StartSlice, SliceReturns, SliceCancelled, leaseVars
  <2>7. ASSUME NEW t \in Task, SlicerExits(t) \/ Cancel(t) PROVE Fair
    BY <2>7, <2>0 DEF SlicerExits, Cancel, leaseVars
  <2>8. ASSUME NEW k \in Ticket, EngineEnds(k) \/ Resolve(k) \/ Restore(k) PROVE Fair
    BY <2>8, <2>0 DEF EngineEnds, Resolve, Restore, leaseVars
  <2>9. ASSUME UNCHANGED vars PROVE Fair
    BY <2>9, <2>0 DEF vars, leaseVars
  <2> QED BY <2>1, <2>2, <2>3, <2>4, <2>5, <2>6, <2>7, <2>8, <2>9, NextCases, Zenon
<1> QED BY <1>1, Invariance, PTL DEF Spec, NoOvertaking

-----------------------------------------------------------------------------
\* The lease implements the abstract ownership of the engine: every step
\* enters, leaves, seals, unseals or restores, or moves neither owner nor seal.
THEOREM Implementation == Spec => ImplementsOwnership
<1> USE LeaseAssumption
<1>1. Init => Ownership!Init
  BY DEF Init, Ownership!Init
<1>2. IInv /\ [Next]_vars => [Ownership!Next]_Ownership!vars
  <2> SUFFICES ASSUME IInv, [Next]_vars PROVE [Ownership!Next]_Ownership!vars
    OBVIOUS
  <2> DEFINE Step == [Ownership!Next]_Ownership!vars
  <2> USE DEF IInv, TypeOK, OwnerInv, InLease
  <2>s. ASSUME UNCHANGED <<owner, ticket>> PROVE Step
    BY <2>s DEF Ownership!vars
  <2>1. ASSUME NEW t \in Task, Hold(t) \/ TryHold(t) \/ Command(t) PROVE Step
    <3>1. CASE Granted(t, "stage") \/ Granted(t, "tool") \/ Granted(t, "command")
      BY <2>1, <3>1 DEF Hold, TryHold, Command, Acquire, AcquireIf, Granted, Busy, LockIsFree,
                        Ownership!Next, Ownership!Enter
    <3>2. CASE UNCHANGED owner
      BY <2>1, <3>2, <2>s DEF Hold, TryHold, Command, Acquire, AcquireIf
    <3> QED BY <2>1, <3>1, <3>2 DEF Hold, TryHold, Command, Acquire, AcquireIf
  <2>2. ASSUME NEW t \in Task, Resume(t) \/ ResumeCancelled(t) PROVE Step
    <3>1. CASE Granted(t, scope[t]) /\ ticket = None /\ ticket' = ticket /\ pc[t] = "queued"
               /\ fut[t] = "woken"
      <4>1. owner = None
        BY <3>1 DEF QueueInv
      <4> QED BY <3>1, <4>1 DEF Granted, Ownership!Next, Ownership!Enter
    <3>2. CASE UNCHANGED <<owner, ticket>>
      BY <3>2, <2>s
    <3> QED BY <2>2, <3>1, <3>2 DEF Resume, ResumeCancelled
  <2>3. ASSUME NEW t \in Task, Leave(t) \/ DrainEnds(t) PROVE Step
    BY <2>3 DEF Leave, DrainEnds, Released, Ownership!Next, Ownership!Leave
  <2>4. ASSUME NEW t \in Task, CommandReturns(t) \/ CommandInDoubt(t) PROVE Step
    <3>1. owner = t /\ (owner' = None \/ owner' = owner)
          /\ (ticket' = ticket \/ ticket' # None)
      BY <2>4 DEF CommandReturns, CommandInDoubt, CommandEnds, Released, Quarantine
    <3> QED BY <3>1 DEF Ownership!Next, Ownership!Leave, Ownership!Seal, Ownership!vars
  <2>5. ASSUME NEW t \in Task, NestedCommand(t) \/ QuarantineHeld(t) PROVE Step
    BY <2>5 DEF NestedCommand, QuarantineHeld, Quarantine, leaseVars,
                Ownership!Next, Ownership!Seal, Ownership!vars
  <2> HIDE DEF Step
  <2>6. ASSUME NEW t \in Task, StartSlice(t) \/ SliceReturns(t) \/ SliceCancelled(t) PROVE Step
    BY <2>6, <2>s DEF StartSlice, SliceReturns, SliceCancelled, leaseVars
  <2>7. ASSUME NEW t \in Task, SlicerExits(t) \/ Cancel(t) PROVE Step
    BY <2>7, <2>s DEF SlicerExits, Cancel, leaseVars
  <2> USE DEF Step
  <2>8. ASSUME NEW k \in Ticket, EngineEnds(k) \/ Resolve(k) \/ Restore(k) PROVE Step
    <3>1. CASE EngineEnds(k)
      BY <3>1, <2>s DEF EngineEnds, leaseVars
    <3>2. CASE Resolve(k)
      BY <3>2 DEF Resolve, leaseVars, Ownership!Next, Ownership!Unseal
    <3>3. CASE Restore(k)
      BY <3>3 DEF Restore, leaseVars, Ownership!Next, Ownership!Restore
    <3> QED BY <2>8, <3>1, <3>2, <3>3
  <2>9. ASSUME UNCHANGED vars PROVE Step
    BY <2>9, <2>s DEF vars, leaseVars
  <2> HIDE DEF Step
  <2> QED BY <2>1, <2>2, <2>3, <2>4, <2>5, <2>6, <2>7, <2>8, <2>9, NextCases, Zenon DEF Step
<1> QED BY <1>1, <1>2, Invariance, PTL DEF Spec, ImplementsOwnership, Ownership!Spec
=============================================================================
