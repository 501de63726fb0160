---------------------------- MODULE BlenderLease ----------------------------
(***************************************************************************)
(* The one-at-a-time lease over the Blender scene and the slicer           *)
(* (core/use_cases/blender_lease.py), the mutation boundary every delivery *)
(* path goes through (adapters/mcp/leased_blender.py), the asyncio.Lock    *)
(* they stand on, and the tasks that use them.                             *)
(*                                                                         *)
(* asyncio runs one task at a time and switches only at an await, so a     *)
(* step below is the code between two awaits of one task.  A refused call  *)
(* (BlenderBusyError) changes nothing and is not a step.                   *)
(*                                                                         *)
(* A task is in the lease as a "stage" (hold: a pipeline stage or a native *)
(* revision, which queue), a "tool" (try_hold: an exclusive MCP tool) or a *)
(* "command" (one mutation sent without an enclosing hold).                *)
(***************************************************************************)
EXTENDS Naturals, FiniteSets

CONSTANTS
    Task,        \* asyncio tasks that use Blender or the slicer
    Ticket,      \* recovery tickets; bounds the quarantines of one behaviour
    None,
    MaxCancels   \* bound: task.cancel() calls in one behaviour

ASSUME LeaseAssumption ==
    /\ None \notin Task
    /\ None \notin Ticket
    /\ IsFiniteSet(Task)
    /\ MaxCancels \in Nat

VARIABLES
    locked,      \* asyncio.Lock._locked
    waiters,     \* tasks in asyncio.Lock._waiters ...
    ahead,       \* ... and, for each of them, the waiters before it in the deque
    fut,         \* the future a waiter awaits
    waiting,     \* BlenderLease._waiting
    holder,      \* BlenderLease._holder, by kind
    owner,       \* BlenderLease._owner
    ticket,      \* BlenderLease._recovery_ticket
    pc,          \* where each task is suspended
    scope,       \* the kind of lease it asked for
    cancelReq,   \* CancelledError will be thrown in the task, or is on its way out
    slicers,     \* tasks whose shielded slicer run is still alive
    running,     \* tickets of unobserved commands Blender may still be executing
    ended,       \* tickets whose command is known to have ended
    cancels      \* task.cancel() calls so far

lockVars   == <<locked, waiters, ahead, fut>>
leaseVars  == <<waiting, holder, owner>>
engineVars == <<running, ended>>
vars == <<lockVars, leaseVars, ticket, pc, scope, cancelReq, slicers, engineVars, cancels>>

Queueing == {"stage"}
Trying   == {"tool", "command"}
Scope    == Queueing \union Trying
InLease  == {"held", "mutating", "slicing", "draining"}
Place    == InLease \union {"idle", "queued"}

Busy == ticket # None \/ locked \/ waiting > 0

TypeOK ==
    /\ locked \in BOOLEAN
    /\ waiters \subseteq Task
    /\ ahead \in [Task -> SUBSET Task]
    /\ fut \in [Task -> {"pending", "woken", "cancelled"}]
    /\ waiting \in Nat
    /\ holder \in Scope \union {None}
    /\ owner \in Task \union {None}
    /\ ticket \in Ticket \union {None}
    /\ pc \in [Task -> Place]
    /\ scope \in [Task -> Scope]
    /\ cancelReq \in [Task -> BOOLEAN]
    /\ slicers \subseteq Task
    /\ running \subseteq Ticket
    /\ ended \subseteq Ticket
    /\ cancels \in Nat

\* A process starts with an empty lease; recover_unfinished may already have
\* restored the ticket of a native run the last process left in doubt.
Init ==
    /\ locked = FALSE
    /\ waiters = {}
    /\ ahead = [t \in Task |-> {}]
    /\ fut = [t \in Task |-> "pending"]
    /\ waiting = 0
    /\ holder = None
    /\ owner = None
    /\ ticket \in Ticket \union {None}
    /\ pc = [t \in Task |-> "idle"]
    /\ scope = [t \in Task |-> "stage"]
    /\ cancelReq = [t \in Task |-> FALSE]
    /\ slicers = {}
    /\ running = {ticket} \ {None}
    /\ ended = {}
    /\ cancels = 0

-----------------------------------------------------------------------------
(* asyncio.Lock *)

\* _wake_up_first: set the first waiter's future unless it is already done.
Woken(ws, before, futures) ==
    [t \in Task |-> IF t \in ws /\ before[t] = {} /\ futures[t] = "pending"
                    THEN "woken" ELSE futures[t]]

\* acquire() returns without suspending.
LockIsFree == ~locked /\ \A w \in waiters : fut[w] = "cancelled"

\* acquire() appends a future to _waiters and suspends.
Enqueue(t) ==
    /\ waiters' = waiters \union {t}
    /\ ahead' = [ahead EXCEPT ![t] = waiters]
    /\ fut' = [fut EXCEPT ![t] = "pending"]

Without(t) == [u \in Task |-> ahead[u] \ {t}]

\* t's future leaves _waiters; when the lock is left free the next is woken.
Dequeue(t, takesLock) ==
    LET others == waiters \ {t}
        reset  == [fut EXCEPT ![t] = "pending"]
    IN  /\ waiters' = others
        /\ ahead' = [Without(t) EXCEPT ![t] = {}]
        /\ fut' = IF takesLock \/ locked THEN reset
                  ELSE Woken(others, Without(t), reset)

-----------------------------------------------------------------------------
(* BlenderLease *)

\* hold() past its last check: the task is holder and owner.
Granted(t, kind) ==
    /\ locked' = TRUE
    /\ holder' = kind
    /\ owner' = t
    /\ pc' = [pc EXCEPT ![t] = IF kind = "command" THEN "mutating" ELSE "held"]

\* From the check for a quarantine to the end of acquire()'s first step.
AcquireIf(t, kind, free) ==
    /\ scope' = [scope EXCEPT ![t] = kind]
    /\ \/ /\ free
          /\ Granted(t, kind)
          /\ UNCHANGED <<waiters, ahead, fut, waiting>>
       \/ /\ ~free
          /\ Enqueue(t)
          /\ waiting' = waiting + 1
          /\ pc' = [pc EXCEPT ![t] = "queued"]
          /\ UNCHANGED <<locked, holder, owner>>
    /\ UNCHANGED <<ticket, cancelReq, slicers, engineVars, cancels>>

\* Mutant: a newcomer takes an unlocked lease from under the waiter just woken.
AcquireBarging(t, kind) == AcquireIf(t, kind, ~locked)

Acquire(t, kind) == AcquireIf(t, kind, LockIsFree)

\* Leaving the lease, however the body ended.
Released(t) ==
    /\ locked' = FALSE
    /\ holder' = None
    /\ owner' = None
    /\ fut' = Woken(waiters, ahead, fut)
    /\ pc' = [pc EXCEPT ![t] = "idle"]
    /\ cancelReq' = [cancelReq EXCEPT ![t] = FALSE]

Hold(t) ==
    /\ pc[t] = "idle"
    /\ ticket = None
    /\ Acquire(t, "stage")

TryHold(t) ==
    /\ pc[t] = "idle"
    /\ ~Busy
    /\ Acquire(t, "tool")

\* _mutate outside any hold: command() -> try_hold() -> hold().
Command(t) ==
    /\ pc[t] = "idle"
    /\ ~Busy
    /\ Ticket \ (running \union ended) # {}   \* bound: a ticket is left for it
    /\ Acquire(t, "command")

\* Mutant: the quarantine is not looked at again after the wait.
ResumeUnchecked(t) ==
    /\ pc[t] = "queued"
    /\ fut[t] = "woken"
    /\ ~cancelReq[t]
    /\ waiting' = waiting - 1
    /\ Dequeue(t, TRUE)
    /\ Granted(t, scope[t])
    /\ UNCHANGED <<ticket, scope, cancelReq, slicers, engineVars, cancels>>

\* The rest of hold() after its future was set: the quarantine is re-checked.
Resume(t) ==
    /\ pc[t] = "queued"
    /\ fut[t] = "woken"
    /\ ~cancelReq[t]
    /\ waiting' = waiting - 1
    /\ \/ /\ ticket = None
          /\ Dequeue(t, TRUE)
          /\ Granted(t, scope[t])
       \/ /\ ticket # None
          /\ Dequeue(t, FALSE)
          /\ pc' = [pc EXCEPT ![t] = "idle"]
          /\ UNCHANGED <<locked, holder, owner>>
    /\ UNCHANGED <<ticket, scope, cancelReq, slicers, engineVars, cancels>>

\* Mutants: a cancelled waiter's exit with the wrong bookkeeping (it wakes
\* nobody; it counts itself out of _waiting twice).
ResumeCancelledAs(t, counted, wakesNext) ==
    /\ pc[t] = "queued"
    /\ fut[t] = "cancelled" \/ cancelReq[t]
    /\ waiting' = waiting - counted
    /\ Dequeue(t, ~wakesNext)
    /\ pc' = [pc EXCEPT ![t] = "idle"]
    /\ cancelReq' = [cancelReq EXCEPT ![t] = FALSE]
    /\ UNCHANGED <<locked, holder, owner, ticket, scope, slicers, engineVars, cancels>>
ResumeCancelledSilently(t) == ResumeCancelledAs(t, 1, FALSE)
ResumeCancelledTwice(t) == ResumeCancelledAs(t, 2, TRUE)
ResumeCancelled(t) ==
    /\ pc[t] = "queued"
    /\ fut[t] = "cancelled" \/ cancelReq[t]
    /\ waiting' = waiting - 1
    /\ Dequeue(t, FALSE)
    /\ pc' = [pc EXCEPT ![t] = "idle"]
    /\ cancelReq' = [cancelReq EXCEPT ![t] = FALSE]
    /\ UNCHANGED <<locked, holder, owner, ticket, scope, slicers, engineVars, cancels>>

Leave(t) ==
    /\ pc[t] = "held"
    /\ Released(t)
    /\ UNCHANGED <<waiters, ahead, waiting, ticket, scope, slicers, engineVars, cancels>>

-----------------------------------------------------------------------------
(* LeasedBlenderPort._mutate *)

\* command() inside the task's own hold: re-entrant for the owner only.
NestedCommand(t) ==
    /\ pc[t] = "held"
    /\ ~cancelReq[t]
    /\ ticket = None
    /\ owner = t /\ locked
    /\ Ticket \ (running \union ended) # {}   \* bound: a ticket is left for it
    /\ pc' = [pc EXCEPT ![t] = "mutating"]
    /\ UNCHANGED <<lockVars, leaseVars, ticket, scope, cancelReq, slicers, engineVars, cancels>>

\* work() is over for the caller: a nested one goes on in the body of its hold.
CommandEnds(t) ==
    \/ /\ scope[t] = "command"
       /\ Released(t)
    \/ /\ scope[t] # "command"
       /\ pc' = [pc EXCEPT ![t] = "held"]
       /\ UNCHANGED <<locked, holder, owner, fut, cancelReq>>

\* A reply, or an error that proves nothing was sent.
CommandReturns(t) ==
    /\ pc[t] = "mutating"
    /\ ~cancelReq[t]
    /\ CommandEnds(t)
    /\ UNCHANGED <<waiters, ahead, waiting, ticket, scope, slicers, engineVars, cancels>>

\* quarantine(): an existing ticket is kept, otherwise uuid4 makes a fresh one;
\* Blender may or may not still be executing the command.
Quarantine(t) ==
    /\ owner = t
    /\ \/ /\ ticket # None
          /\ UNCHANGED <<ticket, engineVars>>
       \/ /\ ticket = None
          /\ ticket' \in Ticket \ (running \union ended)
          /\ \/ running' = running \union {ticket'} /\ UNCHANGED ended
             \/ ended' = ended \union {ticket'} /\ UNCHANGED running

\* BlenderExecutionUncertainError or CancelledError out of work().
CommandInDoubt(t) ==
    /\ pc[t] = "mutating"
    /\ Quarantine(t)
    /\ CommandEnds(t)
    /\ UNCHANGED <<waiters, ahead, waiting, scope, slicers, cancels>>

\* The native runner quarantines from the body of its own hold.
QuarantineHeld(t) ==
    /\ pc[t] = "held"
    /\ Quarantine(t)
    /\ UNCHANGED <<lockVars, leaseVars, pc, scope, cancelReq, slicers, cancels>>

-----------------------------------------------------------------------------
(* run_to_completion around the slicer *)

StartSlice(t) ==
    /\ pc[t] = "held"
    /\ ~cancelReq[t]
    /\ pc' = [pc EXCEPT ![t] = "slicing"]
    /\ slicers' = slicers \union {t}
    /\ UNCHANGED <<lockVars, leaseVars, ticket, scope, cancelReq, engineVars, cancels>>

SlicerExits(t) ==
    /\ t \in slicers
    /\ slicers' = slicers \ {t}
    /\ UNCHANGED <<lockVars, leaseVars, ticket, pc, scope, cancelReq, engineVars, cancels>>

SliceReturns(t) ==
    /\ pc[t] = "slicing"
    /\ t \notin slicers
    /\ ~cancelReq[t]
    /\ pc' = [pc EXCEPT ![t] = "held"]
    /\ UNCHANGED <<lockVars, leaseVars, ticket, scope, cancelReq, slicers, engineVars, cancels>>

\* CancelledError at the shield, or again in the drain loop (continue).
SliceCancelled(t) ==
    /\ pc[t] \in {"slicing", "draining"}
    /\ cancelReq[t]
    /\ pc' = [pc EXCEPT ![t] = "draining"]
    /\ cancelReq' = [cancelReq EXCEPT ![t] = FALSE]
    /\ UNCHANGED <<lockVars, leaseVars, ticket, scope, slicers, engineVars, cancels>>

\* Mutant: a cancelled caller does not wait for the slicer it started.
DrainSkipped(t) ==
    /\ pc[t] = "draining"
    /\ Released(t)
    /\ UNCHANGED <<waiters, ahead, waiting, ticket, scope, slicers, engineVars, cancels>>

\* The drained work is done: CancelledError leaves the body of the hold.
DrainEnds(t) ==
    /\ pc[t] = "draining"
    /\ t \notin slicers
    /\ Released(t)
    /\ UNCHANGED <<waiters, ahead, waiting, ticket, scope, slicers, engineVars, cancels>>

-----------------------------------------------------------------------------
(* Cancellation, the engine and trusted recovery *)

\* task.cancel(): a pending future is cancelled at once, otherwise the error
\* is thrown when the task next runs.
Cancel(t) ==
    /\ cancels < MaxCancels
    /\ cancels' = cancels + 1
    /\ pc[t] # "idle"
    /\ \/ /\ pc[t] = "queued" /\ fut[t] = "pending"
          /\ fut' = [fut EXCEPT ![t] = "cancelled"]
          /\ UNCHANGED cancelReq
       \/ /\ ~(pc[t] = "queued" /\ fut[t] = "pending")
          /\ cancelReq' = [cancelReq EXCEPT ![t] = TRUE]
          /\ UNCHANGED fut
    /\ UNCHANGED <<locked, waiters, ahead, leaseVars, ticket, pc, scope, slicers, engineVars>>

EngineEnds(k) ==
    /\ k \in running
    /\ running' = running \ {k}
    /\ ended' = ended \union {k}
    /\ UNCHANGED <<lockVars, leaseVars, ticket, pc, scope, cancelReq, slicers, cancels>>

\* Mutant: any ended command's ticket opens the quarantine.
ResolveAny(k) ==
    /\ k \in ended
    /\ ticket # None
    /\ ticket' = None
    /\ UNCHANGED <<lockVars, leaseVars, pc, scope, cancelReq, slicers, engineVars, cancels>>

\* resolve_quarantine(k), called with evidence that k's command ended.
Resolve(k) ==
    /\ k \in ended
    /\ ticket = k
    /\ ticket' = None
    /\ UNCHANGED <<lockVars, leaseVars, pc, scope, cancelReq, slicers, engineVars, cancels>>

\* restore_quarantine(k) for a journalled run that nobody awaits.
Restore(k) ==
    /\ k \notin running
    /\ ~locked /\ waiting = 0
    /\ ticket = None \/ ticket = k
    /\ ticket' = k
    /\ ended' = ended \union {k}
    /\ UNCHANGED <<lockVars, leaseVars, pc, scope, cancelReq, slicers, running, cancels>>

-----------------------------------------------------------------------------
TaskStep(t) ==
    \/ Resume(t) \/ ResumeCancelled(t) \/ Leave(t)
    \/ CommandReturns(t) \/ CommandInDoubt(t)
    \/ SliceReturns(t) \/ SliceCancelled(t) \/ DrainEnds(t)

Next ==
    \/ \E t \in Task :
          \/ Hold(t) \/ TryHold(t) \/ Command(t)
          \/ NestedCommand(t) \/ QuarantineHeld(t) \/ StartSlice(t)
          \/ TaskStep(t) \/ SlicerExits(t) \/ Cancel(t)
    \/ \E k \in Ticket : EngineEnds(k) \/ Resolve(k) \/ Restore(k)

Spec == Init /\ [][Next]_vars

\* The event loop runs every ready task; a mutation ends at the socket timeout
\* and a slicer at its subprocess timeout; the body of a hold is a finite
\* program, so a holder that keeps coming back to it finally leaves.
Fairness ==
    \A t \in Task :
        /\ WF_vars(TaskStep(t))
        /\ SF_vars(Leave(t))
        /\ WF_vars(SlicerExits(t))

FairSpec == Spec /\ Fairness

-----------------------------------------------------------------------------
(* Properties *)

\* At most one task is inside the lease, and it is the recorded owner (hold,
\* try_hold and command never let a second task in).
LeaseExclusive ==
    \A t \in Task : pc[t] \in InLease => locked /\ owner = t /\ holder = scope[t]

\* Blender never gets a mutation while an earlier one, awaited or abandoned
\* in doubt, may still be executing (the reason quarantine exists).
EngineExclusive ==
    LET awaited == {t \in Task : pc[t] = "mutating"}
    IN  /\ \A s, t \in awaited : s = t
        /\ \A j, k \in running : j = k
        /\ awaited = {} \/ running = {}

\* A live slicer is always covered by its task's lease, however often that
\* task is cancelled (run_to_completion's drain).
SlicerInsideLease == \A t \in slicers : owner = t

\* try_hold and command never wait: they enter at once or are refused.
TryNeverQueues == \A t \in Task : scope[t] \in Trying => pc[t] # "queued"

\* _waiting counts exactly the lock's waiters, so busy never lies about a
\* lease that is free with a waiter about to take it.
WaitCountExact == waiting = Cardinality(waiters)

\* Nobody enters the lease past a task that was queued before it and that
\* was not cancelled meanwhile.
NoOvertaking ==
    [][\A t \in Task :
          owner' = t /\ owner # t
             => \A w \in (IF t \in waiters THEN ahead[t] ELSE waiters) : fut[w] = "cancelled"]_vars

\* A quarantine ends only by recovery of the very command that caused it,
\* and only after that command ended in Blender.
QuarantineSticks ==
    [][ticket # None => (ticket' = ticket \/ (ticket' = None /\ ticket \in ended))]_vars

\* The lease implements the abstract ownership of the engine.
Ownership == INSTANCE EngineOwnership WITH user <- owner, sealed <- (ticket # None)
ImplementsOwnership == Ownership!Spec

\* A queued stage gets the lease, or is refused or cancelled: no wake-up is
\* lost when waiters ahead of it are cancelled or refused.
QueueDrains == \A t \in Task : pc[t] = "queued" ~> pc[t] # "queued"
=============================================================================
