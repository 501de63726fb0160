---------------------------- MODULE LeasedSocket ----------------------------
(***************************************************************************)
(* The Blender lease over the Blender socket (adapters/mcp/                *)
(* leased_blender.py).  Read-only calls go straight to send_command.  A    *)
(* mutation enters the lease in the step in which it calls send_command    *)
(* and leaves it in the step in which that call ends; a call that was      *)
(* cancelled or whose completion is unknown seals the lease on its way     *)
(* out.  The lease grants and seals as EngineOwnership does, which         *)
(* BlenderLease implements; the API process outlives the behaviour, so no  *)
(* seal is lifted or restored: _mutate keeps no recovery ticket.           *)
(***************************************************************************)
EXTENDS BlenderSocket

CONSTANTS Mutation   \* the calls whose tool is not in _READ_ONLY

ASSUME MutationAssumption == Mutation \subseteq Command

VARIABLES user, sealed

leased == <<vars, user, sealed>>

LInit == Init /\ user = None /\ sealed = FALSE

\* Mutant of Mutate: the lease is taken without a look at the seal.
MutateThoughSealed(k) ==
    /\ user = None
    /\ user' = k
    /\ UNCHANGED sealed
    /\ Call(k)

\* _mutate: command() grants a free and unsealed lease, then work() starts.
Mutate(k) ==
    /\ user = None
    /\ ~sealed
    /\ user' = k
    /\ UNCHANGED sealed
    /\ Call(k)

\* Mutant of InDoubt: only a cancellation seals, an uncertain reply does not.
InDoubtIfDropped(k) == pc'[k] = "dropped"

\* The two exceptions that _mutate answers with quarantine(): a cancellation,
\* also one that came before the write, and an uncertain completion.
InDoubt(k) == pc'[k] \in {"unknown", "dropped"}

\* The lease stays with a call that is not over, and is left by one that is.
Follow(k) ==
    IF pc'[k] \in {"queued", "dialing", "reading"}
    THEN UNCHANGED <<user, sealed>>
    ELSE /\ user' = None
         /\ sealed' = (sealed \/ InDoubt(k))

\* The call of the mutation inside the lease goes on or is cancelled.
MutationStep(k) == (Client(k) \/ Dropped(k)) /\ Follow(k)

\* execute and call_tool of a tool in _READ_ONLY.
ReadStep(k) ==
    /\ Call(k) \/ Client(k) \/ Dropped(k)
    /\ UNCHANGED <<user, sealed>>

EngineStep ==
    /\ \/ FinArrives
       \/ \E c \in Conn : Handler(c)
       \/ MainThread
       \/ AddonStops
       \/ AddonStarts
       \/ BlenderDies
    /\ UNCHANGED <<user, sealed>>

LNext ==
    \/ \E k \in Mutation : Mutate(k) \/ MutationStep(k)
    \/ \E k \in Command \ Mutation : ReadStep(k)
    \/ EngineStep

LSpec == LInit /\ [][LNext]_leased

\* The API runs every task that can go on and its timers fire, so each call
\* that is out goes on or is given up; Blender promises nothing.
LFairSpec ==
    /\ LSpec
    /\ \A k \in Mutation : WF_leased(Client(k) /\ Follow(k))
    /\ \A k \in Command \ Mutation : WF_leased(Client(k) /\ UNCHANGED <<user, sealed>>)

-----------------------------------------------------------------------------
(* Properties *)

\* Blender may still begin or be executing the command, or its caller waits.
Alive(k) ==
    \/ pc[k] \in {"queued", "dialing", "reading"}
    \/ \E c \in Conn :
          \/ timers[c] > 0 /\ bound[c] = k
          \/ \E i \in 1..Len(up[c]) : up[c][i] = k
    \/ main # None /\ main.cmd = k

\* Between the lease, the socket, its abandoned connections and the unordered
\* timers of Blender there is never more than one mutation under way, so that
\* an abandoned one cannot change the scene under or after a later one.
OneMutationAlive ==
    \A j, k \in Mutation : Alive(j) /\ Alive(k) => j = k

\* The mutation that Blender, its streams and timers or a caller still work for;
\* no single one if there are several.
Occupant ==
    IF \A k \in Mutation : ~Alive(k) THEN None
    ELSE IF OneMutationAlive THEN CHOOSE k \in Mutation : Alive(k)
    ELSE Mutation

Engine == INSTANCE EngineOwnership WITH Task <- Mutation, user <- Occupant

\* What the lease promises of its callers holds of Blender: from the call until
\* Blender is really done with it, the mutation occupies the engine; no other
\* enters before, nor ever after one was left in doubt; and none comes back
\* once it has ended (_mutate, command; send_command, execute_wrapper).
EngineIsKept == Engine!Spec

\* Whatever Blender does, a call that waits for the lock, dials or reads comes
\* to an end, so one silent command cannot hold up the others for ever.
CallsEnd ==
    \A k \in Command : pc[k] = "queued" ~> pc[k] \in {"answered", "unknown", "refused", "dropped"}
=============================================================================
