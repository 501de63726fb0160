--------------------------- MODULE EngineOwnership ---------------------------
(***************************************************************************)
(* What the Blender lease promises, without its lock, queue or tickets:    *)
(* the engine has at most one user; a user whose command ended in doubt    *)
(* may seal the engine; nobody becomes a user of a sealed engine; and a    *)
(* seal put on from outside (restored after a restart) is only accepted    *)
(* while nobody uses the engine.                                           *)
(***************************************************************************)
CONSTANTS Task, None

VARIABLES user, sealed

vars == <<user, sealed>>

Init ==
    /\ user = None
    /\ sealed \in BOOLEAN

Enter(t) ==
    /\ user = None
    /\ ~sealed
    /\ user' = t
    /\ UNCHANGED sealed

Leave(t) ==
    /\ user = t
    /\ user' = None
    /\ sealed' \in {sealed, TRUE}

Seal(t) ==
    /\ user = t
    /\ sealed' = TRUE
    /\ UNCHANGED user

\* The user proves the seal needless and lifts it on its way out.
LeaveProven(t) ==
    /\ user = t
    /\ sealed
    /\ user' = None
    /\ sealed' = FALSE

Restore ==
    /\ user = None
    /\ sealed' = TRUE
    /\ UNCHANGED user

Unseal ==
    /\ sealed
    /\ sealed' = FALSE
    /\ UNCHANGED user

Next ==
    \/ \E t \in Task : Enter(t) \/ Leave(t) \/ Seal(t) \/ LeaveProven(t)
    \/ Restore
    \/ Unseal

Spec == Init /\ [][Next]_vars
=============================================================================
