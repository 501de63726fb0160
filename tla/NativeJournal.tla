----------------------------- MODULE NativeJournal -----------------------------
(***************************************************************************)
(* What the design pipeline may count on from the native runner, without   *)
(* the receipts, callbacks and tickets behind it                           *)
(* (adapters/generation/native_runner.py, recover_unfinished and execute;  *)
(* adapters/artifacts/native_execution.py): which runs have an execution   *)
(* whose outcome nobody can prove, who is inside, and who sealed Blender.  *)
(* NativeExecution implements it, and DesignPipeline is built on it.       *)
(***************************************************************************)
CONSTANT Run     \* native revisions, each with a directory of its own

VARIABLES
    serving,     \* the server is up
    at,          \* where each execution is
    journal,     \* what the native-execution directory of each run proves
    unresolved,  \* NativeRunner._unresolved_run_ids
    seal         \* who sealed the lease

vars == <<serving, at, journal, unresolved, seal>>

\* Of a journal:
\*   clear     nothing is reserved
\*   partial   Blender was sent nothing, and the files do not say so
\*   pending   Blender may have been sent the callback, and nothing proves its end
\*   terminal  the end and the restored scene are proven, and not acknowledged
\*   settled   ... and acknowledged, by the runner or an operator's reset
\*   spoiled   an output of the proof has changed since
State  == {"clear", "partial", "pending", "terminal", "settled", "spoiled"}
Sealer == {"none", "runner", "other"}

Inside(r) == at[r] # "out"
AllOut    == \A r \in Run : ~Inside(r)
Go(r, place)     == at' = [at EXCEPT ![r] = place]
Become(r, state) == journal' = [journal EXCEPT ![r] = state]

Init ==
    /\ serving = FALSE
    /\ at = [r \in Run |-> "out"]
    /\ journal = [r \in Run |-> "clear"]
    /\ unresolved = {}
    /\ seal = "none"

-----------------------------------------------------------------------------
(* An execution *)

\* The lease is granted to one run, over an unsealed Blender.
Enter(r) ==
    /\ serving /\ AllOut
    /\ seal = "none"
    /\ Go(r, "preparing")
    /\ UNCHANGED <<serving, journal, unresolved, seal>>

\* Cancelled, or no program, or no reservation, which may have left a part of one.
Refuse(r) ==
    /\ at[r] = "preparing"
    /\ Go(r, "out")
    /\ UNCHANGED journal \/ Become(r, "partial")
    /\ UNCHANGED <<serving, unresolved, seal>>

Dispatch(r) ==
    /\ at[r] = "preparing"
    /\ journal[r] = "clear"
    /\ Go(r, "dispatched")
    /\ Become(r, "pending")
    /\ unresolved' = unresolved \union {r}
    /\ UNCHANGED <<serving, seal>>

\* The callback, the runner (nothing was sent) or an operator proves the end.
Prove(r) ==
    /\ journal[r] = "pending"
    /\ Become(r, "terminal") \/ Become(r, "settled")
    /\ UNCHANGED <<serving, at, unresolved, seal>>

Spoil(r) ==
    /\ journal[r] \in {"terminal", "settled"}
    /\ Become(r, "spoiled")
    /\ UNCHANGED <<serving, at, unresolved, seal>>

\* The reply is lost; only the journal can tell.
Unobserved(r) ==
    /\ at[r] = "dispatched"
    /\ seal' = "runner"
    /\ UNCHANGED <<serving, at, journal, unresolved>>

\* The proof is found and acknowledged, and the runner's seal lifted.
Return(r) ==
    /\ at[r] = "dispatched"
    /\ journal[r] = "terminal"
    /\ Go(r, "out")
    /\ Become(r, "settled")
    /\ unresolved' = unresolved \ {r}
    /\ seal' = "none"
    /\ UNCHANGED serving

\* No proof in time, or none that holds, or it cannot be acknowledged, though the
\* receipt may be there.  If nothing had been sent, nobody will ever prove it.
Doubt(r) ==
    /\ at[r] = "dispatched"
    /\ Go(r, "out")
    /\ \/ UNCHANGED journal
       \/ journal[r] = "pending" /\ Become(r, "partial")
       \/ journal[r] = "terminal" /\ Become(r, "settled")
    /\ seal' = "runner"
    /\ UNCHANGED <<serving, unresolved>>

\* Nothing was sent, and the receipt that says so is not published, or only seems
\* not to be: the run stays unresolved, and nobody seals Blender.
Unsent(r) ==
    /\ at[r] = "dispatched"
    /\ journal[r] = "pending"
    /\ Go(r, "out")
    /\ Become(r, "partial") \/ Become(r, "terminal")
    /\ UNCHANGED <<serving, unresolved, seal>>

-----------------------------------------------------------------------------
(* Everybody else, and the server *)

\* A command of another task in doubt.
OtherSeals ==
    /\ serving /\ AllOut
    /\ seal = "none"
    /\ seal' = "other"
    /\ UNCHANGED <<serving, at, journal, unresolved>>

\* Reservations cut short, and runs whose command the server was about to send.
Torn(runs) ==
    journal' = [r \in Run |-> IF r \in runs THEN "partial" ELSE journal[r]]

Stop ==
    /\ serving
    /\ \E runs \in SUBSET {r \in Run : Inside(r) /\ journal[r] \in {"clear", "pending"}} : Torn(runs)
    /\ serving' = FALSE
    /\ at' = [r \in Run |-> "out"]
    /\ unresolved' = {}
    /\ seal' = "none"

Terminals == {r \in Run : journal[r] = "terminal"}

\* recover_unfinished over every directory; failing are the acknowledgements that
\* cannot be published.
Scan(failing) ==
    /\ journal' = [r \in Run |-> IF r \in Terminals \ failing THEN "settled" ELSE journal[r]]
    /\ unresolved' = {r \in Run : journal[r] \in {"partial", "pending", "spoiled"}} \union failing

\* The server starts: whatever is unresolved seals Blender before anything is served.
Restart(failing) ==
    /\ ~serving
    /\ serving' = TRUE
    /\ Scan(failing)
    /\ seal' = IF unresolved' = {} THEN "none" ELSE "runner"
    /\ UNCHANGED at

\* The runner's seal is lifted when nothing is unresolved, put on otherwise; on a
\* lease in use, or sealed by another, that is refused.
Reseal ==
    IF unresolved' = {}
    THEN seal' = IF seal = "runner" THEN "none" ELSE seal
    ELSE seal' \in IF seal = "none" THEN {"none", "runner"} ELSE {seal}
Refused == unresolved' # {} /\ seal' # "runner"

\* The same again while nothing executes.
Reconcile(failing) ==
    /\ serving /\ AllOut
    /\ Scan(failing)
    /\ Reseal
    /\ UNCHANGED <<serving, at>>

-----------------------------------------------------------------------------
Next ==
    \/ \E r \in Run : \/ Enter(r) \/ Refuse(r) \/ Dispatch(r) \/ Prove(r) \/ Spoil(r)
                      \/ Unobserved(r) \/ Return(r) \/ Doubt(r) \/ Unsent(r)
    \/ OtherSeals
    \/ Stop
    \/ \E failing \in SUBSET Terminals : Restart(failing) \/ Reconcile(failing)

Spec == Init /\ [][Next]_vars
=============================================================================
