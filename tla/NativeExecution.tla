---------------------------- MODULE NativeExecution ----------------------------
(***************************************************************************)
(* A native revision in Blender and the durable receipts that decide what  *)
(* became of it: the runner inside the lease                               *)
(* (adapters/generation/native_runner.py), the journal of immutable        *)
(* receipts (adapters/artifacts/native_execution.py), the callback that    *)
(* Blender runs (scripts/native_revision_execution.py), restart, late      *)
(* reconciliation and the operator's maintenance reset.                    *)
(*                                                                         *)
(* Blender is another process: it outlives the server and can die on its   *)
(* own.  The lease is its holder and its ticket here (BlenderLease has its *)
(* queue); every other user of Blender is one task, Other.                 *)
(***************************************************************************)
EXTENDS Naturals

CONSTANTS
    Run,         \* native revisions, each with a directory of its own
    Other,       \* any other holder of the lease
    None,
    MaxCrashes,  \* bound: crashes of the server in one behaviour
    MaxFaults    \* bound: receipts that cannot be published, or that are altered

ASSUME NativeAssumption ==
    /\ Other \notin Run
    /\ None \notin Run \union {Other}
    /\ MaxCrashes \in Nat
    /\ MaxFaults \in Nat

VARIABLES
    files,       \* receipts in native-execution/, terminal.json apart
    terminal,    \* terminal.json: its status and restored
    altered,     \* runs whose output no longer has its recorded fingerprint
    doubted,     \* jobs whose row says NATIVE_UNCONFIRMED
    cb,          \* the callback in Blender
    other,       \* Blender has a mutation of another task
    serving,     \* the server is up
    pc,          \* where NativeRunner._execute is suspended
    cancel,      \* run_to_completion: what became of a cancellation
    holder, ticket,      \* the lease
    owned, unresolved,   \* NativeRunner._owned_ticket, _unresolved_run_ids
    crashes, faults

disk    == <<files, terminal, altered, doubted>>
blender == <<cb, other>>
lease   == <<holder, ticket>>
runner  == <<owned, unresolved>>
vars == <<disk, blender, serving, pc, cancel, lease, runner, crashes, faults>>

Receipt  == {"dir", "temp", "pending", "started", "ack", "reset"}
Terminal == {"completed", "failed", "unrestored"}
Started  == {"sending", "waiting", "polling"}         \* started.set() is past
Active   == {"queued", "building"} \union Started
Ended    == {"done", "failed", "doubt", "cancelled"}
Alive    == {"sent", "running"}                       \* Blender may (still) execute it

\* quarantine() makes a uuid, restore_quarantine a digest of the unresolved runs;
\* only that they differ matters.
NoTicket == [by |-> "nobody", of |-> {}]
Uuid(r)  == [by |-> "runner", of |-> {r}]
Digest(runs) == [by |-> "scan", of |-> runs]
Foreign  == [by |-> "tool", of |-> {}]
Ticket   == [by : {"nobody", "runner", "scan", "tool"}, of : SUBSET Run]

TypeOK ==
    /\ files \in [Run -> SUBSET Receipt]
    /\ terminal \in [Run -> Terminal \union {"none"}]
    /\ altered \subseteq Run
    /\ doubted \subseteq Run
    /\ cb \in [Run -> Alive \union {"none", "ended", "lost"}]
    /\ other \in BOOLEAN
    /\ serving \in BOOLEAN
    /\ pc \in [Run -> {"idle", "gone"} \union Active \union Ended]
    /\ cancel \in [Run -> {"none", "requested", "inner", "drain"}]
    /\ holder \in Run \union {Other, None}
    /\ ticket \in Ticket
    /\ owned \in Ticket
    /\ unresolved \subseteq Run
    /\ crashes \in Nat
    /\ faults \in Nat

Init ==
    /\ files = [r \in Run |-> {}]
    /\ terminal = [r \in Run |-> "none"]
    /\ altered = {}
    /\ doubted = {}
    /\ cb = [r \in Run |-> "none"]
    /\ other = FALSE
    /\ serving = FALSE
    /\ pc = [r \in Run |-> "idle"]
    /\ cancel = [r \in Run |-> "none"]
    /\ holder = None
    /\ ticket = NoTicket
    /\ owned = NoTicket
    /\ unresolved = {}
    /\ crashes = 0
    /\ faults = 0

-----------------------------------------------------------------------------
(* Helpers *)

Fault   == faults < MaxFaults /\ faults' = faults + 1
NoFault == UNCHANGED faults

Add(r, receipts) == files' = [files EXCEPT ![r] = @ \union receipts]
Go(r, place) == pc' = [pc EXCEPT ![r] = place]

\* The lease is left and the caller answered; a cancelled caller gets CancelledError.
Leave(r, place) ==
    /\ holder' = IF holder = r THEN None ELSE holder
    /\ Go(r, IF cancel[r] = "none" THEN place ELSE "cancelled")

\* The worker raised and its run is unresolved: the pipeline leaves the job RUNNING.
LeaveInDoubt(r) ==
    /\ Leave(r, "doubt")
    /\ doubted' = doubted \union {r}

\* Mutant: the ticket is read, and never made.
SealNothing(r) == owned' = ticket /\ UNCHANGED ticket

\* lease.quarantine() by the holder; the runner owns the ticket.
Seal(r) ==
    /\ ticket' = IF ticket = NoTicket THEN Uuid(r) ELSE ticket
    /\ owned' = ticket'

\* Mutant: any terminal will do.
RestoredUnchecked(r) == terminal[r] # "none"

\* read_terminal succeeds and says restored.
Restored(r) == terminal[r] \in {"completed", "failed"} /\ r \notin altered

-----------------------------------------------------------------------------
(* The runner *)

\* hold("native-revision"): refused at once, or queued.
Execute(r) ==
    /\ serving
    /\ pc[r] = "idle"
    /\ Go(r, IF ticket = NoTicket THEN "queued" ELSE "failed")
    /\ UNCHANGED <<disk, blender, serving, cancel, lease, runner, crashes, faults>>

\* The lock is acquired; the ticket is looked at again.
Enter(r) ==
    /\ pc[r] = "queued"
    /\ cancel[r] # "inner"
    /\ holder = None
    /\ IF ticket = NoTicket THEN Go(r, "building") /\ holder' = r
       ELSE Leave(r, "failed")
    /\ UNCHANGED <<disk, blender, serving, cancel, ticket, runner, crashes, faults>>

\* to_thread(program) raised, or reserve did, at any of its steps.
ReserveFails(r) ==
    /\ pc[r] = "building"
    /\ cancel[r] # "inner"
    /\ \/ UNCHANGED files /\ NoFault
       \/ Fault /\ \E done \in {{"dir"}, {"dir", "pending"}} : Add(r, done)
    /\ Leave(r, "failed")
    /\ UNCHANGED <<terminal, altered, doubted, blender, serving, cancel, ticket, runner, crashes>>

\* started.set(), journal.reserve, and on to the socket without another await.
Reserve(r) ==
    /\ pc[r] = "building"
    /\ cancel[r] # "inner"
    /\ Add(r, {"dir", "pending"})
    /\ unresolved' = unresolved \union {r}
    /\ Go(r, "sending")
    /\ UNCHANGED <<terminal, altered, doubted, blender, serving, cancel, lease, owned, crashes, faults>>

\* Mutant: the terminal gets a status of its own.
NotSentStatus(r) ==
    /\ pc[r] = "sending"
    /\ terminal' = [terminal EXCEPT ![r] = "not sent"]
    /\ Go(r, "polling")
    /\ UNCHANGED <<files, altered, doubted, blender, serving, cancel, lease, runner, crashes, faults>>

\* Blender cannot be reached: the runner publishes the terminal itself.
NotSent(r) ==
    /\ pc[r] = "sending"
    /\ terminal' = [terminal EXCEPT ![r] = "failed"]
    /\ Go(r, "polling")
    /\ UNCHANGED <<files, altered, doubted, blender, serving, cancel, lease, runner, crashes, faults>>

\* ... or cannot publish it, before or after the link.
NotSentNorSaid(r) ==
    /\ pc[r] = "sending"
    /\ Fault
    /\ \/ UNCHANGED terminal
       \/ terminal' = [terminal EXCEPT ![r] = "failed"]
    /\ LeaveInDoubt(r)
    /\ UNCHANGED <<files, altered, blender, serving, cancel, ticket, runner, crashes>>

Send(r) ==
    /\ pc[r] = "sending"
    /\ cb' = [cb EXCEPT ![r] = "sent"]
    /\ Go(r, "waiting")
    /\ UNCHANGED <<disk, other, serving, cancel, lease, runner, crashes, faults>>

\* The adapter answers with a failed ToolResult and sends nothing (sandbox, encoding).
Blocked(r) ==
    /\ pc[r] = "sending"
    /\ Go(r, "polling")
    /\ UNCHANGED <<disk, blender, serving, cancel, lease, runner, crashes, faults>>

\* The addon answers when the callback has returned, whatever it left behind.
Answered(r) ==
    /\ pc[r] = "waiting"
    /\ cb[r] = "ended"
    /\ Go(r, "polling")
    /\ UNCHANGED <<disk, blender, serving, cancel, lease, runner, crashes, faults>>

\* Timeout, dropped connection or unusable reply (BlenderExecutionUncertainError).
Unobserved(r) ==
    /\ pc[r] = "waiting"
    /\ Seal(r)
    /\ Go(r, "polling")
    /\ UNCHANGED <<disk, blender, serving, cancel, holder, unresolved, crashes, faults>>

\* Mutant: the terminal's status is not looked at.
AcceptAny(r) ==
    /\ pc[r] = "polling"
    /\ Restored(r)
    /\ Add(r, {"ack"})
    /\ unresolved' = unresolved \ {r}
    /\ ticket' = IF owned = NoTicket THEN ticket ELSE NoTicket
    /\ owned' = NoTicket
    /\ Leave(r, "done")
    /\ UNCHANGED <<terminal, altered, doubted, blender, serving, cancel, crashes, faults>>

\* The poll finds a restored terminal: acknowledged, resolved, and the seal lifted.
Accept(r) ==
    /\ pc[r] = "polling"
    /\ Restored(r)
    /\ Add(r, {"ack"})
    /\ unresolved' = unresolved \ {r}
    /\ ticket' = IF owned = NoTicket THEN ticket ELSE NoTicket
    /\ owned' = NoTicket
    /\ Leave(r, IF terminal[r] = "completed" THEN "done" ELSE "failed")
    /\ UNCHANGED <<terminal, altered, doubted, blender, serving, cancel, crashes, faults>>

\* Mutant: there is no deadline.
GiveUpNever(r) ==
    /\ pc[r] = "polling"
    /\ terminal[r] # "none"
    /\ \/ ~Restored(r) /\ UNCHANGED files /\ NoFault
       \/ Restored(r) /\ Fault /\ (UNCHANGED files \/ Add(r, {"ack"}))
    /\ Seal(r)
    /\ LeaveInDoubt(r)
    /\ UNCHANGED <<terminal, altered, blender, serving, cancel, unresolved, crashes>>

\* The deadline passed without a terminal, or the terminal proves nothing, or
\* the acknowledgement cannot be published.
GiveUp(r) ==
    /\ pc[r] = "polling"
    /\ \/ ~Restored(r) /\ UNCHANGED files /\ NoFault
       \/ Restored(r) /\ Fault /\ (UNCHANGED files \/ Add(r, {"ack"}))
    /\ Seal(r)
    /\ LeaveInDoubt(r)
    /\ UNCHANGED <<terminal, altered, blender, serving, cancel, unresolved, crashes>>

-----------------------------------------------------------------------------
(* run_to_completion *)

Cancel(r) ==
    /\ pc[r] \in Active
    /\ cancel[r] = "none"
    /\ cancel' = [cancel EXCEPT ![r] = "requested"]
    /\ UNCHANGED <<disk, blender, serving, pc, lease, runner, crashes, faults>>

\* Mutant: dispatched work is cancelled too.
CancelledAnyway(r) ==
    /\ pc[r] \in Active
    /\ cancel[r] = "requested"
    /\ cancel' = [cancel EXCEPT ![r] = "inner"]
    /\ UNCHANGED <<disk, blender, serving, pc, lease, runner, crashes, faults>>

\* The CancelledError reaches the caller, which may find the work started since.
Cancelled(r) ==
    /\ pc[r] \in Active
    /\ cancel[r] = "requested"
    /\ cancel' = [cancel EXCEPT ![r] = IF pc[r] \in Started THEN "drain" ELSE "inner"]
    /\ UNCHANGED <<disk, blender, serving, pc, lease, runner, crashes, faults>>

\* task.cancel(): the worker's await raises, with no handler in its way.
WorkCancelled(r) ==
    /\ pc[r] \in {"queued", "building"}
    /\ cancel[r] = "inner"
    /\ Leave(r, "cancelled")
    /\ UNCHANGED <<disk, blender, serving, cancel, ticket, runner, crashes, faults>>

-----------------------------------------------------------------------------
(* Blender *)

\* mark_started, or an error before the callback's try: no terminal will follow.
StartCallback(r) ==
    /\ cb[r] = "sent"
    /\ \/ cb' = [cb EXCEPT ![r] = "running"] /\ Add(r, {"started"})
       \/ cb' = [cb EXCEPT ![r] = "ended"] /\ (UNCHANGED files \/ Add(r, {"started"}))
    /\ UNCHANGED <<terminal, altered, doubted, other, serving, pc, cancel, lease, runner, crashes, faults>>

\* The finally clause: the terminal is the last thing the callback does, if it can.
FinishCallback(r) ==
    /\ cb[r] = "running"
    /\ cb' = [cb EXCEPT ![r] = "ended"]
    /\ \/ NoFault /\ \E status \in Terminal : terminal' = [terminal EXCEPT ![r] = status]
       \/ Fault /\ UNCHANGED terminal
    /\ UNCHANGED <<files, altered, doubted, other, serving, pc, cancel, lease, runner, crashes>>

BlenderDies ==
    /\ other \/ \E r \in Run : cb[r] \in Alive
    /\ cb' = [r \in Run |-> IF cb[r] \in Alive THEN "lost" ELSE cb[r]]
    /\ other' = FALSE
    /\ UNCHANGED <<disk, serving, pc, cancel, lease, runner, crashes, faults>>

\* An output changes under a published terminal.
Alter(r) ==
    /\ terminal[r] = "completed"
    /\ r \notin altered
    /\ Fault
    /\ altered' = altered \union {r}
    /\ UNCHANGED <<files, terminal, doubted, blender, serving, pc, cancel, lease, runner, crashes>>

-----------------------------------------------------------------------------
(* Every other mutation *)

OtherEnters ==
    /\ serving
    /\ holder = None
    /\ ticket = NoTicket
    /\ holder' = Other
    /\ UNCHANGED <<disk, blender, serving, pc, cancel, ticket, runner, crashes, faults>>

OtherSends ==
    /\ holder = Other
    /\ other' = TRUE
    /\ UNCHANGED <<disk, cb, serving, pc, cancel, lease, runner, crashes, faults>>

OtherEnds ==
    /\ other
    /\ other' = FALSE
    /\ UNCHANGED <<disk, cb, serving, pc, cancel, lease, runner, crashes, faults>>

\* A command in doubt seals the lease with a ticket nobody owns.
OtherLeaves ==
    /\ holder = Other
    /\ ticket' = IF other THEN Foreign ELSE ticket
    /\ holder' = None
    /\ UNCHANGED <<disk, blender, serving, pc, cancel, runner, crashes, faults>>

-----------------------------------------------------------------------------
(* Crash, restart and late evidence *)

\* What a crash inside reserve can leave of it.
TornReserve(r) == {{}, {"dir"}, {"dir", "temp"}, {"dir", "pending"}}

Crash ==
    /\ serving
    /\ crashes < MaxCrashes
    /\ crashes' = crashes + 1
    /\ \/ UNCHANGED files
       \/ \E r \in Run : pc[r] = "building" /\ \E torn \in TornReserve(r) : Add(r, torn)
    /\ serving' = FALSE
    /\ pc' = [r \in Run |-> IF pc[r] = "idle" THEN "idle" ELSE "gone"]
    /\ cancel' = [r \in Run |-> "none"]
    /\ holder' = None
    /\ ticket' = NoTicket
    /\ owned' = NoTicket
    /\ unresolved' = {}
    /\ UNCHANGED <<terminal, altered, doubted, blender, faults>>

\* unfinished() raises, or is True and the terminal does not prove restoration.
Unproven(r) ==
    \/ "pending" \notin files[r] /\ files[r] \ {"dir"} # {}
    \/ "pending" \in files[r] /\ "reset" \notin files[r] /\ ~Restored(r)

\* Restored, and not yet acknowledged or reset.
Acknowledgeable(r) ==
    /\ "pending" \in files[r]
    /\ Restored(r)
    /\ {"ack", "reset"} \intersect files[r] = {}

\* recover_unfinished over every directory; failing are the acknowledgements
\* that cannot be published.
Scan(failing) ==
    /\ files' = [r \in Run |-> IF Acknowledgeable(r) /\ r \notin failing
                               THEN files[r] \union {"ack"} ELSE files[r]]
    /\ unresolved' = {r \in Run : Unproven(r)} \union failing

Busy == holder # None \/ \E r \in Run : pc[r] = "queued"

\* restore_quarantine refuses while the lease is in use or sealed by another.
Refused == unresolved' # {} /\ owned = NoTicket /\ (Busy \/ ticket \notin {NoTicket, Digest(unresolved')})

\* Mutants: whatever seals the lease is lifted; nothing is.
SettleAny ==
    IF unresolved' = {} THEN ticket' = NoTicket /\ owned' = NoTicket
    ELSE IF owned # NoTicket \/ Refused THEN UNCHANGED <<ticket, owned>>
    ELSE ticket' = Digest(unresolved') /\ owned' = ticket'
SettleNothing ==
    IF unresolved' = {} \/ owned # NoTicket \/ Refused THEN UNCHANGED <<ticket, owned>>
    ELSE ticket' = Digest(unresolved') /\ owned' = ticket'

\* The end of recover_unfinished: seal what is unresolved, or lift its seal.
Settle ==
    IF unresolved' = {}
    THEN /\ ticket' = IF owned = NoTicket THEN ticket ELSE NoTicket
         /\ owned' = NoTicket
    ELSE IF owned # NoTicket \/ Refused THEN UNCHANGED <<ticket, owned>>
    ELSE ticket' = Digest(unresolved') /\ owned' = ticket'

Failing == {{}} \union {{r} : r \in {q \in Run : Acknowledgeable(q)}}

\* Startup: nobody can hold the lease yet.  Jobs not unresolved are failed.
Restart ==
    /\ ~serving
    /\ serving' = TRUE
    /\ \E failing \in Failing :
          /\ IF failing = {} THEN NoFault ELSE Fault
          /\ Scan(failing)
    /\ Settle
    /\ doubted' = doubted \intersect unresolved'
    /\ UNCHANGED <<terminal, altered, blender, pc, cancel, holder, crashes>>

\* status() of an unconfirmed job, once no pipeline task is left.
Reconcile ==
    /\ serving
    /\ \A r \in Run : pc[r] \notin Active
    /\ \E r \in doubted, failing \in Failing :
          /\ IF failing = {} THEN NoFault ELSE Fault
          /\ Scan(failing)
          /\ doubted' = IF Refused \/ r \in unresolved' THEN doubted ELSE doubted \ {r}
    /\ Settle
    /\ UNCHANGED <<terminal, altered, blender, serving, pc, cancel, holder, crashes>>

\* acknowledge_reset: only over a failed restoration.
Reset(r) ==
    /\ terminal[r] = "unrestored"
    /\ "reset" \notin files[r]
    /\ Add(r, {"reset"})
    /\ UNCHANGED <<terminal, altered, doubted, blender, serving, pc, cancel, lease, runner, crashes, faults>>

-----------------------------------------------------------------------------
Observe(r) == Answered(r) \/ Unobserved(r)
Poll(r)    == Accept(r) \/ GiveUp(r)
Work(r) ==
    \/ Enter(r) \/ Reserve(r) \/ ReserveFails(r) \/ NotSent(r) \/ NotSentNorSaid(r) \/ Blocked(r) \/ Send(r)
    \/ Observe(r) \/ Poll(r) \/ WorkCancelled(r)
Callback(r) == StartCallback(r) \/ FinishCallback(r)
Others == OtherEnters \/ OtherSends \/ OtherEnds \/ OtherLeaves

Next ==
    \/ \E r \in Run : Execute(r) \/ Work(r) \/ Cancel(r) \/ Cancelled(r) \/ Callback(r) \/ Alter(r) \/ Reset(r)
    \/ BlenderDies \/ Others \/ Crash \/ Restart \/ Reconcile

Spec == Init /\ [][Next]_vars

\* The event loop runs the worker, whose waits have deadlines; other holders
\* leave; the server is restarted; a client asks for its unconfirmed job.
\* Blender owes nothing.
FairSpec ==
    /\ Spec
    /\ \A r \in Run : WF_vars(Work(r)) /\ SF_vars(Enter(r))
    /\ WF_vars(OtherLeaves) /\ WF_vars(Restart) /\ SF_vars(Reconcile)

-----------------------------------------------------------------------------
(* Properties *)

Attended(r) == holder = r /\ pc[r] \in Started

\* The callback left Blender's scene as it found it, or an operator reset it.
Proven(r) == terminal[r] \in {"completed", "failed"} \/ "reset" \in files[r]

\* A server leaves Blender open only if every callback ever sent has proven that
\* the scene is restored, or its worker is still inside the lease: whatever was
\* lost, crashed, or could not be written in between.
SealedUntilProven ==
    serving /\ ticket = NoTicket =>
        \A r \in Run : cb[r] # "none" => Proven(r) \/ Attended(r)

\* While Blender may execute a callback its run is listed as unresolved, so that
\* neither startup nor status() gives its job a verdict.
LiveIsUnresolved == serving => \A r \in Run : cb[r] \in Alive => r \in unresolved

\* The runner never owns a ticket the lease does not have: resolving it cannot raise.
OwnedIsTicket == owned # NoTicket => owned = ticket

\* A result is returned only for a callback that ended, restored the scene, and
\* whose terminal is acknowledged on disk.
ResultIsProven ==
    \A r \in Run : pc[r] = "done" =>
        cb[r] = "ended" /\ terminal[r] = "completed" /\ {"started", "ack"} \subseteq files[r]

\* Queued work is cancelled before it reserves or dispatches anything
\* (docs/tasks/16_lab-station.md:129); work that began meanwhile is drained instead.
CancelledNeverDispatched ==
    \A r \in Run : cancel[r] = "inner" => "pending" \notin files[r] /\ cb[r] = "none"

\* Nothing is sent to Blender while it may be executing a native callback, of this
\* server process or of an earlier one.
NativeAlone ==
    [][(other' /\ ~other) \/ (\E r \in Run : cb[r] # "sent" /\ cb'[r] = "sent")
          => \A r \in Run : cb[r] \notin Alive]_vars

\* The runner never lifts a seal that another task's command put on the lease.
ForeignSealStays == [][serving /\ serving' /\ ticket = Foreign => ticket' = Foreign]_vars

\* In the life of one server the runner and everybody else use the lease as
\* BlenderLease promises it: entered when it is free and unsealed, sealed by its
\* user on the way out, restored and resolved by nobody but who may.
Lease == INSTANCE EngineOwnership
         WITH Task <- Run \union {Other}, user <- holder, sealed <- (ticket # NoTicket)
UsesLease == [][serving' => IF serving THEN [Lease!Next]_(Lease!vars) ELSE (Lease!Init)']_vars

\* What the receipts of a run prove, and where its execution is.
Evidence(r) ==
    IF "pending" \notin files[r]      THEN IF files[r] \subseteq {"dir"} THEN "clear" ELSE "partial"
    ELSE IF "reset" \in files[r]      THEN "settled"
    ELSE IF Restored(r)               THEN IF "ack" \in files[r] THEN "settled" ELSE "terminal"
    ELSE IF r \in altered             THEN "spoiled"
    ELSE IF cb[r] = "none" /\ pc[r] \notin Started THEN "partial"
    ELSE "pending"
Place(r) ==
    IF pc[r] = "building" THEN "preparing" ELSE IF pc[r] \in Started THEN "dispatched" ELSE "out"
Places == [r \in Run |-> Place(r)]
Evidences == [r \in Run |-> Evidence(r)]
SealedBy == IF ticket = NoTicket THEN "none" ELSE IF owned = NoTicket THEN "other" ELSE "runner"

\* Whatever is lost, torn, altered or cannot be written on the way, the pipeline
\* may take the runner and its receipts for the journal it is built on.
Journal == INSTANCE NativeJournal WITH at <- Places, journal <- Evidences, seal <- SealedBy
KeepsJournal == Journal!Spec

\* Whoever executes a revision gets an answer, though Blender never gives one.
RunsEnd == \A r \in Run : pc[r] \in Active ~> pc[r] \notin Active

\* Evidence that covers every run unseals Blender, as long as one job is unconfirmed.
ProofUnseals ==
    doubted # {} /\ owned # NoTicket /\ (\A r \in Run : ~Unproven(r))
        ~> owned = NoTicket \/ \E r \in Run : Unproven(r)

\* docs/tasks/16_lab-station.md:78: "Unknown remote completion remains RUNNING and
\* quarantined": an unconfirmed job of this process seals Blender.
UnconfirmedIsSealed ==
    serving => \A r \in doubted : pc[r] = "doubt" => ticket # NoTicket
=============================================================================
