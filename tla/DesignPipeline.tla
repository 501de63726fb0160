--------------------------- MODULE DesignPipeline ---------------------------
(***************************************************************************)
(* A design run from submission to its final job row                       *)
(* (core/use_cases/design_pipeline.py), over the two stores that outlive   *)
(* the process: the SQLite job rows and one report.json per run; startup   *)
(* recovery (design_reports.py, api/main.py) and the late reconciliation   *)
(* of a native revision left in doubt.                                     *)
(*                                                                         *)
(* A step is the code of one task between two awaits.  A commit and the    *)
(* resumption of the task that awaited it are one step, because a crash    *)
(* just after it leaves the same stores.  The lease is reduced to its      *)
(* holder and its seal; of the native runner a run sees what NativeJournal *)
(* says, and every step that meets the runner is a step of that too.       *)
(* NOT_APPLICABLE (the mechanism stage) counts as passed, as it does in    *)
(* DesignRunReport.passed.                                                 *)
(***************************************************************************)
EXTENDS Naturals, Sequences

CONSTANTS
    Job,          \* jobs, each with its run directory
    Native,       \* those submitted with a native revision
    None,
    MaxCrashes,   \* bound: process crashes in one behaviour
    MaxFaults     \* bound: store and disk errors and abandoned callers per process

ASSUME PipelineAssumption ==
    /\ Native \subseteq Job
    /\ None \notin Job
    /\ MaxCrashes \in Nat
    /\ MaxFaults \in Nat

VARIABLES
    row,         \* jobs.sqlite: status, stage and error of each job
    report,      \* report.json of each run: the stages it lists ...
    files,       \* ... and the runs whose report.json exists
    journal,     \* the native-execution directory of each run
    mode,        \* the serving process
    pc,          \* where the job's coroutine is suspended
    current,     \* run(): current
    verdict,     \* run(): (status, error), written by the finally clause
    cancelled,   \* jobs whose task has a CancelledError to come
    holder,      \* the run that holds the Blender lease
    unresolved,  \* NativeRunner._unresolved_run_ids
    seal,        \* who sealed the lease
    recording,   \* rows just failed whose record_interruption has not run
    faults,      \* errors so far in this process
    crashes

durable == <<row, report, files, journal>>
local   == <<pc, current, verdict, cancelled>>
engine  == <<holder, unresolved, seal>>
runner  == <<journal, unresolved, seal>>
vars == <<durable, mode, local, engine, recording, faults, crashes>>

Stages == <<"import", "geometry", "mechanism", "print", "package">>
Stage  == {Stages[i] : i \in 1..Len(Stages)}
Index(s) == CHOOSE i \in 1..Len(Stages) : Stages[i] = s
Leased == {"mechanism", "print"}
NeedsLease(j) == current[j] \in Leased \/ (current[j] = "import" /\ j \in Native)

Entry   == [name : Stage, outcome : {"passed", "failed"}]
Status  == {"absent", "queued", "running", "done", "failed", "cancelled"}
Final   == {"done", "failed", "cancelled"}
Live    == {"queued", "running"}
Error   == {"stage", "exception", "cancelled", "interrupted", "unconfirmed", "verified"}
ASSUME NoneIsNull == None \notin Error \union Stage

Row(status, stage, error) == [status |-> status, stage |-> stage, error |-> error]
Verdict(status, error)    == [status |-> status, error |-> error]

\* create_task made a task for these; the rest are still inside submit().
InLease == {"preparing", "working", "dispatched"}
Running == {"ready", "loading", "marking", "queued", "ending"} \union InLease
Submitting == {"creating", "refusing"}
Tasks == {j \in Job : pc[j] \in Running}

\* The native runner and its receipts, as the contract of NativeExecution has them.
Executing == {"preparing", "dispatched"}
At == [j \in Job |-> IF pc[j] \in Executing THEN pc[j] ELSE "out"]
Journal == INSTANCE NativeJournal WITH Run <- Job, serving <- (mode # "down"), at <- At
Sealed == seal # "none"

TypeOK ==
    /\ row \in [Job -> [status : Status, stage : Stage \union {None}, error : Error \union {None}]]
    /\ report \in [Job -> Seq(Entry)]
    /\ files \subseteq Job
    /\ journal \in [Job -> Journal!State]
    /\ mode \in {"down", "recovering", "serving", "stopping"}
    /\ pc \in [Job -> {"none"} \union Submitting \union Running]
    /\ current \in [Job -> Stage \union {None}]
    /\ verdict \in [Job -> [status : Final \union {"running"}, error : Error \union {None}]]
    /\ cancelled \subseteq Job
    /\ holder \in Job \union {None}
    /\ unresolved \subseteq Job
    /\ seal \in Journal!Sealer
    /\ recording \subseteq Job
    /\ faults \in Nat
    /\ crashes \in Nat

Unstarted == Verdict("failed", "exception")   \* "run interrupted", until run() knows better

Init ==
    /\ row = [j \in Job |-> Row("absent", None, None)]
    /\ report = [j \in Job |-> <<>>]
    /\ files = {}
    /\ mode = "down"
    /\ pc = [j \in Job |-> "none"]
    /\ current = [j \in Job |-> None]
    /\ verdict = [j \in Job |-> Unstarted]
    /\ cancelled = {}
    /\ holder = None
    /\ Journal!Init
    /\ recording = {}
    /\ faults = 0
    /\ crashes = 0

-----------------------------------------------------------------------------
(* The two stores *)

Passed(stages) ==
    /\ Len(stages) = Len(Stages)
    /\ \A i \in 1..Len(Stages) : stages[i] = [name |-> Stages[i], outcome |-> "passed"]

Fault    == faults < MaxFaults /\ faults' = faults + 1
NoFault  == UNCHANGED faults

\* write_report: atomic, replaces the file or (a disk error) leaves it.
WriteReport(j, stages) ==
    /\ report' = [report EXCEPT ![j] = stages]
    /\ files' = files \union {j}
NoWrite == UNCHANGED <<report, files>>

\* jobs.update: COALESCE keeps the stage when none is given.
UpdateRow(j, status, stage, error) ==
    row' = [row EXCEPT ![j] = Row(status, IF stage = None THEN @.stage ELSE stage, error)]

Go(j, place) == pc' = [pc EXCEPT ![j] = place]
Release(j) == holder' = IF holder = j THEN None ELSE holder
EndWith(j, status, error) ==
    /\ verdict' = [verdict EXCEPT ![j] = Verdict(status, error)]
    /\ Go(j, "ending")

-----------------------------------------------------------------------------
(* submit *)

\* jobs.create has committed; the coroutine has not resumed.
Submit(j) ==
    /\ mode = "serving"
    /\ row[j].status = "absent"
    /\ row' = [row EXCEPT ![j] = Row("queued", None, None)]
    /\ Go(j, "creating")
    /\ UNCHANGED <<report, files, journal, mode, current, verdict, cancelled, engine, recording,
                   faults, crashes>>

\* The run directory and spec.json are written and the task is created ...
Schedule(j) ==
    /\ pc[j] = "creating"
    /\ Go(j, "ready")
    /\ UNCHANGED <<durable, mode, current, verdict, cancelled, engine, recording, faults, crashes>>

\* ... or the disk refuses, and the job is failed before the error is raised ...
ScheduleFails(j) ==
    /\ pc[j] = "creating"
    /\ Fault
    /\ Go(j, "refusing")
    /\ UNCHANGED <<durable, mode, current, verdict, cancelled, engine, recording, crashes>>

Refuse(j) ==
    /\ pc[j] = "refusing"
    /\ UpdateRow(j, "failed", None, "exception")
    /\ Go(j, "none")
    /\ UNCHANGED <<report, files, journal, mode, current, verdict, cancelled, engine, recording,
                   faults, crashes>>

\* ... or the request that called submit() is cancelled at its await.
Abandon(j) ==
    /\ pc[j] \in Submitting
    /\ Fault
    /\ Go(j, "none")
    /\ UNCHANGED <<durable, mode, current, verdict, cancelled, engine, recording, crashes>>

-----------------------------------------------------------------------------
(* run *)

\* The task's first step, up to the await of jobs.get.
Begin(j) ==
    /\ pc[j] = "ready"
    /\ j \notin cancelled
    /\ current' = [current EXCEPT ![j] = None]
    /\ verdict' = [verdict EXCEPT ![j] = Unstarted]
    /\ Go(j, "loading")
    /\ UNCHANGED <<durable, mode, cancelled, engine, recording, faults, crashes>>

\* spec.json is re-read and re-checked (a native run brings its spec along).
Load(j) ==
    /\ pc[j] = "loading"
    /\ j \notin cancelled
    /\ \/ /\ current' = [current EXCEPT ![j] = Stages[1]]
          /\ Go(j, "marking")
          /\ UNCHANGED verdict
       \/ /\ j \notin Native
          /\ EndWith(j, "failed", "exception")
          /\ UNCHANGED current
    /\ UNCHANGED <<durable, mode, cancelled, engine, recording, faults, crashes>>

\* The row says RUNNING, stage; its error is overwritten with NULL.
Mark(j) ==
    /\ pc[j] = "marking"
    /\ j \notin cancelled
    /\ UpdateRow(j, "running", current[j], None)
    /\ Go(j, IF NeedsLease(j) THEN "queued" ELSE "working")
    /\ UNCHANGED <<report, files, journal, mode, current, verdict, cancelled, engine, recording,
                   faults, crashes>>

\* The job store raises: in the stage loop, or in the finally clause.
StoreFails(j) ==
    /\ pc[j] \in {"marking", "ending"}
    /\ j \notin cancelled
    /\ Fault
    /\ IF pc[j] = "marking" THEN EndWith(j, "failed", "exception")
       ELSE Go(j, "none") /\ UNCHANGED verdict
    /\ UNCHANGED <<durable, mode, current, cancelled, engine, recording, crashes>>

\* The lease is granted; a native run still has its program to build.
Enter(j) ==
    /\ pc[j] = "queued"
    /\ j \notin cancelled
    /\ holder = None
    /\ ~Sealed
    /\ holder' = j
    /\ UNCHANGED <<row, report, files, mode, current, verdict, cancelled, recording, faults, crashes>>
    /\ IF current[j] = "import"
       THEN Go(j, "preparing") /\ Journal!Enter(j)
       ELSE Go(j, "working") /\ UNCHANGED runner

\* Mutants: the loop goes on after a failed stage; its end is not checked.
ProceedOn(j, stages) ==
    IF current[j] # Stages[Len(Stages)]
    THEN /\ current' = [current EXCEPT ![j] = Stages[Index(@) + 1]]
         /\ Go(j, "marking")
         /\ UNCHANGED verdict
    ELSE EndWith(j, "done", None) /\ UNCHANGED current
ProceedUnchecked(j, stages) ==
    IF stages[Len(stages)].outcome # "failed" /\ current[j] # Stages[Len(Stages)]
    THEN /\ current' = [current EXCEPT ![j] = Stages[Index(@) + 1]]
         /\ Go(j, "marking")
         /\ UNCHANGED verdict
    ELSE EndWith(j, "done", None) /\ UNCHANGED current

\* What the loop does with the stage's report.
Proceed(j, stages) ==
    IF stages[Len(stages)].outcome = "failed"
    THEN EndWith(j, "failed", "stage") /\ UNCHANGED current
    ELSE IF current[j] # Stages[Len(Stages)]
    THEN /\ current' = [current EXCEPT ![j] = Stages[Index(@) + 1]]
         /\ Go(j, "marking")
         /\ UNCHANGED verdict
    ELSE /\ IF Passed(stages) THEN EndWith(j, "done", None) ELSE EndWith(j, "failed", "stage")
         /\ UNCHANGED current

\* _execute returned: write_report, then the next stage or the end of the loop.
Reported(j, outcome) ==
    LET stages == Append(report[j], [name |-> current[j], outcome |-> outcome])
    IN  \/ /\ WriteReport(j, stages)
           /\ Proceed(j, stages)
           /\ NoFault
        \/ /\ Fault                             \* write_report raises
           /\ EndWith(j, "failed", "exception")
           /\ UNCHANGED <<report, files, current>>

\* The stage's step returns a report, or raises and _execute makes a failed one.
StageEnds(j) ==
    /\ pc[j] = "working"
    /\ j \notin cancelled
    /\ \E outcome \in {"passed", "failed"} : Reported(j, outcome)
    /\ Release(j)
    /\ UNCHANGED <<row, mode, cancelled, runner, recording, crashes>>

\* Before dispatch: a quarantined lease refuses, staging or the program fails;
\* a reservation cut short leaves files that recovery cannot read.
StageRefused(j) ==
    /\ pc[j] \in {"queued", "preparing"}
    /\ j \notin cancelled
    /\ Reported(j, "failed")
    /\ Release(j)
    /\ UNCHANGED <<row, mode, cancelled, recording, crashes>>
    /\ \/ pc[j] = "queued" /\ (Sealed \/ current[j] = "import") /\ UNCHANGED runner
       \/ Journal!Refuse(j)

\* The handler of BlenderExecutionUncertainError, for a native run: the job is
\* left RUNNING with NATIVE_UNCONFIRMED.
LeaveUnconfirmed(j) ==
    /\ \/ WriteReport(j, report[j]) /\ NoFault
       \/ Fault /\ NoWrite
    /\ EndWith(j, "running", "unconfirmed")

\* A verification suite in doubt seals the lease; the run has no report of its
\* stage, and one that is not native ends as "run interrupted".
SuiteInDoubt(j) ==
    /\ pc[j] = "working"
    /\ current[j] = "mechanism"
    /\ j \notin cancelled
    /\ IF j \in Native THEN LeaveUnconfirmed(j)
       ELSE NoWrite /\ NoFault /\ EndWith(j, "failed", "exception")
    /\ Release(j)
    /\ UNCHANGED <<row, mode, current, cancelled, recording, crashes>>
    /\ Journal!OtherSeals

-----------------------------------------------------------------------------
(* The native import stage, as run() sees it *)

\* journal.reserve and the dispatch, which may overtake a cancellation: from here
\* it waits for an answer.
Dispatch(j) ==
    /\ pc[j] = "preparing"
    /\ Go(j, "dispatched")
    /\ UNCHANGED <<row, report, files, mode, current, verdict, cancelled, holder, recording,
                   faults, crashes>>
    /\ Journal!Dispatch(j)

\* Out of the run's sight: evidence appears, which may never happen, or is altered;
\* the reply is lost, and the lease sealed until the evidence is there.
Behind(j) ==
    /\ UNCHANGED <<row, report, files, mode, local, holder, recording, faults, crashes>>
    /\ Journal!Prove(j) \/ Journal!Spoil(j) \/ Journal!Unobserved(j)

\* Mutant: the handler writes the failed stage without the ones before it.
RecordOnlyCancelled(j) ==
    /\ WriteReport(j, <<[name |-> current[j], outcome |-> "failed"]>>)
    /\ NoFault
    /\ EndWith(j, "cancelled", "cancelled")
    /\ cancelled' = cancelled \ {j}

\* The CancelledError handler, for a run with nothing unresolved.
RecordCancelled(j) ==
    /\ \/ WriteReport(j, Append(report[j], [name |-> current[j], outcome |-> "failed"])) /\ NoFault
       \/ Fault /\ NoWrite
    /\ EndWith(j, "cancelled", "cancelled")
    /\ cancelled' = cancelled \ {j}

\* The poll found the terminal: acknowledged, and the lease is left.
NativeReturns(j) ==
    /\ pc[j] = "dispatched"
    /\ journal[j] = "terminal"
    /\ Release(j)
    /\ \/ /\ j \notin cancelled                 \* completed: the product comes next
          /\ Go(j, "working")
          /\ UNCHANGED <<report, files, current, verdict, cancelled, faults>>
       \/ /\ j \notin cancelled                 \* failed, and restored
          /\ Reported(j, "failed")
          /\ UNCHANGED cancelled
       \/ /\ j \in cancelled                    \* drained, then cancelled
          /\ RecordCancelled(j)
          /\ UNCHANGED current
    /\ UNCHANGED <<row, mode, recording, crashes>>
    /\ Journal!Return(j)

\* Mutant: an uncertain execution is an ordinary failed stage.
NativeDoubtFails(j) ==
    /\ pc[j] = "dispatched"
    /\ Release(j)
    /\ Reported(j, "failed")
    /\ UNCHANGED <<row, mode, cancelled, recording, crashes>>
    /\ Journal!Doubt(j) \/ Journal!Unsent(j)

\* Deadline, evidence that does not hold or cannot be acknowledged, or a command
\* that was not sent without a receipt to say so: the run stays unresolved.
NativeDoubt(j) ==
    /\ pc[j] = "dispatched"
    /\ Release(j)
    /\ LeaveUnconfirmed(j)
    /\ cancelled' = cancelled \ {j}
    /\ UNCHANGED <<row, mode, current, recording, crashes>>
    /\ Journal!Doubt(j) \/ Journal!Unsent(j)

-----------------------------------------------------------------------------
(* Cancellation and the end of a run *)

\* CancelledError before the job is known: nothing is written.
CancelEarly(j) ==
    /\ j \in cancelled
    /\ pc[j] \in {"ready", "loading"}
    /\ cancelled' = cancelled \ {j}
    /\ Go(j, "none")
    /\ UNCHANGED <<durable, mode, current, verdict, engine, recording, faults, crashes>>

\* CancelledError inside the stage loop; a pending jobs.update may have committed,
\* a reservation have failed meanwhile, and a verification suite is left in doubt.
CancelInLoop(j) ==
    /\ j \in cancelled
    /\ pc[j] \in {"marking", "queued", "preparing", "working"}
    /\ RecordCancelled(j)
    /\ Release(j)
    /\ \/ UNCHANGED row
       \/ pc[j] = "marking" /\ UpdateRow(j, "running", current[j], None)
    /\ UNCHANGED <<mode, current, recording, crashes>>
    /\ \/ pc[j] # "preparing" /\ UNCHANGED runner
       \/ Journal!Refuse(j)
       \/ pc[j] = "working" /\ current[j] = "mechanism" /\ Journal!OtherSeals

\* The finally clause: clean(error), then jobs.update.
EndRun(j) ==
    /\ pc[j] = "ending"
    /\ j \notin cancelled
    /\ UpdateRow(j, verdict[j].status, current[j], verdict[j].error)
    /\ Go(j, "none")
    /\ UNCHANGED <<report, files, journal, mode, current, verdict, cancelled, engine, recording,
                   faults, crashes>>

\* CancelledError in the finally clause: the update may or may not have committed.
CancelAtEnd(j) ==
    /\ pc[j] = "ending"
    /\ j \in cancelled
    /\ \/ UNCHANGED row
       \/ UpdateRow(j, verdict[j].status, current[j], verdict[j].error)
    /\ cancelled' = cancelled \ {j}
    /\ Go(j, "none")
    /\ UNCHANGED <<report, files, journal, mode, current, verdict, engine, recording, faults, crashes>>

\* cancel_all at shutdown, once the server has drained its requests.
CancelAll ==
    /\ mode = "serving"
    /\ \A j \in Job : pc[j] \notin Submitting
    /\ recording = {}
    /\ mode' = "stopping"
    /\ cancelled' = Tasks
    /\ UNCHANGED <<durable, pc, current, verdict, engine, recording, faults, crashes>>

\* A command of another user of Blender ends in doubt.
OtherSeals ==
    /\ mode \in {"serving", "stopping"}
    /\ holder = None
    /\ UNCHANGED <<row, report, files, mode, local, holder, recording, faults, crashes>>
    /\ Journal!OtherSeals

-----------------------------------------------------------------------------
(* The process: crash, restart, recovery *)

Forget ==
    /\ mode' = "down"
    /\ pc' = [j \in Job |-> "none"]
    /\ current' = [j \in Job |-> None]
    /\ verdict' = [j \in Job |-> Unstarted]
    /\ cancelled' = {}
    /\ holder' = None
    /\ recording' = {}
    /\ faults' = 0
    /\ UNCHANGED <<row, report, files>>
    /\ Journal!Stop

Exit ==
    /\ mode = "stopping"
    /\ Tasks = {}
    /\ Forget
    /\ UNCHANGED crashes

Crash ==
    /\ mode # "down"
    /\ crashes < MaxCrashes
    /\ crashes' = crashes + 1
    /\ Forget

\* Acknowledgements that cannot be published are one more disk error.
Unpublished(failing) == IF failing = {} THEN NoFault ELSE Fault

\* Mutant: jobs are recovered before the native receipts are read.
RestartUnchecked ==
    /\ mode = "down"
    /\ mode' = "recovering"
    /\ UNCHANGED <<durable, local, engine, recording, faults, crashes>>

Restart ==
    /\ mode = "down"
    /\ mode' = "recovering"
    /\ UNCHANGED <<row, report, files, local, holder, recording, crashes>>
    /\ \E failing \in SUBSET Journal!Terminals : Unpublished(failing) /\ Journal!Restart(failing)

\* Mutant: jobs that had not started are forgotten.
OrphansRunning == {j \in Job : row[j].status = "running" /\ j \notin unresolved}

Orphans == {j \in Job : row[j].status \in Live /\ j \notin unresolved}

\* recover_interrupted, one orphan at a time: the row first ...
RecoverRow(j) ==
    /\ mode = "recovering"
    /\ recording = {}
    /\ j \in Orphans
    /\ UpdateRow(j, "failed", None, "interrupted")
    /\ recording' = {j}
    /\ UNCHANGED <<report, files, journal, mode, local, engine, faults, crashes>>

\* Mutant: a job without a stage gets an entry too.
RecordStageless(j) ==
    /\ j \in recording
    /\ recording' = recording \ {j}
    /\ IF j \notin files THEN NoWrite
       ELSE WriteReport(j, Append(report[j], [name |-> row[j].stage, outcome |-> "failed"]))
    /\ UNCHANGED <<row, journal, mode, local, engine, faults, crashes>>

\* ... then record_interruption adds the interrupted stage, unless it is the
\* last one listed or there is no report to add to.
RecordInterruption(j) ==
    /\ j \in recording
    /\ recording' = recording \ {j}
    /\ LET known  == report[j]
           listed == known # <<>> /\ known[Len(known)].name = row[j].stage
       IN  IF row[j].stage = None \/ j \notin files \/ listed
           THEN NoWrite
           ELSE WriteReport(j, Append(known, [name |-> row[j].stage, outcome |-> "failed"]))
    /\ UNCHANGED <<row, journal, mode, local, engine, faults, crashes>>

Serve ==
    /\ mode = "recovering"
    /\ recording = {}
    /\ Orphans = {}
    /\ mode' = "serving"
    /\ UNCHANGED <<durable, local, engine, recording, faults, crashes>>

\* "design pipeline recovery failed; serving without it"
ServeUnrecovered ==
    /\ mode = "recovering"
    /\ Fault
    /\ mode' = "serving"
    /\ recording' = {}
    /\ UNCHANGED <<durable, local, engine, crashes>>

\* Mutant: the receipts are not read again.
ReconcileStale(j) ==
    /\ mode = "serving"
    /\ row[j].error = "unconfirmed"
    /\ Tasks = {}
    /\ j \notin unresolved
    /\ UpdateRow(j, "failed", row[j].stage, "verified")
    /\ recording' = recording \union {j}
    /\ UNCHANGED <<report, files, journal, mode, local, engine, faults, crashes>>

\* status(): a late receipt fails the unconfirmed job when no task is running.
Reconcile(j) ==
    /\ mode = "serving"
    /\ row[j].error = "unconfirmed"
    /\ Tasks = {}
    /\ UNCHANGED <<report, files, mode, local, holder, crashes>>
    /\ \E failing \in SUBSET Journal!Terminals : Unpublished(failing) /\ Journal!Reconcile(failing)
    /\ IF j \in unresolved' \/ Journal!Refused THEN UNCHANGED <<row, recording>>
       ELSE /\ UpdateRow(j, "failed", row[j].stage, "verified")
            /\ recording' = recording \union {j}

-----------------------------------------------------------------------------
SubmitStep(j) == Submit(j) \/ Schedule(j) \/ ScheduleFails(j) \/ Refuse(j) \/ Abandon(j)
StageStep(j)  == Mark(j) \/ Enter(j) \/ StageEnds(j) \/ StageRefused(j) \/ SuiteInDoubt(j)
NativeStep(j) == Dispatch(j) \/ NativeReturns(j) \/ NativeDoubt(j)
CancelStep(j) == CancelEarly(j) \/ CancelInLoop(j) \/ CancelAtEnd(j)
RunStep(j) ==
    Begin(j) \/ Load(j) \/ StageStep(j) \/ NativeStep(j) \/ CancelStep(j) \/ EndRun(j)
RecoveryStep(j) == RecoverRow(j) \/ RecordInterruption(j)

Next ==
    \/ \E j \in Job : \/ SubmitStep(j) \/ RunStep(j) \/ StoreFails(j) \/ Behind(j)
                      \/ RecoveryStep(j) \/ Reconcile(j)
    \/ CancelAll \/ OtherSeals \/ Exit \/ Crash \/ Restart \/ Serve \/ ServeUnrecovered

Spec == Init /\ [][Next]_vars

\* The event loop runs every task that can move, the launch agent restarts the
\* process, startup code runs on, and a client keeps asking for the status of
\* a job.  Nothing makes a callback end.
FairSpec ==
    /\ Spec
    /\ \A j \in Job : /\ WF_vars(Schedule(j) \/ Refuse(j) \/ RunStep(j))
                      /\ SF_vars(Enter(j))
                      /\ WF_vars(RecoveryStep(j))
                      /\ WF_vars(Reconcile(j))
    /\ WF_vars(Exit \/ Restart \/ Serve)

-----------------------------------------------------------------------------
(* Properties *)

\* A DONE row means a complete report on disk: every stage once, in order, none
\* failed; whatever crashed, was cancelled or could not be written in between.
DoneMeansPassed ==
    \A j \in Job : row[j].status = "done" => Passed(report[j])

\* The report and the row are written separately, yet never drift apart: the
\* report lists the passed stages first and in order, only failures follow, and
\* the last passed stage is the row's stage or the one before it.
EvidenceTracksRow ==
    \A j \in Job : \E p \in 0..Len(report[j]) :
        /\ p <= Len(Stages)
        /\ \A i \in 1..p : report[j][i] = [name |-> Stages[i], outcome |-> "passed"]
        /\ \A i \in p + 1..Len(report[j]) : report[j][i].outcome = "failed"
        /\ IF row[j].stage = None THEN p = 0 ELSE p \in {Index(row[j].stage) - 1, Index(row[j].stage)}

\* While Blender may still be executing a native revision its job has no final
\* verdict: it is neither failed, cancelled nor done (docs/tasks/16_lab-station.md,
\* "Unresolved native run IDs remain excluded").
NoVerdictInDoubt == \A j \in Job : journal[j] = "pending" => row[j].status \notin Final

\* A serving process keeps Blender sealed as long as a reserved execution has no
\* verified evidence and nobody is polling for it, also one of an earlier process.
DoubtIsSealed ==
    mode = "serving" =>
        \A j \in Job : journal[j] = "pending" => Sealed \/ pc[j] = "dispatched"

\* A native revision that recovery leaves RUNNING without anybody at work on it:
\* it stopped inside its import stage, or its evidence was altered after that.
Isolated(j) == j \in Native /\ (row[j].stage = "import" \/ journal[j] = "spoiled")

\* In a process that recovered and met no store error, a QUEUED or RUNNING job is
\* being worked on, or waits for a client to ask for it, or is an isolated revision.
LiveJobsAreOwned ==
    mode = "serving" /\ faults = 0 =>
        \A j \in Job : row[j].status \in Live =>
            pc[j] # "none" \/ row[j].error = "unconfirmed" \/ Isolated(j)

\* A final row is final, and the evidence below it never shrinks or changes:
\* only the interruption that made the row final may still be appended.
HistoryStays ==
    [][\A j \in Job :
          /\ row[j].status \in Final => row'[j] = row[j]
          /\ SubSeq(report'[j], 1, Len(report[j])) = report[j]
          /\ row[j].status \in Final /\ j \notin recording => report'[j] = report[j]]_vars

\* In the life of one process the runs use the lease as BlenderLease promises it.
Lease == INSTANCE EngineOwnership WITH Task <- Job, user <- holder, sealed <- Sealed
UsesLease == [][mode' # "down" => IF mode # "down" THEN [Lease!Next]_(Lease!vars) ELSE (Lease!Init)']_vars

\* recover_unfinished cannot seal Blender for another revision in doubt, and status()
\* raises before it comes to the job it was asked for.
Refusing(j) == unresolved \ {j} # {} /\ seal # "runner"

\* A job ends, or it is an isolated revision, unless a store or a disk failed;
\* whatever crashed or was cancelled.
JobsSettle ==
    \A j \in Job : row[j].status \in Live
        ~> row[j].status \in Final \/ Isolated(j) \/ Refusing(j) \/ faults > 0

\* A job left unconfirmed is failed once its late receipt is there, unless the
\* receipt is altered or a store fails.
UnconfirmedSettles ==
    \A j \in Native : row[j].error = "unconfirmed" /\ journal[j] \in {"terminal", "settled"}
        ~> row[j].status \in Final \/ journal[j] = "spoiled" \/ Refusing(j) \/ faults > 0

\* design_pipeline.py:175, cancel_all: "Cancel every in-flight run and wait for each
\* to record CANCELLED": when it returns, no run is left QUEUED or RUNNING, native
\* revisions in doubt apart.
CancelAllRecords ==
    mode = "stopping" /\ Tasks = {} /\ faults = 0 =>
        \A j \in Job : row[j].status \in Live => j \in unresolved

\* native_revision.py:106, "recheck late terminal receipts": a RUNNING job whose
\* execution has left verified evidence does not stay RUNNING.
LateReceiptsSettle ==
    \A j \in Job : row[j].status = "running" /\ journal[j] = "terminal"
        ~> row[j].status \in Final

\* docs/superpowers/plans/2026-10-21-mcp-complete-phase1.md:211, "stages in order":
\* the stages a report lists are the first ones of the pipeline, in its order.
ReportInOrder ==
    \A j \in Job : \A i \in 1..Len(report[j]) : i <= Len(Stages) /\ report[j][i].name = Stages[i]
=============================================================================
