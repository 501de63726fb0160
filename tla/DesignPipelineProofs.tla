------------------------ MODULE DesignPipelineProofs ------------------------
(***************************************************************************)
(* Proofs about DesignPipeline for every set of jobs, any of them native,  *)
(* and any number of crashes, store errors and shutdowns.                  *)
(***************************************************************************)
EXTENDS DesignPipeline, TLAPS

\* Inside the stage loop there is a current stage.
LoopInv == \A j \in Job : pc[j] \in {"marking", "queued"} \union InLease => current[j] \in Stage

\* Only a live row has a coroutine; before its task exists the row is untouched.
\* Tasks exist only in a process that serves or stops.
ActiveInv ==
    /\ \A j \in Job : pc[j] # "none" => row[j].status \in Live
    /\ \A j \in Job : pc[j] \in Submitting => row[j].error = None
    /\ mode \in {"down", "recovering"} => \A j \in Job : pc[j] = "none"
    /\ \A j \in Job : row[j].error = "unconfirmed" => row[j].status = "running"
    /\ \A j \in Job : verdict[j].error = "unconfirmed" => verdict[j].status = "running"
    /\ \A j \in recording : row[j].status = "failed"
    /\ mode = "down" => recording = {}

\* What NativeJournal keeps true of the runner: one execution at a time; while one
\* is inside, no other is in doubt; and in a process that is up, an execution in
\* doubt is listed as unresolved, and polled for or sealed off.
JournalInv ==
    /\ journal \in [Job -> Journal!State] /\ unresolved \subseteq Job /\ seal \in Journal!Sealer
    /\ mode = "down" => Journal!AllOut
    /\ \A r \in Job : Journal!Inside(r) =>
          \A q \in Job : /\ Journal!Inside(q) => q = r
                         /\ journal[q] = "pending" => At[q] = "dispatched"
    /\ mode # "down" =>
          \A r \in Job : journal[r] = "pending" => r \in unresolved /\ (Sealed \/ At[r] = "dispatched")

\* An execution without evidence belongs to a run that is being polled, or has
\* given up with the verdict RUNNING, or is gone.
DoubtInv ==
    \A j \in Job : journal[j] = "pending" =>
        /\ row[j].status \in Live
        /\ pc[j] \in {"none", "dispatched", "ending"}
        /\ pc[j] = "ending" => verdict[j].status = "running"

\* A run about to record DONE has its passed report on disk, and so has every
\* job that recorded it.
DoneInv ==
    /\ \A j \in Job : pc[j] = "ending" /\ verdict[j].status = "done"
          => Passed(report[j])
    /\ DoneMeansPassed

\* A report that lists the first p stages as passed, in order, and then only failures.
Lists(stages, p) ==
    /\ p \in 0..Len(stages) /\ p <= Len(Stages)
    /\ \A i \in 1..p : stages[i] = [name |-> Stages[i], outcome |-> "passed"]
    /\ \A i \in p + 1..Len(stages) : stages[i].outcome = "failed"

\* Stage s was the last of p passed stages, or the one after them.
Beside(s, p) == IF s = None THEN p = 0 ELSE p \in {Index(s) - 1, Index(s)}

\* The stores of a job with p passed stages.  A run is always one stage ahead of
\* its report; until it marks the row, the row may name either of the two.
Tracks(j, p) ==
    /\ Lists(report[j], p)
    /\ Beside(row[j].stage, p)
    /\ row[j].status = "absent" \/ pc[j] \in {"ready", "loading"} \union Submitting => report[j] = <<>>
    /\ pc[j] = "loading" => current[j] = None
    /\ pc[j] \in {"marking", "queued"} \union InLease
          => Len(report[j]) = p /\ p < Len(Stages) /\ current[j] = Stages[p + 1]
    /\ pc[j] \in {"queued"} \union InLease => row[j].stage = current[j]
    /\ pc[j] = "ending" => Beside(current[j], p)

EvidenceInv == \A j \in Job : \E p \in 0..Len(Stages) : Tracks(j, p)

IInv == TypeOK /\ LoopInv /\ ActiveInv /\ JournalInv /\ DoubtInv /\ DoneInv /\ EvidenceInv

-----------------------------------------------------------------------------
\* The case split of every inductive step below.
LEMMA NextCases ==
    ASSUME [Next]_vars, NEW P,
           ASSUME NEW j \in Job, SubmitStep(j) PROVE P,
           ASSUME NEW j \in Job, Begin(j) \/ Load(j) \/ Mark(j) \/ Enter(j) PROVE P,
           ASSUME NEW j \in Job, StageEnds(j) \/ StageRefused(j) PROVE P,
           ASSUME NEW j \in Job, Dispatch(j) \/ Behind(j) PROVE P,
           ASSUME NEW j \in Job, NativeReturns(j) PROVE P,
           ASSUME NEW j \in Job, NativeDoubt(j) \/ SuiteInDoubt(j) PROVE P,
           ASSUME NEW j \in Job, CancelEarly(j) \/ CancelInLoop(j) \/ CancelAtEnd(j) PROVE P,
           ASSUME NEW j \in Job, EndRun(j) \/ StoreFails(j) PROVE P,
           ASSUME NEW j \in Job, RecoveryStep(j) PROVE P,
           ASSUME NEW j \in Job, Reconcile(j) PROVE P,
           ASSUME CancelAll \/ OtherSeals \/ Exit \/ Crash PROVE P,
           ASSUME Restart \/ Serve \/ ServeUnrecovered PROVE P,
           ASSUME UNCHANGED vars PROVE P
    PROVE  P
BY Zenon DEF Next, RunStep, StageStep, NativeStep, CancelStep

LEMMA StageFacts ==
    /\ Len(Stages) = 5
    /\ Stage = {"import", "geometry", "mechanism", "print", "package"}
    /\ \A s \in Stage : Index(s) \in 1..5 /\ Stages[Index(s)] = s
    /\ \A i \in 1..5 : Stages[i] \in Stage
<1>1. Len(Stages) = 5 /\ \A i \in 1..5 : Stages[i] \in Stage
  BY DEF Stages, Stage
<1>2. Stage = {"import", "geometry", "mechanism", "print", "package"}
  BY DEF Stages, Stage
<1>3. ASSUME NEW s \in Stage PROVE Index(s) \in 1..5 /\ Stages[Index(s)] = s
  <2>1. \E i \in 1..Len(Stages) : Stages[i] = s
    BY DEF Stage
  <2> QED BY <2>1, <1>1 DEF Index
<1> QED BY <1>1, <1>2, <1>3

\* The stage after the current one, when it is not the last.
LEMMA NextStage ==
    ASSUME NEW s \in Stage, s # Stages[Len(Stages)]
    PROVE  Stages[Index(s) + 1] \in Stage
<1>1. Index(s) \in 1..5 /\ Stages[Index(s)] = s /\ Len(Stages) = 5
  BY StageFacts
<1>2. Index(s) # 5
  BY <1>1
<1>3. Index(s) + 1 \in 1..5
  BY <1>1, <1>2
<1> QED BY <1>3, StageFacts

\* The list a run adds an entry to.
LEMMA ListedType ==
    ASSUME TypeOK, NEW j \in Job, NEW s \in Stage, NEW o \in {"passed", "failed"}
    PROVE  /\ report[j] \in Seq(Entry)
           /\ Append(report[j], [name |-> s, outcome |-> o]) \in Seq(Entry)
           /\ LET stages == Append(report[j], [name |-> s, outcome |-> o])
              IN  stages[Len(stages)].outcome = o
<1>1. report[j] \in Seq(Entry)
  BY DEF TypeOK
<1>2. [name |-> s, outcome |-> o] \in Entry
  BY DEF Entry
<1> QED BY <1>1, <1>2

\* The way to the finally clause.
LEMMA EndWithFacts ==
    ASSUME TypeOK, NEW j \in Job, NEW st \in Final \union {"running"},
           NEW er \in Error \union {None}, EndWith(j, st, er)
    PROVE  /\ verdict' \in [Job -> [status : Final \union {"running"}, error : Error \union {None}]]
           /\ verdict'[j].status = st /\ verdict'[j].error = er
           /\ \A k \in Job \ {j} : verdict'[k] = verdict[k]
           /\ pc' = [pc EXCEPT ![j] = "ending"]
           /\ pc'[j] = "ending"
BY DEF EndWith, Go, Verdict, TypeOK

\* What every way out of a stage does: the report is written or it is not, and
\* the run goes on, or ends with a verdict that DONE only a passed report gives.
LEMMA ReportedFacts ==
    ASSUME TypeOK, NEW j \in Job, NEW o \in {"passed", "failed"}, Reported(j, o),
           current[j] \in Stage
    PROVE  /\ report' \in [Job -> Seq(Entry)]
           /\ files' \subseteq Job
           /\ \A k \in Job \ {j} : report'[k] = report[k]
           /\ report'[j] = report[j] \/ \E e \in Entry : report'[j] = Append(report[j], e)
           /\ current' \in [Job -> Stage \union {None}]
           /\ pc' = [pc EXCEPT ![j] = "marking"] \/ pc' = [pc EXCEPT ![j] = "ending"]
           /\ verdict' \in [Job -> [status : Final \union {"running"}, error : Error \union {None}]]
           /\ current'[j] \in Stage
           /\ \A k \in Job \ {j} : current'[k] = current[k] /\ verdict'[k] = verdict[k]
           /\ pc'[j] = "ending" /\ verdict'[j].status = "done" => Passed(report'[j])
           /\ verdict'[j] = verdict[j] \/ verdict'[j].error # "unconfirmed"
           /\ faults' \in Nat
<1> DEFINE stages == Append(report[j], [name |-> current[j], outcome |-> o])
<1>0. pc \in [Job -> {"none"} \union Submitting \union Running] /\ current \in [Job -> Stage \union {None}]
      /\ verdict \in [Job -> [status : Final \union {"running"}, error : Error \union {None}]]
      /\ faults \in Nat /\ report \in [Job -> Seq(Entry)] /\ files \subseteq Job
  BY DEF TypeOK
<1>1. stages \in Seq(Entry) /\ [name |-> current[j], outcome |-> o] \in Entry
  BY ListedType DEF Entry
<1>2. CASE WriteReport(j, stages) /\ Proceed(j, stages) /\ NoFault
  <2>1. /\ report' \in [Job -> Seq(Entry)] /\ files' \subseteq Job
        /\ report'[j] = stages /\ faults' \in Nat
        /\ \A k \in Job \ {j} : report'[k] = report[k]
        /\ \E e \in Entry : report'[j] = Append(report[j], e)
    BY <1>0, <1>1, <1>2 DEF WriteReport, NoFault
  <2> HIDE DEF stages
  <2>2. CASE EndWith(j, "failed", "stage") /\ UNCHANGED current
    <3>1. /\ verdict' \in [Job -> [status : Final \union {"running"}, error : Error \union {None}]]
          /\ verdict'[j].status = "failed" /\ verdict'[j].error = "stage"
          /\ \A k \in Job \ {j} : verdict'[k] = verdict[k]
          /\ pc' = [pc EXCEPT ![j] = "ending"]
      BY <2>2, EndWithFacts DEF Final, Error
    <3> QED BY <1>0, <2>1, <2>2, <3>1
  <2>3. CASE current' = [current EXCEPT ![j] = Stages[Index(@) + 1]] /\ Go(j, "marking")
             /\ UNCHANGED verdict /\ current[j] # Stages[Len(Stages)]
    BY <1>0, <2>1, <2>3, NextStage DEF Go
  <2>4. CASE Passed(stages) /\ EndWith(j, "done", None) /\ UNCHANGED current
    <3>1. report'[j] = stages
      BY <2>1
    <3>2. Passed(report'[j])
      BY <2>4, <3>1, Zenon
    <3>3. /\ verdict' \in [Job -> [status : Final \union {"running"}, error : Error \union {None}]]
          /\ verdict'[j].status = "done" /\ verdict'[j].error = None
          /\ \A k \in Job \ {j} : verdict'[k] = verdict[k]
          /\ pc' = [pc EXCEPT ![j] = "ending"]
      BY <2>4, EndWithFacts DEF Final, Error
    <3>4. None # "unconfirmed"
      BY NoneIsNull DEF Error
    <3> QED BY <1>0, <2>1, <2>4, <3>2, <3>3, <3>4
  <2> QED BY <1>2, <2>2, <2>3, <2>4 DEF Proceed
<1>3. CASE Fault /\ EndWith(j, "failed", "exception") /\ UNCHANGED <<report, files, current>>
  <2>1. /\ verdict' \in [Job -> [status : Final \union {"running"}, error : Error \union {None}]]
        /\ verdict'[j].status = "failed" /\ verdict'[j].error = "exception"
        /\ \A k \in Job \ {j} : verdict'[k] = verdict[k]
        /\ pc' = [pc EXCEPT ![j] = "ending"]
    BY <1>3, EndWithFacts DEF Final, Error
  <2> QED BY <1>0, <1>3, <2>1 DEF Fault
<1> QED BY <1>2, <1>3 DEF Reported

\* The CancelledError handler likewise.
LEMMA CancelledFacts ==
    ASSUME TypeOK, NEW j \in Job, RecordCancelled(j), current[j] \in Stage
    PROVE  /\ report' \in [Job -> Seq(Entry)]
           /\ files' \subseteq Job
           /\ \A k \in Job \ {j} : report'[k] = report[k]
           /\ report'[j] = report[j] \/ \E e \in Entry : report'[j] = Append(report[j], e)
           /\ verdict' \in [Job -> [status : Final \union {"running"}, error : Error \union {None}]]
           /\ \A k \in Job \ {j} : verdict'[k] = verdict[k]
           /\ pc' = [pc EXCEPT ![j] = "ending"]
           /\ verdict'[j].status = "cancelled" /\ verdict'[j].error = "cancelled"
           /\ cancelled' \subseteq Job
           /\ faults' \in Nat
<1>1. EndWith(j, "cancelled", "cancelled") /\ cancelled' = cancelled \ {j}
  BY DEF RecordCancelled
<1>2. [name |-> current[j], outcome |-> "failed"] \in Entry
  BY DEF Entry
<1>3. /\ report' \in [Job -> Seq(Entry)] /\ files' \subseteq Job /\ faults' \in Nat
      /\ \A k \in Job \ {j} : report'[k] = report[k]
      /\ report'[j] = report[j] \/ \E e \in Entry : report'[j] = Append(report[j], e)
  <2> DEFINE stages == Append(report[j], [name |-> current[j], outcome |-> "failed"])
  <2>1. report \in [Job -> Seq(Entry)] /\ files \subseteq Job /\ faults \in Nat
    BY DEF TypeOK
  <2>2. stages \in Seq(Entry)
    BY ListedType
  <2>3. CASE WriteReport(j, stages) /\ NoFault
    BY <1>2, <2>1, <2>2, <2>3 DEF WriteReport, NoFault
  <2>4. CASE Fault /\ NoWrite
    BY <2>1, <2>4 DEF Fault, NoWrite
  <2> QED BY <2>3, <2>4 DEF RecordCancelled
<1> QED BY <1>1, <1>3, EndWithFacts DEF Final, Error, TypeOK

\* jobs.update keeps the rows typed and touches one of them.
LEMMA UpdateRowFacts ==
    ASSUME TypeOK, NEW j \in Job, NEW st \in Status, NEW sg \in Stage \union {None},
           NEW er \in Error \union {None}, UpdateRow(j, st, sg, er)
    PROVE  /\ row' \in [Job -> [status : Status, stage : Stage \union {None}, error : Error \union {None}]]
           /\ row'[j].status = st /\ row'[j].error = er
           /\ \A k \in Job \ {j} : row'[k] = row[k]
BY DEF UpdateRow, Row, TypeOK

-----------------------------------------------------------------------------
(* The runner *)

\* Where a run is, as the contract names it.
LEMMA Places ==
    /\ At \in [Job -> {"preparing", "dispatched", "out"}]
    /\ \A j \in Job : /\ Journal!Inside(j) <=> pc[j] \in Executing
                      /\ At[j] = "preparing" <=> pc[j] = "preparing"
                      /\ At[j] = "dispatched" <=> pc[j] = "dispatched"
BY DEF At, Executing, Journal!Inside

\* A step that leaves the runner alone, by a run outside its execution.
LEMMA Aside ==
    ASSUME NEW j \in Job, pc[j] \notin Executing, pc'[j] \notin Executing,
           \A k \in Job \ {j} : pc'[k] = pc[k],
           UNCHANGED runner, mode' = "down" <=> mode = "down"
    PROVE  UNCHANGED Journal!vars
<1>1. At' = At
  BY DEF At
<1> QED BY <1>1 DEF Journal!vars, runner

LEMMA Still ==
    ASSUME UNCHANGED <<pc, runner>>, mode' = "down" <=> mode = "down"
    PROVE  UNCHANGED Journal!vars
<1>1. At' = At
  BY DEF At
<1> QED BY <1>1 DEF Journal!vars, runner

\* What an execution of one run does to the journals, and to the list.
LEMMA ExecutionFacts ==
    ASSUME TypeOK, NEW j \in Job
    PROVE  /\ Journal!Enter(j) => UNCHANGED runner
           /\ Journal!OtherSeals => UNCHANGED <<journal, unresolved>> /\ seal = "none" /\ seal' = "other"
           /\ Journal!Refuse(j) =>
                 /\ journal'[j] \in {journal[j], "partial"} /\ pc[j] = "preparing"
                 /\ \A k \in Job \ {j} : journal'[k] = journal[k]
                 /\ UNCHANGED <<unresolved, seal>>
           /\ Journal!Dispatch(j) =>
                 /\ journal[j] = "clear" /\ journal'[j] = "pending"
                 /\ \A k \in Job \ {j} : journal'[k] = journal[k]
                 /\ unresolved' = unresolved \union {j} /\ UNCHANGED seal
           /\ Journal!Return(j) =>
                 /\ journal[j] = "terminal" /\ journal'[j] = "settled"
                 /\ \A k \in Job \ {j} : journal'[k] = journal[k]
                 /\ unresolved' = unresolved \ {j} /\ seal' = "none"
           /\ Journal!Doubt(j) \/ Journal!Unsent(j) =>
                 /\ \/ journal'[j] = journal[j]
                    \/ journal[j] = "pending" /\ journal'[j] \in {"partial", "terminal"}
                    \/ journal[j] = "terminal" /\ journal'[j] = "settled"
                 /\ \A k \in Job \ {j} : journal'[k] = journal[k]
                 /\ unresolved' = unresolved /\ seal' \in {seal, "runner"}
           /\ Journal!Prove(j) \/ Journal!Spoil(j) \/ Journal!Unobserved(j) =>
                 /\ \/ journal'[j] = journal[j]
                    \/ journal[j] = "pending" /\ journal'[j] \in {"terminal", "settled"}
                    \/ journal[j] \in {"terminal", "settled"} /\ journal'[j] = "spoiled"
                 /\ \A k \in Job \ {j} : journal'[k] = journal[k]
                 /\ unresolved' = unresolved
                 /\ seal' = seal \/ (pc[j] = "dispatched" /\ seal' = "runner")
<1>0. journal \in [Job -> Journal!State]
  BY DEF TypeOK
<1>1. At[j] = "preparing" => pc[j] = "preparing"
  BY Places
<1>2. At[j] = "dispatched" => pc[j] = "dispatched"
  BY Places
<1>3. /\ Journal!Enter(j) => UNCHANGED runner
      /\ Journal!OtherSeals => UNCHANGED <<journal, unresolved>> /\ seal = "none" /\ seal' = "other"
  BY DEF Journal!Enter, Journal!OtherSeals, runner
<1>4. Journal!Refuse(j) =>
         /\ journal'[j] \in {journal[j], "partial"} /\ pc[j] = "preparing"
         /\ \A k \in Job \ {j} : journal'[k] = journal[k]
         /\ UNCHANGED <<unresolved, seal>>
  BY <1>0, <1>1 DEF Journal!Refuse, Journal!Become
<1>5. Journal!Dispatch(j) =>
         /\ journal[j] = "clear" /\ journal'[j] = "pending"
         /\ \A k \in Job \ {j} : journal'[k] = journal[k]
         /\ unresolved' = unresolved \union {j} /\ UNCHANGED seal
  BY <1>0 DEF Journal!Dispatch, Journal!Become
<1>6. Journal!Return(j) =>
         /\ journal[j] = "terminal" /\ journal'[j] = "settled"
         /\ \A k \in Job \ {j} : journal'[k] = journal[k]
         /\ unresolved' = unresolved \ {j} /\ seal' = "none"
  BY <1>0 DEF Journal!Return, Journal!Become
<1>7. Journal!Doubt(j) \/ Journal!Unsent(j) =>
         /\ \/ journal'[j] = journal[j]
            \/ journal[j] = "pending" /\ journal'[j] \in {"partial", "terminal"}
            \/ journal[j] = "terminal" /\ journal'[j] = "settled"
         /\ \A k \in Job \ {j} : journal'[k] = journal[k]
         /\ unresolved' = unresolved /\ seal' \in {seal, "runner"}
  BY <1>0 DEF Journal!Doubt, Journal!Unsent, Journal!Become
<1>8. Journal!Prove(j) \/ Journal!Spoil(j) \/ Journal!Unobserved(j) =>
         /\ \/ journal'[j] = journal[j]
            \/ journal[j] = "pending" /\ journal'[j] \in {"terminal", "settled"}
            \/ journal[j] \in {"terminal", "settled"} /\ journal'[j] = "spoiled"
         /\ \A k \in Job \ {j} : journal'[k] = journal[k]
         /\ unresolved' = unresolved
         /\ seal' = seal \/ (pc[j] = "dispatched" /\ seal' = "runner")
  BY <1>0, <1>2 DEF Journal!Prove, Journal!Spoil, Journal!Unobserved, Journal!Become
<1> QED BY <1>3, <1>4, <1>5, <1>6, <1>7, <1>8

\* Every step of the pipeline is a step the contract allows.
LEMMA JournalStep == TypeOK /\ LoopInv /\ ActiveInv /\ [Next]_vars => [Journal!Next]_(Journal!vars)
<1> DEFINE Goal == [Journal!Next]_(Journal!vars)
<1> SUFFICES ASSUME TypeOK, LoopInv, ActiveInv, [Next]_vars PROVE Goal
  OBVIOUS
<1>t. pc \in [Job -> {"none"} \union Submitting \union Running]
  BY DEF TypeOK
<1> USE DEF durable, local, engine, runner
<1>n. ASSUME NEW j \in Job,
             \/ Journal!Enter(j) \/ Journal!Refuse(j) \/ Journal!Dispatch(j) \/ Journal!Prove(j)
             \/ Journal!Spoil(j) \/ Journal!Unobserved(j) \/ Journal!Return(j)
             \/ Journal!Doubt(j) \/ Journal!Unsent(j)
      PROVE  Goal
  BY <1>n, Zenon DEF Journal!Next
<1>x. ASSUME Journal!OtherSeals PROVE Goal
  BY <1>x, Zenon DEF Journal!Next
<1>a. ASSUME NEW j \in Job, pc[j] \notin Executing, pc'[j] \notin Executing,
             \A k \in Job \ {j} : pc'[k] = pc[k],
             UNCHANGED runner, mode' = "down" <=> mode = "down"
      PROVE  Goal
  BY <1>a, Aside, Zenon
<1>s. ASSUME UNCHANGED <<pc, runner>>, mode' = "down" <=> mode = "down"
      PROVE  Goal
  BY <1>s, Still, Zenon
\* The ways out of a stage leave no execution behind.
<1>r. ASSUME NEW j \in Job, NEW o \in {"passed", "failed"}, Reported(j, o), current[j] \in Stage
      PROVE  pc'[j] \notin Executing /\ \A k \in Job \ {j} : pc'[k] = pc[k]
  <2>1. pc' = [pc EXCEPT ![j] = "marking"] \/ pc' = [pc EXCEPT ![j] = "ending"]
    BY <1>r, ReportedFacts
  <2> QED BY <1>t, <2>1 DEF Executing
<1> HIDE DEF Goal
<1>1. ASSUME NEW j \in Job, SubmitStep(j) PROVE Goal
  <2>1. pc[j] \in {"none"} \union Submitting /\ UNCHANGED <<runner, mode>>
    <3>1. Submit(j) => pc[j] = "none"
      BY <1>t DEF Submit, ActiveInv, Live
    <3> QED BY <1>1, <3>1
            DEF SubmitStep, Submit, Refuse, Schedule, ScheduleFails, Abandon, Submitting
  <2>2. pc'[j] \in {"creating", "ready", "refusing", "none"} /\ \A k \in Job \ {j} : pc'[k] = pc[k]
    BY <1>1, <1>t DEF SubmitStep, Submit, Refuse, Schedule, ScheduleFails, Abandon, Go
  <2> QED BY <2>1, <2>2, <1>a DEF Submitting, Executing
<1>2. ASSUME NEW j \in Job, Begin(j) \/ Load(j) \/ Mark(j) \/ Enter(j) PROVE Goal
  <2>1. CASE Begin(j) \/ Load(j) \/ Mark(j)
    <3>1. pc[j] \in {"ready", "loading", "marking"} /\ UNCHANGED <<runner, mode>>
      BY <2>1 DEF Begin, Load, Mark
    <3>2. /\ pc'[j] \in {"loading", "marking", "queued", "working", "ending"}
          /\ \A k \in Job \ {j} : pc'[k] = pc[k]
      BY <1>t, <2>1 DEF Begin, Load, Mark, EndWith, Go
    <3> QED BY <3>1, <3>2, <1>a DEF Executing
  <2>2. CASE Enter(j) /\ Journal!Enter(j)
    BY <2>2, <1>n
  <2>3. CASE Enter(j) /\ Go(j, "working") /\ UNCHANGED runner
    <3>1. pc[j] = "queued" /\ UNCHANGED mode /\ pc'[j] = "working" /\ \A k \in Job \ {j} : pc'[k] = pc[k]
      BY <1>t, <2>3 DEF Enter, Go
    <3> QED BY <2>3, <3>1, <1>a DEF Executing
  <2> QED BY <1>2, <2>1, <2>2, <2>3 DEF Enter
<1>3. ASSUME NEW j \in Job, StageEnds(j) \/ StageRefused(j) PROVE Goal
  <2>1. CASE Journal!Refuse(j)
    BY <2>1, <1>n
  <2>2. CASE pc[j] \in {"queued", "working"} /\ UNCHANGED <<runner, mode>>
    <3>1. PICK o \in {"passed", "failed"} : Reported(j, o)
      BY <1>3 DEF StageEnds, StageRefused
    <3>2. current[j] \in Stage
      BY <2>2 DEF LoopInv, InLease
    <3> QED BY <2>2, <3>1, <3>2, <1>r, <1>a DEF Executing
  <2> QED BY <1>3, <2>1, <2>2 DEF StageEnds, StageRefused
<1>4. ASSUME NEW j \in Job, Dispatch(j) \/ Behind(j) PROVE Goal
  BY <1>4, <1>n DEF Dispatch, Behind
<1>5. ASSUME NEW j \in Job, NativeReturns(j) PROVE Goal
  BY <1>5, <1>n DEF NativeReturns
<1>6. ASSUME NEW j \in Job, NativeDoubt(j) \/ SuiteInDoubt(j) PROVE Goal
  BY <1>6, <1>n, <1>x DEF NativeDoubt, SuiteInDoubt
<1>7. ASSUME NEW j \in Job, CancelEarly(j) \/ CancelInLoop(j) \/ CancelAtEnd(j) PROVE Goal
  <2>1. CASE CancelEarly(j) \/ CancelAtEnd(j)
    <3>1. /\ pc[j] \in {"ready", "loading", "ending"} /\ UNCHANGED <<runner, mode>>
          /\ pc'[j] = "none" /\ \A k \in Job \ {j} : pc'[k] = pc[k]
      BY <1>t, <2>1 DEF CancelEarly, CancelAtEnd, Go
    <3> QED BY <3>1, <1>a DEF Executing
  <2>2. CASE CancelInLoop(j) /\ pc[j] # "preparing" /\ UNCHANGED runner
    <3>1. /\ pc[j] \in {"marking", "queued", "working"} /\ UNCHANGED mode
          /\ pc'[j] = "ending" /\ \A k \in Job \ {j} : pc'[k] = pc[k]
      BY <1>t, <2>2 DEF CancelInLoop, RecordCancelled, EndWith, Go
    <3> QED BY <2>2, <3>1, <1>a DEF Executing
  <2> QED BY <1>7, <2>1, <2>2, <1>n, <1>x DEF CancelInLoop
<1>8. ASSUME NEW j \in Job, EndRun(j) \/ StoreFails(j) PROVE Goal
  <2>1. /\ pc[j] \in {"marking", "ending"} /\ UNCHANGED <<runner, mode>>
        /\ pc'[j] \in {"none", "ending"} /\ \A k \in Job \ {j} : pc'[k] = pc[k]
    BY <1>t, <1>8 DEF EndRun, StoreFails, EndWith, Go
  <2> QED BY <2>1, <1>a DEF Executing
<1>9. ASSUME NEW j \in Job, RecoveryStep(j) PROVE Goal
  BY <1>9, <1>s DEF RecoveryStep, RecoverRow, RecordInterruption
<1>f. ASSUME NEW failing \in SUBSET Journal!Terminals, Journal!Restart(failing) \/ Journal!Reconcile(failing)
      PROVE  Goal
  BY <1>f, Zenon DEF Journal!Next, Goal
<1>10. ASSUME NEW j \in Job, Reconcile(j) PROVE Goal
  BY <1>10, <1>f DEF Reconcile
<1>11. ASSUME CancelAll \/ OtherSeals \/ Exit \/ Crash PROVE Goal
  <2>1. CASE CancelAll
    BY <2>1, <1>s DEF CancelAll
  <2>2. CASE Forget
    <3>1. Journal!Stop
      BY <2>2 DEF Forget
    <3> QED BY <3>1, Zenon DEF Journal!Next, Goal
  <2> QED BY <1>11, <1>x, <2>1, <2>2 DEF OtherSeals, Exit, Crash
<1>12. ASSUME Restart \/ Serve \/ ServeUnrecovered PROVE Goal
  <2>1. CASE Restart
    BY <2>1, <1>f DEF Restart
  <2>2. CASE Serve \/ ServeUnrecovered
    BY <2>2, <1>s DEF Serve, ServeUnrecovered
  <2> QED BY <1>12, <2>1, <2>2
<1>13. ASSUME UNCHANGED vars PROVE Goal
  BY <1>13, <1>s DEF vars
<1> QED BY <1>1, <1>2, <1>3, <1>4, <1>5, <1>6, <1>7, <1>8, <1>9, <1>10, <1>11, <1>12, <1>13, NextCases, Zenon

\* What the contract's own steps keep.
LEMMA ContractStep == JournalInv /\ [Journal!Next]_(Journal!vars) => JournalInv'
<1> SUFFICES ASSUME JournalInv, [Journal!Next]_(Journal!vars) PROVE JournalInv'
  OBVIOUS
<1>1. /\ journal \in [Job -> Journal!State] /\ unresolved \subseteq Job /\ seal \in Journal!Sealer
      /\ At \in [Job -> {"preparing", "dispatched", "out"}]
      /\ At' \in [Job -> {"preparing", "dispatched", "out"}]
  BY Places DEF JournalInv, At, Executing
<1> USE DEF Journal!State, Journal!Sealer, Journal!Inside, Journal!AllOut, Sealed
<1>2. ASSUME NEW r \in Job, Journal!Enter(r) PROVE JournalInv'
  <2>1. \A q \in Job : journal[q] # "pending"
    BY <1>2 DEF JournalInv, Journal!Enter
  <2> QED BY <1>1, <1>2, <2>1 DEF JournalInv, Journal!Enter, Journal!Go
<1>3. ASSUME NEW r \in Job, Journal!Refuse(r) PROVE JournalInv'
  <2>1. \A q \in Job : journal[q] # "pending"
    BY <1>3 DEF JournalInv, Journal!Refuse
  <2> QED BY <1>1, <1>3, <2>1 DEF JournalInv, Journal!Refuse, Journal!Go, Journal!Become
<1>4. ASSUME NEW r \in Job, Journal!Dispatch(r) PROVE JournalInv'
  BY <1>1, <1>4 DEF JournalInv, Journal!Dispatch, Journal!Go, Journal!Become
<1>5. ASSUME NEW r \in Job, Journal!Prove(r) \/ Journal!Spoil(r) PROVE JournalInv'
  BY <1>1, <1>5 DEF JournalInv, Journal!Prove, Journal!Spoil, Journal!Become
<1>6. ASSUME NEW r \in Job, Journal!Unobserved(r) PROVE JournalInv'
  BY <1>1, <1>6 DEF JournalInv, Journal!Unobserved
<1>7. ASSUME NEW r \in Job, Journal!Return(r) \/ Journal!Doubt(r) \/ Journal!Unsent(r)
      PROVE  JournalInv'
  <2>1. \A q \in Job \ {r} : journal[q] # "pending" /\ ~Journal!Inside(q)
    BY <1>7 DEF JournalInv, Journal!Return, Journal!Doubt, Journal!Unsent
  <2>2. CASE Journal!Return(r) \/ Journal!Unsent(r)
    BY <1>1, <2>1, <2>2 DEF JournalInv, Journal!Return, Journal!Unsent, Journal!Go, Journal!Become
  <2>3. CASE Journal!Doubt(r)
    BY <1>1, <2>1, <2>3 DEF JournalInv, Journal!Doubt, Journal!Go, Journal!Become
  <2> QED BY <1>7, <2>2, <2>3
<1>8. ASSUME Journal!OtherSeals PROVE JournalInv'
  BY <1>1, <1>8 DEF JournalInv, Journal!OtherSeals
<1>9. ASSUME Journal!Stop PROVE JournalInv'
  BY <1>1, <1>9 DEF JournalInv, Journal!Stop, Journal!Torn
<1>10. ASSUME NEW failing \in SUBSET Journal!Terminals,
              Journal!Restart(failing) \/ Journal!Reconcile(failing)
       PROVE  JournalInv'
  <2>1. /\ journal' \in [Job -> Journal!State] /\ unresolved' \subseteq Job
        /\ \A r \in Job : journal'[r] = "pending" => journal[r] = "pending" /\ r \in unresolved'
    BY <1>1, <1>10 DEF Journal!Restart, Journal!Reconcile, Journal!Scan, Journal!Terminals
  <2>2. At' = At /\ \A r \in Job : ~Journal!Inside(r)
    BY <1>10 DEF JournalInv, Journal!Restart, Journal!Reconcile
  <2>3. seal' \in Journal!Sealer
    BY <1>1, <1>10 DEF Journal!Restart, Journal!Reconcile, Journal!Reseal
  <2>4. ASSUME NEW r \in Job, journal'[r] = "pending" PROVE Sealed'
    BY <1>10, <2>1, <2>2, <2>4 DEF JournalInv, Journal!Restart, Journal!Reconcile, Journal!Reseal
  <2> QED BY <2>1, <2>2, <2>3, <2>4 DEF JournalInv
<1>11. ASSUME UNCHANGED Journal!vars PROVE JournalInv'
  BY <1>11 DEF JournalInv, Journal!vars
<1> QED BY <1>2, <1>3, <1>4, <1>5, <1>6, <1>7, <1>8, <1>9, <1>10, <1>11 DEF Journal!Next

-----------------------------------------------------------------------------
\* The state stays within its types; the contract has those of the runner.
LEMMA TypeStep == TypeOK /\ LoopInv /\ ActiveInv /\ JournalInv /\ [Next]_vars => TypeOK'
<1> SUFFICES ASSUME TypeOK, LoopInv, ActiveInv, JournalInv, [Next]_vars PROVE TypeOK'
  OBVIOUS
<1> USE DEF durable, local, engine, Running, InLease, Submitting
<1>j. journal' \in [Job -> Journal!State] /\ unresolved' \subseteq Job /\ seal' \in Journal!Sealer
  BY JournalStep, ContractStep, Zenon DEF JournalInv
<1>1. ASSUME NEW j \in Job, SubmitStep(j) PROVE TypeOK'
  <2>1. CASE Submit(j)
    <3>1. row' \in [Job -> [status : Status, stage : Stage \union {None}, error : Error \union {None}]]
      BY <2>1 DEF Submit, Row, Status, TypeOK
    <3> QED BY <2>1, <3>1 DEF Submit, Go, TypeOK
  <2>2. CASE Schedule(j)
    BY <2>2 DEF Schedule, Go, TypeOK
  <2>3. CASE ScheduleFails(j) \/ Abandon(j)
    <3>1. pc' \in [Job -> {"none"} \union Submitting \union Running] /\ faults' \in Nat
      <4>1. Go(j, "refusing") \/ Go(j, "none")
        BY <2>3 DEF ScheduleFails, Abandon
      <4>2. pc \in [Job -> {"none"} \union Submitting \union Running] /\ faults \in Nat
        BY DEF TypeOK
      <4>3. faults' = faults + 1
        BY <2>3 DEF ScheduleFails, Abandon, Fault
      <4>4. pc' \in [Job -> {"none"} \union Submitting \union Running]
        BY <4>1, <4>2 DEF Go
      <4> QED BY <4>2, <4>3, <4>4
    <3>2. UNCHANGED <<durable, mode, current, verdict, cancelled, engine, recording, crashes>>
      BY <2>3 DEF ScheduleFails, Abandon
    <3> QED BY <3>1, <3>2 DEF TypeOK
  <2>4. CASE Refuse(j)
    <3>1. row' \in [Job -> [status : Status, stage : Stage \union {None}, error : Error \union {None}]]
      BY <2>4, UpdateRowFacts DEF Refuse, Status, Error
    <3> QED BY <2>4, <3>1 DEF Refuse, Go, TypeOK
  <2> QED BY <1>1, <2>1, <2>2, <2>3, <2>4 DEF SubmitStep
<1>2. ASSUME NEW j \in Job, Begin(j) \/ Load(j) \/ Mark(j) \/ Enter(j) PROVE TypeOK'
  <2>1. CASE Begin(j)
    BY <2>1 DEF Begin, Go, Unstarted, Verdict, Final, Error, TypeOK
  <2>2. CASE Load(j)
    <3>1. CASE current' = [current EXCEPT ![j] = Stages[1]] /\ Go(j, "marking") /\ UNCHANGED verdict
      BY <2>2, <3>1, StageFacts DEF Load, Go, TypeOK
    <3>2. CASE EndWith(j, "failed", "exception") /\ UNCHANGED current
      <4>1. verdict' \in [Job -> [status : Final \union {"running"}, error : Error \union {None}]]
            /\ pc' = [pc EXCEPT ![j] = "ending"]
        BY <3>2, EndWithFacts DEF Final, Error
      <4> QED BY <2>2, <3>2, <4>1 DEF Load, TypeOK
    <3> QED BY <2>2, <3>1, <3>2 DEF Load
  <2>3. CASE Mark(j)
    <3>1. row' \in [Job -> [status : Status, stage : Stage \union {None}, error : Error \union {None}]]
      BY <2>3, UpdateRowFacts DEF Mark, Status, Error, TypeOK
    <3> QED BY <2>3, <3>1 DEF Mark, Go, TypeOK
  <2>4. CASE Enter(j)
    <3>1. pc' \in [Job -> {"none"} \union Submitting \union Running]
      BY <2>4 DEF Enter, Go, TypeOK
    <3> QED BY <1>j, <2>4, <3>1 DEF Enter, TypeOK
  <2> QED BY <1>2, <2>1, <2>2, <2>3, <2>4
<1>3. ASSUME NEW j \in Job, StageEnds(j) \/ StageRefused(j) PROVE TypeOK'
  <2>1. PICK o \in {"passed", "failed"} : Reported(j, o)
    BY <1>3 DEF StageEnds, StageRefused
  <2>2. current[j] \in Stage
    BY <1>3 DEF StageEnds, StageRefused, LoopInv
  <2>3. UNCHANGED <<row, mode, cancelled, recording, crashes>> /\ holder' \in Job \union {None}
    BY <1>3 DEF StageEnds, StageRefused, Release, TypeOK
  <2>4. pc' \in [Job -> {"none"} \union Submitting \union Running]
    <3>1. pc' = [pc EXCEPT ![j] = "marking"] \/ pc' = [pc EXCEPT ![j] = "ending"]
      BY <2>1, <2>2, ReportedFacts
    <3> QED BY <3>1 DEF TypeOK
  <2> QED BY <1>j, <2>1, <2>2, <2>3, <2>4, ReportedFacts DEF TypeOK
<1>4. ASSUME NEW j \in Job, Dispatch(j) \/ Behind(j) PROVE TypeOK'
  BY <1>j, <1>4 DEF Dispatch, Behind, Go, TypeOK
<1>5. ASSUME NEW j \in Job, NativeReturns(j) PROVE TypeOK'
  <2>0. current[j] \in Stage
    BY <1>5 DEF NativeReturns, LoopInv
  <2>1. UNCHANGED <<row, mode, recording, crashes>> /\ holder' \in Job \union {None}
    BY <1>5 DEF NativeReturns, Release, TypeOK
  <2>2. CASE Go(j, "working") /\ UNCHANGED <<report, files, current, verdict, cancelled, faults>>
    BY <1>j, <2>1, <2>2 DEF Go, TypeOK
  <2>3. CASE Reported(j, "failed") /\ UNCHANGED cancelled
    <3>1. pc' \in [Job -> {"none"} \union Submitting \union Running]
      <4>1. pc' = [pc EXCEPT ![j] = "marking"] \/ pc' = [pc EXCEPT ![j] = "ending"]
        BY <2>0, <2>3, ReportedFacts
      <4> QED BY <4>1 DEF TypeOK
    <3> QED BY <1>j, <2>0, <2>1, <2>3, <3>1, ReportedFacts DEF TypeOK
  <2>4. CASE RecordCancelled(j) /\ UNCHANGED current
    <3>1. pc' \in [Job -> {"none"} \union Submitting \union Running]
      <4>1. pc' = [pc EXCEPT ![j] = "ending"]
        BY <2>0, <2>4, CancelledFacts
      <4> QED BY <4>1 DEF TypeOK
    <3> QED BY <1>j, <2>0, <2>1, <2>4, <3>1, CancelledFacts DEF TypeOK
  <2> QED BY <1>5, <2>2, <2>3, <2>4 DEF NativeReturns
<1>6. ASSUME NEW j \in Job, NativeDoubt(j) \/ SuiteInDoubt(j) PROVE TypeOK'
  <2>1. /\ UNCHANGED <<row, mode, current, recording, crashes>>
        /\ holder' \in Job \union {None} /\ cancelled' \subseteq Job
    BY <1>6 DEF NativeDoubt, SuiteInDoubt, Release, TypeOK
  <2>2. report' \in [Job -> Seq(Entry)] /\ files' \subseteq Job /\ faults' \in Nat
    BY <1>6 DEF NativeDoubt, SuiteInDoubt, LeaveUnconfirmed, WriteReport, NoWrite, NoFault, Fault, TypeOK
  <2>3. /\ verdict' \in [Job -> [status : Final \union {"running"}, error : Error \union {None}]]
        /\ pc' = [pc EXCEPT ![j] = "ending"]
    <3>1. CASE EndWith(j, "running", "unconfirmed")
      BY <3>1, EndWithFacts DEF Error
    <3>2. CASE EndWith(j, "failed", "exception")
      BY <3>2, EndWithFacts DEF Final, Error
    <3> QED BY <1>6, <3>1, <3>2 DEF NativeDoubt, SuiteInDoubt, LeaveUnconfirmed
  <2> QED BY <1>j, <2>1, <2>2, <2>3 DEF TypeOK
<1>7. ASSUME NEW j \in Job, CancelEarly(j) \/ CancelInLoop(j) \/ CancelAtEnd(j) PROVE TypeOK'
  <2>1. CASE CancelEarly(j)
    BY <2>1 DEF CancelEarly, Go, TypeOK
  <2>2. CASE CancelInLoop(j)
    <3>1. current[j] \in Stage
      BY <2>2 DEF CancelInLoop, LoopInv
    <3>2. row' \in [Job -> [status : Status, stage : Stage \union {None}, error : Error \union {None}]]
      BY <2>2, <3>1, UpdateRowFacts DEF CancelInLoop, Status, Error, TypeOK
    <3>3. UNCHANGED <<mode, current, recording, crashes>> /\ holder' \in Job \union {None}
      BY <2>2 DEF CancelInLoop, Release, TypeOK
    <3>4. pc' \in [Job -> {"none"} \union Submitting \union Running]
      <4>1. pc' = [pc EXCEPT ![j] = "ending"]
        BY <2>2, <3>1, CancelledFacts DEF CancelInLoop
      <4> QED BY <4>1 DEF TypeOK
    <3> QED BY <1>j, <2>2, <3>1, <3>2, <3>3, <3>4, CancelledFacts DEF CancelInLoop, TypeOK
  <2>3. CASE CancelAtEnd(j)
    <3>1. row' \in [Job -> [status : Status, stage : Stage \union {None}, error : Error \union {None}]]
      <4>1. verdict[j].status \in Status /\ verdict[j].error \in Error \union {None}
            /\ current[j] \in Stage \union {None}
        BY DEF TypeOK, Status, Final
      <4> QED BY <2>3, <4>1, UpdateRowFacts DEF CancelAtEnd, TypeOK
    <3> QED BY <2>3, <3>1 DEF CancelAtEnd, Go, TypeOK
  <2> QED BY <1>7, <2>1, <2>2, <2>3
<1>8. ASSUME NEW j \in Job, EndRun(j) \/ StoreFails(j) PROVE TypeOK'
  <2>1. CASE EndRun(j)
    <3>1. row' \in [Job -> [status : Status, stage : Stage \union {None}, error : Error \union {None}]]
      <4>1. verdict[j].status \in Status /\ verdict[j].error \in Error \union {None}
            /\ current[j] \in Stage \union {None}
        BY DEF TypeOK, Status, Final
      <4> QED BY <2>1, <4>1, UpdateRowFacts DEF EndRun
    <3> QED BY <2>1, <3>1 DEF EndRun, Go, TypeOK
  <2>2. CASE StoreFails(j)
    <3>1. verdict' \in [Job -> [status : Final \union {"running"}, error : Error \union {None}]]
          /\ pc' \in [Job -> {"none"} \union Submitting \union Running]
      <4>1. CASE EndWith(j, "failed", "exception")
        <5>1. pc' = [pc EXCEPT ![j] = "ending"]
          BY <4>1 DEF EndWith, Go
        <5> QED BY <4>1, <5>1, EndWithFacts DEF Final, Error, TypeOK
      <4>2. CASE Go(j, "none") /\ UNCHANGED verdict
        BY <4>2 DEF Go, TypeOK
      <4> QED BY <2>2, <4>1, <4>2 DEF StoreFails
    <3> QED BY <2>2, <3>1 DEF StoreFails, Fault, TypeOK
  <2> QED BY <1>8, <2>1, <2>2
<1>9. ASSUME NEW j \in Job, RecoveryStep(j) PROVE TypeOK'
  <2>1. CASE RecoverRow(j)
    <3>1. row' \in [Job -> [status : Status, stage : Stage \union {None}, error : Error \union {None}]]
      BY <2>1, UpdateRowFacts DEF RecoverRow, Status, Error
    <3> QED BY <2>1, <3>1 DEF RecoverRow, TypeOK
  <2>2. CASE RecordInterruption(j)
    <3>1. report' \in [Job -> Seq(Entry)] /\ files' \subseteq Job
      <4>1. CASE NoWrite
        BY <4>1 DEF NoWrite, TypeOK
      <4>2. CASE row[j].stage # None
                 /\ WriteReport(j, Append(report[j], [name |-> row[j].stage, outcome |-> "failed"]))
        <5>1. row[j].stage \in Stage
          BY <4>2 DEF TypeOK
        <5>2. Append(report[j], [name |-> row[j].stage, outcome |-> "failed"]) \in Seq(Entry)
          BY <5>1, ListedType
        <5> QED BY <4>2, <5>2 DEF WriteReport, TypeOK
      <4> QED BY <2>2, <4>1, <4>2 DEF RecordInterruption
    <3> QED BY <2>2, <3>1 DEF RecordInterruption, TypeOK
  <2> QED BY <1>9, <2>1, <2>2 DEF RecoveryStep
<1>10. ASSUME NEW j \in Job, Reconcile(j) PROVE TypeOK'
  <2>1. /\ row' \in [Job -> [status : Status, stage : Stage \union {None}, error : Error \union {None}]]
        /\ recording' \subseteq Job
    <3>1. row[j].stage \in Stage \union {None}
      BY DEF TypeOK
    <3> QED BY <1>10, <3>1, UpdateRowFacts DEF Reconcile, Status, Error, TypeOK
  <2>2. UNCHANGED <<report, files, mode, local, holder, crashes>> /\ faults' \in Nat
    BY <1>10 DEF Reconcile, Unpublished, Fault, NoFault, TypeOK
  <2> QED BY <1>j, <2>1, <2>2 DEF TypeOK
<1>11. ASSUME CancelAll \/ OtherSeals \/ Exit \/ Crash PROVE TypeOK'
  <2>1. CASE CancelAll
    BY <2>1 DEF CancelAll, Tasks, TypeOK
  <2>2. CASE OtherSeals
    BY <1>j, <2>2 DEF OtherSeals, TypeOK
  <2>3. CASE Forget /\ crashes' \in Nat
    BY <1>j, <2>3 DEF Forget, Unstarted, Verdict, Final, Error, TypeOK
  <2>4. CASE Exit \/ Crash
    <3>1. Forget /\ crashes' \in Nat
      BY <2>4 DEF Exit, Crash, TypeOK
    <3> QED BY <2>3, <3>1
  <2> QED BY <1>11, <2>1, <2>2, <2>4
<1>12. ASSUME Restart \/ Serve \/ ServeUnrecovered PROVE TypeOK'
  <2>1. CASE Restart
    <3>1. UNCHANGED <<row, report, files, local, holder, recording, crashes>>
          /\ mode' = "recovering" /\ faults' \in Nat
      BY <2>1 DEF Restart, Unpublished, Fault, NoFault, TypeOK
    <3> QED BY <1>j, <3>1 DEF TypeOK
  <2>2. CASE Serve
    BY <2>2 DEF Serve, TypeOK
  <2>3. CASE ServeUnrecovered
    BY <2>3 DEF ServeUnrecovered, Fault, TypeOK
  <2> QED BY <1>12, <2>1, <2>2, <2>3
<1>13. ASSUME UNCHANGED vars PROVE TypeOK'
  BY <1>13 DEF vars, TypeOK
<1> HIDE DEF TypeOK
<1> QED BY <1>1, <1>2, <1>3, <1>4, <1>5, <1>6, <1>7, <1>8, <1>9, <1>10, <1>11, <1>12, <1>13, NextCases, Zenon

-----------------------------------------------------------------------------
\* The loop is entered with the first stage and left through the finally clause.
LEMMA LoopStep == TypeOK /\ LoopInv /\ [Next]_vars => LoopInv'
<1> SUFFICES ASSUME TypeOK, LoopInv, [Next]_vars PROVE LoopInv'
  OBVIOUS
<1> USE DEF durable, local, engine, InLease
<1>0. /\ pc \in [Job -> {"none"} \union Submitting \union Running]
      /\ current \in [Job -> Stage \union {None}]
  BY DEF TypeOK
<1>s. ASSUME UNCHANGED <<pc, current>> PROVE LoopInv'
  BY <1>s DEF LoopInv
<1>e. ASSUME NEW j \in Job, UNCHANGED current,
             NEW place \in {"none", "creating", "refusing", "ready", "ending"}, Go(j, place)
      PROVE  LoopInv'
  BY <1>0, <1>e DEF LoopInv, Go
<1>1. ASSUME NEW j \in Job, SubmitStep(j) PROVE LoopInv'
  BY <1>1, <1>e DEF SubmitStep, Submit, Schedule, ScheduleFails, Refuse, Abandon
<1>2. ASSUME NEW j \in Job, Begin(j) \/ Load(j) \/ Mark(j) \/ Enter(j) PROVE LoopInv'
  <2>1. CASE Begin(j)
    BY <1>0, <2>1 DEF Begin, Go, LoopInv
  <2>2. CASE Load(j)
    <3>1. CASE current' = [current EXCEPT ![j] = Stages[1]] /\ Go(j, "marking")
      BY <1>0, <3>1, StageFacts DEF Go, LoopInv
    <3>2. CASE EndWith(j, "failed", "exception") /\ UNCHANGED current
      BY <3>2, <1>e DEF EndWith
    <3> QED BY <2>2, <3>1, <3>2 DEF Load
  <2>3. CASE Mark(j) \/ Enter(j)
    BY <1>0, <2>3 DEF Mark, Enter, Go, LoopInv
  <2> QED BY <1>2, <2>1, <2>2, <2>3
<1>3. ASSUME NEW j \in Job, StageEnds(j) \/ StageRefused(j) PROVE LoopInv'
  <2>1. PICK o \in {"passed", "failed"} : Reported(j, o)
    BY <1>3 DEF StageEnds, StageRefused
  <2>2. current[j] \in Stage
    BY <1>3 DEF StageEnds, StageRefused, LoopInv
  <2>3. /\ pc' = [pc EXCEPT ![j] = "marking"] \/ pc' = [pc EXCEPT ![j] = "ending"]
        /\ current'[j] \in Stage
        /\ \A k \in Job \ {j} : current'[k] = current[k]
    BY <2>1, <2>2, ReportedFacts
  <2> QED BY <1>0, <2>3 DEF LoopInv
<1>4. ASSUME NEW j \in Job, Dispatch(j) \/ Behind(j) PROVE LoopInv'
  BY <1>0, <1>4, <1>s DEF Dispatch, Behind, Go, LoopInv
<1>5. ASSUME NEW j \in Job, NativeReturns(j) PROVE LoopInv'
  <2>1. current[j] \in Stage /\ pc[j] = "dispatched"
    BY <1>5 DEF NativeReturns, LoopInv
  <2>2. CASE Go(j, "working") /\ UNCHANGED current
    BY <1>0, <2>1, <2>2 DEF Go, LoopInv
  <2>3. CASE Reported(j, "failed")
    <3>1. /\ pc' = [pc EXCEPT ![j] = "marking"] \/ pc' = [pc EXCEPT ![j] = "ending"]
          /\ current'[j] \in Stage
          /\ \A k \in Job \ {j} : current'[k] = current[k]
      BY <2>1, <2>3, ReportedFacts
    <3> QED BY <1>0, <3>1 DEF LoopInv
  <2>4. CASE RecordCancelled(j) /\ UNCHANGED current
    BY <2>4, <1>e DEF RecordCancelled, EndWith
  <2> QED BY <1>5, <2>2, <2>3, <2>4 DEF NativeReturns
<1>6. ASSUME NEW j \in Job, NativeDoubt(j) \/ SuiteInDoubt(j) PROVE LoopInv'
  BY <1>6, <1>e DEF NativeDoubt, SuiteInDoubt, LeaveUnconfirmed, EndWith
<1>7. ASSUME NEW j \in Job, CancelEarly(j) \/ CancelInLoop(j) \/ CancelAtEnd(j) PROVE LoopInv'
  BY <1>7, <1>e DEF CancelEarly, CancelInLoop, CancelAtEnd, RecordCancelled, EndWith
<1>8. ASSUME NEW j \in Job, EndRun(j) \/ StoreFails(j) PROVE LoopInv'
  BY <1>8, <1>e DEF EndRun, StoreFails, EndWith
<1>9. ASSUME NEW j \in Job, RecoveryStep(j) PROVE LoopInv'
  BY <1>9, <1>s DEF RecoveryStep, RecoverRow, RecordInterruption
<1>10. ASSUME NEW j \in Job, Reconcile(j) PROVE LoopInv'
  BY <1>10, <1>s DEF Reconcile
<1>11. ASSUME CancelAll \/ OtherSeals \/ Exit \/ Crash PROVE LoopInv'
  <2>1. CASE CancelAll \/ OtherSeals
    BY <2>1, <1>s DEF CancelAll, OtherSeals
  <2>2. CASE Forget
    BY <2>2 DEF Forget, LoopInv
  <2> QED BY <1>11, <2>1, <2>2 DEF Exit, Crash
<1>12. ASSUME Restart \/ Serve \/ ServeUnrecovered PROVE LoopInv'
  BY <1>12, <1>s DEF Restart, Serve, ServeUnrecovered
<1>13. ASSUME UNCHANGED vars PROVE LoopInv'
  BY <1>13, <1>s DEF vars
<1> HIDE DEF LoopInv
<1> QED BY <1>1, <1>2, <1>3, <1>4, <1>5, <1>6, <1>7, <1>8, <1>9, <1>10, <1>11, <1>12, <1>13, NextCases, Zenon

\* What the other invariants need to know of a step out of a stage, and of the
\* one row a step writes.
LEMMA Ending ==
    ASSUME TypeOK, LoopInv, NEW j \in Job,
           \/ StageEnds(j) \/ StageRefused(j) \/ SuiteInDoubt(j)
           \/ NativeReturns(j) \/ NativeDoubt(j) \/ CancelInLoop(j)
    PROVE  /\ \A k \in Job \ {j} : /\ pc'[k] = pc[k] /\ verdict'[k] = verdict[k]
                                   /\ report'[k] = report[k] /\ row'[k] = row[k]
                                   /\ journal'[k] = journal[k]
           /\ pc[j] \in {"marking", "queued", "preparing", "working", "dispatched"}
           /\ pc'[j] \in {"marking", "ending", "working"}
           /\ pc'[j] = "ending" /\ verdict'[j].status = "done" => Passed(report'[j])
           /\ verdict'[j] = verdict[j] \/ verdict'[j].error # "unconfirmed" \/ verdict'[j].status = "running"
           /\ report'[j] = report[j] \/ \E e \in Entry : report'[j] = Append(report[j], e)
           /\ row'[j].status \in {row[j].status, "running"}
           /\ row'[j].error \in {row[j].error, None}
           /\ journal'[j] = "pending"
                 => /\ journal[j] = "pending"
                    /\ pc[j] = "dispatched" => pc'[j] = "ending" /\ verdict'[j].status = "running"
           /\ UNCHANGED <<mode, recording>>
<1> USE DEF durable, local, engine, InLease
<1>0. current[j] \in Stage /\ pc[j] \in {"marking", "queued", "preparing", "working", "dispatched"}
  BY DEF LoopInv, StageEnds, StageRefused, SuiteInDoubt, NativeReturns, NativeDoubt, CancelInLoop
<1>1. pc \in [Job -> {"none"} \union Submitting \union Running]
  BY DEF TypeOK
<1>2. /\ \A k \in Job \ {j} : row'[k] = row[k]
      /\ row'[j].status \in {row[j].status, "running"}
      /\ row'[j].error \in {row[j].error, None}
  <2>1. CASE UNCHANGED row
    BY <2>1
  <2>2. CASE CancelInLoop(j) /\ UpdateRow(j, "running", current[j], None)
    BY <1>0, <2>2, UpdateRowFacts DEF CancelInLoop, Status, Error
  <2> QED BY <2>1, <2>2 DEF StageEnds, StageRefused, SuiteInDoubt, NativeReturns, NativeDoubt, CancelInLoop
<1>3. (\A k \in Job \ {j} : journal'[k] = journal[k]) /\ (journal'[j] = "pending" => journal[j] = "pending")
  <2>1. CASE UNCHANGED journal
    BY <2>1
  <2>2. CASE \/ Journal!Refuse(j) \/ Journal!OtherSeals \/ Journal!Return(j)
             \/ Journal!Doubt(j) \/ Journal!Unsent(j)
    BY <2>2, ExecutionFacts
  <2> QED BY <2>1, <2>2 DEF StageEnds, StageRefused, SuiteInDoubt, NativeReturns, NativeDoubt, CancelInLoop, runner
<1>4. ASSUME ~NativeDoubt(j) PROVE journal'[j] = "pending" => pc[j] # "dispatched"
  <2>1. CASE NativeReturns(j)
    <3>1. Journal!Return(j)
      BY <2>1 DEF NativeReturns
    <3> QED BY <3>1, ExecutionFacts
  <2>2. CASE ~NativeReturns(j)
    BY <1>4, <2>2 DEF StageEnds, StageRefused, SuiteInDoubt, CancelInLoop
  <2> QED BY <2>1, <2>2
<1>5. UNCHANGED <<mode, recording>>
  BY DEF StageEnds, StageRefused, SuiteInDoubt, NativeReturns, NativeDoubt, CancelInLoop
<1> DEFINE Rest == /\ \A k \in Job \ {j} : pc'[k] = pc[k] /\ verdict'[k] = verdict[k]
                                            /\ report'[k] = report[k]
                   /\ pc'[j] \in {"marking", "ending", "working"}
                   /\ pc'[j] = "ending" /\ verdict'[j].status = "done" => Passed(report'[j])
                   /\ verdict'[j] = verdict[j] \/ verdict'[j].error # "unconfirmed" \/ verdict'[j].status = "running"
                   /\ report'[j] = report[j] \/ \E e \in Entry : report'[j] = Append(report[j], e)
<1>6. ASSUME NEW o \in {"passed", "failed"}, Reported(j, o) PROVE Rest
  <2>1. pc' = [pc EXCEPT ![j] = "marking"] \/ pc' = [pc EXCEPT ![j] = "ending"]
    BY <1>0, <1>6, ReportedFacts
  <2>2. /\ \A k \in Job \ {j} : verdict'[k] = verdict[k] /\ report'[k] = report[k]
        /\ pc'[j] = "ending" /\ verdict'[j].status = "done" => Passed(report'[j])
        /\ verdict'[j] = verdict[j] \/ verdict'[j].error # "unconfirmed"
        /\ report'[j] = report[j] \/ \E e \in Entry : report'[j] = Append(report[j], e)
    BY <1>0, <1>6, ReportedFacts
  <2>3. pc'[j] \in {"marking", "ending", "working"} /\ \A k \in Job \ {j} : pc'[k] = pc[k]
    BY <1>1, <2>1
  <2> QED BY <2>2, <2>3
<1>7. ASSUME RecordCancelled(j) PROVE Rest
  <2>1. pc' = [pc EXCEPT ![j] = "ending"] /\ verdict'[j].status # "done"
        /\ verdict'[j].error # "unconfirmed"
    BY <1>0, <1>7, CancelledFacts
  <2>2. /\ \A k \in Job \ {j} : verdict'[k] = verdict[k] /\ report'[k] = report[k]
        /\ report'[j] = report[j] \/ \E e \in Entry : report'[j] = Append(report[j], e)
    BY <1>0, <1>7, CancelledFacts
  <2>3. pc'[j] \in {"marking", "ending", "working"} /\ \A k \in Job \ {j} : pc'[k] = pc[k]
    BY <1>1, <2>1
  <2>4. /\ pc'[j] = "ending" /\ verdict'[j].status = "done" => Passed(report'[j])
        /\ verdict'[j] = verdict[j] \/ verdict'[j].error # "unconfirmed"
    BY <2>1
  <2> QED BY <2>2, <2>3, <2>4, Zenon
<1>8. ASSUME Go(j, "working"), UNCHANGED <<report, verdict>> PROVE Rest
  BY <1>1, <1>8 DEF Go
\* In doubt: without a report of the stage.
<1>9. ASSUME NativeDoubt(j) \/ SuiteInDoubt(j)
      PROVE  Rest /\ pc'[j] = "ending" /\ (NativeDoubt(j) => verdict'[j].status = "running")
  <2>1. report' = report
    BY <1>9 DEF NativeDoubt, SuiteInDoubt, LeaveUnconfirmed, WriteReport, NoWrite, TypeOK
  <2>2. CASE EndWith(j, "running", "unconfirmed")
    <3>1. /\ verdict'[j].status = "running" /\ pc' = [pc EXCEPT ![j] = "ending"]
          /\ \A k \in Job \ {j} : verdict'[k] = verdict[k]
      BY <2>2, EndWithFacts DEF Error
    <3> QED BY <1>1, <2>1, <3>1
  <2>3. CASE EndWith(j, "failed", "exception") /\ SuiteInDoubt(j)
    <3>1. /\ verdict'[j].status = "failed" /\ verdict'[j].error = "exception"
          /\ pc' = [pc EXCEPT ![j] = "ending"]
          /\ \A k \in Job \ {j} : verdict'[k] = verdict[k]
      BY <2>3, EndWithFacts DEF Final, Error
    <3>2. ~NativeDoubt(j)
      BY <2>3 DEF NativeDoubt, SuiteInDoubt
    <3> QED BY <1>1, <2>1, <3>1, <3>2
  <2> QED BY <1>9, <2>2, <2>3 DEF NativeDoubt, SuiteInDoubt, LeaveUnconfirmed
<1> HIDE DEF Rest
<1>10. Rest
  <2>1. CASE StageEnds(j) \/ StageRefused(j)
    BY <1>6, <2>1 DEF StageEnds, StageRefused
  <2>2. CASE NativeReturns(j) \/ CancelInLoop(j)
    BY <1>6, <1>7, <1>8, <2>2 DEF NativeReturns, CancelInLoop
  <2> QED BY <1>9, <2>1, <2>2
<1>11. journal'[j] = "pending" /\ pc[j] = "dispatched" => pc'[j] = "ending" /\ verdict'[j].status = "running"
  BY <1>4, <1>9
<1> QED BY <1>0, <1>2, <1>3, <1>5, <1>10, <1>11 DEF Rest

\* The remaining steps of a run: what they do to its row and its verdict.
LEMMA RowWrites ==
    ASSUME TypeOK, NEW j \in Job, EndRun(j) \/ CancelAtEnd(j) \/ StoreFails(j)
    PROVE  /\ \A k \in Job \ {j} : pc'[k] = pc[k] /\ verdict'[k] = verdict[k] /\ row'[k] = row[k]
           /\ pc[j] \in {"marking", "ending"} /\ pc'[j] \in {"none", "ending"}
           /\ pc'[j] = "ending" => verdict'[j].status = "failed" /\ pc[j] = "marking"
           /\ verdict'[j] = verdict[j] \/ verdict'[j].error # "unconfirmed"
           /\ \/ row'[j] = row[j]
              \/ pc[j] = "ending" /\ row'[j].status = verdict[j].status
                 /\ row'[j].error = verdict[j].error
           /\ pc[j] = "marking" => row' = row
           /\ UNCHANGED <<report, files, journal, mode, engine, recording, crashes>>
<1> USE DEF durable, engine
<1>1. /\ pc \in [Job -> {"none"} \union Submitting \union Running]
      /\ verdict[j].status \in Status /\ verdict[j].error \in Error \union {None}
      /\ current[j] \in Stage \union {None}
  BY DEF TypeOK, Status, Final
<1>2. CASE EndRun(j) \/ CancelAtEnd(j)
  <2>1. /\ row' = row \/ /\ \A k \in Job \ {j} : row'[k] = row[k]
                         /\ row'[j].status = verdict[j].status
                         /\ row'[j].error = verdict[j].error
    BY <1>1, <1>2, UpdateRowFacts DEF EndRun, CancelAtEnd
  <2>2. /\ pc[j] = "ending" /\ pc' = [pc EXCEPT ![j] = "none"]
        /\ UNCHANGED <<verdict, report, files, journal, mode, engine, recording, crashes>>
    BY <1>2 DEF EndRun, CancelAtEnd, Go
  <2> QED BY <1>1, <2>1, <2>2
<1>3. CASE StoreFails(j)
  <2>1. UNCHANGED <<durable, mode, current, cancelled, engine, recording, crashes>>
        /\ pc[j] \in {"marking", "ending"}
    BY <1>3 DEF StoreFails
  <2>2. CASE pc[j] = "marking" /\ EndWith(j, "failed", "exception")
    <3>1. /\ verdict'[j].status = "failed" /\ verdict'[j].error = "exception"
          /\ \A k \in Job \ {j} : verdict'[k] = verdict[k]
          /\ pc' = [pc EXCEPT ![j] = "ending"]
      BY <2>2, EndWithFacts DEF Final, Error
    <3> QED BY <1>1, <2>1, <2>2, <3>1
  <2>3. CASE pc[j] # "marking" /\ Go(j, "none") /\ UNCHANGED verdict
    BY <1>1, <2>1, <2>3 DEF Go
  <2> QED BY <1>3, <2>2, <2>3 DEF StoreFails
<1> QED BY <1>2, <1>3

\* The steps of a coroutine that leave its row, its report and its journal alone.
LEMMA QuietSteps ==
    ASSUME TypeOK, NEW j \in Job,
           \/ Schedule(j) \/ ScheduleFails(j) \/ Abandon(j)
           \/ Begin(j) \/ Load(j) \/ Enter(j) \/ CancelEarly(j)
    PROVE  /\ \A k \in Job \ {j} : pc'[k] = pc[k] /\ verdict'[k] = verdict[k]
           /\ pc[j] \in {"creating", "refusing", "ready", "loading", "queued"}
           /\ pc'[j] \notin {"creating", "dispatched"}
           /\ pc'[j] = "refusing" => pc[j] = "creating"
           /\ pc'[j] = "ending" => verdict'[j].status = "failed"
           /\ verdict'[j] = verdict[j] \/ verdict'[j].error # "unconfirmed"
           /\ UNCHANGED <<row, report, files, journal, mode, recording, crashes>>
<1> USE DEF durable, engine
<1>1. pc \in [Job -> {"none"} \union Submitting \union Running]
      /\ verdict \in [Job -> [status : Final \union {"running"}, error : Error \union {None}]]
  BY DEF TypeOK
<1>2. CASE Schedule(j) \/ ScheduleFails(j)
  BY <1>1, <1>2 DEF Schedule, ScheduleFails, Go
<1>3. CASE Abandon(j)
  BY <1>1, <1>3 DEF Abandon, Go, Submitting
<1>4. CASE Begin(j)
  BY <1>1, <1>4 DEF Begin, Go, Unstarted, Verdict
<1>5. CASE Load(j)
  <2>1. pc[j] = "loading" /\ UNCHANGED <<durable, mode, cancelled, engine, recording, faults, crashes>>
    BY <1>5 DEF Load
  <2>2. CASE Go(j, "marking") /\ UNCHANGED verdict
    BY <1>1, <2>1, <2>2 DEF Go
  <2>3. CASE EndWith(j, "failed", "exception")
    <3>1. /\ verdict'[j].status = "failed" /\ verdict'[j].error = "exception"
          /\ \A k \in Job \ {j} : verdict'[k] = verdict[k]
          /\ pc' = [pc EXCEPT ![j] = "ending"]
      BY <2>3, EndWithFacts DEF Final, Error
    <3> QED BY <1>1, <2>1, <3>1
  <2> QED BY <1>5, <2>2, <2>3 DEF Load
<1>6. CASE CancelEarly(j)
  BY <1>1, <1>6 DEF CancelEarly, Go
<1>7. CASE Enter(j)
  <2>1. UNCHANGED journal
    BY <1>7, ExecutionFacts DEF Enter, runner
  <2>2. pc'[j] \in {"preparing", "working"} /\ \A k \in Job \ {j} : pc'[k] = pc[k]
    BY <1>1, <1>7 DEF Enter, Go
  <2> QED BY <1>7, <2>1, <2>2 DEF Enter
<1> QED BY <1>2, <1>3, <1>4, <1>5, <1>6, <1>7

\* The steps that write a row without ending the run.
LEMMA Marks ==
    ASSUME TypeOK, LoopInv, NEW j \in Job, Submit(j) \/ Refuse(j) \/ Mark(j) \/ RecoverRow(j)
    PROVE  /\ \A k \in Job \ {j} : row'[k] = row[k] /\ pc'[k] = pc[k]
           /\ Submit(j) => row'[j].status = "queued" /\ pc'[j] = "creating" /\ row'[j].error = None
           /\ Refuse(j) => row'[j].status = "failed" /\ pc'[j] = "none" /\ row'[j].error = "exception"
           /\ Mark(j) => row'[j].status = "running" /\ pc'[j] \in {"queued", "working"} /\ row'[j].error = None
           /\ RecoverRow(j) => row'[j].status = "failed" /\ pc'[j] = pc[j] /\ row'[j].error = "interrupted"
           /\ UNCHANGED <<report, files, journal, verdict, mode>>
<1> USE DEF durable, engine, local
<1>1. pc \in [Job -> {"none"} \union Submitting \union Running] /\ row \in [Job -> [status : Status, stage : Stage \union {None}, error : Error \union {None}]]
  BY DEF TypeOK
<1> DEFINE Common == /\ \A k \in Job \ {j} : row'[k] = row[k] /\ pc'[k] = pc[k]
                     /\ UNCHANGED <<report, files, journal, verdict, mode>>
<1>2. ASSUME Submit(j)
      PROVE  Common /\ row'[j].status = "queued" /\ pc'[j] = "creating" /\ row'[j].error = None
  BY <1>1, <1>2 DEF Submit, Row, Go
<1>3. ASSUME Refuse(j)
      PROVE  Common /\ row'[j].status = "failed" /\ pc'[j] = "none" /\ row'[j].error = "exception"
  BY <1>1, <1>3, UpdateRowFacts DEF Refuse, Status, Error, Go
<1>4. ASSUME Mark(j)
      PROVE  Common /\ row'[j].status = "running" /\ pc'[j] \in {"queued", "working"} /\ row'[j].error = None
  <2>1. current[j] \in Stage
    BY <1>4 DEF LoopInv, Mark
  <2> QED BY <1>1, <1>4, <2>1, UpdateRowFacts DEF Mark, Status, Error, Go
<1>5. ASSUME RecoverRow(j)
      PROVE  Common /\ row'[j].status = "failed" /\ pc'[j] = pc[j] /\ row'[j].error = "interrupted"
  BY <1>1, <1>5, UpdateRowFacts DEF RecoverRow, Status, Error
<1> HIDE DEF Common
<1>6. Common
  BY <1>2, <1>3, <1>4, <1>5
<1> QED BY <1>2, <1>3, <1>4, <1>5, <1>6 DEF Common

LEMMA NoneApart == None # "unconfirmed"
BY NoneIsNull DEF Error

-----------------------------------------------------------------------------
\* Coroutines, rows and the mode of the process stay in step.
LEMMA ActiveStep == TypeOK /\ LoopInv /\ ActiveInv /\ [Next]_vars => ActiveInv'
<1> SUFFICES ASSUME TypeOK, LoopInv, ActiveInv, [Next]_vars PROVE ActiveInv'
  OBVIOUS
<1> USE DEF Live, Submitting
<1>q. ASSUME NEW j \in Job,
             \/ Schedule(j) \/ ScheduleFails(j) \/ Abandon(j)
             \/ Begin(j) \/ Load(j) \/ Enter(j) \/ CancelEarly(j)
      PROVE  ActiveInv'
  <2>1. /\ \A k \in Job \ {j} : pc'[k] = pc[k] /\ verdict'[k] = verdict[k]
        /\ pc[j] \in {"creating", "refusing", "ready", "loading", "queued"}
        /\ pc'[j] # "creating" /\ (pc'[j] = "refusing" => pc[j] = "creating")
        /\ verdict'[j] = verdict[j] \/ verdict'[j].error # "unconfirmed"
        /\ UNCHANGED <<row, mode, recording>>
    BY <1>q, QuietSteps
  <2> QED BY <2>1 DEF ActiveInv
<1>m. ASSUME NEW j \in Job, Submit(j) \/ Refuse(j) \/ Mark(j) PROVE ActiveInv'
  <2>1. /\ \A k \in Job \ {j} : row'[k] = row[k] /\ pc'[k] = pc[k]
        /\ UNCHANGED <<mode, recording, verdict>>
        /\ mode \notin {"down", "recovering"} /\ j \notin recording
    <3>1. UNCHANGED recording /\ mode \notin {"down", "recovering"} /\ j \notin recording
      BY <1>m DEF ActiveInv, Submit, Refuse, Mark
    <3> QED BY <1>m, <3>1, Marks
  <2>2. \/ row'[j].status = "queued" /\ row'[j].error = None
        \/ row'[j].status = "failed" /\ pc'[j] = "none" /\ row'[j].error = "exception"
        \/ row'[j].status = "running" /\ pc'[j] \in {"queued", "working"} /\ row'[j].error = None
    BY <1>m, Marks
  <2>3. recording \subseteq Job
    BY DEF TypeOK
  <2> QED BY <2>1, <2>2, <2>3, NoneApart DEF ActiveInv
<1>e. ASSUME NEW j \in Job,
             \/ StageEnds(j) \/ StageRefused(j) \/ SuiteInDoubt(j)
             \/ NativeReturns(j) \/ NativeDoubt(j) \/ CancelInLoop(j)
      PROVE  ActiveInv'
  <2>1. /\ \A k \in Job \ {j} : pc'[k] = pc[k] /\ row'[k] = row[k] /\ verdict'[k] = verdict[k]
        /\ pc[j] \in {"marking", "queued", "preparing", "working", "dispatched"}
        /\ pc'[j] \in {"marking", "ending", "working"}
        /\ row'[j].status \in {row[j].status, "running"}
        /\ row'[j].error \in {row[j].error, None}
        /\ verdict'[j] = verdict[j] \/ verdict'[j].error # "unconfirmed" \/ verdict'[j].status = "running"
        /\ UNCHANGED <<mode, recording>>
    BY <1>e, Ending
  <2>2. recording \subseteq Job
    BY DEF TypeOK
  <2> QED BY <2>1, <2>2, NoneApart DEF ActiveInv
<1>w. ASSUME NEW j \in Job, EndRun(j) \/ CancelAtEnd(j) \/ StoreFails(j) PROVE ActiveInv'
  <2>1. /\ \A k \in Job \ {j} : pc'[k] = pc[k] /\ row'[k] = row[k] /\ verdict'[k] = verdict[k]
        /\ pc[j] \in {"marking", "ending"} /\ pc'[j] \in {"none", "ending"}
        /\ pc'[j] = "ending" => pc[j] = "marking"
        /\ \/ row'[j] = row[j]
           \/ pc[j] = "ending" /\ row'[j].status = verdict[j].status
              /\ row'[j].error = verdict[j].error
        /\ verdict'[j] = verdict[j] \/ verdict'[j].error # "unconfirmed"
        /\ pc[j] = "marking" => row' = row
        /\ UNCHANGED <<mode, recording>>
    BY <1>w, RowWrites
  <2>2. recording \subseteq Job
    BY DEF TypeOK
  <2> QED BY <2>1, <2>2 DEF ActiveInv
<1>1. ASSUME NEW j \in Job, SubmitStep(j) PROVE ActiveInv'
  BY <1>1, <1>q, <1>m DEF SubmitStep
<1>2. ASSUME NEW j \in Job, Begin(j) \/ Load(j) \/ Mark(j) \/ Enter(j) PROVE ActiveInv'
  BY <1>2, <1>q, <1>m
<1>3. ASSUME NEW j \in Job, StageEnds(j) \/ StageRefused(j) PROVE ActiveInv'
  BY <1>3, <1>e
<1>4. ASSUME NEW j \in Job, Dispatch(j) \/ Behind(j) PROVE ActiveInv'
  BY <1>4 DEF Dispatch, Behind, Go, ActiveInv, TypeOK, local
<1>5. ASSUME NEW j \in Job, NativeReturns(j) PROVE ActiveInv'
  BY <1>5, <1>e
<1>6. ASSUME NEW j \in Job, NativeDoubt(j) \/ SuiteInDoubt(j) PROVE ActiveInv'
  BY <1>6, <1>e
<1>7. ASSUME NEW j \in Job, CancelEarly(j) \/ CancelInLoop(j) \/ CancelAtEnd(j) PROVE ActiveInv'
  BY <1>7, <1>q, <1>e, <1>w
<1>8. ASSUME NEW j \in Job, EndRun(j) \/ StoreFails(j) PROVE ActiveInv'
  BY <1>8, <1>w
<1>9. ASSUME NEW j \in Job, RecoveryStep(j) PROVE ActiveInv'
  <2>1. CASE RecoverRow(j)
    <3>1. /\ \A k \in Job \ {j} : row'[k] = row[k]
          /\ row'[j].status = "failed" /\ row'[j].error = "interrupted"
      BY <2>1, Marks
    <3>2. /\ \A k \in Job : pc[k] = "none"
          /\ UNCHANGED <<pc, verdict, mode>> /\ mode = "recovering" /\ recording' = {j}
      BY <2>1 DEF RecoverRow, ActiveInv, local
    <3> QED BY <3>1, <3>2 DEF ActiveInv
  <2>2. CASE RecordInterruption(j)
    BY <2>2 DEF RecordInterruption, ActiveInv, local
  <2> QED BY <1>9, <2>1, <2>2 DEF RecoveryStep
<1>10. ASSUME NEW j \in Job, Reconcile(j) PROVE ActiveInv'
  <2>1. UNCHANGED <<pc, verdict, mode>> /\ mode = "serving" /\ row[j].error = "unconfirmed"
    BY <1>10 DEF Reconcile, local
  <2>2. pc[j] = "none"
    <3>1. pc[j] \notin Running
      BY <1>10 DEF Reconcile, Tasks
    <3>2. pc[j] \notin Submitting
      BY <2>1, NoneApart DEF ActiveInv
    <3> QED BY <3>1, <3>2 DEF TypeOK
  <2>3. CASE UNCHANGED <<row, recording>>
    BY <2>1, <2>3 DEF ActiveInv
  <2>4. CASE UpdateRow(j, "failed", row[j].stage, "verified") /\ recording' = recording \union {j}
    <3>1. row[j].stage \in Stage \union {None}
      BY DEF TypeOK
    <3>2. /\ row'[j].status = "failed" /\ row'[j].error = "verified"
          /\ \A k \in Job \ {j} : row'[k] = row[k]
      BY <2>4, <3>1, UpdateRowFacts DEF Status, Error
    <3>3. recording \subseteq Job
      BY DEF TypeOK
    <3> QED BY <2>1, <2>2, <2>4, <3>2, <3>3 DEF ActiveInv
  <2> QED BY <1>10, <2>3, <2>4 DEF Reconcile
<1>11. ASSUME CancelAll \/ OtherSeals \/ Exit \/ Crash PROVE ActiveInv'
  <2>1. CASE CancelAll \/ OtherSeals
    BY <2>1 DEF CancelAll, OtherSeals, ActiveInv, durable, local
  <2>2. CASE Forget
    BY <2>2 DEF Forget, ActiveInv, durable, Unstarted, Verdict
  <2> QED BY <1>11, <2>1, <2>2 DEF Exit, Crash
<1>12. ASSUME Restart \/ Serve \/ ServeUnrecovered PROVE ActiveInv'
  BY <1>12 DEF Restart, Serve, ServeUnrecovered, ActiveInv, local, durable
<1>13. ASSUME UNCHANGED vars PROVE ActiveInv'
  BY <1>13 DEF vars, ActiveInv, local, durable
<1> HIDE DEF ActiveInv
<1> QED BY <1>1, <1>2, <1>3, <1>4, <1>5, <1>6, <1>7, <1>8, <1>9, <1>10, <1>11, <1>12, <1>13, NextCases, Zenon

-----------------------------------------------------------------------------
\* An execution in doubt stays live in the store: nothing but its run and the
\* reconciliation writes its row, and they only when it is in doubt no more.
LEMMA DoubtStep ==
    TypeOK /\ LoopInv /\ ActiveInv /\ JournalInv /\ DoubtInv /\ [Next]_vars => DoubtInv'
<1> SUFFICES ASSUME TypeOK, LoopInv, ActiveInv, JournalInv, DoubtInv, [Next]_vars PROVE DoubtInv'
  OBVIOUS
<1>j. JournalInv'
  BY JournalStep, ContractStep, Zenon
<1>q. ASSUME NEW j \in Job,
             \/ Schedule(j) \/ ScheduleFails(j) \/ Abandon(j)
             \/ Begin(j) \/ Load(j) \/ Enter(j) \/ CancelEarly(j)
      PROVE  DoubtInv'
  BY <1>q, QuietSteps DEF DoubtInv
<1>m. ASSUME NEW j \in Job, Submit(j) \/ Refuse(j) \/ Mark(j) \/ RecoverRow(j) PROVE DoubtInv'
  <2>1. journal[j] # "pending"
    BY <1>m DEF JournalInv, DoubtInv, Submit, Refuse, Mark, RecoverRow, Orphans, Live
  <2>2. /\ \A k \in Job \ {j} : row'[k] = row[k] /\ pc'[k] = pc[k]
        /\ UNCHANGED <<journal, verdict>>
    BY <1>m, Marks
  <2> QED BY <2>1, <2>2 DEF DoubtInv
<1>e. ASSUME NEW j \in Job,
             \/ StageEnds(j) \/ StageRefused(j) \/ SuiteInDoubt(j)
             \/ NativeReturns(j) \/ NativeDoubt(j) \/ CancelInLoop(j)
      PROVE  DoubtInv'
  <2>1. /\ \A k \in Job \ {j} : pc'[k] = pc[k] /\ row'[k] = row[k] /\ verdict'[k] = verdict[k]
                                /\ journal'[k] = journal[k]
        /\ pc[j] \in {"marking", "queued", "preparing", "working", "dispatched"}
        /\ row'[j].status \in {row[j].status, "running"}
        /\ journal'[j] = "pending"
              => /\ journal[j] = "pending"
                 /\ pc[j] = "dispatched" => pc'[j] = "ending" /\ verdict'[j].status = "running"
    BY <1>e, Ending
  <2> QED BY <2>1 DEF DoubtInv, Live
<1>w. ASSUME NEW j \in Job, EndRun(j) \/ CancelAtEnd(j) \/ StoreFails(j) PROVE DoubtInv'
  <2>1. /\ \A k \in Job \ {j} : pc'[k] = pc[k] /\ row'[k] = row[k] /\ verdict'[k] = verdict[k]
        /\ pc[j] \in {"marking", "ending"} /\ pc'[j] \in {"none", "ending"}
        /\ pc'[j] = "ending" => pc[j] = "marking"
        /\ row'[j] = row[j] \/ row'[j].status = verdict[j].status
        /\ UNCHANGED journal
    BY <1>w, RowWrites
  <2> QED BY <2>1 DEF DoubtInv, Live
<1>1. ASSUME NEW j \in Job, SubmitStep(j) PROVE DoubtInv'
  BY <1>1, <1>q, <1>m DEF SubmitStep
<1>2. ASSUME NEW j \in Job, Begin(j) \/ Load(j) \/ Mark(j) \/ Enter(j) PROVE DoubtInv'
  BY <1>2, <1>q, <1>m
<1>3. ASSUME NEW j \in Job, StageEnds(j) \/ StageRefused(j) PROVE DoubtInv'
  BY <1>3, <1>e
<1>4. ASSUME NEW j \in Job, Dispatch(j) \/ Behind(j) PROVE DoubtInv'
  <2>1. CASE Dispatch(j)
    <3>1. pc' = [pc EXCEPT ![j] = "dispatched"] /\ pc[j] = "preparing" /\ UNCHANGED <<row, verdict>>
      BY <2>1 DEF Dispatch, Go, local
    <3>2. row[j].status \in Live
      BY <3>1 DEF ActiveInv
    <3>3. pc'[j] = "dispatched" /\ \A k \in Job \ {j} : pc'[k] = pc[k] /\ journal'[k] = journal[k]
      BY <2>1, <3>1, ExecutionFacts DEF Dispatch, TypeOK
    <3> QED BY <3>1, <3>2, <3>3 DEF DoubtInv
  <2>2. CASE Behind(j)
    <3>1. UNCHANGED <<row, pc, verdict>>
      BY <2>2 DEF Behind, local
    <3>2. \A k \in Job : journal'[k] = "pending" => journal[k] = "pending"
      BY <2>2, ExecutionFacts DEF Behind
    <3> QED BY <3>1, <3>2 DEF DoubtInv
  <2> QED BY <1>4, <2>1, <2>2
<1>5. ASSUME NEW j \in Job, NativeReturns(j) PROVE DoubtInv'
  BY <1>5, <1>e
<1>6. ASSUME NEW j \in Job, NativeDoubt(j) \/ SuiteInDoubt(j) PROVE DoubtInv'
  BY <1>6, <1>e
<1>7. ASSUME NEW j \in Job, CancelEarly(j) \/ CancelInLoop(j) \/ CancelAtEnd(j) PROVE DoubtInv'
  BY <1>7, <1>q, <1>e, <1>w
<1>8. ASSUME NEW j \in Job, EndRun(j) \/ StoreFails(j) PROVE DoubtInv'
  BY <1>8, <1>w
<1>9. ASSUME NEW j \in Job, RecoveryStep(j) PROVE DoubtInv'
  <2>1. CASE RecordInterruption(j)
    BY <2>1 DEF RecordInterruption, DoubtInv, local
  <2> QED BY <1>9, <1>m, <2>1 DEF RecoveryStep
\* A scan of the receipts puts no execution in doubt.
<1>f. ASSUME NEW failing \in SUBSET Journal!Terminals, Journal!Scan(failing)
      PROVE  \A k \in Job : journal'[k] = "pending" => journal[k] = "pending"
  BY <1>f DEF Journal!Scan
<1>10. ASSUME NEW j \in Job, Reconcile(j) PROVE DoubtInv'
  <2>1. UNCHANGED <<pc, verdict, mode>> /\ mode = "serving"
    BY <1>10 DEF Reconcile, local
  <2>2. \A k \in Job : journal'[k] = "pending" => journal[k] = "pending" /\ k \in unresolved'
    <3>1. \A k \in Job : journal'[k] = "pending" => journal[k] = "pending"
      BY <1>f, <1>10 DEF Reconcile, Journal!Reconcile
    <3> QED BY <1>j, <2>1, <3>1 DEF JournalInv
  <2>3. \A k \in Job : journal'[k] = "pending" => row'[k] = row[k]
    <3>1. row[j].stage \in Stage \union {None}
      BY DEF TypeOK
    <3>2. CASE UNCHANGED row
      BY <3>2
    <3>3. CASE j \notin unresolved' /\ UpdateRow(j, "failed", row[j].stage, "verified")
      BY <2>2, <3>1, <3>3, UpdateRowFacts DEF Status, Error
    <3> QED BY <1>10, <3>2, <3>3 DEF Reconcile
  <2> QED BY <2>1, <2>2, <2>3 DEF DoubtInv
<1>11. ASSUME CancelAll \/ OtherSeals \/ Exit \/ Crash PROVE DoubtInv'
  <2>1. CASE CancelAll
    BY <2>1 DEF CancelAll, DoubtInv, durable
  <2>2. CASE OtherSeals
    <3>1. UNCHANGED <<row, pc, verdict, journal>>
      BY <2>2 DEF OtherSeals, local, Journal!OtherSeals
    <3> QED BY <3>1 DEF DoubtInv
  <2>3. CASE Forget
    <3>1. \A k \in Job : journal'[k] = "pending" => journal[k] = "pending"
      BY <2>3 DEF Forget, Journal!Stop, Journal!Torn
    <3>2. UNCHANGED row /\ \A k \in Job : pc'[k] = "none"
      BY <2>3 DEF Forget
    <3> QED BY <3>1, <3>2 DEF DoubtInv
  <2> QED BY <1>11, <2>1, <2>2, <2>3 DEF Exit, Crash
<1>12. ASSUME Restart \/ Serve \/ ServeUnrecovered PROVE DoubtInv'
  <2>1. CASE Restart
    <3>1. \A k \in Job : journal'[k] = "pending" => journal[k] = "pending"
      BY <1>f, <2>1 DEF Restart, Journal!Restart
    <3>2. UNCHANGED <<row, pc, verdict>>
      BY <2>1 DEF Restart, local
    <3> QED BY <3>1, <3>2 DEF DoubtInv
  <2>2. CASE Serve \/ ServeUnrecovered
    BY <2>2 DEF Serve, ServeUnrecovered, DoubtInv, local, durable
  <2> QED BY <1>12, <2>1, <2>2
<1>13. ASSUME UNCHANGED vars PROVE DoubtInv'
  BY <1>13 DEF vars, DoubtInv, local, durable
<1> HIDE DEF DoubtInv
<1> QED BY <1>1, <1>2, <1>3, <1>4, <1>5, <1>6, <1>7, <1>8, <1>9, <1>10, <1>11, <1>12, <1>13, NextCases, Zenon

-----------------------------------------------------------------------------
\* DONE is written over a passed report only, and that report then stays.
LEMMA DoneStep == TypeOK /\ LoopInv /\ ActiveInv /\ DoneInv /\ [Next]_vars => DoneInv'
<1> SUFFICES ASSUME TypeOK, LoopInv, ActiveInv, DoneInv, [Next]_vars PROVE DoneInv'
  OBVIOUS
<1>q. ASSUME NEW j \in Job,
             \/ Schedule(j) \/ ScheduleFails(j) \/ Abandon(j)
             \/ Begin(j) \/ Load(j) \/ Enter(j) \/ CancelEarly(j)
      PROVE  DoneInv'
  <2>1. /\ \A k \in Job \ {j} : pc'[k] = pc[k] /\ verdict'[k] = verdict[k]
        /\ pc'[j] = "ending" => verdict'[j].status = "failed"
        /\ UNCHANGED <<row, report>>
    BY <1>q, QuietSteps
  <2> QED BY <2>1 DEF DoneInv, DoneMeansPassed, Passed
<1>m. ASSUME NEW j \in Job, Submit(j) \/ Refuse(j) \/ Mark(j) \/ RecoverRow(j) PROVE DoneInv'
  <2>1. /\ \A k \in Job \ {j} : row'[k] = row[k] /\ pc'[k] = pc[k]
        /\ UNCHANGED <<report, verdict>>
    BY <1>m, Marks
  <2>2. pc'[j] = pc[j] \/ pc'[j] # "ending"
    BY <1>m, Marks
  <2>3. row'[j].status # "done"
    BY <1>m, Marks
  <2> QED BY <2>1, <2>2, <2>3 DEF DoneInv, DoneMeansPassed, Passed
<1>e. ASSUME NEW j \in Job,
             \/ StageEnds(j) \/ StageRefused(j) \/ SuiteInDoubt(j)
             \/ NativeReturns(j) \/ NativeDoubt(j) \/ CancelInLoop(j)
      PROVE  DoneInv'
  <2>1. /\ \A k \in Job \ {j} : pc'[k] = pc[k] /\ row'[k] = row[k] /\ verdict'[k] = verdict[k]
                                /\ report'[k] = report[k]
        /\ pc[j] \in {"marking", "queued", "preparing", "working", "dispatched"}
        /\ row'[j].status \in {row[j].status, "running"}
        /\ pc'[j] = "ending" /\ verdict'[j].status = "done" => Passed(report'[j])
    BY <1>e, Ending
  <2>2. row'[j].status # "done"
    BY <2>1 DEF ActiveInv, Live
  <2> QED BY <2>1, <2>2 DEF DoneInv, DoneMeansPassed, Passed
<1>w. ASSUME NEW j \in Job, EndRun(j) \/ CancelAtEnd(j) \/ StoreFails(j) PROVE DoneInv'
  <2>1. /\ \A k \in Job \ {j} : pc'[k] = pc[k] /\ row'[k] = row[k] /\ verdict'[k] = verdict[k]
        /\ pc'[j] = "ending" => verdict'[j].status = "failed"
        /\ \/ row'[j] = row[j]
           \/ pc[j] = "ending" /\ row'[j].status = verdict[j].status
        /\ UNCHANGED report
    BY <1>w, RowWrites
  <2> QED BY <2>1 DEF DoneInv, DoneMeansPassed, Passed
<1>1. ASSUME NEW j \in Job, SubmitStep(j) PROVE DoneInv'
  BY <1>1, <1>q, <1>m DEF SubmitStep
<1>2. ASSUME NEW j \in Job, Begin(j) \/ Load(j) \/ Mark(j) \/ Enter(j) PROVE DoneInv'
  BY <1>2, <1>q, <1>m
<1>3. ASSUME NEW j \in Job, StageEnds(j) \/ StageRefused(j) PROVE DoneInv'
  BY <1>3, <1>e
<1>4. ASSUME NEW j \in Job, Dispatch(j) \/ Behind(j) PROVE DoneInv'
  <2>1. UNCHANGED <<row, report, verdict>> /\ (pc' = pc \/ pc' = [pc EXCEPT ![j] = "dispatched"])
    BY <1>4 DEF Dispatch, Behind, Go, local
  <2> QED BY <2>1 DEF DoneInv, DoneMeansPassed, Passed, TypeOK
<1>5. ASSUME NEW j \in Job, NativeReturns(j) PROVE DoneInv'
  BY <1>5, <1>e
<1>6. ASSUME NEW j \in Job, NativeDoubt(j) \/ SuiteInDoubt(j) PROVE DoneInv'
  BY <1>6, <1>e
<1>7. ASSUME NEW j \in Job, CancelEarly(j) \/ CancelInLoop(j) \/ CancelAtEnd(j) PROVE DoneInv'
  BY <1>7, <1>q, <1>e, <1>w
<1>8. ASSUME NEW j \in Job, EndRun(j) \/ StoreFails(j) PROVE DoneInv'
  BY <1>8, <1>w
<1>9. ASSUME NEW j \in Job, RecoveryStep(j) PROVE DoneInv'
  <2>1. CASE RecordInterruption(j)
    <3>1. \A k \in Job \ {j} : report'[k] = report[k]
      BY <2>1 DEF RecordInterruption, WriteReport, NoWrite, TypeOK
    <3>2. row[j].status = "failed" /\ pc[j] = "none" /\ UNCHANGED <<row, pc, verdict>>
      <4>1. j \in recording /\ UNCHANGED <<row, pc, verdict>>
        BY <2>1 DEF RecordInterruption, local
      <4> QED BY <4>1 DEF ActiveInv, Live
    <3> QED BY <3>1, <3>2 DEF DoneInv, DoneMeansPassed, Passed
  <2> QED BY <1>9, <1>m, <2>1 DEF RecoveryStep
<1>10. ASSUME NEW j \in Job, Reconcile(j) PROVE DoneInv'
  <2>1. UNCHANGED <<pc, verdict, report>>
    BY <1>10 DEF Reconcile, local
  <2>2. row' = row \/ (row'[j].status = "failed" /\ \A k \in Job \ {j} : row'[k] = row[k])
    <3>1. row[j].stage \in Stage \union {None}
      BY DEF TypeOK
    <3> QED BY <1>10, <3>1, UpdateRowFacts DEF Reconcile, Status, Error
  <2> QED BY <2>1, <2>2 DEF DoneInv, DoneMeansPassed, Passed
<1>11. ASSUME CancelAll \/ OtherSeals \/ Exit \/ Crash PROVE DoneInv'
  BY <1>11 DEF CancelAll, OtherSeals, Exit, Crash, Forget, DoneInv, DoneMeansPassed, Passed, durable, local
<1>12. ASSUME Restart \/ Serve \/ ServeUnrecovered PROVE DoneInv'
  BY <1>12 DEF Restart, Serve, ServeUnrecovered, DoneInv, DoneMeansPassed, Passed, local, durable
<1>13. ASSUME UNCHANGED vars PROVE DoneInv'
  BY <1>13 DEF vars, DoneInv, DoneMeansPassed, Passed, local, durable
<1> HIDE DEF DoneInv
<1> QED BY <1>1, <1>2, <1>3, <1>4, <1>5, <1>6, <1>7, <1>8, <1>9, <1>10, <1>11, <1>12, <1>13, NextCases, Zenon

-----------------------------------------------------------------------------
(* The report and the row *)

LEMMA IndexOfStage ==
    ASSUME NEW i \in 1..5
    PROVE  Index(Stages[i]) = i /\ Stages[i] # None
<1>1. Stages[i] \in Stage
  BY StageFacts
<1>2. Index(Stages[i]) \in 1..5 /\ Stages[Index(Stages[i])] = Stages[i]
  BY <1>1, StageFacts
<1>3. \A m, n \in 1..5 : Stages[m] = Stages[n] => m = n
  BY DEF Stages
<1>4. Stages[i] # None
  BY <1>1, NoneIsNull
<1> QED BY <1>2, <1>3, <1>4

\* A failed entry leaves the passed stages of a list as they are ...
LEMMA FailureKeeps ==
    ASSUME NEW s \in Seq(Entry), NEW p \in 0..5, Lists(s, p),
           NEW e \in Entry, e.outcome = "failed"
    PROVE  Lists(Append(s, e), p)
<1> DEFINE t == Append(s, e)
<1>1. /\ Len(t) = Len(s) + 1 /\ t[Len(s) + 1] = e
      /\ \A i \in 1..Len(s) : t[i] = s[i]
  OBVIOUS
<1>2. Len(s) \in Nat
  OBVIOUS
<1> HIDE DEF t
<1>3. p \in 0..Len(t) /\ p <= Len(Stages)
  BY <1>1, <1>2 DEF Lists
<1>4. \A i \in 1..p : t[i] = [name |-> Stages[i], outcome |-> "passed"]
  BY <1>1, <1>2 DEF Lists
<1>5. \A i \in p + 1..Len(t) : t[i].outcome = "failed"
  BY <1>1, <1>2 DEF Lists
<1> QED BY <1>3, <1>4, <1>5 DEF Lists, t

\* ... and the next stage, passed, is one more of them.
LEMMA PassAdds ==
    ASSUME NEW s \in Seq(Entry), NEW p \in 0..4, Lists(s, p), Len(s) = p
    PROVE  LET t == Append(s, [name |-> Stages[p + 1], outcome |-> "passed"])
           IN  Lists(t, p + 1) /\ Len(t) = p + 1
<1> DEFINE e == [name |-> Stages[p + 1], outcome |-> "passed"]
           t == Append(s, e)
<1>1. /\ Len(t) = p + 1 /\ t[p + 1] = e
      /\ \A i \in 1..p : t[i] = s[i]
  OBVIOUS
<1> HIDE DEF t
<1>2. p + 1 <= Len(Stages)
  BY StageFacts
<1>3. \A i \in 1..p + 1 : t[i] = [name |-> Stages[i], outcome |-> "passed"]
  BY <1>1 DEF Lists, e
<1>4. \A i \in p + 2..Len(t) : t[i].outcome = "failed"
  BY <1>1
<1> QED BY <1>1, <1>2, <1>3, <1>4 DEF Lists, t

LEMMA NothingListed == Lists(<<>>, 0)
BY StageFacts DEF Lists

\* A step of one job leaves the stores and the coroutines of the others alone.
Elsewhere(j) ==
    \A k \in Job \ {j} : /\ row'[k] = row[k] /\ report'[k] = report[k]
                         /\ pc'[k] = pc[k] /\ current'[k] = current[k]

\* So it is enough to follow the job that moved.
LEMMA OneJob ==
    ASSUME EvidenceInv, NEW j \in Job, Elsewhere(j), NEW q \in 0..Len(Stages), Tracks(j, q)'
    PROVE  EvidenceInv'
<1> SUFFICES ASSUME NEW k \in Job PROVE \E p \in 0..Len(Stages) : Tracks(k, p)'
  BY DEF EvidenceInv
<1>1. CASE k = j
  BY <1>1
<1>2. CASE k # j
  <2>1. PICK p \in 0..Len(Stages) : Tracks(k, p)
    BY DEF EvidenceInv
  <2>2. row'[k] = row[k] /\ report'[k] = report[k] /\ pc'[k] = pc[k] /\ current'[k] = current[k]
    BY <1>2 DEF Elsewhere
  <2> QED BY <2>1, <2>2 DEF Tracks
<1> QED BY <1>1, <1>2

\* The ways out of a stage, precisely: on to the next stage, or to the end with
\* the stage listed or, after a disk error, not.
LEMMA WaysOut ==
    ASSUME TypeOK, NEW j \in Job, NEW o \in {"passed", "failed"}, Reported(j, o),
           current[j] \in Stage
    PROVE  LET listed == Append(report[j], [name |-> current[j], outcome |-> o])
           IN  /\ \A k \in Job \ {j} : report'[k] = report[k] /\ pc'[k] = pc[k] /\ current'[k] = current[k]
               /\ \/ /\ pc'[j] = "marking" /\ report'[j] = listed /\ o = "passed"
                     /\ current[j] # Stages[Len(Stages)]
                     /\ current'[j] = Stages[Index(current[j]) + 1]
                  \/ /\ pc'[j] = "ending" /\ report'[j] \in {report[j], listed}
                     /\ current'[j] = current[j] /\ verdict'[j].status # "running"
<1> DEFINE listed == Append(report[j], [name |-> current[j], outcome |-> o])
<1>0. pc \in [Job -> {"none"} \union Submitting \union Running] /\ current \in [Job -> Stage \union {None}]
      /\ report \in [Job -> Seq(Entry)]
      /\ verdict \in [Job -> [status : Final \union {"running"}, error : Error \union {None}]]
  BY DEF TypeOK
<1>1. CASE WriteReport(j, listed) /\ Proceed(j, listed) /\ NoFault
  <2>1. listed[Len(listed)].outcome = o
    BY ListedType
  <2>2. report'[j] = listed /\ \A k \in Job \ {j} : report'[k] = report[k]
    BY <1>0, <1>1 DEF WriteReport
  <2> HIDE DEF listed
  <2>3. CASE (EndWith(j, "failed", "stage") \/ EndWith(j, "done", None)) /\ UNCHANGED current
    BY <1>0, <2>2, <2>3 DEF EndWith, Verdict, Go, listed
  <2>4. CASE /\ listed[Len(listed)].outcome # "failed" /\ current[j] # Stages[Len(Stages)]
             /\ current' = [current EXCEPT ![j] = Stages[Index(@) + 1]] /\ Go(j, "marking")
    BY <1>0, <2>1, <2>2, <2>4 DEF Go, listed
  <2> QED BY <1>1, <2>3, <2>4 DEF Proceed
<1>2. CASE EndWith(j, "failed", "exception") /\ UNCHANGED <<report, files, current>>
  BY <1>0, <1>2 DEF EndWith, Verdict, Go
<1> QED BY <1>1, <1>2 DEF Reported

LEMMA CancelledWay ==
    ASSUME TypeOK, NEW j \in Job, RecordCancelled(j)
    PROVE  /\ \A k \in Job \ {j} : report'[k] = report[k] /\ pc'[k] = pc[k]
           /\ pc'[j] = "ending"
           /\ report'[j] \in {report[j], Append(report[j], [name |-> current[j], outcome |-> "failed"])}
BY DEF RecordCancelled, WriteReport, NoWrite, EndWith, Go, TypeOK

\* A run that leaves its stage, whichever way, has stores that match again.
LEMMA LeavesStage ==
    ASSUME TypeOK, NEW j \in Job, NEW p \in 0..Len(Stages), Tracks(j, p),
           pc[j] \in {"queued"} \union InLease, row' = row,
           NEW o \in {"passed", "failed"}, Reported(j, o), row[j].status # "absent"
    PROVE  Elsewhere(j) /\ \E q \in 0..Len(Stages) : Tracks(j, q)'
<1>1. /\ p \in 0..4 /\ Len(report[j]) = p /\ current[j] = Stages[p + 1] /\ row[j].stage = current[j]
      /\ Lists(report[j], p) /\ Len(Stages) = 5
  BY StageFacts DEF Tracks
<1>2. /\ current[j] \in Stage /\ Index(current[j]) = p + 1 /\ current[j] # None
      /\ report[j] \in Seq(Entry)
  BY <1>1, StageFacts, IndexOfStage DEF TypeOK
<1> DEFINE e == [name |-> current[j], outcome |-> o]
           listed == Append(report[j], e)
<1>3. /\ \A k \in Job \ {j} : report'[k] = report[k] /\ pc'[k] = pc[k] /\ current'[k] = current[k]
      /\ \/ /\ pc'[j] = "marking" /\ report'[j] = listed /\ o = "passed"
            /\ current[j] # Stages[Len(Stages)]
            /\ current'[j] = Stages[Index(current[j]) + 1]
         \/ /\ pc'[j] = "ending" /\ report'[j] \in {report[j], listed}
            /\ current'[j] = current[j]
  BY <1>2, WaysOut
<1>4. Elsewhere(j)
  BY <1>3 DEF Elsewhere
<1>5. /\ o = "passed" => Lists(listed, p + 1) /\ Len(listed) = p + 1
      /\ o = "failed" => Lists(listed, p)
  <2>1. e \in Entry
    BY <1>2 DEF Entry
  <2>2. CASE o = "passed"
    BY <1>1, <1>2, <2>2, PassAdds
  <2>3. CASE o = "failed"
    BY <1>1, <1>2, <2>1, <2>3, FailureKeeps
  <2> QED BY <2>2, <2>3
<1> HIDE DEF listed
<1>6. ASSUME NEW q \in {p, p + 1}, Lists(report'[j], q), pc'[j] = "ending", current'[j] = current[j]
      PROVE  Tracks(j, q)'
  BY <1>1, <1>2, <1>6 DEF Tracks, Beside, Submitting, InLease
<1>7. CASE pc'[j] = "marking"
  <2>1. Index(current[j]) # 5
    BY <1>2, <1>3, <1>7, StageFacts
  <2>2. p + 1 \in 0..Len(Stages) /\ p + 1 < Len(Stages)
    BY <1>1, <1>2, <2>1
  <2>3. Tracks(j, p + 1)'
    BY <1>1, <1>2, <1>3, <1>5, <1>7, <2>2 DEF Tracks, Beside, Submitting, InLease
  <2> QED BY <1>4, <2>2, <2>3
<1>8. CASE pc'[j] = "ending"
  <2>1. PICK q \in {p, p + 1} : Lists(report'[j], q)
    BY <1>1, <1>3, <1>5, <1>8
  <2>2. q \in 0..Len(Stages)
    BY <1>1
  <2> QED BY <1>3, <1>4, <1>6, <1>8, <2>1, <2>2
<1> QED BY <1>3, <1>7, <1>8

\* So has a cancelled one.
LEMMA CancelledTracks ==
    ASSUME TypeOK, NEW j \in Job, NEW p \in 0..Len(Stages), Tracks(j, p),
           pc[j] \in {"marking", "queued"} \union InLease, RecordCancelled(j),
           UNCHANGED current, row'[j].stage \in {row[j].stage, current[j]}, row'[j].status # "absent"
    PROVE  Tracks(j, p)'
<1>1. /\ p \in 0..4 /\ current[j] = Stages[p + 1] /\ Beside(row[j].stage, p)
      /\ Lists(report[j], p) /\ Len(Stages) = 5
  BY StageFacts DEF Tracks
<1>2. /\ current[j] \in Stage /\ Index(current[j]) = p + 1 /\ current[j] # None
      /\ report[j] \in Seq(Entry)
  BY <1>1, StageFacts, IndexOfStage DEF TypeOK
<1>3. Beside(current[j], p) /\ Beside(row'[j].stage, p)
  <2>1. Beside(current[j], p)
    BY <1>1, <1>2 DEF Beside
  <2> QED BY <1>1, <2>1
<1>4. pc'[j] = "ending" /\ Lists(report'[j], p)
  <2>1. [name |-> current[j], outcome |-> "failed"] \in Entry
    BY <1>2 DEF Entry
  <2>2. Lists(Append(report[j], [name |-> current[j], outcome |-> "failed"]), p)
    BY <1>1, <1>2, <2>1, FailureKeeps
  <2> QED BY <1>1, <2>2, CancelledWay
<1> QED BY <1>1, <1>3, <1>4 DEF Tracks, Submitting, InLease

LEMMA EvidenceStep == TypeOK /\ LoopInv /\ ActiveInv /\ EvidenceInv /\ [Next]_vars => EvidenceInv'
<1> SUFFICES ASSUME TypeOK, LoopInv, ActiveInv, EvidenceInv, [Next]_vars PROVE EvidenceInv'
  OBVIOUS
<1>t. /\ pc \in [Job -> {"none"} \union Submitting \union Running]
      /\ current \in [Job -> Stage \union {None}]
      /\ row \in [Job -> [status : Status, stage : Stage \union {None}, error : Error \union {None}]]
      /\ report \in [Job -> Seq(Entry)] /\ Len(Stages) = 5
  BY StageFacts DEF TypeOK
<1>p. \A j \in Job : \E p \in 0..Len(Stages) : Tracks(j, p)
  BY DEF EvidenceInv
<1>l. \A j \in Job : pc[j] # "none" => row[j].status # "absent"
  BY DEF ActiveInv, Live
<1> USE DEF durable, engine, local
\* Nothing the invariant reads has changed, or coroutines have only been dropped.
<1>s. ASSUME UNCHANGED <<row, report>>, \A j \in Job : pc'[j] = "none" \/ (pc'[j] = pc[j] /\ current'[j] = current[j])
      PROVE  EvidenceInv'
  <2> SUFFICES ASSUME NEW j \in Job PROVE \E p \in 0..Len(Stages) : Tracks(j, p)'
    BY DEF EvidenceInv
  <2>1. PICK p \in 0..Len(Stages) : Tracks(j, p)
    BY <1>p
  <2>2. Tracks(j, p)'
    BY <1>s, <2>1 DEF Tracks, Submitting, InLease
  <2> QED BY <2>2
<1>1. ASSUME NEW j \in Job, SubmitStep(j) PROVE EvidenceInv'
  <2>p. PICK p \in 0..Len(Stages) : Tracks(j, p)
    BY <1>p
  <2>1. Elsewhere(j) /\ UNCHANGED <<report, current>>
    <3>1. CASE Submit(j) \/ Refuse(j)
      BY <3>1, <1>t DEF Submit, Refuse, UpdateRow, Go, Elsewhere
    <3>2. CASE Schedule(j) \/ ScheduleFails(j) \/ Abandon(j)
      BY <3>2, <1>t DEF Schedule, ScheduleFails, Abandon, Go, Elsewhere
    <3> QED BY <1>1, <3>1, <3>2 DEF SubmitStep
  <2>2. CASE Submit(j)
    <3>1. row'[j].stage = None /\ report[j] = <<>> /\ pc'[j] = "creating" /\ report' = report
      BY <1>t, <2>p, <2>2, <2>1 DEF Submit, Row, Go, Tracks
    <3>2. Tracks(j, 0)'
      BY <3>1, NothingListed DEF Tracks, Beside, Submitting, InLease
    <3> QED BY <1>t, <2>1, <3>2, OneJob
  <2>3. CASE Refuse(j)
    <3>1. row'[j].stage = row[j].stage /\ row'[j].status = "failed" /\ pc'[j] = "none" /\ report' = report
      BY <1>t, <2>1, <2>3 DEF Refuse, UpdateRow, Row, Go
    <3>2. Tracks(j, p)'
      BY <2>p, <3>1 DEF Tracks, Submitting, InLease
    <3> QED BY <2>1, <3>2, OneJob
  <2>4. CASE Schedule(j) \/ ScheduleFails(j) \/ Abandon(j)
    <3>1. row' = row /\ report' = report /\ pc[j] \in Submitting /\ pc'[j] \in {"ready", "refusing", "none"}
      BY <1>t, <2>4 DEF Schedule, ScheduleFails, Abandon, Go, Submitting
    <3>2. Tracks(j, p)'
      BY <2>p, <3>1 DEF Tracks, Submitting, InLease
    <3> QED BY <2>1, <3>2, OneJob
  <2> QED BY <1>1, <2>2, <2>3, <2>4 DEF SubmitStep
<1>2. ASSUME NEW j \in Job, Begin(j) \/ Load(j) \/ Mark(j) \/ Enter(j) PROVE EvidenceInv'
  <2>p. PICK p \in 0..Len(Stages) : Tracks(j, p)
    BY <1>p
  <2>1. CASE Begin(j)
    <3>1. /\ Elsewhere(j) /\ row' = row /\ report' = report /\ report[j] = <<>>
          /\ pc'[j] = "loading" /\ current'[j] = None
      BY <1>t, <2>p, <2>1 DEF Begin, Go, Elsewhere, Tracks
    <3>2. Tracks(j, p)'
      BY <2>p, <3>1 DEF Tracks, Submitting, InLease
    <3> QED BY <3>1, <3>2, OneJob
  <2>2. CASE Load(j)
    <3>1. row' = row /\ report' = report /\ report[j] = <<>> /\ current[j] = None /\ row[j].status # "absent"
      BY <1>l, <2>p, <2>2 DEF Load, Tracks
    <3>2. Len(report[j]) = 0 /\ p = 0
      BY <2>p, <3>1 DEF Tracks, Lists
    <3>3. CASE current' = [current EXCEPT ![j] = Stages[1]] /\ Go(j, "marking")
      <4>1. Elsewhere(j) /\ pc'[j] = "marking" /\ current'[j] = Stages[1]
        BY <1>t, <3>1, <3>3 DEF Go, Elsewhere
      <4>2. Tracks(j, p)'
        BY <1>t, <2>p, <3>1, <3>2, <4>1 DEF Tracks, Submitting, InLease
      <4> QED BY <4>1, <4>2, OneJob
    <3>4. CASE EndWith(j, "failed", "exception") /\ UNCHANGED current
      <4>1. Elsewhere(j) /\ pc'[j] = "ending" /\ current'[j] = None
        BY <1>t, <3>1, <3>4 DEF EndWith, Go, Elsewhere
      <4>2. Tracks(j, p)'
        BY <2>p, <3>1, <3>2, <4>1 DEF Tracks, Beside, Submitting, InLease
      <4> QED BY <4>1, <4>2, OneJob
    <3> QED BY <2>2, <3>3, <3>4 DEF Load
  <2>3. CASE Mark(j)
    <3>1. /\ p \in 0..4 /\ current[j] = Stages[p + 1] /\ Lists(report[j], p) /\ Len(report[j]) = p
      BY <1>t, <2>p, <2>3 DEF Mark, Tracks
    <3>2. Index(current[j]) = p + 1 /\ current[j] # None
      BY <3>1, IndexOfStage
    <3>3. /\ row'[j].stage = current[j] /\ row'[j].status = "running" /\ pc'[j] \in {"queued", "working"}
          /\ UNCHANGED <<report, current>> /\ Elsewhere(j)
      BY <1>t, <2>3, <3>2 DEF Mark, UpdateRow, Row, Go, Elsewhere
    <3>4. Tracks(j, p)'
      BY <1>t, <3>1, <3>2, <3>3 DEF Tracks, Beside, Submitting, InLease
    <3> QED BY <3>3, <3>4, OneJob
  <2>4. CASE Enter(j)
    <3>1. /\ pc[j] = "queued" /\ pc'[j] \in {"preparing", "working"}
          /\ UNCHANGED <<row, report, current>> /\ Elsewhere(j)
      BY <1>t, <2>4 DEF Enter, Go, Elsewhere
    <3>2. Tracks(j, p)'
      BY <2>p, <3>1 DEF Tracks, Submitting, InLease
    <3> QED BY <3>1, <3>2, OneJob
  <2> QED BY <1>2, <2>1, <2>2, <2>3, <2>4
<1>3. ASSUME NEW j \in Job, StageEnds(j) \/ StageRefused(j) PROVE EvidenceInv'
  <2>p. PICK p \in 0..Len(Stages) : Tracks(j, p)
    BY <1>p
  <2>1. PICK o \in {"passed", "failed"} : Reported(j, o)
    BY <1>3 DEF StageEnds, StageRefused
  <2>2. pc[j] \in {"queued"} \union InLease /\ row' = row /\ row[j].status # "absent"
    BY <1>3, <1>l DEF StageEnds, StageRefused, InLease
  <2>3. Elsewhere(j) /\ \E q \in 0..Len(Stages) : Tracks(j, q)'
    BY <2>p, <2>1, <2>2, LeavesStage
  <2> QED BY <2>3, OneJob
<1>4. ASSUME NEW j \in Job, Dispatch(j) \/ Behind(j) PROVE EvidenceInv'
  <2>p. PICK p \in 0..Len(Stages) : Tracks(j, p)
    BY <1>p
  <2>1. CASE Behind(j)
    BY <1>s, <2>1 DEF Behind
  <2>2. CASE Dispatch(j)
    <3>1. /\ pc[j] = "preparing" /\ pc'[j] = "dispatched"
          /\ UNCHANGED <<row, report, current>> /\ Elsewhere(j)
      BY <1>t, <2>2 DEF Dispatch, Go, Elsewhere
    <3>2. Tracks(j, p)'
      BY <2>p, <3>1 DEF Tracks, Submitting, InLease
    <3> QED BY <3>1, <3>2, OneJob
  <2> QED BY <1>4, <2>1, <2>2
<1>5. ASSUME NEW j \in Job, NativeReturns(j) PROVE EvidenceInv'
  <2>p. PICK p \in 0..Len(Stages) : Tracks(j, p)
    BY <1>p
  <2>1. pc[j] = "dispatched" /\ row' = row /\ row[j].status # "absent"
    BY <1>5, <1>l DEF NativeReturns
  <2>2. CASE Go(j, "working") /\ UNCHANGED <<report, current>>
    <3>1. pc'[j] = "working" /\ Elsewhere(j)
      BY <1>t, <2>1, <2>2 DEF Go, Elsewhere
    <3>2. Tracks(j, p)'
      BY <2>p, <2>1, <2>2, <3>1 DEF Tracks, Submitting, InLease
    <3> QED BY <3>1, <3>2, OneJob
  <2>3. CASE Reported(j, "failed")
    <3>1. Elsewhere(j) /\ \E q \in 0..Len(Stages) : Tracks(j, q)'
      BY <2>p, <2>1, <2>3, LeavesStage DEF InLease
    <3> QED BY <3>1, OneJob
  <2>4. CASE RecordCancelled(j) /\ UNCHANGED current
    <3>1. Elsewhere(j)
      BY <2>1, <2>4, CancelledWay DEF Elsewhere
    <3>2. Tracks(j, p)'
      BY <2>p, <2>1, <2>4, CancelledTracks DEF InLease
    <3> QED BY <3>1, <3>2, OneJob
  <2> QED BY <1>5, <2>2, <2>3, <2>4 DEF NativeReturns
<1>6. ASSUME NEW j \in Job, NativeDoubt(j) \/ SuiteInDoubt(j) PROVE EvidenceInv'
  <2>p. PICK p \in 0..Len(Stages) : Tracks(j, p)
    BY <1>p
  <2>1. /\ pc[j] \in {"working", "dispatched"} /\ row' = row /\ row[j].status # "absent"
        /\ report' = report /\ UNCHANGED current
    BY <1>t, <1>6, <1>l DEF NativeDoubt, SuiteInDoubt, LeaveUnconfirmed, WriteReport, NoWrite
  <2>e. pc'[j] = "ending" /\ Elsewhere(j)
    <3>1. Go(j, "ending")
      BY <1>6 DEF NativeDoubt, SuiteInDoubt, LeaveUnconfirmed, EndWith
    <3> QED BY <1>t, <2>1, <3>1 DEF Go, Elsewhere
  <2>2. row[j].stage = current[j]
    BY <2>p, <2>1 DEF Tracks, InLease
  <2>3. Tracks(j, p)'
    BY <2>p, <2>1, <2>e, <2>2 DEF Tracks, Submitting, InLease
  <2> QED BY <2>e, <2>3, OneJob
\* The end of a run, in the row or not.
<1>e. ASSUME NEW j \in Job, EndRun(j) \/ CancelAtEnd(j) PROVE EvidenceInv'
  <2>p. PICK p \in 0..Len(Stages) : Tracks(j, p)
    BY <1>p
  <2>1. /\ pc[j] = "ending" /\ pc'[j] = "none" /\ UNCHANGED <<report, current>> /\ Elsewhere(j)
        /\ row' = row \/ UpdateRow(j, verdict[j].status, current[j], verdict[j].error)
    BY <1>t, <1>e DEF EndRun, CancelAtEnd, UpdateRow, Go, Elsewhere
  <2>2. row[j].status # "absent" /\ row'[j].status # "absent"
    <3>1. verdict[j].status # "absent"
      BY DEF TypeOK, Final
    <3> QED BY <1>l, <1>t, <2>1, <3>1 DEF UpdateRow, Row
  <2>3. row'[j].stage \in {row[j].stage, current[j]}
    BY <1>t, <2>1 DEF UpdateRow, Row
  <2>4. Beside(row'[j].stage, p)
    BY <2>p, <2>1, <2>3 DEF Tracks
  <2>5. Tracks(j, p)'
    BY <2>p, <2>1, <2>2, <2>4 DEF Tracks, Submitting, InLease
  <2> QED BY <2>1, <2>5, OneJob
<1>7. ASSUME NEW j \in Job, CancelEarly(j) \/ CancelInLoop(j) \/ CancelAtEnd(j) PROVE EvidenceInv'
  <2>p. PICK p \in 0..Len(Stages) : Tracks(j, p)
    BY <1>p
  <2>1. CASE CancelEarly(j)
    BY <1>s, <1>t, <2>1 DEF CancelEarly, Go
  <2>2. CASE CancelInLoop(j)
    <3>1. /\ pc[j] \in {"marking", "queued"} \union InLease /\ current[j] \in Stage
          /\ row[j].status # "absent" /\ RecordCancelled(j) /\ UNCHANGED current
      BY <1>l, <2>2 DEF CancelInLoop, InLease, LoopInv
    <3>2. /\ row'[j].stage \in {row[j].stage, current[j]} /\ row'[j].status # "absent"
          /\ \A k \in Job \ {j} : row'[k] = row[k]
      BY <1>t, <2>2, <3>1 DEF CancelInLoop, UpdateRow, Row
    <3>3. Elsewhere(j)
      BY <3>1, <3>2, CancelledWay DEF Elsewhere
    <3>4. Tracks(j, p)'
      BY <2>p, <3>1, <3>2, CancelledTracks
    <3> QED BY <3>3, <3>4, OneJob
  <2> QED BY <1>7, <1>e, <2>1, <2>2
<1>8. ASSUME NEW j \in Job, EndRun(j) \/ StoreFails(j) PROVE EvidenceInv'
  <2>p. PICK p \in 0..Len(Stages) : Tracks(j, p)
    BY <1>p
  <2>1. CASE StoreFails(j) /\ pc[j] = "marking"
    <3>1. /\ pc'[j] = "ending" /\ UNCHANGED <<row, report, current>> /\ Elsewhere(j)
          /\ row[j].status # "absent"
      BY <1>l, <1>t, <2>1 DEF StoreFails, EndWith, Go, Elsewhere
    <3>2. Beside(current[j], p)
      <4>1. p \in 0..4 /\ current[j] = Stages[p + 1]
        BY <1>t, <2>p, <2>1 DEF Tracks
      <4> QED BY <4>1, IndexOfStage DEF Beside
    <3>3. Tracks(j, p)'
      BY <2>p, <3>1, <3>2 DEF Tracks, Submitting, InLease
    <3> QED BY <3>1, <3>3, OneJob
  <2>2. CASE StoreFails(j) /\ pc[j] # "marking"
    BY <1>s, <1>t, <2>2 DEF StoreFails, Go
  <2> QED BY <1>8, <1>e, <2>1, <2>2
<1>9. ASSUME NEW j \in Job, RecoveryStep(j) PROVE EvidenceInv'
  <2>p. PICK p \in 0..Len(Stages) : Tracks(j, p)
    BY <1>p
  <2>1. CASE RecoverRow(j)
    <3>1. /\ row'[j].stage = row[j].stage /\ row'[j].status = "failed" /\ row[j].status # "absent"
          /\ UNCHANGED <<report, pc, current>> /\ Elsewhere(j)
      BY <1>t, <2>1 DEF RecoverRow, Orphans, Live, UpdateRow, Row, Elsewhere
    <3>2. Tracks(j, p)'
      BY <2>p, <3>1 DEF Tracks, Submitting, InLease
    <3> QED BY <3>1, <3>2, OneJob
  <2>2. CASE RecordInterruption(j) /\ NoWrite
    BY <1>s, <2>2 DEF RecordInterruption, NoWrite
  <2>3. CASE /\ RecordInterruption(j) /\ row[j].stage # None
             /\ WriteReport(j, Append(report[j], [name |-> row[j].stage, outcome |-> "failed"]))
    <3> DEFINE e == [name |-> row[j].stage, outcome |-> "failed"]
    <3>1. /\ UNCHANGED <<row, pc, current>> /\ Elsewhere(j) /\ report'[j] = Append(report[j], e)
      BY <1>t, <2>3 DEF RecordInterruption, WriteReport, Elsewhere
    <3>2. row[j].status = "failed" /\ pc[j] = "none"
      <4>1. j \in recording
        BY <2>3 DEF RecordInterruption
      <4>2. row[j].status = "failed"
        BY <4>1 DEF ActiveInv
      <4> QED BY <4>2 DEF ActiveInv, Live
    <3>3. Lists(report'[j], p)
      <4>1. e \in Entry /\ e.outcome = "failed" /\ report[j] \in Seq(Entry) /\ Lists(report[j], p)
        BY <1>t, <2>p, <2>3 DEF Entry, Tracks
      <4> HIDE DEF e
      <4> QED BY <1>t, <3>1, <4>1, FailureKeeps
    <3>4. Tracks(j, p)'
      BY <2>p, <3>1, <3>2, <3>3 DEF Tracks, Submitting, InLease
    <3> QED BY <3>1, <3>4, OneJob
  <2> QED BY <1>9, <2>1, <2>2, <2>3 DEF RecoveryStep, RecordInterruption
<1>10. ASSUME NEW j \in Job, Reconcile(j) PROVE EvidenceInv'
  <2>p. PICK p \in 0..Len(Stages) : Tracks(j, p)
    BY <1>p
  <2>1. UNCHANGED <<report, pc, current>>
    BY <1>10 DEF Reconcile
  <2>2. CASE row' = row
    BY <1>s, <2>1, <2>2
  <2>3. CASE UpdateRow(j, "failed", row[j].stage, "verified")
    <3>1. /\ row'[j].stage = row[j].stage /\ row'[j].status = "failed" /\ row[j].status # "absent"
          /\ Elsewhere(j)
      <4>1. row[j].status # "absent"
        BY <1>10 DEF Reconcile, ActiveInv
      <4> QED BY <1>t, <2>1, <2>3, <4>1 DEF UpdateRow, Row, Elsewhere
    <3>2. Tracks(j, p)'
      BY <2>p, <2>1, <3>1 DEF Tracks, Submitting, InLease
    <3> QED BY <3>1, <3>2, OneJob
  <2> QED BY <1>10, <2>2, <2>3 DEF Reconcile
<1>11. ASSUME CancelAll \/ OtherSeals \/ Exit \/ Crash PROVE EvidenceInv'
  <2>1. CASE CancelAll \/ OtherSeals
    BY <1>s, <2>1 DEF CancelAll, OtherSeals
  <2>2. CASE Forget
    BY <1>s, <2>2 DEF Forget
  <2> QED BY <1>11, <2>1, <2>2 DEF Exit, Crash
<1>12. ASSUME Restart \/ Serve \/ ServeUnrecovered PROVE EvidenceInv'
  BY <1>s, <1>12 DEF Restart, Serve, ServeUnrecovered
<1>13. ASSUME UNCHANGED vars PROVE EvidenceInv'
  BY <1>s, <1>13 DEF vars
<1> HIDE DEF EvidenceInv
<1> QED BY <1>1, <1>2, <1>3, <1>4, <1>5, <1>6, <1>7, <1>8, <1>9, <1>10, <1>11, <1>12, <1>13, NextCases, Zenon

-----------------------------------------------------------------------------
THEOREM Invariance == Spec => []IInv
<1>1. Init => IInv
  <2> SUFFICES ASSUME Init PROVE IInv
    OBVIOUS
  <2>1. TypeOK
    <3>1. row \in [Job -> [status : Status, stage : Stage \union {None}, error : Error \union {None}]]
      BY DEF Init, Row, Status
    <3>2. verdict \in [Job -> [status : Final \union {"running"}, error : Error \union {None}]]
      BY DEF Init, Verdict, Unstarted, Final, Error
    <3>3. report \in [Job -> Seq(Entry)]
      <4>1. <<>> \in Seq(Entry)
        OBVIOUS
      <4> QED BY <4>1 DEF Init
    <3>4. journal \in [Job -> Journal!State] /\ unresolved = {} /\ seal \in Journal!Sealer
      BY DEF Init, Journal!Init, Journal!State, Journal!Sealer
    <3> QED BY <3>1, <3>2, <3>3, <3>4 DEF Init, TypeOK
  <2>2. /\ \A j \in Job : row[j] = Row("absent", None, None) /\ pc[j] = "none"
        /\ journal = [j \in Job |-> "clear"] /\ \A j \in Job : verdict[j] = Verdict("failed", "exception")
        /\ recording = {} /\ holder = None /\ mode = "down" /\ unresolved = {} /\ seal = "none"
    BY DEF Init, Unstarted, Journal!Init
  <2>3. LoopInv
    BY <2>2 DEF LoopInv, InLease
  <2>4. ActiveInv
    BY <2>2, NoneApart DEF ActiveInv, Row, Verdict, Submitting
  <2>5. JournalInv /\ DoubtInv
    <3>1. \A j \in Job : ~Journal!Inside(j)
      BY <2>2, Places DEF Executing
    <3> QED BY <2>1, <2>2, <3>1 DEF JournalInv, DoubtInv, TypeOK, Journal!AllOut
  <2>6. DoneInv
    BY <2>2 DEF DoneInv, DoneMeansPassed, Row
  <2>7. EvidenceInv
    <3>1. \A j \in Job : report[j] = <<>>
      BY DEF Init
    <3>2. ASSUME NEW j \in Job PROVE Tracks(j, 0)
      <4>1. row[j].stage = None /\ pc[j] = "none"
        BY <2>2 DEF Row
      <4>2. Lists(report[j], 0) /\ report[j] = <<>>
        BY <3>1, NothingListed
      <4> QED BY <4>1, <4>2 DEF Tracks, Beside, Submitting, InLease
    <3>3. 0 \in 0..Len(Stages)
      BY StageFacts
    <3>4. \A j \in Job : \E p \in 0..Len(Stages) : Tracks(j, p)
      BY <3>2, <3>3, Zenon
    <3> QED BY <3>4 DEF EvidenceInv
  <2> QED BY <2>1, <2>3, <2>4, <2>5, <2>6, <2>7 DEF IInv
<1>2. IInv /\ [Next]_vars => IInv'
  BY TypeStep, LoopStep, ActiveStep, JournalStep, ContractStep, DoubtStep, DoneStep, EvidenceStep, Zenon
     DEF IInv
<1> QED BY <1>1, <1>2, PTL DEF Spec

\* Type correctness of the stores, the process and the coroutines.
THEOREM TypeCorrect == Spec => []TypeOK
BY Invariance, PTL DEF IInv

\* A DONE row always stands over a complete, passed report on disk.
THEOREM DoneIsPassed == Spec => []DoneMeansPassed
BY Invariance, PTL DEF IInv, DoneInv

\* No job gets a final verdict while its native execution has left no evidence.
THEOREM NoEarlyVerdict == Spec => []NoVerdictInDoubt
<1>1. IInv => NoVerdictInDoubt
  BY DEF IInv, DoubtInv, NoVerdictInDoubt, Live, Final
<1> QED BY <1>1, Invariance, PTL

\* A serving process seals Blender over every execution nobody polls for.
THEOREM DoubtStaysSealed == Spec => []DoubtIsSealed
<1>1. IInv => DoubtIsSealed
  BY Places DEF IInv, JournalInv, DoubtIsSealed
<1> QED BY <1>1, Invariance, PTL

\* The report of a run and its row, written separately, never drift apart.
THEOREM EvidenceIsInStep == Spec => []EvidenceTracksRow
<1>1. IInv => EvidenceTracksRow
  BY DEF IInv, EvidenceInv, Tracks, Lists, Beside, EvidenceTracksRow
<1> QED BY <1>1, Invariance, PTL

\* A list keeps its entries when one is added.
LEMMA AppendKeeps ==
    ASSUME NEW s \in Seq(Entry), NEW e \in Entry
    PROVE  SubSeq(Append(s, e), 1, Len(s)) = s /\ SubSeq(s, 1, Len(s)) = s
OBVIOUS

\* Final rows and the evidence below them are never rewritten.
THEOREM HistoryIsKept == Spec => HistoryStays
<1> DEFINE Keeps(j) ==
          /\ row[j].status \in Final => row'[j] = row[j]
          /\ report'[j] = report[j] \/ \E e \in Entry : report'[j] = Append(report[j], e)
          /\ row[j].status \in Final /\ j \notin recording => report'[j] = report[j]
<1>1. IInv /\ [Next]_vars => \A k \in Job : Keeps(k)
  <2> SUFFICES ASSUME IInv, [Next]_vars, NEW k \in Job PROVE Keeps(k)
    OBVIOUS
  <2>i. TypeOK /\ LoopInv /\ ActiveInv
    BY DEF IInv
  <2>s. ASSUME UNCHANGED <<row, report>> PROVE Keeps(k)
    BY <2>s
  <2>o. ASSUME NEW j \in Job, row[j].status \notin Final \/ row'[j] = row[j],
               \A i \in Job \ {j} : row'[i] = row[i], UNCHANGED report
        PROVE  Keeps(k)
    BY <2>o
  <2>q. ASSUME NEW j \in Job,
               \/ Schedule(j) \/ ScheduleFails(j) \/ Abandon(j)
               \/ Begin(j) \/ Load(j) \/ Enter(j) \/ CancelEarly(j)
        PROVE  Keeps(k)
    BY <2>i, <2>q, <2>s, QuietSteps
  <2>m. ASSUME NEW j \in Job, Submit(j) \/ Refuse(j) \/ Mark(j) \/ RecoverRow(j) PROVE Keeps(k)
    <3>1. row[j].status \notin Final
      BY <2>i, <2>m DEF ActiveInv, Submit, Refuse, Mark, RecoverRow, Orphans, Live, Final
    <3>2. (\A i \in Job \ {j} : row'[i] = row[i]) /\ UNCHANGED report
      BY <2>i, <2>m, Marks
    <3> QED BY <3>1, <3>2, <2>o
  <2>e. ASSUME NEW j \in Job,
               \/ StageEnds(j) \/ StageRefused(j) \/ SuiteInDoubt(j)
               \/ NativeReturns(j) \/ NativeDoubt(j) \/ CancelInLoop(j)
        PROVE  Keeps(k)
    <3>1. /\ \A i \in Job \ {j} : row'[i] = row[i] /\ report'[i] = report[i]
          /\ pc[j] \in {"marking", "queued", "preparing", "working", "dispatched"}
          /\ report'[j] = report[j] \/ \E e \in Entry : report'[j] = Append(report[j], e)
      BY <2>i, <2>e, Ending
    <3>2. row[j].status \notin Final
      BY <2>i, <3>1 DEF ActiveInv, Live, Final
    <3> QED BY <3>1, <3>2
  <2>w. ASSUME NEW j \in Job, EndRun(j) \/ CancelAtEnd(j) \/ StoreFails(j) PROVE Keeps(k)
    <3>1. /\ \A i \in Job \ {j} : row'[i] = row[i]
          /\ pc[j] \in {"marking", "ending"} /\ UNCHANGED report
      BY <2>i, <2>w, RowWrites
    <3>2. row[j].status \notin Final
      BY <2>i, <3>1 DEF ActiveInv, Live, Final
    <3> QED BY <3>1, <3>2, <2>o
  <2> HIDE DEF Keeps
  <2>1. ASSUME NEW j \in Job, SubmitStep(j) PROVE Keeps(k)
    BY <2>1, <2>q, <2>m DEF SubmitStep
  <2>2. ASSUME NEW j \in Job, Begin(j) \/ Load(j) \/ Mark(j) \/ Enter(j) PROVE Keeps(k)
    BY <2>2, <2>q, <2>m
  <2>3. ASSUME NEW j \in Job, StageEnds(j) \/ StageRefused(j) PROVE Keeps(k)
    BY <2>3, <2>e
  <2>4. ASSUME NEW j \in Job, Dispatch(j) \/ Behind(j) PROVE Keeps(k)
    BY <2>4, <2>s DEF Dispatch, Behind
  <2>5. ASSUME NEW j \in Job, NativeReturns(j) PROVE Keeps(k)
    BY <2>5, <2>e
  <2>6. ASSUME NEW j \in Job, NativeDoubt(j) \/ SuiteInDoubt(j) PROVE Keeps(k)
    BY <2>6, <2>e
  <2>7. ASSUME NEW j \in Job, CancelEarly(j) \/ CancelInLoop(j) \/ CancelAtEnd(j) PROVE Keeps(k)
    BY <2>7, <2>q, <2>e, <2>w
  <2>8. ASSUME NEW j \in Job, EndRun(j) \/ StoreFails(j) PROVE Keeps(k)
    BY <2>8, <2>w
  <2>9. ASSUME NEW j \in Job, RecoveryStep(j) PROVE Keeps(k)
    <3>1. CASE RecordInterruption(j)
      <4>1. UNCHANGED row /\ j \in recording
        BY <3>1 DEF RecordInterruption
      <4>2. CASE NoWrite
        BY <4>1, <4>2, <2>s DEF NoWrite
      <4>3. CASE row[j].stage # None
                 /\ WriteReport(j, Append(report[j], [name |-> row[j].stage, outcome |-> "failed"]))
        <5>1. [name |-> row[j].stage, outcome |-> "failed"] \in Entry
          BY <2>i, <4>3 DEF TypeOK, Entry
        <5>2. /\ report'[j] = Append(report[j], [name |-> row[j].stage, outcome |-> "failed"])
              /\ \A i \in Job \ {j} : report'[i] = report[i]
          BY <2>i, <4>3 DEF WriteReport, TypeOK
        <5> QED BY <4>1, <5>1, <5>2 DEF Keeps
      <4> QED BY <3>1, <4>2, <4>3 DEF RecordInterruption
    <3> QED BY <2>9, <2>m, <3>1 DEF RecoveryStep
  <2>10. ASSUME NEW j \in Job, Reconcile(j) PROVE Keeps(k)
    <3>1. row[j].status \notin Final /\ UNCHANGED report
      BY <2>i, <2>10 DEF Reconcile, ActiveInv, Final
    <3>2. \A i \in Job \ {j} : row'[i] = row[i]
      <4>1. row[j].stage \in Stage \union {None}
        BY <2>i DEF TypeOK
      <4> QED BY <2>i, <2>10, <4>1, UpdateRowFacts DEF Reconcile, Status, Error
    <3> QED BY <3>1, <3>2, <2>o
  <2>11. ASSUME CancelAll \/ OtherSeals \/ Exit \/ Crash PROVE Keeps(k)
    BY <2>11, <2>s DEF CancelAll, OtherSeals, Exit, Crash, Forget, durable
  <2>12. ASSUME Restart \/ Serve \/ ServeUnrecovered PROVE Keeps(k)
    BY <2>12, <2>s DEF Restart, Serve, ServeUnrecovered, durable
  <2>13. ASSUME UNCHANGED vars PROVE Keeps(k)
    BY <2>13, <2>s DEF vars, durable
  <2> QED BY <2>1, <2>2, <2>3, <2>4, <2>5, <2>6, <2>7, <2>8, <2>9, <2>10, <2>11, <2>12, <2>13, NextCases, Zenon
<1> DEFINE Stays ==
          \A j \in Job :
             /\ row[j].status \in Final => row'[j] = row[j]
             /\ SubSeq(report'[j], 1, Len(report[j])) = report[j]
             /\ row[j].status \in Final /\ j \notin recording => report'[j] = report[j]
<1>2. IInv /\ [Next]_vars => [Stays]_vars
  <2> SUFFICES ASSUME IInv, [Next]_vars, NEW k \in Job
               PROVE  /\ row[k].status \in Final => row'[k] = row[k]
                      /\ SubSeq(report'[k], 1, Len(report[k])) = report[k]
                      /\ row[k].status \in Final /\ k \notin recording => report'[k] = report[k]
    OBVIOUS
  <2>1. Keeps(k) /\ report[k] \in Seq(Entry)
    BY <1>1 DEF IInv, TypeOK
  <2> QED BY <2>1, AppendKeeps
<1> QED BY <1>2, Invariance, PTL DEF Spec, HistoryStays

-----------------------------------------------------------------------------
(* No live job is left alone *)

\* A native run in its import stage, or stopped there.
InImport(j) ==
    /\ j \in Native /\ row[j].stage = "import"
    /\ pc[j] # "none" => current[j] = "import"

\* Before its first stage a run has no receipts.  An execution is reserved, listed
\* as unresolved or given up only by a run in its import stage; after that stage
\* the receipts are settled, or altered.
Owned(j) ==
    /\ row[j].status = "absent" \/ pc[j] \in {"ready", "loading"} \union Submitting => row[j].stage = None
    /\ row[j].stage = None => journal[j] = "clear" /\ j \notin unresolved
    /\ pc[j] \notin {"none", "dispatched", "ending"}
       => journal[j] \in {"clear", "settled", "spoiled"} /\ j \notin unresolved
    /\ journal[j] # "clear" => j \in Native
    /\ journal[j] \in {"partial", "pending", "terminal"} \/ pc[j] \in Executing => InImport(j)
    /\ j \in unresolved => InImport(j) \/ journal[j] = "spoiled"
    /\ pc[j] = "queued" /\ current[j] = "import" => j \in Native
    /\ verdict[j].status = "running" => verdict[j].error = "unconfirmed"
    /\ mode = "serving" /\ faults = 0 /\ row[j].status \in Live
       => pc[j] # "none" \/ row[j].error = "unconfirmed" \/ Isolated(j)

\* Only cancel_all cancels runs.
OwnedInv ==
    /\ \A j \in Job : Owned(j)
    /\ cancelled # {} => mode = "stopping"

\* What a step of one job leaves alone.
Apart(j) ==
    /\ \A k \in Job \ {j} : /\ row'[k] = row[k] /\ journal'[k] = journal[k] /\ pc'[k] = pc[k]
                            /\ current'[k] = current[k] /\ verdict'[k] = verdict[k]
                            /\ k \in unresolved' => k \in unresolved
    /\ cancelled' \subseteq cancelled
    /\ faults' = 0 => faults = 0
    /\ mode' = mode

LEMMA OneOwned ==
    ASSUME OwnedInv, NEW j \in Job, Apart(j), Owned(j)'
    PROVE  OwnedInv'
<1>1. ASSUME NEW k \in Job PROVE Owned(k)'
  <2>1. CASE k # j
    <3>1. Owned(k)
      BY DEF OwnedInv
    <3>2. /\ row'[k] = row[k] /\ journal'[k] = journal[k] /\ pc'[k] = pc[k]
          /\ current'[k] = current[k] /\ verdict'[k] = verdict[k]
          /\ k \in unresolved' => k \in unresolved
          /\ mode' = mode /\ (faults' = 0 => faults = 0)
      BY <2>1 DEF Apart
    <3> QED BY <3>1, <3>2 DEF Owned, InImport, Isolated
  <2> QED BY <2>1
<1>2. cancelled' # {} => mode' = "stopping"
  BY DEF OwnedInv, Apart
<1> QED BY <1>1, <1>2 DEF OwnedInv

LEMMA ReportedApart ==
    ASSUME TypeOK, NEW j \in Job, NEW o \in {"passed", "failed"}, Reported(j, o), current[j] \in Stage
    PROVE  /\ \A k \in Job \ {j} : pc'[k] = pc[k] /\ current'[k] = current[k] /\ verdict'[k] = verdict[k]
           /\ faults' = 0 => faults = 0
           /\ \/ pc'[j] = "marking" /\ o = "passed" /\ verdict'[j] = verdict[j]
              \/ pc'[j] = "ending" /\ current'[j] = current[j] /\ verdict'[j].status # "running"
<1>1. /\ \A k \in Job \ {j} : pc'[k] = pc[k] /\ current'[k] = current[k]
      /\ \/ pc'[j] = "marking" /\ o = "passed"
         \/ pc'[j] = "ending" /\ current'[j] = current[j] /\ verdict'[j].status # "running"
  BY WaysOut
<1>2. \A k \in Job \ {j} : verdict'[k] = verdict[k]
  BY ReportedFacts
<1>3. faults' = 0 => faults = 0
  <2>1. faults \in Nat
    BY DEF TypeOK
  <2> QED BY <2>1 DEF Reported, Fault, NoFault
<1>4. pc'[j] = "marking" => verdict'[j] = verdict[j]
  <2>1. pc'[j] = "ending" \/ UNCHANGED verdict
    BY DEF Reported, Proceed, EndWith, Go, TypeOK
  <2> QED BY <2>1
<1> QED BY <1>1, <1>2, <1>3, <1>4

LEMMA CancelledApart ==
    ASSUME TypeOK, NEW j \in Job, RecordCancelled(j)
    PROVE  /\ \A k \in Job \ {j} : pc'[k] = pc[k] /\ verdict'[k] = verdict[k]
           /\ faults' = 0 => faults = 0
           /\ cancelled' \subseteq cancelled
           /\ pc'[j] = "ending" /\ verdict'[j].status = "cancelled"
BY DEF RecordCancelled, EndWith, Go, Verdict, Fault, NoFault, TypeOK

LEMMA OwnedStep == IInv /\ OwnedInv /\ [Next]_vars => OwnedInv'
<1> SUFFICES ASSUME IInv, OwnedInv, [Next]_vars PROVE OwnedInv'
  OBVIOUS
<1>i. TypeOK /\ LoopInv /\ ActiveInv /\ EvidenceInv
  BY DEF IInv
<1>t. /\ pc \in [Job -> {"none"} \union Submitting \union Running]
      /\ current \in [Job -> Stage \union {None}]
      /\ journal \in [Job -> Journal!State]
      /\ row \in [Job -> [status : Status, stage : Stage \union {None}, error : Error \union {None}]]
      /\ verdict \in [Job -> [status : Final \union {"running"}, error : Error \union {None}]]
      /\ faults \in Nat
  BY <1>i DEF TypeOK
<1>o. \A j \in Job : Owned(j)
  BY DEF OwnedInv
<1>l. \A j \in Job : pc[j] # "none" => row[j].status # "absent"
  BY <1>i DEF ActiveInv, Live
<1>n. None # "import" /\ None # "unconfirmed"
  BY NoneIsNull, StageFacts, NoneApart
<1> USE DEF durable, engine, local, runner, InLease, Submitting, Executing
<1>1. ASSUME NEW j \in Job, SubmitStep(j) PROVE OwnedInv'
  <2>o. Owned(j)
    BY <1>o
  <2>1. CASE Submit(j)
    <3>1. /\ Apart(j) /\ UNCHANGED <<journal, unresolved, verdict>>
          /\ row'[j].status = "queued" /\ row'[j].stage = None /\ pc'[j] = "creating"
      BY <1>t, <2>1 DEF Submit, Row, Go, Apart
    <3>2. journal[j] = "clear" /\ j \notin unresolved
      BY <2>o, <2>1 DEF Submit, Owned
    <3>3. Owned(j)'
      BY <2>o, <3>1, <3>2 DEF Owned
    <3> QED BY <3>1, <3>3, OneOwned
  <2>2. CASE Refuse(j)
    <3>1. /\ Apart(j) /\ UNCHANGED <<journal, unresolved, verdict>>
          /\ row'[j].status = "failed" /\ row'[j].stage = row[j].stage
          /\ pc[j] = "refusing" /\ pc'[j] = "none"
      BY <1>t, <2>2 DEF Refuse, UpdateRow, Row, Go, Apart
    <3>2. Owned(j)'
      BY <2>o, <3>1 DEF Owned, Live
    <3> QED BY <3>1, <3>2, OneOwned
  <2>3. CASE Schedule(j)
    <3>1. /\ Apart(j) /\ UNCHANGED <<journal, unresolved, row, verdict>>
          /\ pc[j] = "creating" /\ pc'[j] = "ready"
      BY <1>t, <2>3 DEF Schedule, Go, Apart
    <3>2. Owned(j)'
      BY <2>o, <3>1 DEF Owned
    <3> QED BY <3>1, <3>2, OneOwned
  <2>4. CASE ScheduleFails(j) \/ Abandon(j)
    <3>1. /\ Apart(j) /\ UNCHANGED <<journal, unresolved, row, verdict>> /\ faults' # 0
          /\ pc[j] \in {"creating", "refusing"} /\ pc'[j] \in {"refusing", "none"}
      BY <1>t, <2>4 DEF ScheduleFails, Abandon, Fault, Go, Apart
    <3>2. Owned(j)'
      BY <2>o, <3>1 DEF Owned
    <3> QED BY <3>1, <3>2, OneOwned
  <2> QED BY <1>1, <2>1, <2>2, <2>3, <2>4 DEF SubmitStep
<1>2. ASSUME NEW j \in Job, Begin(j) \/ Load(j) \/ Mark(j) \/ Enter(j) PROVE OwnedInv'
  <2>o. Owned(j)
    BY <1>o
  <2>1. CASE Begin(j) \/ Load(j)
    <3>1. /\ Apart(j) /\ UNCHANGED <<journal, unresolved, row, mode, faults>>
          /\ pc[j] \in {"ready", "loading"}
          /\ \/ pc'[j] \in {"loading", "marking"}
             \/ pc'[j] = "ending"
          /\ verdict'[j] = verdict[j] \/ verdict'[j].status = "failed"
      <4>1. CASE Begin(j)
        BY <1>t, <4>1 DEF Begin, Go, Unstarted, Verdict, Apart
      <4>2. CASE Load(j)
        BY <1>t, <4>2 DEF Load, EndWith, Verdict, Go, Apart
      <4> QED BY <2>1, <4>1, <4>2
    <3>2. Owned(j)'
      BY <2>o, <3>1 DEF Owned
    <3> QED BY <3>1, <3>2, OneOwned
  <2>2. CASE Mark(j)
    <3>1. /\ Apart(j) /\ UNCHANGED <<journal, unresolved, current, verdict>> /\ pc[j] = "marking"
          /\ row'[j].status = "running" /\ row'[j].stage = current[j]
          /\ pc'[j] = "working" \/ (pc'[j] = "queued" /\ NeedsLease(j))
      <4>1. current[j] \in Stage /\ current[j] # None
        BY <1>i, <2>2, NoneIsNull DEF LoopInv, Mark
      <4> QED BY <1>t, <2>2, <4>1 DEF Mark, UpdateRow, Row, Go, Apart
    <3>2. pc'[j] = "queued" /\ current'[j] = "import" => j \in Native
      BY <3>1 DEF NeedsLease, Leased
    <3>3. row'[j].stage # None
      BY <1>i, <3>1, NoneIsNull DEF LoopInv
    <3>4. Owned(j)'
      BY <2>o, <3>1, <3>2, <3>3 DEF Owned
    <3> QED BY <3>1, <3>4, OneOwned
  <2>3. CASE Enter(j)
    <3>1. /\ Apart(j) /\ UNCHANGED <<journal, unresolved, current, row, verdict, mode, faults>>
          /\ pc[j] = "queued"
          /\ pc'[j] = "working" \/ (pc'[j] = "preparing" /\ current[j] = "import")
      <4>1. UNCHANGED <<journal, unresolved>>
        BY <1>i, <2>3, ExecutionFacts DEF Enter
      <4> QED BY <1>t, <2>3, <4>1 DEF Enter, Go, Apart
    <3>2. row[j].stage = current[j]
      BY <1>i, <3>1 DEF EvidenceInv, Tracks
    <3>3. Owned(j)'
      BY <2>o, <3>1, <3>2 DEF Owned, InImport
    <3> QED BY <3>1, <3>3, OneOwned
  <2> QED BY <1>2, <2>1, <2>2, <2>3
<1>3. ASSUME NEW j \in Job, StageEnds(j) \/ StageRefused(j) PROVE OwnedInv'
  <2>o. Owned(j)
    BY <1>o
  <2>1. current[j] \in Stage
    BY <1>i, <1>3 DEF StageEnds, StageRefused, LoopInv
  <2>2. CASE UNCHANGED runner
    <3>1. PICK o \in {"passed", "failed"} : Reported(j, o)
      BY <1>3 DEF StageEnds, StageRefused
    <3>2. /\ pc[j] \in {"queued", "preparing", "working"}
          /\ UNCHANGED <<row, journal, mode, cancelled, unresolved>>
      BY <1>3, <2>2 DEF StageEnds, StageRefused
    <3>3. /\ Apart(j) /\ pc'[j] \in {"marking", "ending"}
          /\ verdict'[j] = verdict[j] \/ verdict'[j].status # "running"
      BY <1>i, <2>1, <3>1, <3>2, ReportedApart DEF Apart
    <3>4. Owned(j)'
      BY <2>o, <3>2, <3>3 DEF Owned
    <3> QED BY <3>3, <3>4, OneOwned
  <2>3. CASE StageRefused(j) /\ Journal!Refuse(j)
    <3>1. /\ Reported(j, "failed") /\ UNCHANGED <<row, mode, cancelled, unresolved>>
          /\ \A k \in Job \ {j} : journal'[k] = journal[k]
          /\ journal'[j] \in {journal[j], "partial"} /\ pc[j] = "preparing"
      BY <1>i, <2>3, ExecutionFacts DEF StageRefused
    <3>2. Apart(j) /\ pc'[j] = "ending" /\ current'[j] = current[j] /\ verdict'[j].status # "running"
      BY <1>i, <2>1, <3>1, ReportedApart DEF Apart
    <3>3. InImport(j) /\ InImport(j)'
      BY <2>o, <3>1, <3>2 DEF Owned, InImport
    <3>4. Owned(j)'
      BY <1>l, <1>n, <2>o, <3>1, <3>2, <3>3 DEF Owned, InImport
    <3> QED BY <3>2, <3>4, OneOwned
  <2> QED BY <1>3, <2>2, <2>3 DEF StageEnds, StageRefused
<1>4. ASSUME NEW j \in Job, Dispatch(j) \/ Behind(j) PROVE OwnedInv'
  <2>o. Owned(j)
    BY <1>o
  <2>1. CASE Dispatch(j)
    <3>1. /\ UNCHANGED <<row, current, verdict, mode, faults>>
          /\ pc[j] = "preparing" /\ pc'[j] = "dispatched" /\ Apart(j)
      <4>1. /\ \A k \in Job \ {j} : journal'[k] = journal[k]
            /\ unresolved' = unresolved \union {j}
        BY <1>i, <2>1, ExecutionFacts DEF Dispatch
      <4> QED BY <1>t, <2>1, <4>1 DEF Dispatch, Go, Apart
    <3>2. InImport(j) /\ InImport(j)'
      BY <2>o, <3>1 DEF Owned, InImport
    <3>3. Owned(j)'
      BY <1>l, <1>n, <2>o, <3>1, <3>2 DEF Owned, InImport
    <3> QED BY <3>1, <3>3, OneOwned
  <2>2. CASE Behind(j)
    <3>1. /\ UNCHANGED <<row, current, pc, verdict, mode, faults, unresolved>> /\ Apart(j)
          /\ \/ journal'[j] = journal[j]
             \/ journal[j] = "pending" /\ journal'[j] \in {"terminal", "settled"}
             \/ journal[j] \in {"terminal", "settled"} /\ journal'[j] = "spoiled"
      <4>1. /\ \/ journal'[j] = journal[j]
               \/ journal[j] = "pending" /\ journal'[j] \in {"terminal", "settled"}
               \/ journal[j] \in {"terminal", "settled"} /\ journal'[j] = "spoiled"
            /\ \A k \in Job \ {j} : journal'[k] = journal[k]
            /\ unresolved' = unresolved
        BY <1>i, <2>2, ExecutionFacts DEF Behind
      <4> QED BY <2>2, <4>1 DEF Behind, Apart
    <3>2. Owned(j)'
      BY <2>o, <3>1 DEF Owned, InImport, Isolated
    <3> QED BY <3>1, <3>2, OneOwned
  <2> QED BY <1>4, <2>1, <2>2
<1>5. ASSUME NEW j \in Job, NativeReturns(j) PROVE OwnedInv'
  <2>o. Owned(j)
    BY <1>o
  <2>0. current[j] \in Stage /\ row[j].status # "absent" /\ pc[j] = "dispatched"
    BY <1>i, <1>l, <1>5 DEF NativeReturns, LoopInv
  <2>1. /\ UNCHANGED <<row, mode>> /\ journal'[j] = "settled" /\ j \notin unresolved'
        /\ \A k \in Job \ {j} : journal'[k] = journal[k] /\ (k \in unresolved' => k \in unresolved)
    BY <1>i, <1>5, ExecutionFacts DEF NativeReturns
  <2>2. /\ Apart(j) /\ pc'[j] \in {"working", "ending"}
        /\ verdict'[j] = verdict[j] \/ verdict'[j].status # "running"
    <3>1. CASE Go(j, "working") /\ UNCHANGED <<report, files, current, verdict, cancelled, faults>>
      BY <1>t, <2>1, <3>1 DEF Go, Apart
    <3>2. CASE Reported(j, "failed") /\ UNCHANGED cancelled
      BY <1>i, <2>0, <2>1, <3>2, ReportedApart DEF Apart
    <3>3. CASE RecordCancelled(j) /\ UNCHANGED current
      BY <1>i, <2>1, <3>3, CancelledApart DEF Apart
    <3> QED BY <1>5, <3>1, <3>2, <3>3 DEF NativeReturns
  <2>3. row[j].stage = "import" /\ j \in Native
    BY <2>o, <2>0 DEF Owned, InImport
  <2>4. Owned(j)'
    BY <1>n, <2>o, <2>0, <2>1, <2>2, <2>3 DEF Owned
  <2> QED BY <2>2, <2>4, OneOwned
<1>6. ASSUME NEW j \in Job, NativeDoubt(j) \/ SuiteInDoubt(j) PROVE OwnedInv'
  <2>o. Owned(j)
    BY <1>o
  <2>1. /\ UNCHANGED <<row, current, mode, unresolved>> /\ pc[j] \in {"working", "dispatched"}
        /\ row[j].status # "absent" /\ cancelled' \subseteq cancelled
        /\ \A k \in Job \ {j} : journal'[k] = journal[k]
        /\ \/ journal'[j] = journal[j]
           \/ /\ pc[j] = "dispatched"
              /\ \/ journal[j] = "pending" /\ journal'[j] \in {"partial", "terminal"}
                 \/ journal[j] = "terminal" /\ journal'[j] = "settled"
    <3>1. CASE NativeDoubt(j)
      BY <1>i, <1>l, <3>1, ExecutionFacts DEF NativeDoubt
    <3>2. CASE SuiteInDoubt(j)
      BY <1>i, <1>l, <3>2, ExecutionFacts DEF SuiteInDoubt
    <3> QED BY <1>6, <3>1, <3>2
  <2>2. /\ pc'[j] = "ending" /\ \A k \in Job \ {j} : pc'[k] = pc[k] /\ verdict'[k] = verdict[k]
        /\ verdict'[j].status = "running" => verdict'[j].error = "unconfirmed"
        /\ faults' = 0 => faults = 0
    BY <1>t, <1>6 DEF NativeDoubt, SuiteInDoubt, LeaveUnconfirmed, EndWith, Verdict, Go, Fault, NoFault
  <2>3. Apart(j)
    BY <2>1, <2>2 DEF Apart
  <2>4. Owned(j)'
    BY <2>o, <2>1, <2>2 DEF Owned, InImport
  <2> QED BY <2>3, <2>4, OneOwned
\* The end of a run, in the row or not.
<1>e. ASSUME NEW j \in Job, EndRun(j) \/ CancelAtEnd(j) PROVE OwnedInv'
  <2>o. Owned(j)
    BY <1>o
  <2>1. /\ Apart(j) /\ pc[j] = "ending" /\ pc'[j] = "none"
        /\ UNCHANGED <<current, verdict, journal, unresolved, mode, faults>>
        /\ row' = row \/ UpdateRow(j, verdict[j].status, current[j], verdict[j].error)
        /\ EndRun(j) => UpdateRow(j, verdict[j].status, current[j], verdict[j].error)
    BY <1>t, <1>e DEF EndRun, CancelAtEnd, UpdateRow, Go, Apart
  <2>2. /\ row'[j].status # "absent"
        /\ EndRun(j) => row'[j].status = verdict[j].status /\ row'[j].error = verdict[j].error
        /\ row'[j].stage \in {row[j].stage, current[j]}
        /\ row'[j].stage = None => row[j].stage = None
    BY <1>l, <1>t, <2>1 DEF UpdateRow, Row, Final
  <2>3. CancelAtEnd(j) => mode # "serving"
    BY DEF CancelAtEnd, OwnedInv
  <2>4. InImport(j) => InImport(j)'
    BY <2>1, <2>2 DEF InImport
  <2>5. verdict[j].status \in Live => verdict[j].status = "running"
    BY <1>t DEF Live, Final
  <2>6. Owned(j)'
    BY <1>e, <2>o, <2>1, <2>2, <2>3, <2>4, <2>5 DEF Owned
  <2> QED BY <2>1, <2>6, OneOwned
<1>7. ASSUME NEW j \in Job, CancelEarly(j) \/ CancelInLoop(j) \/ CancelAtEnd(j) PROVE OwnedInv'
  <2>o. Owned(j)
    BY <1>o
  <2>1. CASE CancelEarly(j)
    <3>1. /\ Apart(j) /\ UNCHANGED <<row, journal, unresolved, verdict>> /\ pc[j] \in {"ready", "loading"}
          /\ pc'[j] = "none" /\ mode' # "serving"
      BY <1>t, <2>1 DEF CancelEarly, Go, Apart, OwnedInv
    <3>2. Owned(j)'
      BY <2>o, <3>1 DEF Owned
    <3> QED BY <3>1, <3>2, OneOwned
  <2>2. CASE CancelInLoop(j)
    <3>1. /\ UNCHANGED <<mode, current>> /\ RecordCancelled(j)
          /\ pc[j] \in {"marking", "queued", "preparing", "working"}
          /\ row' = row \/ (pc[j] = "marking" /\ UpdateRow(j, "running", current[j], None))
      BY <2>2 DEF CancelInLoop
    <3>2. /\ UNCHANGED unresolved /\ \A k \in Job \ {j} : journal'[k] = journal[k]
          /\ journal'[j] = journal[j] \/ (pc[j] = "preparing" /\ journal'[j] = "partial")
      BY <1>i, <2>2, ExecutionFacts DEF CancelInLoop
    <3>3. /\ row'[j].status # "absent"
          /\ row' = row \/ (pc[j] = "marking" /\ row'[j].stage # None)
          /\ \A k \in Job \ {j} : row'[k] = row[k]
      <4>1. current[j] # None
        BY <1>i, <3>1, NoneIsNull DEF LoopInv
      <4> QED BY <1>l, <1>t, <3>1, <4>1 DEF UpdateRow, Row
    <3>4. Apart(j) /\ pc'[j] = "ending" /\ verdict'[j].status = "cancelled"
      BY <1>i, <3>1, <3>2, <3>3, CancelledApart DEF Apart
    <3>5. pc[j] = "preparing" => InImport(j) /\ InImport(j)'
      BY <2>o, <3>1, <3>4 DEF Owned, InImport
    <3>6. Owned(j)'
      BY <1>n, <2>o, <3>1, <3>2, <3>3, <3>4, <3>5 DEF Owned, InImport
    <3> QED BY <3>4, <3>6, OneOwned
  <2> QED BY <1>7, <1>e, <2>1, <2>2
<1>8. ASSUME NEW j \in Job, EndRun(j) \/ StoreFails(j) PROVE OwnedInv'
  <2>o. Owned(j)
    BY <1>o
  <2>1. CASE StoreFails(j)
    <3>1. /\ Apart(j) /\ UNCHANGED <<row, journal, unresolved, current>> /\ faults' # 0
          /\ \/ pc[j] = "marking" /\ pc'[j] = "ending" /\ verdict'[j].status = "failed"
             \/ pc[j] = "ending" /\ pc'[j] = "none" /\ verdict'[j] = verdict[j]
      BY <1>t, <2>1 DEF StoreFails, EndWith, Verdict, Go, Fault, Apart
    <3>2. Owned(j)'
      BY <2>o, <3>1 DEF Owned, InImport
    <3> QED BY <3>1, <3>2, OneOwned
  <2> QED BY <1>8, <1>e, <2>1
<1>9. ASSUME NEW j \in Job, RecoveryStep(j) PROVE OwnedInv'
  <2>o. Owned(j)
    BY <1>o
  <2>1. CASE RecoverRow(j)
    <3>1. /\ Apart(j) /\ UNCHANGED <<journal, unresolved, pc, current, verdict, mode, faults>>
          /\ row'[j].stage = row[j].stage /\ row'[j].status = "failed"
          /\ row[j].status # "absent"
      BY <1>t, <2>1 DEF RecoverRow, UpdateRow, Row, Apart, Orphans, Live
    <3>2. Owned(j)'
      BY <2>o, <3>1 DEF Owned, InImport, Live
    <3> QED BY <3>1, <3>2, OneOwned
  <2>2. CASE RecordInterruption(j)
    <3>1. Apart(j) /\ UNCHANGED <<row, journal, unresolved, pc, current, verdict, mode, faults>>
      BY <2>2 DEF RecordInterruption, Apart
    <3>2. Owned(j)'
      BY <2>o, <3>1 DEF Owned, InImport, Isolated
    <3> QED BY <3>1, <3>2, OneOwned
  <2> QED BY <1>9, <2>1, <2>2 DEF RecoveryStep
\* Reading the receipts again acknowledges some; it lists those that are not settled.
<1>u. ASSUME NEW failing \in SUBSET Journal!Terminals, Journal!Scan(failing), NEW k \in Job
      PROVE  /\ journal'[k] = journal[k] \/ (journal[k] = "terminal" /\ journal'[k] = "settled")
             /\ k \in unresolved' => journal[k] \in {"partial", "pending", "terminal", "spoiled"}
  BY <1>t, <1>u DEF Journal!Scan, Journal!Terminals
<1>10. ASSUME NEW j \in Job, Reconcile(j) PROVE OwnedInv'
  <2>1. /\ UNCHANGED <<pc, current, verdict, cancelled, mode>> /\ (faults' = 0 => faults = 0)
        /\ Tasks = {} /\ mode = "serving"
    BY <1>t, <1>10 DEF Reconcile, Unpublished, Fault, NoFault
  <2>s. PICK failing \in SUBSET Journal!Terminals : Journal!Scan(failing)
    BY <1>10 DEF Reconcile, Journal!Reconcile
  <2>2. ASSUME NEW k \in Job PROVE Owned(k)'
    <3>1. /\ row'[k].stage = row[k].stage
          /\ row'[k] = row[k] \/ row'[k].status = "failed"
      BY <1>10, <1>t DEF Reconcile, UpdateRow, Row
    <3>a. row'[k].status = "absent" => row[k].status = "absent"
      BY <3>1
    <3>2. /\ journal'[k] = journal[k] \/ (journal[k] = "terminal" /\ journal'[k] = "settled")
          /\ k \in unresolved' => journal[k] \in {"partial", "pending", "terminal", "spoiled"}
      BY <1>u, <2>s
    <3>3. Owned(k)
      BY <1>o
    <3>4. pc[k] = "none" \/ pc[k] \in Submitting
      BY <1>t, <2>1 DEF Tasks
    <3>5. pc[k] \in Submitting => journal[k] = "clear"
      BY <3>3 DEF Owned
    <3> QED BY <2>1, <3>1, <3>a, <3>2, <3>3, <3>4, <3>5 DEF Owned, InImport, Isolated, Live
  <2> QED BY <2>1, <2>2 DEF OwnedInv
<1>11. ASSUME CancelAll \/ OtherSeals \/ Exit \/ Crash PROVE OwnedInv'
  <2>1. CASE CancelAll
    BY <1>o, <2>1 DEF CancelAll, OwnedInv, Owned, InImport, Isolated
  <2>2. CASE OtherSeals
    <3>1. UNCHANGED <<row, local, mode, faults, journal, unresolved>>
      BY <2>2 DEF OtherSeals, Journal!OtherSeals
    <3> QED BY <1>o, <3>1 DEF OwnedInv, Owned, InImport, Isolated
  <2>3. CASE Forget
    <3>1. /\ mode' = "down" /\ cancelled' = {} /\ UNCHANGED row /\ unresolved' = {}
          /\ \A k \in Job : /\ pc'[k] = "none" /\ verdict'[k].status = "failed"
                            /\ journal'[k] = journal[k] \/ (pc[k] \in Executing /\ journal'[k] = "partial")
      BY <1>t, <2>3, Places DEF Forget, Journal!Stop, Journal!Torn, Unstarted, Verdict
    <3>2. ASSUME NEW k \in Job PROVE Owned(k)'
      <4>1. Owned(k)
        BY <1>o
      <4>2. InImport(k) => InImport(k)'
        BY <3>1 DEF InImport
      <4>3. pc[k] \in Executing => InImport(k) /\ row[k].stage # None /\ k \in Native
        BY <1>n, <4>1 DEF Owned, InImport
      <4> HIDE DEF Executing
      <4> QED BY <3>1, <4>1, <4>2, <4>3 DEF Owned, Executing
    <3> QED BY <3>1, <3>2 DEF OwnedInv
  <2> QED BY <1>11, <2>1, <2>2, <2>3 DEF Exit, Crash
<1>12. ASSUME Restart \/ Serve \/ ServeUnrecovered PROVE OwnedInv'
  <2>0. /\ UNCHANGED <<pc, current, verdict, cancelled, row>>
        /\ mode # "stopping"
    BY <1>12 DEF Restart, Serve, ServeUnrecovered
  <2>1. cancelled' = {}
    BY <2>0 DEF OwnedInv
  <2>2. CASE Restart
    <3>s. PICK failing \in SUBSET Journal!Terminals : Journal!Scan(failing)
      BY <2>2 DEF Restart, Journal!Restart
    <3>1. ASSUME NEW k \in Job PROVE Owned(k)'
      <4>1. pc[k] = "none" /\ mode' = "recovering"
        BY <1>i, <2>2 DEF Restart, ActiveInv
      <4>2. /\ journal'[k] = journal[k] \/ (journal[k] = "terminal" /\ journal'[k] = "settled")
            /\ k \in unresolved' => journal[k] \in {"partial", "pending", "terminal", "spoiled"}
        BY <1>u, <3>s
      <4>3. Owned(k)
        BY <1>o
      <4> QED BY <2>0, <4>1, <4>2, <4>3 DEF Owned, InImport
    <3> QED BY <2>1, <3>1 DEF OwnedInv
  <2>3. CASE Serve
    <3>1. UNCHANGED <<journal, unresolved>> /\ \A k \in Job : row[k].status \in Live => k \in unresolved
      BY <2>3 DEF Serve, Orphans
    <3>2. ASSUME NEW k \in Job PROVE Owned(k)'
      BY <1>o, <2>0, <3>1 DEF Owned, InImport, Isolated
    <3> QED BY <2>1, <3>2 DEF OwnedInv
  <2>4. CASE ServeUnrecovered
    <3>1. UNCHANGED <<journal, unresolved>> /\ faults' # 0
      BY <1>t, <2>4 DEF ServeUnrecovered, Fault
    <3>2. ASSUME NEW k \in Job PROVE Owned(k)'
      BY <1>o, <2>0, <3>1 DEF Owned, InImport
    <3> QED BY <2>1, <3>2 DEF OwnedInv
  <2> QED BY <1>12, <2>2, <2>3, <2>4
<1>13. ASSUME UNCHANGED vars PROVE OwnedInv'
  BY <1>o, <1>13 DEF vars, OwnedInv, Owned, InImport, Isolated
<1> HIDE DEF OwnedInv, IInv
<1> QED BY <1>1, <1>2, <1>3, <1>4, <1>5, <1>6, <1>7, <1>8, <1>9, <1>10, <1>11, <1>12, <1>13, NextCases, Zenon

\* In a process that recovered and met no store error, a QUEUED or RUNNING job has
\* its coroutine, or is left unconfirmed for status() to settle, or is an isolated
\* native revision: recover_interrupted leaves no other behind, and the finally
\* clause of run() and the reconciliation lose none.
THEOREM NoJobIsLost == Spec => []LiveJobsAreOwned
<1>1. Init => OwnedInv
  <2> SUFFICES ASSUME Init PROVE OwnedInv
    OBVIOUS
  <2>1. \A j \in Job : /\ row[j] = Row("absent", None, None) /\ pc[j] = "none"
                       /\ journal[j] = "clear" /\ verdict[j] = Unstarted
    BY DEF Init, Journal!Init
  <2>2. mode = "down" /\ unresolved = {} /\ cancelled = {}
    BY DEF Init, Journal!Init
  <2> QED BY <2>1, <2>2 DEF OwnedInv, Owned, Row, Unstarted, Verdict, Executing
<1>2. OwnedInv => LiveJobsAreOwned
  BY DEF OwnedInv, Owned, LiveJobsAreOwned
<1> QED BY <1>1, <1>2, OwnedStep, Invariance, PTL DEF Spec


-----------------------------------------------------------------------------
(* The lease *)

\* The holder of the lease is inside a stage; a native run that prepares or has
\* dispatched its program, and a stage that works under the lease, hold it.
HolderInv ==
    /\ holder # None => pc[holder] \in InLease
    /\ \A j \in Job : pc[j] \in Executing => holder = j /\ current[j] = "import"
    /\ \A j \in Job : pc[j] = "working" /\ current[j] \in Leased => holder = j

\* What a step of job j may do with the lease: nothing; enter it; or, holding it,
\* seal it or leave it.  Afterwards j is where its hold says it is.
Kept(j) ==
    /\ mode' = mode
    /\ \A k \in Job \ {j} : pc'[k] = pc[k] /\ current'[k] = current[k]
    /\ pc'[j] \in Executing => holder' = j /\ current'[j] = "import"
    /\ pc'[j] = "working" /\ current'[j] \in Leased => holder' = j
    /\ holder' = j => pc'[j] \in InLease
    /\ \/ holder' = holder /\ Sealed' = Sealed
       \/ holder = None /\ ~Sealed /\ holder' = j /\ Sealed' = Sealed
       \/ holder = j /\ holder' = None
       \/ holder = j /\ holder' = j /\ Sealed'

Uses == mode' # "down" => IF mode # "down" THEN [Lease!Next]_(Lease!vars) ELSE (Lease!Init)'

LEMMA KeptUses ==
    ASSUME TypeOK, HolderInv, NEW j \in Job, Kept(j)
    PROVE  HolderInv' /\ Uses
<1>0. /\ None \notin Job /\ holder \in Job \union {None} /\ mode' = mode
      /\ \A k \in Job \ {j} : pc'[k] = pc[k] /\ current'[k] = current[k]
  BY PipelineAssumption DEF Kept, TypeOK
<1>1. holder' = holder \/ holder' = j \/ (holder = j /\ holder' = None)
  BY DEF Kept
<1>2. HolderInv'
  <2>1. holder' # None => pc'[holder'] \in InLease
    <3>1. CASE holder' = j
      BY <3>1 DEF Kept
    <3>2. CASE holder' # j /\ holder' = holder
      BY <1>0, <3>2 DEF HolderInv
    <3> QED BY <1>1, <3>1, <3>2
  <2>2. ASSUME NEW k \in Job
        PROVE  /\ pc'[k] \in Executing => holder' = k /\ current'[k] = "import"
               /\ pc'[k] = "working" /\ current'[k] \in Leased => holder' = k
    <3>1. CASE k = j
      BY <3>1 DEF Kept
    <3>2. CASE k # j
      <4>1. holder = k => holder' = k
        BY <1>0, <3>2 DEF Kept
      <4> QED BY <1>0, <3>2, <4>1 DEF HolderInv
    <3> QED BY <3>1, <3>2
  <2> QED BY <2>1, <2>2 DEF HolderInv
<1>3. [Lease!Next]_(Lease!vars)
  <2>1. CASE holder' = holder /\ Sealed' = Sealed
    BY <2>1 DEF Lease!vars
  <2>2. CASE holder = None /\ ~Sealed /\ holder' = j /\ Sealed' = Sealed
    BY <2>2 DEF Lease!Next, Lease!Enter
  <2>3. CASE holder = j /\ holder' = None
    <3>1. CASE Sealed' = Sealed \/ Sealed' = TRUE
      BY <2>3, <3>1 DEF Lease!Next, Lease!Leave
    <3>2. CASE Sealed /\ Sealed' = FALSE
      BY <2>3, <3>2 DEF Lease!Next, Lease!LeaveProven
    <3> QED BY <3>1, <3>2 DEF Sealed
  <2>4. CASE holder = j /\ holder' = j /\ Sealed'
    <3>1. Sealed' = TRUE
      BY <2>4 DEF Sealed
    <3> QED BY <2>4, <3>1 DEF Lease!Next, Lease!Seal
  <2> QED BY <2>1, <2>2, <2>3, <2>4 DEF Kept
<1> QED BY <1>0, <1>2, <1>3 DEF Uses

LEMMA HolderStep == IInv /\ HolderInv /\ [Next]_vars => HolderInv' /\ Uses
<1> DEFINE Goal == HolderInv' /\ Uses
<1> SUFFICES ASSUME IInv, HolderInv, [Next]_vars PROVE Goal
  OBVIOUS
<1>i. TypeOK /\ LoopInv /\ ActiveInv
  BY DEF IInv
<1>t. /\ pc \in [Job -> {"none"} \union Submitting \union Running]
      /\ current \in [Job -> Stage \union {None}]
      /\ holder \in Job \union {None} /\ None \notin Job
  BY <1>i, PipelineAssumption DEF TypeOK
<1>k. ASSUME NEW j \in Job, Kept(j) PROVE Goal
  BY <1>i, <1>k, KeptUses
\* Outside a stage j does not hold the lease.
<1>o. \A j \in Job : pc[j] \notin InLease => holder # j
  BY <1>t DEF HolderInv
<1>s. ASSUME UNCHANGED <<pc, current, holder, seal>>, mode # "down" \/ mode' = mode PROVE Goal
  BY <1>s DEF HolderInv, Uses, Lease!vars, Sealed
<1> HIDE DEF Goal
<1> USE DEF durable, engine, local, runner, Executing
\* Steps outside the stages.
<1>n. ASSUME NEW j \in Job, pc[j] \notin InLease, UNCHANGED <<mode, holder, seal>>,
             \A k \in Job \ {j} : pc'[k] = pc[k] /\ current'[k] = current[k],
             pc'[j] \notin Executing,
             pc'[j] = "working" => current'[j] \notin Leased
      PROVE  Goal
  BY <1>n, <1>o, <1>k DEF Kept, Sealed
\* Steps out of a stage: only a run that holds the lease touches its seal.
<1>r. ASSUME NEW j \in Job, Release(j), UNCHANGED mode, holder = j \/ UNCHANGED seal,
             \A k \in Job \ {j} : pc'[k] = pc[k] /\ current'[k] = current[k],
             pc'[j] \notin Executing,
             pc'[j] = "working" => current'[j] \notin Leased
      PROVE  Goal
  <2>1. holder' = (IF holder = j THEN None ELSE holder) /\ j # None
    BY <1>r, <1>t DEF Release
  <2> QED BY <1>r, <2>1, <1>k DEF Kept, Sealed
<1>1. ASSUME NEW j \in Job, SubmitStep(j) PROVE Goal
  <2>1. pc[j] \in {"none", "creating", "refusing"} /\ UNCHANGED <<mode, holder, seal, current>>
    <3>1. Submit(j) => pc[j] = "none"
      BY <1>i, <1>t DEF Submit, ActiveInv, Live
    <3> QED BY <1>1, <3>1
            DEF SubmitStep, Submit, Refuse, Schedule, ScheduleFails, Abandon, Submitting
  <2>2. /\ \A k \in Job \ {j} : pc'[k] = pc[k]
        /\ pc'[j] \notin Executing /\ pc'[j] # "working"
    BY <1>1, <1>t DEF SubmitStep, Submit, Refuse, Schedule, ScheduleFails, Abandon, Go
  <2> QED BY <2>1, <2>2, <1>n DEF InLease
<1>2. ASSUME NEW j \in Job, Begin(j) \/ Load(j) \/ Mark(j) \/ Enter(j) PROVE Goal
  <2>1. CASE Enter(j)
    <3>1. UNCHANGED seal
      BY <1>i, <2>1, ExecutionFacts DEF Enter
    <3>2. Kept(j)
      BY <1>t, <2>1, <3>1 DEF Enter, Go, Kept, InLease, Sealed
    <3> QED BY <3>2, <1>k
  <2>2. CASE Begin(j) \/ Load(j)
    <3>1. pc[j] \in {"ready", "loading"} /\ UNCHANGED <<mode, holder, seal>>
      BY <2>2 DEF Begin, Load
    <3>2. /\ \A k \in Job \ {j} : pc'[k] = pc[k] /\ current'[k] = current[k]
          /\ pc'[j] \notin Executing /\ pc'[j] # "working"
      BY <1>t, <2>2 DEF Begin, Load, EndWith, Go
    <3> QED BY <3>1, <3>2, <1>n DEF InLease
  <2>3. CASE Mark(j)
    <3>1. /\ pc[j] = "marking" /\ UNCHANGED <<mode, holder, seal, current>>
          /\ pc' = [pc EXCEPT ![j] = IF NeedsLease(j) THEN "queued" ELSE "working"]
      BY <2>3 DEF Mark, Go
    <3>2. /\ \A k \in Job \ {j} : pc'[k] = pc[k]
          /\ pc'[j] = (IF NeedsLease(j) THEN "queued" ELSE "working")
      BY <1>t, <3>1
    <3>3. pc'[j] = "working" => current[j] \notin Leased
      BY <3>2 DEF NeedsLease
    <3> QED BY <3>1, <3>2, <3>3, <1>n DEF InLease
  <2> QED BY <1>2, <2>1, <2>2, <2>3
<1>3. ASSUME NEW j \in Job, StageEnds(j) \/ StageRefused(j) PROVE Goal
  <2>1. PICK o \in {"passed", "failed"} : Reported(j, o)
    BY <1>3 DEF StageEnds, StageRefused
  <2>2. current[j] \in Stage
    BY <1>i, <1>3 DEF StageEnds, StageRefused, LoopInv, InLease
  <2>3. Release(j) /\ UNCHANGED mode
    BY <1>3 DEF StageEnds, StageRefused
  <2>4. /\ \A k \in Job \ {j} : pc'[k] = pc[k] /\ current'[k] = current[k]
        /\ pc'[j] \in {"marking", "ending"}
    BY <1>i, <2>1, <2>2, ReportedApart
  <2>5. UNCHANGED seal
    BY <1>i, <1>3, ExecutionFacts DEF StageEnds, StageRefused
  <2> QED BY <2>3, <2>4, <2>5, <1>r
<1>4. ASSUME NEW j \in Job, Dispatch(j) \/ Behind(j) PROVE Goal
  <2>1. CASE Dispatch(j)
    <3>1. holder = j /\ current[j] = "import"
      BY <2>1 DEF Dispatch, HolderInv
    <3>2. UNCHANGED seal
      BY <1>i, <2>1, ExecutionFacts DEF Dispatch
    <3>3. Kept(j)
      BY <1>t, <2>1, <3>1, <3>2 DEF Dispatch, Go, Kept, InLease, Sealed
    <3> QED BY <3>3, <1>k
  <2>2. CASE Behind(j)
    <3>1. UNCHANGED <<pc, current, holder, mode>>
      BY <2>2 DEF Behind
    <3>2. seal' = seal \/ (pc[j] = "dispatched" /\ seal' = "runner")
      BY <1>i, <2>2, ExecutionFacts DEF Behind
    <3>3. CASE seal' = seal
      BY <3>1, <3>3, <1>s
    <3>4. CASE pc[j] = "dispatched" /\ seal' = "runner"
      <4>1. holder = j /\ current[j] = "import"
        BY <3>4 DEF HolderInv
      <4> QED BY <3>1, <3>4, <4>1, <1>k DEF Kept, InLease, Sealed
    <3> QED BY <3>2, <3>3, <3>4
  <2> QED BY <1>4, <2>1, <2>2
<1>5. ASSUME NEW j \in Job, NativeReturns(j) PROVE Goal
  <2>1. Release(j) /\ UNCHANGED mode /\ pc[j] = "dispatched"
    BY <1>5 DEF NativeReturns
  <2>2. holder = j /\ current[j] = "import"
    BY <2>1 DEF HolderInv
  <2>3. /\ \A k \in Job \ {j} : pc'[k] = pc[k] /\ current'[k] = current[k]
        /\ pc'[j] \in {"working", "marking", "ending"}
        /\ pc'[j] = "working" => current'[j] \notin Leased
    <3>1. CASE Go(j, "working") /\ UNCHANGED current
      BY <1>t, <2>2, <3>1 DEF Go, Leased
    <3>2. CASE Reported(j, "failed")
      <4>1. current[j] \in Stage
        BY <2>2, StageFacts
      <4> QED BY <1>i, <3>2, <4>1, ReportedApart
    <3>3. CASE RecordCancelled(j) /\ UNCHANGED current
      BY <1>i, <3>3, CancelledApart
    <3> QED BY <1>5, <3>1, <3>2, <3>3 DEF NativeReturns
  <2> QED BY <2>1, <2>2, <2>3, <1>r
<1>6. ASSUME NEW j \in Job, NativeDoubt(j) \/ SuiteInDoubt(j) PROVE Goal
  <2>1. Release(j) /\ UNCHANGED <<mode, current>>
    BY <1>6 DEF NativeDoubt, SuiteInDoubt
  <2>2. holder = j
    BY <1>6 DEF NativeDoubt, SuiteInDoubt, HolderInv, Leased
  <2>3. (\A k \in Job \ {j} : pc'[k] = pc[k]) /\ pc'[j] = "ending"
    BY <1>t, <1>6 DEF NativeDoubt, SuiteInDoubt, LeaveUnconfirmed, EndWith, Go
  <2> QED BY <2>1, <2>2, <2>3, <1>r
<1>7. ASSUME NEW j \in Job, CancelEarly(j) \/ CancelInLoop(j) \/ CancelAtEnd(j) PROVE Goal
  <2>1. CASE CancelInLoop(j)
    <3>1. Release(j) /\ UNCHANGED <<mode, current>> /\ RecordCancelled(j)
      BY <2>1 DEF CancelInLoop
    <3>2. holder = j \/ UNCHANGED seal
      <4>1. CASE UNCHANGED runner \/ Journal!Refuse(j)
        BY <1>i, <4>1, ExecutionFacts
      <4>2. CASE pc[j] = "working" /\ current[j] = "mechanism"
        BY <4>2 DEF HolderInv, Leased
      <4> QED BY <2>1, <4>1, <4>2 DEF CancelInLoop
    <3>3. (\A k \in Job \ {j} : pc'[k] = pc[k]) /\ pc'[j] = "ending"
      BY <1>i, <3>1, CancelledApart
    <3> QED BY <3>1, <3>2, <3>3, <1>r
  <2>2. CASE CancelEarly(j) \/ CancelAtEnd(j)
    <3>1. /\ pc[j] \in {"ready", "loading", "ending"} /\ UNCHANGED <<mode, holder, seal, current>>
          /\ pc'[j] = "none" /\ \A k \in Job \ {j} : pc'[k] = pc[k]
      BY <1>t, <2>2 DEF CancelEarly, CancelAtEnd, Go
    <3> QED BY <3>1, <1>n DEF InLease
  <2> QED BY <1>7, <2>1, <2>2
<1>8. ASSUME NEW j \in Job, EndRun(j) \/ StoreFails(j) PROVE Goal
  <2>1. /\ pc[j] \in {"marking", "ending"} /\ UNCHANGED <<mode, holder, seal, current>>
        /\ pc'[j] \in {"none", "ending"} /\ \A k \in Job \ {j} : pc'[k] = pc[k]
    BY <1>t, <1>8 DEF EndRun, StoreFails, EndWith, Go
  <2> QED BY <2>1, <1>n DEF InLease
<1>9. ASSUME NEW j \in Job, RecoveryStep(j) PROVE Goal
  BY <1>9, <1>s DEF RecoveryStep, RecoverRow, RecordInterruption
<1>10. ASSUME NEW j \in Job, Reconcile(j) PROVE Goal
  <2>1. UNCHANGED <<pc, current, holder, mode>> /\ Tasks = {}
    BY <1>10 DEF Reconcile
  <2>2. holder = None
    BY <1>t, <2>1 DEF Tasks, HolderInv, Running
  <2>3. HolderInv'
    BY <2>1 DEF HolderInv
  <2>4. [Lease!Next]_(Lease!vars)
    <3>1. CASE Sealed' = Sealed
      BY <2>1, <3>1 DEF Lease!vars
    <3>2. CASE Sealed /\ Sealed' = FALSE
      BY <2>1, <3>2 DEF Lease!Next, Lease!Unseal
    <3>3. CASE Sealed' = TRUE
      BY <2>1, <2>2, <3>3 DEF Lease!Next, Lease!Restore
    <3> QED BY <3>1, <3>2, <3>3 DEF Sealed
  <2> QED BY <2>1, <2>3, <2>4 DEF Uses, Goal
<1>11. ASSUME CancelAll \/ OtherSeals \/ Exit \/ Crash PROVE Goal
  <2>1. CASE CancelAll
    BY <2>1, <1>s DEF CancelAll
  <2>2. CASE Forget
    <3>1. HolderInv'
      BY <2>2 DEF Forget, HolderInv
    <3> QED BY <2>2, <3>1 DEF Forget, Uses, Goal
  <2>3. CASE OtherSeals
    <3>1. UNCHANGED <<pc, current, holder, mode>> /\ holder = None
      BY <2>3 DEF OtherSeals
    <3>2. HolderInv'
      BY <3>1 DEF HolderInv
    <3>3. Sealed' = TRUE
      BY <2>3 DEF OtherSeals, Journal!OtherSeals, Sealed
    <3>4. Lease!Next
      BY <3>1, <3>3 DEF Lease!Next, Lease!Restore
    <3> QED BY <3>1, <3>2, <3>4 DEF Uses, Goal
  <2> QED BY <1>11, <2>1, <2>2, <2>3 DEF Exit, Crash
<1>12. ASSUME Restart \/ Serve \/ ServeUnrecovered PROVE Goal
  <2>1. CASE Restart
    <3>1. UNCHANGED <<pc, current, holder>> /\ mode = "down"
      BY <2>1 DEF Restart
    <3>2. holder' = None
      BY <1>i, <1>t, <3>1 DEF ActiveInv, HolderInv, InLease
    <3>3. (Lease!Init)'
      BY <3>2 DEF Lease!Init, Sealed
    <3>4. HolderInv'
      BY <3>1 DEF HolderInv
    <3> QED BY <3>1, <3>3, <3>4 DEF Uses, Goal
  <2>2. CASE Serve \/ ServeUnrecovered
    BY <2>2, <1>s DEF Serve, ServeUnrecovered
  <2> QED BY <1>12, <2>1, <2>2
<1>13. ASSUME UNCHANGED vars PROVE Goal
  BY <1>13, <1>s DEF vars
<1> HIDE DEF HolderInv, IInv
<1> QED BY <1>1, <1>2, <1>3, <1>4, <1>5, <1>6, <1>7, <1>8, <1>9, <1>10, <1>11, <1>12, <1>13, NextCases, Zenon

\* Runs enter, leave and seal Blender as EngineOwnership, and with it BlenderLease,
\* allows, in every life of the process: no two stages of any jobs share Blender.
THEOREM LeaseUsed == Spec => UsesLease
<1>1. Init => HolderInv
  BY DEF Init, HolderInv, Executing
<1>2. IInv /\ HolderInv /\ [Next]_vars => HolderInv' /\ [Uses]_vars
  BY HolderStep
<1> QED BY <1>1, <1>2, Invariance, PTL DEF Spec, UsesLease, Uses

\* What the pipeline does to the native runner is what NativeJournal, the contract
\* NativeExecution implements, allows: whatever a run, its cancellation, a crash,
\* startup recovery and a client do, they meet the runner where the contract has it.
THEOREM UsesJournal == Spec => Journal!Spec
<1>1. Init => Journal!Init
  <2>1. ASSUME Init PROVE At = [j \in Job |-> "out"] /\ (mode # "down") = FALSE
    BY <2>1 DEF Init, At, Executing
  <2> QED BY <2>1 DEF Init, Journal!Init
<1>2. IInv /\ [Next]_vars => [Journal!Next]_(Journal!vars)
  BY JournalStep DEF IInv
<1> QED BY <1>1, <1>2, Invariance, PTL DEF Spec, Journal!Spec
=============================================================================
