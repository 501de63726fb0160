# A TLA+ development for blender-mcp-studio

blender-mcp-studio is one API process (FastAPI, WebSocket and an MCP server) in front of one Blender and one slicer. Remote
models and people drive the same scene at the same time, long design runs own it for minutes, Blender is another process that
keeps executing what it was sent whatever becomes of the sender, and everybody can be cancelled, time out, crash or be
restarted. The code answers this with a lease, durable receipts, two stores that are never written together, and a strict rule
that *unknown is not failed*. This directory specifies those mechanisms in TLA+, model-checks them with TLC and proves the
safety properties with TLAPS.

Paths below are relative to the repository; `core/` and `adapters/` stand for `src/core/` and `src/adapters/`.

## 1. Inventory of the system

| Component | State it keeps | Operations | Interacts with | What is hard |
|---|---|---|---|---|
| Blender lease (`core/use_cases/blender_lease.py`, `adapters/mcp/leased_blender.py`, `adapters/mcp_server/errors.py`) | asyncio.Lock, `_waiting`, `_holder`, `_owner`, `_recovery_ticket` | `hold` (queues), `try_hold` (refuses), `command` (re-enters for the owner), `quarantine`, `restore_quarantine`, `resolve_quarantine`, `run_to_completion` | every task that mutates the scene or slices | a woken waiter is cancelled or overtaken; a seal set during a wait; a cancellation during a drain |
| Socket client and add-on (`adapters/mcp/blender_mcp_adapter.py`, `blender_addon/addon.py`) | reader, writer, lock; one handler thread per connection, timers on Blender's main thread | `send_command`, redial, disconnect; receive, execute, reply, stop, start | lease above, Blender's main thread below | no request ids, late replies, late binding in the add-on, timers in no order, EOF after the write |
| Design pipeline (`core/use_cases/design_pipeline.py`, `design_reports.py`, `api/main.py`) | one SQLite row per job, one `report.json` per run, a task table | `submit`, `run`, `cancel_all`, `status`, `recover_interrupted` | lease, stages, native revision | two stores, each written at its own await; cancellation at every await; crash and recovery; a verdict that arrives late |
| Native revision (`adapters/generation/native_runner.py`, `adapters/artifacts/native_execution.py`, `scripts/native_revision_execution.py`) | immutable receipts (`pending`, `started`, `terminal`, `ack`, maintenance reset), `_owned_ticket`, `_unresolved_run_ids` | `execute`, callback, `recover`, `reconcile`, reset | lease, socket, pipeline, Blender | the callback outlives the server; receipts can be torn, altered or impossible to write |
| Native snapshot (`adapters/artifacts/native_staging.py`, `native_source.py`, `native_product.py`) | a directory per run, receipt or failure note | `stage`, `_copy`, `_receipt`, `_failure` | artifact roots changed by others | source changing during the copy, cancellation during it |
| Scoped script authority (`adapters/security/request_script_authority.py`) | one permit in a context variable | `scope`, `timeout_for` | native runner, sandbox | copied contexts and child tasks |
| Chat (`api/routers/chat.py`, `adapters/session/sqlite_session_store.py`) | one row per session, written whole | a turn: load, append, ask the model, execute, save | leased port, WebSocket | two sockets of one session; load and save around a long await |
| Broadcast (`api/routers/ws_manager.py`) | set of sockets | register, unregister, broadcast, viewport loop | socket (reading) | little: changes only between awaits |
| Scene snapshots (`api/routers/snapshots.py`, `adapters/snapshot/`) | `.blend` files and rows | save, list, restore, delete | leased port | file and row written apart |
| Slicer (`adapters/slicing/`) | output directory of a run | `slice`, toolpath inspection | lease | a subprocess outliving its caller |
| Conversation, refinement, YAML pipelines, verification, MCP and REST tools | local to a request | sequential loops | leased port, models | refused or uncertain commands |
| Geometry, planning, generators; provider adapters; launchd files | none | pure functions, external services | - | - |
| Web studio (`web/src`) | browser stores | composer and chat socket, export gate, undo, bounded operation history | REST, WebSocket | inspections that overlap a change of scene or options; history full of running operations |

What makes each correct, as it is stated here: the lease admits one owner in order and stays sealed while a command may still
run; the socket gives a caller its own reply and never runs a command twice; a row and its report agree whatever happens between
them and a job in doubt gets no verdict; Blender stays sealed until each callback has proven that it restored the scene; a
receipt for a copied source describes the bytes that were verified; a permit serves its owner inside its own scope only; what
the G-code reader believes to know is where the head is; an answered chat turn stays in the session; a snapshot can be restored
as long as it is listed; a download is offered for what was measured.

## 2. Modules

| Module | Models | Abstract specification it is shown to implement |
|---|---|---|
| `BlenderLease` | lease, asyncio.Lock, mutation boundary, slicer drain | `EngineOwnership` (one user, sealed in doubt) |
| `BlenderSocket` | client, TCP connections, handler threads, main thread | `CommandChannel` (a remote call with at most one effect) |
| `LeasedSocket` | `BlenderSocket` under the lease, which grants and seals as `EngineOwnership` does | `BlenderSocket`, `CommandChannel`, `EngineOwnership` |
| `NativeJournal` | what the pipeline may count on from the native runner: which executions are proven, who is inside, who sealed Blender | - |
| `DesignPipeline` | job rows, reports, run, recovery, shutdown; built on `NativeJournal` | `NativeJournal`; `EngineOwnership` (in each life of the server) |
| `NativeExecution` | runner, receipts, callback, restart, reconciliation, reset | `NativeJournal`; `EngineOwnership` (in each life of the server) |
| `NativeStaging` | the copy of a native source into a run's directory and its receipt | - |
| `Toolpath` | the modal G-code reader, the inspection of its paths, and the machine that executes the same lines | - |
| `ScriptAuthority` | permits in context variables | - |
| `ChatSession` | a tab's composer and socket, the `/ws/chat` handler, a refinement beside it, the session's row | - |
| `SceneSnapshots` | `.blend` files and their rows | - |
| `StudioPanel` | export gate, undo, operation history | - |
| `StudioScene` | the scene and `sceneRefreshTick`, which the last three share | - |
| `Studio` | the composition of the last four: every interleaving of them over one scene | - |
| `*Proofs` | theorems of the module they EXTEND | |
| `MC*`, `Studio.cfg` and the other `*.cfg` | finite instances; `MCEvidence` puts three independent parts in one run | |

The composition is by abstraction. `BlenderLease` proves what `EngineOwnership` says; the lease of `LeasedSocket` grants and
seals by these rules, so its results do not depend on the queue. That they are enough is a result of its own: what the lease
knows of is callers, and `LeasedSocket` shows that the mutation Blender is really occupied with (`Occupant`: under way in a
stream, a timer, the main thread or its caller) keeps to `EngineOwnership` too. `DesignPipeline` and `NativeExecution` see the
lease as a holder and a seal of their own; that neither does with them what `EngineOwnership` forbids is proved (`UsesLease`:
from start to crash of one server every step maps to a step or a stutter, and each start to an initial state).

`DesignPipeline` and `NativeExecution` meet in `NativeJournal`. In it the directory of a run is clear, partial, pending,
terminal, settled or spoiled, an execution is preparing, dispatched or out, and a seal is the runner's or another's.
`NativeExecution` implements it (`KeepsJournal`: a refinement mapping from receipts, tickets and callbacks); every action of
`DesignPipeline` that meets the runner conjoins the contract's step, and the whole of it is shown to do nothing else with the
runner (`UsesJournal`). So a seal, a late receipt, an altered output or an acknowledgement that cannot be published reaches the
pipeline exactly when the runner can produce it. The parts of `Studio` share variables: each says of the scene and the tick what
its step does to them, and leaves the others' variables alone.

### Correspondence with the code

A step is the code of one task between two awaits, because asyncio switches nowhere else; threads, Blender and the network step
independently. Guards are the code's tests and early returns. A refused call changes nothing and is not a step. The cancellation
of a task is delivered at its next await, which is why most waiting places have a cancelled variant. Operators that carry a
mutation of an action (`...Twice`, `...Skipped`, `...Never`, and others commented "Mutant") belong to no specification: they are
used one at a time in place of the action named in their comment, to see a property fail.

`BlenderLease`. `Hold`, `TryHold`, `Command`, `NestedCommand` are the calls up to their first await; `Resume` and
`ResumeCancelled` are what follows the wait in `asyncio.Lock.acquire`, with CPython's rules for waking the first waiter; `Leave`
is the `finally` of `hold`. `CommandReturns`/`CommandInDoubt` end a mutation, `StartSlice`, `SliceCancelled`, `DrainEnds` are
`run_to_completion`. `running` and `ended` are ghosts: the commands Blender may still be executing.

`BlenderSocket`. `Acquire` takes the lock and, on a live connection, writes; `Dial` and `DialFails` are `_redial`; `ReadReply`,
`ReadEof`, `GivesUp` (deadline, cancellation, unusable reply) are the exits of the read loop and `Dropped` is a cancellation
before the write. `Receive`, `LoopAgain` and `HandlerEnds` are `_handle_client`; `bound` is the variable `command` that
`execute_wrapper` looks up when it runs, not when it is registered; `RunTimer` and `Finish` are the main thread, which takes
timers in any order. A handler blocked in `recv` when `stop()` is called still reads one command. Commands and replies are whole
(both ends wait until they can parse); the close of a transport is part of the step that starts it.

`LeasedSocket`. `Mutate` is `command()` granted and `work()` started; `Follow` leaves the lease in the step that ends the call
and seals it when `InDoubt`; `ReadStep` is a tool in `_READ_ONLY`, which needs no lease. `user` is the lease's, `Occupant` is
Blender's.

`DesignPipeline`. `row`, `report` and `files` are the two stores and survive `Crash`; `pc`, `verdict`, `current` are the locals
of `run()`. One action for each await of `submit`, `run`, `_execute`, the `except` and `finally` clauses, `cancel_all`, the two
writes of `recover_interrupted`, and `status` with its reconciliation. A stage is its outcome, or a verification suite in
doubt (`SuiteInDoubt`), which seals the lease and leaves a native run unconfirmed, any other "run interrupted". `journal`,
`unresolved` and `seal` are the contract's: `Behind` is what callbacks, operators and other processes do to receipts, `OtherSeals`
another user's command in doubt. A store or disk error, an acknowledgement that cannot be published among them, can strike at
each write, as often as `MaxFaults` allows in one process.

`NativeJournal`. `Enter`, `Refuse`, `Dispatch`, `Return`, `Doubt`, `Unsent` are the ends of the pieces of
`NativeRunner._execute` as its caller can tell them apart; `Prove`, `Spoil`, `Unobserved` happen out of the caller's sight;
`Restart` and `Reconcile` are `recover_unfinished`, at startup and from `status`, with the acknowledgements that fail.

`NativeExecution`. `files`, `terminal`, `altered` are the directory of a run; `cb` is the callback in Blender; `holder`,
`ticket`, `owned`, `unresolved` are the lease and the runner. One action for each publication and each way it can fail, for the
callback's start and end, for Blender's death, for `Crash`, `Restart`, `Reconcile` and the maintenance reset. The geometry
computed is its terminal status.

`NativeStaging`. A call walks through five passes: it resolves the source against its manifest, makes its directory, copies file
by file, resolves the source again, and verifies the copy before it writes the receipt; a pass reads one file per step (`left`
is what it still has to read, `raw` the manifest it read). `Undo` is the failure note of `stage`; `CancelStage` sets the
caller's cancellation, which `run_to_completion` delivers when the thread has ended. `EditSource` and `EditCopy` are other
processes. `late` is a ghost: the assets of the copy rewritten after the receipt's own pass had read them.

`Toolpath`. One action for each kind of line: comments (`Annotation`), modes, homing, commands of unknown effect (`Opaque`),
`G92` (`SetOrigin`), moves. The reader's `position`, `origin` and `e` are `None` when it does not know; the machine's `place`,
`offset` and `feed` always have a value. `Motion` moves both and inspects the path; `Report` ends the file. `laid` is a ghost:
every deposit of the machine, with whether the reader knew it.

`ScriptAuthority`. `Enter` and `Leave` are `scope`, `Granted` is `timeout_for`; `Spawn` and `Save` copy a context to a child
task and to a saved context, whose programs may ask at any time.

`ChatSession`. `Send`, `OnClose`, `Reconnect`, `Receive` are the tab, `Drop` the network. `Load`, `SaveUser`, `Reply`,
`Dispatch`, `SaveReply`, `Answer` are the handler between its awaits, each with its exception. `Refine`, `Round`, `Finish` are
the HTTP refinement, which loads the same row and saves the whole of it at its end. Ghosts: `acked`, the messages whose turn was
answered as done; `overtaken`, the writers whose copy of the session is older than the row; `lost`, what the save of such a
writer removed; `severed`, that the last turn's connection is gone.

`SceneSnapshots`. A file is named after the second and saved by Blender, its row follows at a later await; a restore reads the
row and then opens the file; a delete removes the row. `meant` is a ghost: the scene that was asked to be saved.

`StudioPanel`. `Inspect` takes options and tick when the request starts, `Measure` is Blender, `Deliver` the answer; inspections
overlap. `undos` are the undo and redo requests in flight, which overlap as well, since nothing disables them; every request has
its record in `operations`, the newest first, cut at the limit.

## 3. Runs

| Run | Instance | Shows |
|---|---|---|
| `lease` | 3 tasks, 2 tickets, 3 cancellations | all safety, refinement of `EngineOwnership`, and that the queue drains |
| `leased_socket` | 2 mutations, 1 reading call, 4 connections, 2 faults | own replies, at most one start of each command, counted, and none after a refusal (refinement of `CommandChannel`), one live mutation, the refinement of `EngineOwnership` by what Blender is really occupied with, and that calls end |
| `pipeline_safety` | two native jobs, 2 crashes, 1 fault per process | no verdict and no open Blender while an execution may run; rows and reports agree, DONE means passed, history is kept |
| `pipeline_liveness` | one imported job, one native, 1 crash, 1 fault per process | jobs settle unless a store failed or a revision is isolated, and the late receipt of an unconfirmed one settles it |
| `native` | 2 revisions and another user, 2 crashes, 2 faults | Blender is sealed until proven, results are proven, queued work is cancelled before it is sent, the refinement of `NativeJournal`, runs end, proof unseals |
| `evidence` | staging with 2 assets, 2 versions, 2 calls, 2 edits, 1 crash; G-code of 4 commands; 3 permits, 2 tasks, 2 saved contexts | nothing is vouched for that was not checked: receipts, verdicts and failure notes, known coordinates, the totals of an inspection, permits |
| `studio` | 4 gestures, a refinement of 2 rounds, 2 snapshots, 2 options, 2 inspections, a history of 2, 1 store failure | answered turns are kept, snapshots can be restored, downloads are measured, the history is true, the composer is freed |
| `pipeline_shutdown`, `pipeline_order`, `pipeline_late_receipt`, `native_unconfirmed`, `toolpath_unknown` | the smallest that reach it | five sentences of the repository that the code does not keep (section 5) |

*Bounds.* Three tasks give a holder, a waiter and a third that arrives while the waiter is woken, refused or cancelled; each
further task repeats one of these roles. Three cancellations reach a waiter, a drain and a second hit on the drain in one
behaviour. Two tickets are needed for a late proof of the first against the seal of the second. On the socket a call needs one
predecessor to inherit from and one successor to disturb, in each order of reading and mutating; four connections are one for
startup and one for each call, so the bound never binds; two faults give a stop followed by a death. Two crashes are a crash and
a crash of the recovery. Two revisions are one in doubt and one that comes after it; a native job goes through every stage an
imported one does, and can do more. Of the pipeline's liveness one crash and one fault give each write that fails, a process that
ends with it, and one that recovers from it; the number of the faults of a process resets with it.

Two calls of a staging are one that owns the directory and one that collides with it; two edits are one before a pass and one
after it. Four G-code commands are enough for a mode or an offset that makes a coordinate unknown or known again, a move under
it and the move that follows; `toolpath_unknown` needs a fifth. Words 0 and 1 on a volume with a wall at 1 give deposits on both
sides of it. Three permits are a scope, a scope nested in it and a child's. Four gestures are, for example, a turn, a refinement
beside it, a lost connection and one more turn, or two inspections around an undo; the history's limit is 2 instead of 5, so
that four operations fill it twice with fewer steps. Every bound is a guard on a fault or a constant set; no guard of the code
is weakened by one.

`CHECK_DEADLOCK FALSE` is given where the system may really stop: every call of the socket has ended, a native server has ended
its runs or stays sealed for an operator, the stagings are over or the file is read (`evidence`), or the user has made the
gestures allowed (`studio`). Symmetry is not used together with liveness.

*Fairness.* The event loop runs a task that can go on (weak fairness on its step); a lock waiter is served when its turn comes
(strong fairness on entering, since others may take the lease in between; asyncio's FIFO queue is modelled in `BlenderLease`,
where weak fairness is enough); timers fire; launchd restarts a process that died (`deploy/launchd`, KeepAlive); a client that
got "running" asks again. Nothing is assumed of Blender: a command may never answer, a callback may never end. Of the studio
only the chat handler's steps and the tab's receiving are fair: the server's and the tab's loops run, and the model answers or
fails within its client's timeout; a lost connection and every gesture may or may not happen. Cancellation is never forced;
`CallsEnd` takes fairness of the call without its cancellations before the write.

## 4. Proofs

Eight modules, all checked to the last leaf, for every number of tasks, commands, connections, jobs, revisions, tickets, files,
permits, lines, gestures, crashes and faults. The assumptions are the named ones of the modules: the tasks of the lease are
finitely many (`LeaseAssumption`), native jobs are jobs and mutations are commands (`PipelineAssumption`, `MutationAssumption`),
`None` and `Fin` are nobody's value (these, `SocketAssumption`, `SceneAssumption`, `NoneIsNull`: no error and no stage is
`None`), and bounds are numbers (these, `ChatAssumption`, `SnapAssumption`); `NativeAssumption`, `StagingAssumption` and
`AuthorityAssumption` say the like of their constants. `ToolpathAssumption` says that the numbers on a line are whole and within
the span, and that at least one object is expected; `PanelAssumption` that the default options are options and that the history
holds at least one record.

Each has one inductive invariant `IInv`, a theorem `Invariance == Spec => []IInv` that splits on the actions of `Next` (lemma
`NextCases`), and corollaries. A second invariant that only one result needs is proved after it, from it.

* `BlenderLeaseProofs`. Mutual exclusion is not inductive: a waiter's future that was woken is a promise of the lock, so
  `QueueInv` ties `waiters`, `ahead` and `fut` (a strict total order, at most its first waiter woken, woken only while the lock
  is free); `OwnerInv` ties `pc`, `owner` and `holder`; `WaitInv` counts; `SlicerInv` and `EngineInv` tie the drain and
  Blender's running commands to the lease. Proved: type correctness, `LeaseExclusive`, `EngineExclusive`, `SlicerInsideLease`,
  `TryNeverQueues`, `WaitCountExact`, the action properties `QuarantineSticks` and `NoOvertaking`, and the refinement of
  `EngineOwnership` (initial states map to initial states, every step to a step or a stutter).
* `LeasedSocketProofs`. Messages carry no id, so `ReplyMatches` rests on where commands can be. `StreamInv` says that a
  connection is empty or has exactly one command under way, which has been sent, is registered, executed or replied to, and it
  says at each of the four places what the streams, timers and main thread look like; `OwnInv` that a command is on one
  connection, read there by its call or left there to nobody. `LockInv` ties the lock to the call that dials or reads, `EndInv`
  an end of stream to who has left, `RunInv` places to the number of times a command was begun. From these: type correctness,
  `ReplyMatches`, and the refinement of `CommandChannel`, in which every start of a command counts: the late binding of
  `command` in the add-on does no harm as long as a connection carries one command. The leased composition implements
  `BlenderSocket` (`IsSocket`), which carries all of this over; `LeaseInv` ties the lease's user to its call and an abandoned
  mutation to the seal, and lets there be one of these; it gives `OneMutationAlive`. The refinement of `EngineOwnership` by
  Blender itself (`KeepsEngine`) needs that no mutation comes to life but by its own call (`NotRevived`), though its caller has
  long gone: a step of a client, a thread or Blender only moves on what is under way or ends it (`OccupantStep`).
* `DesignPipelineProofs`. What a run may believe of its execution is not repeated here: `JournalStep` shows that each step of
  the pipeline is a step or a stutter of `NativeJournal`, `ContractStep` that `NativeJournal`'s own steps keep `JournalInv` (one
  execution at a time; while one is inside no other is in doubt; an execution in doubt is listed, and polled for or sealed off),
  and `UsesJournal` is the first of them as a theorem about behaviours. `DoneMeansPassed` needs to know, at each place in
  `run()`, what the local list of stages and the file have in common (`LoopInv`, `DoneInv`), `NoVerdictInDoubt` needs who may
  have an execution in doubt at that time (`ActiveInv`, `DoubtInv`), and `DoubtIsSealed` is the contract's (`JournalInv`).
  `EvidenceTracksRow` is not inductive: `EvidenceInv` adds to it how far the coroutine is (a run is one stage ahead of its
  report, and until it marks the row the row may name either of the two). Also `HistoryStays`, an action property. After it,
  `OwnedInv` (a native execution is reserved, listed or given up only by a run inside its import stage) proves
  `LiveJobsAreOwned`: in a server that recovered and met no store error, nobody is left out but an unconfirmed job, which waits
  for a client, and an isolated revision (`Isolated`); `HolderInv` (the holder is inside its stage, a native run in flight and a
  stage at work under the lease are the holder) proves `UsesLease`.
* `NativeExecutionProofs`. `SealedUntilProven` looks at memory, disk and Blender at once. `PhaseInv` ties the worker's place to
  its receipts and its callback, `TicketInv` the runner's ticket to the lease's, `EvidenceInv` receipts to each other (an
  acknowledgement implies a terminal, a start implies a reservation), `ProofInv` what a terminal says of the callback. All
  safety properties of the run are proved, with `NativeAlone`, `ForeignSealStays` and `UsesLease` as action properties. The
  refinement of `NativeJournal` needs more (`ReceiptInv`: a seal the runner does not own is another user's, only completed
  terminals have outputs to alter, a terminal that proves nothing came from a callback, and nobody acknowledges a run that is
  still being polled); its proof maps each of the actions to one of the contract's, or to a stutter.
* `NativeStagingProofs` (the invariant is `StagingIInv`). `ReceiptVouches` speaks of a copy that others rewrite at any time.
  `VerifyInv` says what a verifying pass already knows of the files it has come past (captured, or rewritten since), `OwnerInv`
  that one call only has made the directory and who that is at each place, `FilesInv` that note and receipt are that call's.
* `ScriptAuthorityProofs` (`AuthorityIInv`). `PermitIsScoped` has to follow the context variable through copies. `OpenInv` and
  `LiveInv` make live permits and open scopes the same thing, `NestInv` says that each scope restores the permit of the one
  around it, `ContextInv` that a running task sees its innermost scope or a permit it has no claim to, `StartedInv` that only
  started tasks have scopes.
* `ToolpathProofs` (`ToolpathIInv`). `KnownIsTrue` is inductive together with the types: each line moves the reader's coordinate
  and offset as it moves the machine's, or forgets them. `InspectionIsExact` compares running totals with a set; `TotalsInv`
  ties them (a total is positive exactly when a deposit of its kind was seen), and the verdict depends on no more of a total
  than that.
* `StudioProofs`. The four parts share the scene, and each step of one has to leave the invariants of the others alone.
  `TurnsAreKept` needs that a tab has one turn under way (`OneTurn`: its call, its handler and its answer are never two), that
  the handler's copy has what it appended (`TurnHeld`, `TurnSaved`), and that a writer that was not overtaken has a copy
  containing the row (`Fresh`). `SnapshotIsIntact` holds from the write of a file and not only from its row (`SnapInv`);
  `HistoryIsTrue` needs that operations in flight have records of their own (`HistoryInv`), and `DownloadIsMeasured` that what
  was measured under the present revision covers every change announced, also in an answer still on its way (`MeasuredInv`).

Proved and not run separately, because a property of a run implies them or they only serve it: `LeaseExclusive`,
`EngineExclusive`, `TryNeverQueues`, `WaitCountExact`, `LiveIsUnresolved`, `OwnedIsTicket`, `ForeignSealStays`,
`LiveJobsAreOwned`, the pipeline's use of `NativeJournal`, and `UsesLease` of the pipeline and of the runner. `EvidenceTypeOK` of
the run `evidence` is proved as three theorems, one for each part (`StagingTypes`, `ToolpathTypes`, `AuthorityTypes`), since the
three share no state and a behaviour of that run is one of them.

Only model-checked: the liveness properties (`QueueDrains`, `JobsSettle`, `UnconfirmedSettles`, `RunsEnd`, `ProofUnseals`,
`CallsEnd`, `ComposerFreed`), which need fairness and are out of the prover's reach.

## 5. Where code and text disagree

* `pipeline_shutdown`: `cancel_all` promises that each run records CANCELLED (`core/use_cases/design_pipeline.py:175`); a task
  cancelled before its first step, inside `jobs.get` or in its last update leaves its row as it was. Startup recovery repairs it
  later.
* `pipeline_order`: stages are to be reported in order; a run interrupted between report and row, then killed, gets an earlier
  stage appended by recovery.
* `pipeline_late_receipt`: a late receipt is rechecked only for a row that was marked unconfirmed, not for one whose process
  died during the dispatch; a further restart settles it.
* `native_unconfirmed`: an unconfirmed revision is to be sealed; one whose "not sent" terminal could not be written is not.
* `toolpath_unknown`: unknown geometry is to fail closed (`adapters/slicing/gcode_paths.py:3`); after a `G92` at an unknown
  position a move compares unknown with unknown, is taken for no motion (line 135) and its deposit is left out of the
  inspection.

None of `pipeline_order`, `pipeline_late_receipt` and `native_unconfirmed` lets a second mutation reach Blender or turns a
failure into a success: the safety properties above hold with them.

## 6. Plan

1. Done: lease, pipeline, native execution, source snapshots, script authority and toolpath inspection with proofs; socket and
   its composition with the lease; chat, scene snapshots and panels of the web studio and their composition.
2. Done: composition of `DesignPipeline` with `NativeExecution` over the contract `NativeJournal`, refined by the one and used by
   the other.
3. Done: proofs of every safety property the runs check, of the refinements, and of the use of lease and runner.
4. The writer of native products, with the same faults as `NativeStaging`.

## 7. Not modelled

Real-valued geometry and meshes, prompts, message texts, HTTP and MCP schemas, provider adapters, the sandbox's syntax rules and
the add-on's own tools: stateless, or data the properties do not tell apart. Blocking of `drain()` and `wait_closed()` on full
kernel buffers, outside the deadline of `send_command`, needs payload sizes the model does not have. A seal without a recovery
ticket lives in memory: `LeasedSocket` ends with the API process, and what a restarted process does with a command that is not a
native revision is not covered by any property, because the code keeps nothing to cover it with.
A connection that was made is assumed to fail as a `ConnectionError` or by its deadline: any other `OSError` after the write would
leave `send_command` without a disconnect and become a plain failure in `call_tool`
(`adapters/mcp/blender_mcp_adapter.py:144-164`, `256`), which a connection to the same host, the default, hardly meets.

`Toolpath` computes on whole numbers, with beads one unit high and an arc's envelope only inside or outside; the slicer's
command line, the reading of its archive and its limits on labels and roles are left out, and so are the options for required
support and brim, which no caller sets. `NativeStaging` stops at the receipt: `native_product.py` and `native_stl_writer.py`,
which write what the callback built, are not modelled; nor is an `OSError` while the failure note itself is written
(`native_staging.py:113-121`), which leaves neither note nor receipt. What the G-code reader passes over (commands with M or T,
and outside the model any text that is no command, `gcode_paths.py:194`, `213`) is assumed not to move the head. A session row
that cannot be read back (`sqlite_session_store.py:52-56`), after which a turn starts a new session, is not modelled: only the
modelled writers write the row. The streaming branch of the chat handler cannot be reached with the repository's adapters, both
of which support tools.

What the models keep although one might wish otherwise: `JobsSettle` excepts a revision that recovery isolates, for good,
because it stopped inside its import or its proof was altered (`Isolated`), and a job whose `status` is refused while another
revision in doubt cannot be sealed, because another command has sealed Blender (`Refusing`); a verification suite in doubt
leaves a native run unconfirmed although its own execution is settled, so that the next `status` fails it; the composer stays
disabled when its connection is lost during a turn, or closed by a store failure (`ComposerFreed` speaks of a turn whose
connection lasts); a refinement, a restore and a turn that ends in an error change the scene without raising `sceneRefreshTick`,
so that `DownloadIsMeasured` speaks of changes the tab was told of; a turn and a refinement that overlap overwrite each other's
session (`TurnsAreKept` excepts exactly what such a save removed); two snapshots of one second share a file. No text of the
repository promises the contrary. The other panels of the web studio send one request and raise the same tick as undo.
