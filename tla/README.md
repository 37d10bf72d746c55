# Firma runtime engine: a TLA+ verification project

Firma runs a software task as a team of LLM workers: a researcher and a planner
prepare a plan, coders carry it out, a sandbox verifies what they submit and a
reviewer accepts or rejects it. The engine (`src/engine`) keeps every task as a
row of an SQLite table and decides, message by message, which row moves where.
This project models the engine, checks it with TLC and proves parts of it with
TLAPS. All paths below are relative to the repository.

## 1. The system

| Component | State it keeps | Operations | Interacts with |
|---|---|---|---|
| Governance matrix (`engine/governance.py`) | none (tables) | `transition`, `authorize_event` | called by the guardian |
| Guardian (`services/guardian.py`) | none of its own; rows in a session | `process_response` | repository, artifact store, governance |
| Repository (`engine/repository.py`) | rows of `tasks`, `plans`, `artifacts`, message log | `assign_task_with_timeout`, `transition_task_atomic` (compare-and-swap on `state_revision`), queries, `save_artifact` | the session of its caller |
| Scheduler (`engine/scheduler.py`) | last delay signature | `assign_unassigned_ready_tasks`, coder gate | repository; hands assignments to the messenger |
| Orchestrator (`engine/orchestrator.py`) | timeout latches, task locks | `tick`: watchdog, verification, scheduler, intake, completion check | all of the above, transport |
| Controller (`engine/controller.py`) | running orchestrators | create, start, stop, cancel, clean up runs | orchestrator, database |
| Entry point (`run_pi_mesh.py`, `main_logic`) | one run | create, start, poll the status, archive, stop, all within an hour | controller, archiver, receiver |
| Entry point of the simulator (`run_snake.py`) | one run, no pi | create, start, poll the status, give up after 20 minutes | controller, simulator |
| Workers of the process (`run_worker_sim`, `workers/`) | the assignment in work | planner, coder and researcher ask the model; reviews are approved | `InternalTransport`: one queue for each direction |
| Run archiver (`services/run_archive.py`) | run directories and tarballs | `archive_run`, `enforce_retention` | controller, file system |
| Database sessions (`engine/db.py`) | SQLite in WAL mode | `session_scope`: commit or roll back | every handler |
| Spawn pool (`run_pi_mesh.py`) | semaphore, spawned pairs, completion events, cooldowns | messenger callback, `_spawn_limited` | scheduler, receiver, worker processes |
| Receiver (`run_pi_mesh.py`) | consumed keys, guarded tasks | `scan_once`, recoveries, synthetic failures | response files, transport |
| Transports (`engine/transport`) | queues, files | `dispatch`, `poll`, `ack` | orchestrator, workers |
| Artifact store (`services/artifact_store.py`) | files of each task, rows of `artifacts` | `persist_artifacts`, `_rollback`, `get_artifacts` | guardian, verification, reviewer's task file |
| Workspace (`services/ingest*.py`, `task_baseline.py`, `baseline_manifest.py`, `workspace_materializer.py`) | project tree, run manifest, snapshots per assignment; scopes in memory | copy the project in, snapshot, materialise answers, diff | scheduler, receiver, guardian, verification |
| Verification (`services/execution.py`, verifiers) | none | `verify` | orchestrator, artifact store |
| Plan validation (`guardian.py`, `spec_gate.py`, `scope_policy.py`) | none | structural rules of a plan | guardian |
| Concurrency governor (`services/concurrency.py`) | limit, expansion block | AIMD | telemetry |
| Flight manager, auditor, narrator | reports | drive or describe a run | tables |
| Legacy (`workflow.py`, `guards.py`, `timeout_manager.py`, `worker_bridge.py`) | - | not called by an entry point | - |

### What is hard

* **Compare-and-swap on stale copies.** Handlers are coroutines over one SQLite
  file. A `SELECT` opens no transaction; the first write takes the write lock
  until the commit. So a handler reads, and other handlers may commit, before
  its own atomic part begins. The watchdog reads all claimed rows first and acts
  on its copies.
* **Dirty attributes.** Attributes changed on a row object are flushed at
  commit even where the compare-and-swap that should carry them has failed.
* **Refusals after the lock.** `process_response` first moves a claimed row to
  PROCESSING, then checks; its refusals return normally and are committed.
* **Messages.** Answers are processed in tasks nobody awaits: an exception loses
  them, the receiver may publish again, they may arrive after a timeout or after
  the end of the run.
* **Commits that fail.** Assignments are handed to the messenger inside the
  transaction of the claim; timeout latches live in memory. Both survive a
  rollback.
* **Budgets.** One attempt counter is charged by five kinds of failure and
  compared with two limits; contract violations are compared with none.
* **Processes nobody stops.** A worker whose task was taken back goes on. Task
  file and response file are named for the task, not for the assignment, so
  several workers may write one file, and a worker that waited for a slot reads
  whatever file is there when it starts. The crew directories outlive the run.
* **Nobody rescues the simulator.** One coroutine serves all roles in turn. A run is
  given up after 20 minutes, the watchdog would come after 30: an assignment the
  simulator does not answer stops the run.
* **Exceptions that nobody hears.** One malformed response raises out of the scan
  of all; the wiring of a scope, the comparison of the tree and the read-only check
  pass over theirs; the guard of the tick ends the heartbeat with its own.
* **Who ends the wait for a slot.** The process or the response, by an event the
  receiver sets, in a dictionary that is shared by name only.
* **Two kinds of locks.** A coroutine takes an `asyncio.Lock` per task and then
  waits for SQLite's write lock; the verification takes them the other way
  round. Only the busy timeout ends the wait. The closure that takes the task
  lock names a loop variable, so it often takes another task's.
* **Files without a transaction.** The receiver copies an answer's files into
  the project before anybody has judged it; the store writes files before the
  transaction that describes them commits, and a failed write removes the whole
  directory; scopes live in memory and survive a rollback.
* **The end of a run.** Completion check, stop, cancellation, the hour's limit
  and answers still in work meet in one event loop; archives are compressed and
  removed file by file.
* **Three columns for one state.** `state`, `execution_phase` and
  `assigned_role` are written by many branches and read one by one.

What makes each component correct: the *governance* tables only lead to phases
a worker can leave; the *guardian* settles an assignment at most once and only
for the worker that holds it; the *scheduler* respects the order of the tasks
and lets one coder work; the *watchdog* takes back what is not answered and
nothing else; the *run* ends, once, with the verdict its tasks add up to; the
*artifact store* holds what was verified; the *verification* lets nothing pass
that touched what was not the task's; the *archive* says what the database says
and keeps it for as long as it promises; a *process* ends and leaves no
heartbeat; the *spawn pool* runs each
assignment once, within its limit; the *receiver* publishes each response once
and reports what breaks the rules. The hazards behind these are listed with their
lines in `PROJECT.json`.

## 2. Modules

| Module | Models |
|---|---|
| `Governance` | The transition, role and phase tables of `governance.py`, as relations. |
| `TaskLease` | Abstract specification: what the engine promises about a task whatever its phase. A task is granted under a token, only the holder of the current token settles it, settling spends the token, what is done or failed stays so, and the verdict is that of the tasks. |
| `Engine` | One run: the task rows, the tick of the orchestrator, the guardian. |
| `PiMesh` | The workers as processes: messenger callback, duplicate set, task files, semaphore, worker processes, response files, receiver; of the engine only what `TaskLease` promises. |
| `Intake` | The same transactions taken apart: coroutines of answers, phases of the tick, task locks, SQLite's write lock and its busy timeout, duplicated deliveries, `ProcessedEvent`. |
| `Workspace` | The files of a run in ingest mode: project tree, manifest, snapshots, scopes, artifact store, plan rules, verification of the tree. |
| `RunLifecycle` | A process with one run from creation to archive, heartbeat, stop, cancel, crash; the archives of the processes before it. |
| `InProcess` | `Engine` with the two queues of `InternalTransport` and the simulator that works them off. |
| `EngineMC` | The instances of `Engine` for TLC: tables of the answers workers give. |
| `EngineProofs` | Proofs of the inductive invariant and what follows from it. |
| `EngineEndProofs` | Proofs that what is over stays over, for tasks and for runs. |
| `EngineOrderProofs` | Proofs of the budgets, of the order of the stages and the gate of the coders, and that `Engine` implements `TaskLease`. |
| `PiMeshMC` | The module TLC runs for the instances of `PiMesh`, which the configurations give. |
| `PiMeshProofs` | Proofs about `PiMesh`: its inductive invariant, four safety properties, the refinement of `TaskLease`. |
| `WorkspaceMC` | The instance of `Workspace`: four plans and the answers of three workers. |
| `InProcessMC` | The instance of `InProcess`: the simulator's answers as the answers `Engine` speaks of. |
| `IntakeProofs` | Proofs about `Intake`: types and lock holders, `CurrentNotRefused`, the refinement of `TaskLease`. |
| `WorkspaceProofs` | Proofs about `Workspace`: types, `ScopesAgree`, `SubmissionOnDisk`, `PassedKeptScope`. |
| `RunLifecycleProofs` | Proofs about `RunLifecycle`: types, verdict, archive, heartbeat, and `RecordKept`. |
| `InProcessProofs` | Proofs about `InProcess`: types, that it implements `Engine`, `ClaimAnswered`, `NoSecondCopy`, `OnlyStoreSticks`. |

`Engine`, `PiMesh` and `Intake` meet in `TaskLease`: `Engine` implements it with answers
that may carry any revision ever handed out, and `PiMesh` takes the engine as
`TaskLease` has it and shows that pool, files and receiver, whatever the workers
do, keep it. `Intake` justifies what `Engine` takes for granted, that a handler
is one step: taken apart, with stale reads and the locks as the code takes them,
what is committed still obeys `TaskLease`. `InProcess` composes: it
joins `Engine`'s own actions with the steps of queues and simulator, so that an
answer is no longer any answer ever possible but one that was worked out for an
assignment that was handed out; its property `EngineSpec` says that the composition
implements `Engine`. `Workspace` and `RunLifecycle` are
beside them: they take from the engine only where a task stands, and whether the
tasks have ended.

### Engine: state

| Variable | Code |
|---|---|
| `row` | the columns of `Task` that decide anything: `state`, `execution_phase`, `assigned_role`, `state_revision`, `attempt_count`, `retry_count`; `waiting` is "`next_retry_at` lies ahead"; `last` and `rejections` summarise the task's `TaskTransitionLog` |
| `plan` | the tasks of the accepted plan; `{}` while the initial plan is active |
| `dispatched` | every `(task, state_revision)` handed to the messenger |
| `run` | `Run.status` |
| `watch` | the copies of claimed rows the watchdog holds between read and commit |
| `latches` | `Orchestrator._timeout_latches` |

### Engine: actions

| Action | Code |
|---|---|
| `Schedule`, `ScheduleRolledBack` | `assign_unassigned_ready_tasks`: dependencies, cascade of failures, coder gate, claim, dispatch; commit or rollback |
| `Refuse` | `process_response` refuses after its lock |
| `Accept`, `ReportFailure`, `BreakContract`, `LeaveScope`, `Drift`, `AcceptPlan`, `RejectPlan`, `RejectReview`, `Unsaved` | the branches of `process_response`, each with its charge and its target |
| `Verify` | `_handle_verification_phase`, with the guardian's part |
| `WatchRead`, `WatchCommit`, `WatchRolledBack` | `_handle_worker_timeouts`, split at its first write |
| `BackoffEnds` | the clock passes `next_retry_at` |
| `CheckCompletion` | `_check_run_completion` |

An answer is a record: its event, the sender's role, and its `verdict`, the
first check of the guardian it does not pass (artifact contract, scope, project
drift, storage, plan rules, or `ok`). Its revision is that of some assignment
ever handed out, so late and repeated answers are in the model, and lost ones
are answers not given. The answers of a run are the constant `Responses`.

Grain of atomicity: a handler is one step where nothing another handler can do
between its first read and its commit changes its decision, because every row it
writes is guarded by the revision it read. This holds for the scheduler (its
rows are READY, which only the scheduler changes), the verification (SUBMITTED
rows, which only the verification changes) and the completion check (terminal
rows, which nothing changes). The watchdog's rows are CLAIMED, which an answer
changes: it is two steps.

Two things the model shows as the code has them, and which surprise: the
dependencies a plan declares between its tasks never reach a row (the guardian
does not copy them; `Deps` knows only the planner's), and a planner that answers
PLAN_APPROVED is itself moved to CODING as a coder.

### PiMesh: state

| Variable | Code |
|---|---|
| `stage`, `token`, `granted` | the engine, as in `TaskLease`; a token is a `state_revision` |
| `calls` | the callbacks `create_task` has queued in the event loop |
| `spawned` | `spawned` of `make_pimesh_messenger_callback` |
| `taskfile` | the revision in `tasks/<task>.json` and `.md` |
| `queue`, `slots` | the coroutines before and inside `async with spawn_sem` |
| `spec` | the revision a worker has found in its task file |
| `live` | the `pi` processes that run |
| `file` | `worker_response.<task>.response.json`, as far as the receiver tells contents apart |
| `brief`, `limits` | `research/brief.md`; the `worker.log`s with the 429s of a given-up call |
| `consumed` | `PiMeshReceiverLoop._consumed` |
| `inbox` | the queue of `PiMeshTransport` |
| `lost` | history: the keys whose message came to nothing |

### PiMesh: actions

| Action | Code |
|---|---|
| `Assign`, `AssignRolledBack`, `TakeBack`, `Deliver` | claim with the callback it creates, the same rolled back, watchdog, `poll` and `process_response` |
| `SkipDuplicate`, `ApproveUnseen`, `Dispatch` | `wrapper`: duplicate, dummy reviewer, dispatch with its failures |
| `Start`, `Release` | `_spawn_limited`, before and after the wait for the process |
| `Reads`, `Writes`, `Briefs`, `IsLimited`, `Ends` | a `pi` process (external) |
| `DeliveryFails` | an exception where a message is processed, which is off the queue by then |
| `Scan`, `ScanFails`, `PublicationFails` (`Round`) | `scan_once` and the publication in `run`; the scan raises (`Raising`); the signal after the report of an unfit response raises |

Callback, pool and receiver run in one event loop and are split where they
`await` something that can suspend them: `dispatch`, `publish_response` and
`_signal_task_done` never do. Only `spawn_sem`, the wait for process or event and
the sleep between scans suspend.

The files a worker may leave are told apart by what the receiver does with them:
of another run, not yet complete, passing or breaking schema and path rules (`good`, `bad`),
breaking them in a field that the report of the breach takes over (`unfit`), with
artifacts or a path the scan stumbles over (`odd`), no object at all (`shapeless`),
or made up by the receiver (`recovered`). Through `odd` and `shapeless` ones no scan
gets, and the handler of the exception is around the whole round (line 894): while such
a file lies there nobody's response is published, and what the scan consumed before it is lost.

`Signalled`, the events a scan sets, is empty: see `doc_slot`. The model keeps
the operator because it is what the code means to do, and because `LiveBounded`
depends on it: were the events to reach the pool, a slot would be free while its
process still runs and the processes could outnumber `MAX_CONCURRENT_SPAWNS`
(that is the mutant of `LiveBounded`).

### Intake: state and actions

| Variable | Code |
|---|---|
| `row`, `draft` | the committed rows (`state_revision`, `state`); those the tick's open transaction has written |
| `writer`, `owner` | who has SQLite's write lock; who has each lock of `Orchestrator._task_locks` |
| `mail`, `phantom` | the assignment each worker was sent, and those whose claim was rolled back |
| `pc`, `lockOf` | where the coroutine of each delivery stands, and the task whose lock it takes |
| `recorded` | `ProcessedEvent` |
| `at`, `todo` | the phase of the tick and the rows it has read and not yet treated |

| Action | Code |
|---|---|
| `Watch`, `Verify`, `Schedule` | a phase reads its rows, without a lock |
| `TickLocks`, `TickActs` | watchdog and verification: task lock, then the guardian in the phase's transaction |
| `Claim` | `assign_task_with_timeout` and the messenger, before the commit |
| `Commit`, `TickGivesUp`, `TickFails` | the end of `session_scope` |
| `Poll` | `poll`, with duplicates, and one coroutine per message |
| `Check`, `Refuse`, `Take`, `Settle`, `Fails`, `GivesUp` | `process_serialized` and `process_response`, split where they await |

An answer's content is left open: `Settle` moves the row to any state.

### Workspace: state and actions

| Variable | Code |
|---|---|
| `project`, `baseline`, `snapshots` | `workspace/<run>/project`, its manifest, `.task_baselines` |
| `scope`, `expected`, `criteria` | `ingest_context._TASK_SCOPE`; `Task.expected_artifacts`; the files `acceptance_criteria` mention |
| `stage`, `claim`, `dispatched`, `inbox` | the engine, as far as files care |
| `disk`, `rows` | `artifacts/<run>/<task>`; the rows of `artifacts` |
| `ground`, `submission` | history: the tree when the last snapshot was taken, the answer accepted last |
| `wired`, `unchecked` | history: the tasks the last plan registered a scope for; the tasks in review whose comparison has raised |

What a file holds is told by where it is from: the project that was copied, or
the answer to one assignment.

| Action | Code |
|---|---|
| `AcceptPlan` | plan rules, scopes, tasks; any scope may fail to be registered, and the transaction may fail after the scopes |
| `Assign`, `AssignUnsaved`, `AssignRolledBack`, `TakeBack` | scheduler with snapshot, and the watchdog |
| `Receive` | `_inline_content` with `materialize_to_workspace` |
| `RefuseCode`, `AcceptCode`, `StoreFails`, `StoreRolledBack`, `JudgeResearch` | the guardian's branches that touch or compare files |
| `Verify`, `Review` | `ExecutionService.verify`, whose comparison may raise, and the reviewer |

Budgets, roles and the order of the checks are `Engine`'s: here a task may be
given up or tried again at any failure.

Three exceptions are passed over by the code, and by the model. `_wire_ingest_scope`
logs them (guardian.py:793) and the plan is accepted: the row of the task lists its files,
the memory has no scope for it or that of an earlier plan that was rolled back
(`Registered`). `_scope_check` takes them for a pass (execution.py:113), as it takes a
task without a scope (`Verify`). The read-only check lets the research complete
(guardian.py:614, `JudgeResearch`). So the promises below are about tasks that have a
scope of their own and were compared; what the others may do is in `doc_guard`.

### RunLifecycle: state and actions

| Variable | Code |
|---|---|
| `n`, `main` | the process and where `main_logic` stands |
| `status`, `tasks`, `late` | `Run.status`; whether all rows are terminal, and with a failure; an answer in work |
| `loop`, `verdict`, `running`, `cut` | `run_forever` and its tick; the `final_status` not yet written; the flag; `Task.cancel` was called |
| `listed`, `cancel` | the run is in the controller's dictionaries; where `cancel_run` stands |
| `dirs`, `dir`, `tars`, `tar`, `record` | the archive by time of modification, what each entry holds, the recorded status |
| `todo` | the directories or tarballs `enforce_retention` has listed and not come to |
| `archived`, `failures` | history: the runs whose archive was written; the compressions that went wrong, with process, run and how |

| Action | Code |
|---|---|
| `CreateRun`, `StartRun`, `SeeEnd`, `WriteArchive`, `ArchiveFails` | `main_logic`, `archive_run` |
| `Retain`, `CompressNext`, `ListTars`, `Unlink`, `EndRetention` | `enforce_retention`: it lists the surplus directories and compresses them one by one, lists the surplus tarballs and unlinks them one by one |
| `StopRun`, `StopTimesOut`, `Stopped` | `stop_run` |
| `TimeOut`, `Crash` | the limit of an hour; the process dies |
| `LoopBegins`, `Guard`, `Work`, `Count`, `Declare`, `TickFails`, `GuardFails`, `Wake`, `CutShort` | the heartbeat, split where it awaits; an exception in its guard ends it |
| `LateAnswer` | a coroutine the tick does not await |
| `CancelMark`, `CancelTear` | `cancel_run` |

A compression may fail before the tarball is complete, after it and before the
directory is touched, or half-way through the removal; an unlink may fail; the
process may die anywhere. `enforce_retention` does not await, so no coroutine
comes between its steps (`Awaiting`), only a crash does.

### InProcess: state and actions

| Variable | Code |
|---|---|
| `queue`, `inbox` | `InternalTransport._dispatch_queue` and `_queue`, the latter with what was polled and whose coroutine has not come to its transaction |
| `work`, `up` | the assignment `run_worker_sim` awaits the model for; the simulator is not cancelled |
| `repeated`, `lost`, `faults` | history of rolled-back claims and of answers that met an error; the bound of faults |

| Action | Code |
|---|---|
| `Assign`, `AssignRolledBack` | the scheduler's part of a tick and `dispatch`; the same with a commit that fails |
| `VerifySubmitted`, `Conclude` | `Engine`'s `Verify` and `CheckCompletion` |
| `TakeIn`, `LoseAnswer` | `process_serialized`: `Engine`'s `Intake`, perhaps with a store that fails; an exception after the message was taken off the queue |
| `Fetch`, `Respond`, `GiveUp` | `run_worker_sim`: the next assignment, the answer of a worker, an error report |
| `Stop` | `main_logic` cancels the simulator |

`Readable` says which answers of a worker the guardian may find fault with.
Answers that do not reach an assignment (`Current` is FALSE) change no row.

## 3. What the runs show

| Run | Instance | Shows |
|---|---|---|
| `engine_any` | 1 coder, every kind of answer, commits may fail | `TypeOK`, `StagesCoherent`, `Fenced`, `AssignmentsAccounted`, `StagesInOrder`, `VerdictStands`, `TerminalIsFinal`; refinement of `TaskLease` (`LeaseSpec`) |
| `engine_two` | 2 coders, symmetric, commits may fail | `OneCoderClaimed`, `VerdictStands` |
| `engine_live` | 1 coder, answers within the protocol, fairness | `RejectionsBounded`, `OpenWithinBudget`, `RunEnds` |
| `doc_processing` | a reviewer that answers TASK_FAILED | violated: `ProcessingEnds` |
| `mesh` | 1 task, 3 assignments, 2 slots, rolled-back claims, files of an earlier run, workers that need not end or answer; fairness of receiver and poll | `StartedOnce`, `LiveBounded`, `ReadsNoOlder`, `AnswersHeard`; refinement of `TaskLease` (`LeaseSpec`) |
| `mesh_live` | a researcher with an old brief and a review without worker, 1 slot, responses that break schema or scan, 1 lost key, fairness, workers that end | `TypeOK`, `AnswersHeard`, `QueueServed` |
| `intake` | 2 tasks, 2 answers, one of them perhaps delivered twice, 1 failing transaction, fairness | `TypeOK`, `CurrentNotRefused`, `NobodyWaitsForever`; refinement of `TaskLease` (`LeaseKept`) |
| `workspace` | a research, 2 coders, 2 files of which the project has one, 4 plans, 5 units of work | `TypeOK`, `SubmissionOnDisk`, `ScopesAgree`, `PassedKeptScope` |
| `lifecycle` | 4 processes, 1 fault, 1 directory and 2 tarballs kept, fairness | `TypeOK`, `VerdictJustified`, `ArchiveAgrees`, `NoLoopLeft`, `RecordKept`, `EveryProcessEnds` |
| `inprocess` | `Engine` with 2 coders and the simulator, 1 fault, fairness | `ClaimAnswered`, `NoSecondCopy`, `OnlyStoreSticks`, `VerdictReached`; implementation of `Engine` (`EngineSpec`) |
| `doc_lock` | as `intake`, no duplicates | violated: `Serialized` |
| `doc_scope` | as `workspace`, 4 units of work | violated: `OutOfScopeSkipped` |

* `Fenced`: an assignment carries the current revision of its task only while
  the task is claimed under it; so no late answer settles a later assignment.
* `AssignmentsAccounted`: every assignment is spent, or current, or belongs to a
  claim that was rolled back and whose task has not moved since.
* `StagesCoherent`: the three stage columns agree in every row.
* `VerdictStands`: a run that has ended has nothing left to do and its status is
  what its tasks came to, whatever arrives later.
* `TerminalIsFinal`: no step moves a task that is complete or failed.
* `StagesInOrder`: no plan without finished planning, no planning without
  finished research.
* `OneCoderClaimed`: at most one coder holds an assignment.
* `RejectionsBounded`, `OpenWithinBudget`: no mix of timeouts, failures and
  repeated answers gets a task more rejections or charges than its limits.
* `RunEnds`: every run ends, also when workers never answer.

* `StartedOnce`: an assignment is in the queue for a slot once, and not after it
  was started, also when a rolled-back claim hands it out again.
* `LiveBounded`: no more processes than slots.
* `ReadsNoOlder`: a worker may read the task file of a later assignment than its
  own, never that of an earlier one.
* `LeaseSpec` (mesh): whoever writes the response file last, a task is settled
  at most once under each assignment, and only under the current one.
* `AnswersHeard`: a response under the current revision does not lie in the crew
  directory for ever, whatever was published for the task before. Two things excuse it
  (`Excused`). A malformed file, of whatever task, stops the scans while it lies there. And
  a key is used up by a message that came to nothing: it went down with an
  exception of scan, publication or delivery; it reported an unfit response; or it
  answered a claim that was rolled back, before the claim was made again. The task is
  then left to the hard timeout. TLC found the last of these.
* `QueueServed`: what waits for a slot gets it, also where a process could not be
  started.

* `CurrentNotRefused`: an answer is refused as stale only when something else has
  settled or taken back its assignment, or the assignment was never committed,
  although workers are sent for before the claim is.
* `LeaseKept`: whatever coroutines and tick read before they write, and whichever
  task locks they take, what is committed obeys `TaskLease`.
* `NobodyWaitsForever`: every answer's coroutine ends and the tick comes round,
  in spite of two locks taken in both orders.

* `SubmissionOnDisk`: while a submission is verified or reviewed, and when it is
  done, the store holds it and its rows say so, and the reviewer is shown all of
  it; neither late answers nor failed transactions nor a removed directory reach it.
* `ScopesAgree`: for each task whose scope could be registered with its plan, the
  scope in memory is the row's list of files, whatever a plan that was rolled back has
  left there.
* `PassedKeptScope`: such a task, if the comparison did not raise, passes the
  verification only when it has left everything outside
  its expected files as it was when the last snapshot was taken for it. Without these
  two conditions it is `RestStays`, which the code does not keep (`doc_guard`). This holds in spite of
  `doc_scope`: the stray file is in the tree, and the task that wrote it fails.

* `VerdictJustified`: COMPLETED and FAILED say what became of the tasks.
* `ArchiveAgrees`: the archive of a run nobody cancelled says what the database
  says.
* `NoLoopLeft`, `EveryProcessEnds`: no process ends with a heartbeat running, and
  every process ends, also when it is stopped before the heartbeat has begun, or the
  heartbeat ends by an exception of its guard while the run is active.
* `RecordKept`: an archived run can be read until `KEEP_LAST_N +
  KEEP_COMPRESSED_LAST_N` runs have come after it, each compression that goes
  wrong taking one of these places: what is compressed again later becomes newer
  than the tarballs of younger runs, and these are dropped first.

* `ClaimAnswered`: as long as the simulator runs, a claimed task has its current
  assignment waiting, in work or answered, whatever the model returns, unless
  taking the answer in met an error. One role without a branch, or one exception
  that goes past the handler, and the run stands still until it is given up.
* `NoSecondCopy`: nobody but the engine tries again. Only ticks that were rolled
  back put an assignment in the queue that no claim stands behind.
* `OnlyStoreSticks`: the trap of `doc_processing` (an answer refused after the lock)
  is not one these workers can spring; only a store that fails can.
* `EngineSpec`: each step of queues, simulator and engine together is a step of
  `Engine` or none, so what is proved of `Engine` holds of the process. The point
  is the role an answer is taken in under: copies of an assignment outlive the
  claim, the rollback and the phase they were made in.
* `VerdictReached`: without the watchdog, and with a model that may never answer, a
  run reaches its verdict, unless an answer is lost or main gives up.

The three violated properties are stated by comments or documents of the
repository and are not what the code does; `PROJECT.json` quotes them.

### Further disagreements

The following configurations are kept beside the runs. Each checks one property
that a document or a comment states, and TLC refutes it in a second or two
(`tlc -config doc_slot.cfg PiMeshMC`).

| Configuration, module | Property | Code | What is said |
|---|---|---|---|
| `doc_plan_order`, `EngineMC` | `PlanOrderKept` | `guardian.py:797`: tasks of a plan are created without their dependencies | `repository.py:388` "a task is dispatchable only once ALL its dependencies are COMPLETE" |
| `doc_coder_gate`, `EngineMC` | `CodersSerial` | `scheduler.py:51`: the gate looks at the role, which changes while the work is verified and reviewed | `scheduler.py:326` "Block CODER dispatch when another CODER task in the same run is still non-terminal" |
| `doc_review_limit`, `EngineMC` | `FailedByReviews` | `guardian.py:660`: reviews are charged to the counter all failures share | `settings.py:115` "Nach N Reviewer-Ablehnungen -> Task FAILED_ITERATION_LIMIT" |
| `doc_slot`, `PiMeshMC` | `SlotUntilAnswer` | `run_pi_mesh.py:114`: `or {}` replaces the empty dictionary the pool shares | `run_pi_mesh.py:931` "Slot wird bis Outcome (Response published / Timeout / Proc-Exit) gehalten" |
| `doc_brief`, `PiMeshMC` | `BriefIsOwn` | `run_pi_mesh.py:488`: any brief in the crew directory counts | `run_pi_mesh.py:455` "wenn der RESEARCHER `research/brief.md` geschrieben hat" |
| `doc_schema`, `PiMeshMC` | `BreachMapped` | `run_pi_mesh.py:370`: the report copies the fields that broke the schema | `docs/vision/PiMesh_Architektur.md:288` "Schema / Protocol violation \| SUBMISSION_INVALID_SCHEMA \| PROTOCOL_VIOLATION" |
| `doc_object`, `PiMeshMC` | `BreachReported` | `run_pi_mesh.py:702`, `:788`: a response that is no object raises out of the scan instead | `run_pi_mesh.py:360` "Kanonischer Struktur-Bruch -> SUBMISSION_INVALID_SCHEMA (kein Repair)" |
| `doc_guard`, `WorkspaceMC` | `RestStays` | `guardian.py:793`, `execution.py:113`: a scope that could not be registered and a comparison that raises both count as a pass, the latter as `execution.py:106` says | `verifiers/scope_verifier.py:12` "guard cannot run" is a failure (BASELINE_MISSING), `:14` "This is the deterministic guard" |
| `doc_targets`, `WorkspaceMC` | `ExistingReadOnly` | `scheduler.py:122`, `ingest.py:93`: the directory looked in is the project directory already, where the file has been copied | `scheduler.py:89` "If a criterion mentions a file that already exists in the project, add it to scope_files (read-only access)" |
| `doc_cancel`, `RunLifecycle` | `CancelStands` | `orchestrator.py:233`: the completion check's update has no status filter and overwrites CANCELLED | `controller.py:228` "Mark in DB first (Orchestrator tick check will catch this)" |

### Bounds

`MaxIterations` and `MaxRejections` are 2. The first charge then leaves the task
open and the second closes it, so both sides of every budget are reached; 2 is also the
default of `FIRMA_MAX_REVIEWER_REJECTIONS`. `MaxRev` bounds the revisions: the
scheduler of the model claims a task only while the revision it may come to is
at most `MaxRev`. In the safety runs (8) a task still goes through a rejected or
timed-out round and the next one. In `engine_live` it is 24, above every
revision the budgets allow, so it never binds and the liveness result does not
rest on it. One coder exercises every stage; two are needed for the gate, for
completion with another task at work, and suffice as both properties relate
pairs of tasks. `CoderSymmetry` is used only in the run without temporal
properties. Deadlock is not checked: a run that has ended stops.

In `PiMesh` a revision is handed out and spent, so the revisions of assignments
are odd unless a claim was rolled back: `MaxRev` 5 is three assignments of a task
(one overtaken twice), 3 is two. `MaxSpawns` 2 is the default of the code; the
liveness run has 1, where a slot that is not given back stops everything. Nothing
but the slots relates different tasks to each other, so the safety run has one
task with several workers and the liveness run two tasks of different roles.
`Written` are the kinds of responses workers write. `mesh` has those that pass, and
leftovers of another run, with or without the shape of a response; with those that break the
rules (`bad`), which end a claim the same way, it was checked as well, in as many
states. `mesh_live` has the unfit and the odd ones, beside the responses the receiver makes up
and the answers of the review; with `bad` added it passes in 1,150,555 states. A half
file (`partial`) is to the receiver what a foreign one is. `MaxLost` bounds the keys that go
down with exceptions: none in `mesh`, one in `mesh_live`; to `Deliver`, which loses what the guardian
drops, it does not apply. The proofs have all kinds and no bound.

`Intake`: two answers of one task, one delivery of them twice, are enough for a
coroutine to meet another one of the same task, of another task, the tick, and
itself; with two tasks the mixed-up locks differ from the right ones. One
failing transaction reaches every rollback. The proofs have no bound.

`Workspace`: `MaxWork` counts assignments, failed writes, commits, registrations and
comparisons together; 5 allow a task to be handed out, rolled back, handed out again and to
fail once while the other coder works. Two files and two coders are the smallest
instance with something inside and outside each scope, and the four plans have
disjoint files, mentioned files, one file for both and one the rules refuse.

`RunLifecycle`: with one directory and two tarballs kept, the fourth process makes
both retention limits bite while an older and a younger tarball are there to be
told apart; with one tarball kept that order makes no difference and a wrong
`RecordKept` passes (section 4). One fault reaches each failure. The safety
properties were checked as well with two faults (2,730,088 states), with two
directories and one tarball (981,262) and with two of each and five processes
(1,204,920).

`InProcess`: two coders make the order of the queue and the gate matter, one
fault reaches each failure once (with one coder the run passes with two faults
as well). An answer that breaks its contract counts as a fault, because nothing
in the code limits how often a task may be tried again after one. `MaxRev` is 18 and never
binds: 22 gives the same states.

### Fairness

`run_forever` ticks every 0.5 s while the run is active, and each tick calls the
watchdog, the verification, the scheduler and the completion check: weak
fairness of `Schedule`, `Verify`, `WatchCommit`, `CheckCompletion`. The clock
passes every hard timeout and every backoff: weak fairness of `BackoffEnds` and,
for each task, of a `WatchRead` that has it among its victims. Nothing is
assumed of the workers. `engine_live` assumes commits succeed (`FaultyDb` is
FALSE), that no tick is cut short by an exception and none of its guard ends the
heartbeat (`GuardFails` of `RunLifecycle`), and that
workers keep to the protocol: an answer refused after the lock wedges its task
(`doc_processing`), and contract violations have no limit, so with them a run
may go on for ever.

`PiMesh`: the event loop runs the callbacks (`Callback`) and the coroutines that
have a slot to take or to give back (`Start`, `Release`), the receiver goes round
every second (`Round`), the orchestrator polls (`Deliver`, `DeliveryFails`); the last two are
`Hearing`, all that `mesh` assumes. Whether a round or a delivery succeeds is left open. `EndingSpec` adds that
processes end, which `QueueServed` needs: nothing in the code stops a process, as
`doc_slot` shows. Of workers it is assumed neither that they write nor when, and what they
write is one of the kinds of section 2, under a revision they have read. `AnswersHeard` is
about responses whose report passes the schema (`doc_schema` has the others) and excuses
what malformed files and exceptions keep from being heard.

`Intake`: the event loop runs whatever can run, so weak fairness of the tick and
of each coroutine. That locks are given out in some order is not needed: the
steps that wait for one are the same that give up. Workers need not answer, and
nothing has to fail.

`RunLifecycle`: weak fairness of `MainStep` (its timers fire: the five seconds
of the poll, the hour, the ten seconds of `stop_run`), of the heartbeat's steps
and of the delivery of a cancellation. Nothing is assumed of answers, callers of
`cancel_run` or faults.

`InProcess`: the coroutines run (`Assign`, `VerifySubmitted`, `Conclude`, `TakeIn`, `Fetch`)
and a call to the model is over after 305 seconds at the latest, with an error if
not with an answer (`GiveUp`). Nothing is assumed of the model (`Respond`), of `main`
(`Stop`) or of the faults; the watchdog is not needed.

## 4. What is proved

### Engine

For every set of coders, all limits, every table of answers and with commits
that fail. Assumptions: the two seed tasks are distinct from each other and from
the coders (`TasksDistinct`), limits are positive (`BudgetsPositive`), answers
are of the schema (`ResponsesTyped`).

The inductive invariant is `Inv == TypeOK /\ StagesCoherent /\
AssignmentsAccounted`. `Fenced` alone is not inductive: a claim makes the next
revision current, so one must know that no assignment of that revision was ever
handed out - except by a tick whose commit failed. `AssignmentsAccounted` says
just that, and a step that moves a row out of READY must know which claim it
has: hence its clauses about claimed rows and about what the watchdog has read.
`StagesCoherent` is needed because the verification finds its rows by role and
phase while the accounting is about `state`.

The argument: the helpers first (`HeldOnward`, `RoutedOnward`,
`ChargedForOnward`, `ExpiredOnward`: each makes of a coherent row a coherent row
with a higher revision that nobody holds); then one lemma about the table
(`RowsKeepInv`: `Inv` survives every step in which each row either stays at its
revision and state or leaves a working state onward); then one lemma per action.

| Theorem | States |
|---|---|
| `Invariance` | `Spec => []Inv` |
| `TypeCorrect`, `StagesAgree`, `AllAccounted` | its three parts |
| `WorkersFenced` | `Spec => []Fenced` |
| `OverIsOver` | `Spec => TerminalIsFinal` |
| `VerdictIsLasting` | `Spec => []VerdictStands`, by the strengthening `Settled`: when the run has ended every row is over and the watchdog is at rest |
| `RejectionsWithinLimit` | `Spec => []RejectionsBounded` |
| `OpenTasksWithinBudget` | `Spec => []OpenWithinBudget`, where no answer is charged without a limit (`Unlimited`) |
| `StagesKeepOrder`, `CodersTakeTurns` | `Spec => []StagesInOrder`, `Spec => []OneCoderClaimed` |
| `EngineKeepsLease` | `Spec => LeaseSpec`: the refinement of `TaskLease` |

For the last five, `EngineOrderProofs` first says once what a handler makes of the
row it treats (`IntakeTaken`, `StepFollows`): a row follows on itself, with its
columns as the branch leaves them. The budgets are read off this row by row:
`Accounts` relates charges and rejections, and is inductive with `Inv`. The
hypothesis of `OpenTasksWithinBudget` is what the code needs: answers that break
their contract, or report a failure whose files cannot be stored, are charged and compared with no
limit, and do take a task past its budget. The table of `engine_live` has none of them.

Order and gate need each other. `Ordered` joins `StagesInOrder` and
`OneCoderClaimed` with `Homes` (planning and research are the planner's and the
researcher's alone, so only the planner's answer brings a plan) and `Unborn`
(what no plan has brought into being has not been touched, so the gate, which
looks at existing rows only, sees every claim).

For the refinement, `Column` gives for each row what `TaskLease` calls stage,
token and grants. A tick of the scheduler is one `Grant` of all it claims, in
which the tasks of the cascade are `GivenUp`, and one that is rolled back an `Offer`; a branch of the guardian an `Answer`; the
verification a `Judge`, the watchdog's commit a `Revoke`, and what only the
columns of the code tell apart is a stutter.

### PiMesh

For every set of tasks, researchers and dummy reviews, every number of slots and
revisions, all kinds of responses and leftovers of section 2, and every number of
exceptions in scan, publication and delivery. Assumptions: the
roles are sets of tasks (`RolesAreTasks`), workers write what the receiver can
tell apart (`WorkersWrite`), the bounds are positive (`BoundsNatural`).

The inductive invariant is the conjunction of `TypeOK` and six parts, each the
reason for another:

* `Tokens`: what was handed out under a revision is spent, or at work, or of a
  claim that was rolled back. It is what makes a fresh answer one to a held task.
* `Ordered`: callbacks wait in the order of their revisions, and none behind the
  task file. So a dispatch never overwrites a task file with an older one.
* `Waiting`: what waits for a slot has been seen, not been started, is there once,
  and its task file is at least its own.
* `Started`: what was started has been seen, and its worker has read a task file
  between its own and the present one. With `Waiting` this gives `StartedOnce`
  and `ReadsNoOlder`.
* `Copied`: every revision in a task file, a response file or a message has been
  handed out; so what comes back to the engine is an assignment.
* `Running`: processes have slots, have read a task file, and slots are at most
  `MaxSpawns`.

One lemma per action, with lemmas for what several actions do (a callback joins,
one leaves, a coroutine queues, a task is settled); the three ends of a round share
`FoundKnown`, that a scan finds nothing but what was handed out. The refinement maps a claim to
`Grant`, a rolled-back one to `Offer`, the watchdog to `Revoke`, an answer the
guardian takes to `Answer`, and everything else to a stutter.

| Theorem | States |
|---|---|
| `MeshInvariance` | `Spec => []Inv` |
| `MeshTyped`, `EachStartedOnce`, `ProcessesBounded`, `NoOlderTask` | `Spec => []TypeOK`, `[]StartedOnce`, `[]LiveBounded`, `[]ReadsNoOlder` |
| `MeshKeepsLease` | `Spec => LeaseSpec`: the refinement of `TaskLease` |

### Intake

For every finite set of tasks, every number of answers and of faults, every set
of answers delivered twice. Assumptions: `TasksFinite` and `BoundsTyped`. TLC
first checked the parts of the invariant on small instances.

The inductive invariant is the conjunction of the types and seven parts:

* `LocksFit`: a coroutine has exactly the task lock it asked for, from `Check` to
  its end, and the tick only that of the row it treats.
* `TodoFits`: a row that still has the revision a phase has read is still in the
  state the phase looks for. This is why acting on a stale copy is harmless: the
  compare-and-swap of the revision stands for the comparison of the state.
* `DraftFits`: what the open transaction of the tick has written is one revision
  ahead of a committed row in that state, and only the tick may write meanwhile.
* `HeldFits`: nobody writes between the serialization lock and the commit.
* `MailFits`, `Uncommitted`: an assignment is at most one revision ahead of its
  row, and while it is, its claim was rolled back or is about to be committed and
  no answer to it has been taken in. That is `CurrentNotRefused` before the fact.
* `PcFits`: what each place of a coroutine says of its assignment.

One lemma per action; `EndsInv` serves the four ways in which a coroutine ends,
`AbortedInv` the two ends of a failed tick, `PhaseInv` the three reads. In the
refinement a `Claim` is an `Offer`, a `Commit` one `Grant`, `Judge` or `Revoke` of
all the tasks its phase has treated, a `Settle` an `Answer`, and everything else
a stutter.

| Theorem | States |
|---|---|
| `IntakeTypeOK` | `Spec => []TypeOK`, which says also who holds which lock where |
| `IntakeCurrentNotRefused` | `Spec => []CurrentNotRefused` |
| `IntakeKeepsLease` | `Spec => LeaseKept`: the refinement of `TaskLease` |

### Workspace

For every set of files, coders and plans, all limits and every number of failed
writes, commits, snapshots, registrations and comparisons. Assumptions: the researcher is not a coder
(`ResearcherApart`), plans and answers are as the schema has them (`PlansTyped`), and the mark
of an unregistered scope is no file (`NoScopeApart`). Four invariants, in this order:

* `TypeOK`, with no strengthening.
* `ScopesAgree`: only `AcceptPlan` writes either list, what it registers for a task
  replaces what an earlier plan left, and a plan is rolled back after the scopes only
  where there are no rows yet. Of tasks it could not register nothing is said.
* `SubmissionOnDisk` is inductive with the types: `OnDisk` says what lies in the store
  for one task, and every branch of the guardian either leaves the directory of a task
  alone whose answer was accepted or is not reached by such a task.
* `Newest`: the newest snapshot of a task is the tree `ground` remembers, also
  after claims that were rolled back and snapshots that failed. With `ScopesAgree`
  it gives `PassedKeptScope`: `Resolved` finds no snapshot under the revision it
  asks for, and the newest, which it takes instead, is the right one. What remains is
  that a task in review has either been compared or is among the `unchecked`
  (`ReviewingVerified`), and that a wired one has a scope.

The attempt to prove `PassedKeptScope` found an error in the model: `ground` was
set with every assignment. When a snapshot cannot be saved the code goes on with
the assignment, and the verification then compares with the tree of an earlier
one. The run with 5 units of work did not reach this; with 7 the old formulation
is violated. `ground` is now set where the snapshot is taken, and the property says
what the code keeps: what passes has left everything else as the newest *saved* snapshot has it.

| Theorem | States |
|---|---|
| `TypeCorrect` | `Spec => []TypeOK` |
| `ScopesStayAgreed` | `Spec => []ScopesAgree`: of wired tasks |
| `SubmissionsStay` | `Spec => []SubmissionOnDisk` |
| `PassedHasKeptScope` | `Spec => PassedKeptScope`, an action property: of wired tasks that were compared |

### RunLifecycle

For all limits, every number of processes and of faults. Assumption:
`LimitsTyped`. The invariant has two halves.

`Control` is about one process. The verdict read from the counts stands until it is
written, because tasks that have ended stay so (`CountStands`); only
`cancel_run` cancels and only ended runs are archived (`EndsKept`), so a verdict
that is declared again is the one in the archive; and between start and stop the
controller knows the run, or its heartbeat has been cancelled (`HeartbeatKnown`).

`Shelves` is about the files, and has seven parts: types and the two lists as lines
without repetition (`Files`), the numbers of the runs (`Numbered`), that failed
compressions are told apart by process and run (`Counted`), the order of the
directories (`InOrder`), what is known of the work `enforce_retention` has listed
(`Listing`, `Capping`), and `AllKept`: behind the tarball of a run and among the
directories there are no more places taken than later runs and failed
compressions together. When a tarball is unlinked, `Capping` says that
`KEEP_COMPRESSED_LAST_N` tarballs are behind it and `AllKept` that as many runs or
failures have come; hence `RecordKept`. The lemmas before it are about lines:
what removing, appending and taking the surplus does to order and count.

The attempt to prove `RecordKept` refuted it as it was first stated, where only
directories that were removed in part took a place. A compression that
fails without harm (no complete tarball, or a directory that was not removed)
is repeated by the next process; the tarball written again is then newer than that
of a younger run, and the younger one is dropped first, before its time. TLC shows
it with two tarballs kept; with one, as the run had it, nothing can be seen.
`RecordKept` now counts every compression that went wrong, the run keeps two
tarballs, and the retention, one step before, is modelled file by file.

| Theorem | States |
|---|---|
| `VerdictsAreJustified`, `ArchivesAgree`, `HeartbeatsEnd` | `Spec => []VerdictJustified`, `[]ArchiveAgrees`, `[]NoLoopLeft` |
| `LifecycleTypeCorrect` | `Spec => []TypeOK` |
| `RecordsAreKept` | `Spec => []RecordKept` |

### InProcess

For every finite set of coders, all limits and every number of faults.
Assumptions, besides `Engine`'s: plans name finitely many tasks (`CodersFinite`),
and the answers of these workers are among those `Engine` is given
(`EngineCovers`, which TLC evaluates for the table of `InProcessMC`).

The invariant is `Engine`'s `Inv`, `SimulatorTypeOK` and `Addressed`: every
assignment and answer under way was handed out, under a role the simulator has a
branch for, and as long as its task has not moved past its revision the task
still has that role. So an answer that `Current` lets through comes from the
worker of the task's present role and is one `Engine` knows
(`StepImplements`), and the guardian authorises it. From the
implementation all theorems about `Engine` hold of the process, and `ClaimAnswered`
uses one of them: that a claimed task belongs to the active plan
(`ClaimedActive`) rests on `Ordered`, as a plan must not come while the researcher is
at work. `NoSecondCopy` counts: a claim brings one copy, a rolled-back tick one that
`repeated` counts, an answer that is taken in ends the claim with its copy, and
every other step moves copies from one place to the next (`CopiesMove`).

| Theorem | States |
|---|---|
| `SimulatorTypeCorrect` | `SimulatedSpec => []SimulatorTypeOK` |
| `ImplementsEngine` | `SimulatedSpec => EngineSpec`: the composition implements `Engine` |
| `OnlyStoresStick` | `SimulatedSpec => []OnlyStoreSticks` |
| `ClaimsAreAnswered` | `SimulatedSpec => []ClaimAnswered` |
| `NothingTwice` | `SimulatedSpec => []NoSecondCopy` |

### Only model-checked

Six liveness properties: `RunEnds`, `AnswersHeard`, `QueueServed`,
`NobodyWaitsForever`, `EveryProcessEnds` and `VerdictReached`. They follow from
fairness, so from where actions are enabled, which is beyond the prover. Every
other property of the passing runs is proved; the properties of the violated runs
and configurations are what documents say, and are false.
The other way round, `SimulatorTypeOK` is proved (`SimulatorTypeCorrect`) and no
run checks it.

## 5. Not modelled

Prompts, LLM calls, logs, reports, telemetry; `SubmissionLog` and `MessageLog`
rows (written, never read to decide); the operations no entry point calls
(`recover_stale_claims`, `get_timed_out_assignments`, `reset_task_to_ready`,
`activate_plan`, `cleanup_runs`, `TimeoutManager`, `LocalWorkerBridge`, the spec
gate and the plan instantiator); scripts and tools. `milestones/` holds a fifth
of the repository's Python: frozen copies of earlier states of `run_pi_mesh.py`,
the guardian and the transports, which nothing imports.

The concurrency governor (`services/concurrency.py`) is not modelled because no
entry point starts it and nothing reads its limit. Read by itself it has a unit
that does not fit: latencies above 1000 are divided by a million (lines 84-85)
while the provider reports milliseconds, so that the zone above 1.5 s of the
comment in line 12 is not reached. The flight manager is used by
`scripts/legacy` only. What the constraint, csv and web verifiers look for in
the text of a file is left open in `Workspace`: they pass or fail.

Of the workers: those no entry point starts (`llm_worker.py`, `planner_worker.py`,
`reviewer.py`, `dummy_worker.py`), what is
behind `generate_json` (HTTP and its retries), the dummy mode no entry point sets, and the contents
of prompts and answers; `Respond` takes what the guardian tells apart.

Of the workspace: normalisation of paths, exclusions of the ingest, the
researcher's own directory, a snapshot whose file is left half-written (`AssignUnsaved`
leaves none), and runs that are not in ingest mode (there the verification of the tree
does not take place).

Of the guardian: its last handler (guardian.py:917-926). An exception after the lock that
no branch expects returns normally, and PROCESSING is committed. The refusals after the
lock and the failing store, which come to the same, are in `Engine`; no other step after
the lock was found that raises for the answers modelled, so in `Engine` and `InProcess` an exception is
one that rolls the transaction back (`LoseAnswer`). If one did, `OnlyStoreSticks` and
`VerdictReached` would not hold of it.

Of the mesh: the cooldown after a 429 (the code that would set it is not
reached), the guards for workers that exit or make no progress (they iterate
over a dictionary that stays empty), the contents of sessions, prompts and logs,
the side file of a plan, responses without a `run_id`, responses that name another
task or run than their file, the second worker directory, and the end of a run, after which the receiver is cancelled and the
processes go on.

## 6. Plan

Done: `Engine`, `PiMesh`, `Intake`, `Workspace`, `RunLifecycle`, `InProcess`, and
the proofs of section 4, which cover every safety property of the passing runs.
Next, in this order:

1. **`PiMesh`**: the side file of a plan and responses without `run_id`.
2. **`PiMesh` with `Engine`**: as in `InProcess`, join the actions of the two, so that the
   mesh's answers are the guardian's answers and not only a step of `TaskLease`.
3. **Ranking for the liveness of `Engine`**: the safety part of `RunEnds`, a bound on
   the number of claims a task can have before its budget closes it, can be
   proved from `Accounts`; that the claims come stays with TLC.
