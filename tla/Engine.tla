------------------------------- MODULE Engine -------------------------------
(***************************************************************************)
(* One run of the engine: the rows of the task table, the ticks of the     *)
(* orchestrator (watchdog, verification, scheduler, completion check) and  *)
(* the guardian, which settles the answers of the workers.                 *)
(*                                                                         *)
(* Every change of a row is a compare-and-swap on its state_revision       *)
(* inside one SQLite transaction, whose first write takes the write lock   *)
(* until the commit.  A handler is therefore one step from its first write *)
(* to its commit; where it decides on rows read in an earlier statement    *)
(* that another handler may change in between (the watchdog), the read is  *)
(* a step of its own.                                                      *)
(***************************************************************************)
EXTENDS Naturals, Governance

CONSTANTS
  Researcher, Planner,  \* the two tasks a new run is seeded with
  Coders,               \* the ids a plan may give to its tasks
  MaxIterations,        \* GuardianPipeline.MAX_ITERATIONS
  MaxRejections,        \* settings.MAX_REVIEWER_REJECTIONS
  Responses,            \* the answers a worker of each role may give
  PlanOrder,            \* <<task, dependency>> pairs a plan declares
  FaultyDb,             \* whether a commit may fail
  MaxRev                \* bound of the model: no claim ends above it

Task == {Researcher, Planner} \cup Coders

(* What the checks of the guardian, in their order, find in an answer: the *)
(* first one it does not pass, or "ok".  "store" is ArtifactStore failing  *)
(* to write the files of an answer that passed the checks before it.       *)
Verdicts(event) ==
  CASE event = "CODE_SUBMITTED"    -> {"ok", "contract", "scope", "store"}
    [] event = "RESEARCH_COMPLETE" -> {"ok", "contract", "drift", "store"}
    [] event = "PLAN_SUBMITTED"    -> {"ok", "store", "plan"}
    [] event \in {"REVIEW_APPROVED", "REVIEW_FAILURE"} -> {"ok"}
    [] OTHER -> {"ok", "store"}

(* WorkerResponse, without task_id and state_revision: these are the ones  *)
(* of the assignment it answers.  WORKER_TIMEOUT is raised by the watchdog *)
(* only: the receiver's own timeout carries no revision and does not pass  *)
(* the schema.                                                             *)
Response ==
  UNION { [event: {e}, sender: AssignedRole, verdict: Verdicts(e)] :
          e \in TaskEvent \ {"WORKER_TIMEOUT"} }

ASSUME TasksDistinct ==
  /\ Researcher # Planner
  /\ Researcher \notin Coders
  /\ Planner \notin Coders
  /\ PlanOrder \subseteq Coders \X Coders

ASSUME BudgetsPositive ==
  /\ MaxIterations \in Nat \ {0}
  /\ MaxRejections \in Nat \ {0}
  /\ MaxRev \in Nat

ASSUME ResponsesTyped ==
  /\ Responses \in [AssignedRole -> SUBSET Response]
  /\ FaultyDb \in BOOLEAN

VARIABLES
  row,         \* the row of each task, with what its transition log tells
  plan,        \* the tasks of the accepted plan, {} while the first is active
  dispatched,  \* <<task, state_revision>> of every assignment handed out
  run,         \* Run.status
  watch,       \* the claimed rows the watchdog has read and not yet acted on
  latches      \* Orchestrator._timeout_latches

vars == <<row, plan, dispatched, run, watch, latches>>

Row ==
  [state: {"READY", "CLAIMED", "PROCESSING", "SUBMITTED", "VERIFIED", "FAILED"},
   phase: ExecutionPhase, role: AssignedRole, rev: Nat,
   attempts: Nat, retries: Nat,
   waiting: BOOLEAN,                     \* next_retry_at lies ahead
   last: TaskEvent \cup {"NONE"},        \* event of the latest TaskTransitionLog
   rejections: Nat]                      \* TaskTransitionLogs of REVIEW_FAILURE

FreshRow(phase, role) ==
  [state |-> "READY", phase |-> phase, role |-> role, rev |-> 0,
   attempts |-> 0, retries |-> 0, waiting |-> FALSE, last |-> "NONE",
   rejections |-> 0]

(* The rows in the table.  The row of a coder no plan has named yet does   *)
(* not exist; row holds the values it is created with.                     *)
Existing == {Researcher, Planner} \cup plan

(* The tasks whose plan is the project's active_plan_id.                   *)
ActiveTasks == IF plan = {} THEN {Researcher, Planner} ELSE plan

Terminal(r) == r.phase \in TerminalPhases

-----------------------------------------------------------------------------
(* Changes of one row.                                                     *)

(* Definitions named Faulty... are not the engine: each is the definition  *)
(* that follows it with a plausible mistake, on which a property must fail.*)

(* The lock does not move the revision.                                    *)
FaultyHeld(r) ==
  IF r.state = "CLAIMED" THEN [r EXCEPT !.state = "PROCESSING"] ELSE r

(* The serialization lock of process_response: a claimed row goes to       *)
(* PROCESSING before anything else is checked.                             *)
Held(r) ==
  IF r.state = "CLAIMED"
  THEN [r EXCEPT !.state = "PROCESSING", !.rev = @ + 1]
  ELSE r

(* A missing new_role is written instead of keeping the role of the row.   *)
FaultyMovedRole(r, event, state, phase, role) ==
  [r EXCEPT !.state = state, !.phase = phase, !.role = role,
            !.rev = @ + 1, !.last = event]

(* The transition does not move the revision.                              *)
FaultyMovedRevision(r, event, state, phase, role) ==
  [r EXCEPT !.state = state, !.phase = phase,
            !.role = IF role = NoRole THEN @ ELSE role,
            !.last = event]

(* transition_task_atomic with the TaskTransitionLog that follows it.      *)
Moved(r, event, state, phase, role) ==
  [r EXCEPT !.state = state, !.phase = phase,
            !.role = IF role = NoRole THEN @ ELSE role,
            !.rev = @ + 1,
            !.last = event,
            !.rejections = IF event = "REVIEW_FAILURE" THEN @ + 1 ELSE @]

(* Work for the system is offered to the workers.                          *)
FaultyStateFor(phase, role) ==
  IF phase = "COMPLETE" THEN "VERIFIED"
  ELSE IF phase \in FailedPhases THEN "FAILED"
  ELSE "READY"

(* The state process_response derives from the phase and role it moves to. *)
StateFor(phase, role) ==
  IF phase = "COMPLETE" THEN "VERIFIED"
  ELSE IF phase \in FailedPhases THEN "FAILED"
  ELSE IF role = "SYSTEM" THEN "SUBMITTED"
  ELSE "READY"

Routed(r, event, phase, role) ==
  Moved(r, event, StateFor(phase, role), phase, role)

Charged(r) == [r EXCEPT !.attempts = @ + 1]

(* The limit is compared with the attempts before they are charged.        *)
FaultyChargedFor(r, event, limit, phase, role, lastRole) ==
  IF r.attempts >= limit
  THEN Routed(Charged(r), event, "FAILED_ITERATION_LIMIT", lastRole)
  ELSE Routed(Charged(r), event, phase, role)

(* A failure that costs an attempt: the task goes to (phase, role), or to  *)
(* FAILED_ITERATION_LIMIT (and lastRole) once the attempts reach limit.    *)
ChargedFor(r, event, limit, phase, role, lastRole) ==
  IF r.attempts + 1 >= limit
  THEN Routed(Charged(r), event, "FAILED_ITERATION_LIMIT", lastRole)
  ELSE Routed(Charged(r), event, phase, role)

(* _evaluate_retry_policy and the transition of a WORKER_TIMEOUT.          *)
Expired(r) ==
  LET late == [r EXCEPT !.retries = @ + 1] IN
  IF late.retries >= MaxIterations
  THEN Moved(late, "WORKER_TIMEOUT", "FAILED", "FAILED", NoRole)
  ELSE [Moved(late, "WORKER_TIMEOUT", "READY", r.phase, NoRole)
          EXCEPT !.waiting = TRUE]

(* What the same call leaves behind when its compare-and-swap fails: the   *)
(* retry count and the backoff it put on its copy s of the row are still   *)
(* written when the session commits.                                       *)
WrittenAnyway(r, s) ==
  [r EXCEPT !.retries = s.retries + 1,
            !.waiting = @ \/ s.retries + 1 < MaxIterations]

Put(t, r) == row' = [row EXCEPT ![t] = r]

-----------------------------------------------------------------------------
(* Scheduler.                                                              *)

(* Task.dependencies: only create_run fills it.                            *)
Deps(t) == IF t = Planner THEN {Researcher} ELSE {}

(* get_unassigned_ready_tasks, before its dependency check.  The bound     *)
(* leaves room for the lock, the answer and the verification.              *)
Ready ==
  {t \in ActiveTasks : /\ row[t].state = "READY"
                       /\ ~row[t].waiting
                       /\ row[t].rev + 4 <= MaxRev}

(* A dependency only has to be over.                                       *)
FaultyRunnable == {t \in Ready : \A d \in Deps(t) : Terminal(row[d])}

(* _dependency_status: "complete" and "failed".                            *)
Runnable == {t \in Ready : \A d \in Deps(t) : row[d].phase = "COMPLETE"}

Doomed ==
  {t \in Ready : /\ \A d \in Deps(t) : Terminal(row[d])
                 /\ \E d \in Deps(t) : row[d].phase \in FailedPhases}

(* is_coder_gate_blocked, with CODER_GATE_BLOCKING_STATES as they are: of  *)
(* its names only CLAIMED and SUBMITTED ever stand in the state column.    *)
GateBlocked(t) ==
  \E u \in Existing \ {t} :
    /\ row[u].role = "CODER"
    /\ row[u].state \in {"CLAIMED", "IN_PROGRESS", "SUBMITTED",
                         "VERIFYING", "REVIEWING"}

CodersRunnable == {t \in Runnable : row[t].role = "CODER"}

(* Every coder whose gate is open when the tick starts is assigned.        *)
FaultyBatches ==
  {(Runnable \ CodersRunnable) \cup {t \in CodersRunnable : ~GateBlocked(t)}}

(* What one tick assigns: every runnable task that is not a coder's, and   *)
(* at most one coder's whose gate is open.                                 *)
Batches ==
  LET others == Runnable \ CodersRunnable
      open == {t \in CodersRunnable : ~GateBlocked(t)}
  IN IF open = {} THEN {others} ELSE {others \cup {t} : t \in open}

(* The claim does not move the revision.                                   *)
FaultyClaimed(r) == [r EXCEPT !.state = "CLAIMED"]

(* assign_task_with_timeout: the claim of a ready row.                     *)
Claimed(r) == [r EXCEPT !.state = "CLAIMED", !.rev = @ + 1]

(* A task whose dependency failed fails with it, at its revision.          *)
CascadeFailed(r) == [r EXCEPT !.state = "FAILED", !.phase = "FAILED"]

Assignments(batch) == {<<t, row[t].rev + 1>> : t \in batch}

(* The watchdog, the verification, the scheduler and the completion check  *)
(* follow one another in tick: none starts while the watchdog is between   *)
(* its read and its commit.                                                *)
Ticking == run = "ACTIVE" /\ watch = {}

(* assign_unassigned_ready_tasks: claims, hands the assignments to the     *)
(* messenger, commits.                                                     *)
Schedule ==
  /\ Ticking
  /\ \E batch \in Batches :
       /\ batch \cup Doomed # {}
       /\ row' = [t \in Task |-> IF t \in batch THEN Claimed(row[t])
                                 ELSE IF t \in Doomed THEN CascadeFailed(row[t])
                                 ELSE row[t]]
       /\ dispatched' = dispatched \cup Assignments(batch)
  /\ UNCHANGED <<plan, run, watch, latches>>

(* The same when the commit fails: nothing is stored, but the messenger    *)
(* callbacks were created before it and run.                               *)
ScheduleRolledBack ==
  /\ FaultyDb
  /\ Ticking
  /\ \E batch \in Batches :
       /\ batch # {}
       /\ dispatched' = dispatched \cup Assignments(batch)
  /\ UNCHANGED <<row, plan, run, watch, latches>>

-----------------------------------------------------------------------------
(* Guardian: process_response for an answer m to an assignment of t.  An   *)
(* answer may come at any time after its dispatch, more than once, or      *)
(* never; it is not held back by the end of the run.                       *)

(* The terminal check, the revision check, and the plan filter of the lock.*)
Arrives(t) ==
  /\ <<t, row[t].rev>> \in dispatched
  /\ ~Terminal(row[t])
  /\ t \in ActiveTasks

Authorized(r, m) ==
  /\ m.sender \in {r.role, "SYSTEM"}
  /\ AuthorizeEvent(r.phase, m.sender, m.event)

(* A refusal after the lock: process_response returns, the session commits *)
(* and the row stays in PROCESSING.                                        *)
Refuse(t, m) ==
  /\ Arrives(t)
  /\ ~Authorized(row[t], m)
  /\ Put(t, Held(row[t]))
  /\ UNCHANGED <<plan, dispatched, run, watch, latches>>

Answered(t, m, event, verdict) ==
  /\ Arrives(t)
  /\ Authorized(row[t], m)
  /\ m.event = event
  /\ m.verdict = verdict
  /\ UNCHANGED <<dispatched, run, watch, latches>>

(* persist_artifacts fails: as for a refusal, except that a TASK_FAILED    *)
(* has been charged by then.                                               *)
Unsaved(t, m) ==
  /\ Answered(t, m, m.event, "store")
  /\ Put(t, IF m.event = "TASK_FAILED" THEN Charged(Held(row[t]))
            ELSE Held(row[t]))
  /\ UNCHANGED plan

(* The events that take the row where the matrix says, at no charge.       *)
Accept(t, m) ==
  /\ m.event \notin {"TASK_FAILED", "PLAN_SUBMITTED", "REVIEW_FAILURE"}
  /\ Answered(t, m, m.event, "ok")
  /\ \E move \in Matrix :
       /\ move.from = row[t].phase
       /\ move.event = m.event
       /\ Put(t, Routed(Held(row[t]), m.event, move.to, move.role))
  /\ UNCHANGED plan

ReportFailure(t, m) ==
  /\ Answered(t, m, "TASK_FAILED", "ok")
  /\ \E move \in Matrix :
       /\ move.from = row[t].phase
       /\ move.event = m.event
       /\ Put(t, ChargedFor(Held(row[t]), m.event, MaxIterations,
                            move.to, move.role, NoRole))
  /\ UNCHANGED plan

(* Artifacts that break the contract of a coder or the researcher's policy *)
(* send the task back, charged but without a limit.                        *)
BreakContract(t, m) ==
  /\ \/ /\ Answered(t, m, "CODE_SUBMITTED", "contract")
        /\ Put(t, Routed(Charged(Held(row[t])), "SUBMISSION_INVALID_SCHEMA",
                         "CODING", "CODER"))
     \/ /\ Answered(t, m, "RESEARCH_COMPLETE", "contract")
        /\ Put(t, Routed(Charged(Held(row[t])), "SUBMISSION_INVALID_SCHEMA",
                         "RESEARCHING", "RESEARCHER"))
  /\ UNCHANGED plan

(* A submission out of scope is sent back without a limit.                 *)
FaultyLeaveScope(t, m) ==
  /\ Answered(t, m, "CODE_SUBMITTED", "scope")
  /\ Put(t, Routed(Charged(Held(row[t])), "VERIFY_FAILURE", "CODING", "CODER"))
  /\ UNCHANGED plan

(* Files outside expected_artifacts: a VERIFY_FAILURE of the guardian.     *)
LeaveScope(t, m) ==
  /\ Answered(t, m, "CODE_SUBMITTED", "scope")
  /\ Put(t, ChargedFor(Held(row[t]), "VERIFY_FAILURE", MaxIterations,
                       "CODING", "CODER", "SYSTEM"))
  /\ UNCHANGED plan

(* The researcher changed the project's own files.                         *)
Drift(t, m) ==
  /\ Answered(t, m, "RESEARCH_COMPLETE", "drift")
  /\ Put(t, Routed(Held(row[t]), m.event, "FAILED", NoRole))
  /\ UNCHANGED plan

(* PLAN_SUBMITTED: the new plan becomes the active one with its tasks, the *)
(* planner's task is done.  The rows are given the ids, the descriptions   *)
(* and the artifacts of the plan, not its dependencies (PlanOrder).  An id *)
(* that exists already makes the commit fail: the transaction is rolled    *)
(* back and the answer is lost, which is no step, as any may be.           *)
AcceptPlan(t, m) ==
  /\ Answered(t, m, "PLAN_SUBMITTED", "ok")
  /\ \E tasks \in SUBSET Coders \ {{}} :
       /\ tasks \cap Existing = {}
       /\ plan' = tasks
  /\ Put(t, Routed(Held(row[t]), m.event, "COMPLETE", NoRole))

RejectPlan(t, m) ==
  /\ Answered(t, m, "PLAN_SUBMITTED", "plan")
  /\ Put(t, ChargedFor(Held(row[t]), m.event, MaxIterations,
                       "PLANNING", "PLANNER", NoRole))
  /\ UNCHANGED plan

(* REVIEW_FAILURE: charged against the limit of rejections, unless the     *)
(* latest transition of the task is a REVIEW_FAILURE already.              *)
RejectReview(t, m) ==
  /\ Answered(t, m, "REVIEW_FAILURE", "ok")
  /\ Put(t, IF row[t].last = "REVIEW_FAILURE"
            THEN Routed(Held(row[t]), m.event, "CODING", "CODER")
            ELSE ChargedFor(Held(row[t]), m.event, MaxRejections,
                            "CODING", "CODER", NoRole))
  /\ UNCHANGED plan

-----------------------------------------------------------------------------
(* Orchestrator.                                                           *)

Submitted ==
  {t \in Existing : row[t].role = "SYSTEM" /\ row[t].phase = "VERIFYING"}

(* _handle_verification_phase: the sandbox runs the artifacts of every     *)
(* submitted task, and the guardian takes the results, in one session.     *)
Verify ==
  /\ Ticking
  /\ Submitted # {}
  /\ \E passed \in SUBSET Submitted :
       row' = [t \in Task |->
                 IF t \in passed
                 THEN Routed(Held(row[t]), "VERIFY_SUCCESS", "REVIEWING", "REVIEWER")
                 ELSE IF t \in Submitted
                 THEN ChargedFor(Held(row[t]), "VERIFY_FAILURE", MaxIterations,
                                 "CODING", "CODER", NoRole)
                 ELSE row[t]]
  /\ UNCHANGED <<plan, dispatched, run, watch, latches>>

(* A task is taken back once, under whatever revision.                     *)
FaultyWatchable ==
  {t \in Existing : row[t].state = "CLAIMED" /\ \A l \in latches : l[1] # t}

(* _handle_worker_timeouts reads the claimed rows.  victims are those past *)
(* the hard timeout: which ones is up to the clock.                        *)
Watchable ==
  {t \in Existing : row[t].state = "CLAIMED" /\ <<t, row[t].rev>> \notin latches}

WatchRead(victims) ==
  /\ Ticking
  /\ victims # {}
  /\ watch' = {[task |-> t, rev |-> row[t].rev, retries |-> row[t].retries] :
               t \in victims}
  /\ UNCHANGED <<row, plan, dispatched, run, latches>>

Latched == latches \cup {<<s.task, s.rev>> : s \in watch}

(* The timeout is written without comparing the revision.                  *)
FaultyWatchCommit ==
  /\ watch # {}
  /\ row' = [t \in Task |-> IF \E s \in watch : s.task = t THEN Expired(row[t])
                            ELSE row[t]]
  /\ watch' = {}
  /\ latches' = Latched
  /\ UNCHANGED <<plan, dispatched, run>>

(* It then raises WORKER_TIMEOUT for each victim and commits.  The         *)
(* guardian compares the revision with the copy the watchdog has read; an  *)
(* answer committed since then shows only in the compare-and-swap.         *)
WatchCommit ==
  /\ watch # {}
  /\ row' = [t \in Task |->
               IF \E s \in watch : s.task = t
               THEN LET s == CHOOSE s \in watch : s.task = t IN
                    IF s.rev = row[t].rev THEN Expired(row[t])
                    ELSE WrittenAnyway(row[t], s)
               ELSE row[t]]
  /\ watch' = {}
  /\ latches' = Latched
  /\ UNCHANGED <<plan, dispatched, run>>

(* The same when the commit fails: the latches are kept in memory.         *)
WatchRolledBack ==
  /\ FaultyDb
  /\ watch # {}
  /\ watch' = {}
  /\ latches' = Latched
  /\ UNCHANGED <<row, plan, dispatched, run>>

(* The clock passes next_retry_at.                                         *)
BackoffEnds(t) ==
  /\ row[t].waiting
  /\ Put(t, [row[t] EXCEPT !.waiting = FALSE])
  /\ UNCHANGED <<plan, dispatched, run, watch, latches>>

(* Only one of the two failed phases is counted as a failure.              *)
FaultyCheckCompletion ==
  /\ Ticking
  /\ \A t \in Existing : Terminal(row[t])
  /\ run' = IF \E t \in Existing : row[t].phase = "FAILED"
            THEN "FAILED" ELSE "COMPLETED"
  /\ UNCHANGED <<row, plan, dispatched, watch, latches>>

(* The first failed task fails the run, others still being at work.        *)
FaultyFailFast ==
  /\ Ticking
  /\ \/ \A t \in Existing : Terminal(row[t])
     \/ \E t \in Existing : row[t].phase \in FailedPhases
  /\ run' = IF \E t \in Existing : row[t].phase \in FailedPhases
            THEN "FAILED" ELSE "COMPLETED"
  /\ UNCHANGED <<row, plan, dispatched, watch, latches>>

(* _check_run_completion.                                                  *)
CheckCompletion ==
  /\ Ticking
  /\ \A t \in Existing : Terminal(row[t])
  /\ run' = IF \E t \in Existing : row[t].phase \in FailedPhases
            THEN "FAILED" ELSE "COMPLETED"
  /\ UNCHANGED <<row, plan, dispatched, watch, latches>>

-----------------------------------------------------------------------------
(* Controller.create_run: a researcher, and a planner that depends on it.  *)
Init ==
  /\ row = [t \in Task |->
              IF t = Researcher THEN FreshRow("RESEARCHING", "RESEARCHER")
              ELSE IF t = Planner THEN FreshRow("PLANNING", "PLANNER")
              ELSE FreshRow("CODING", "CODER")]
  /\ plan = {}
  /\ dispatched = {}
  /\ run = "ACTIVE"
  /\ watch = {}
  /\ latches = {}

Intake(t, m) ==
  \/ Refuse(t, m)
  \/ Unsaved(t, m)
  \/ Accept(t, m)
  \/ ReportFailure(t, m)
  \/ BreakContract(t, m)
  \/ LeaveScope(t, m)
  \/ Drift(t, m)
  \/ AcceptPlan(t, m)
  \/ RejectPlan(t, m)
  \/ RejectReview(t, m)

Next ==
  \/ Schedule
  \/ ScheduleRolledBack
  \/ \E t \in Task : \E m \in Responses[row[t].role] : Intake(t, m)
  \/ Verify
  \/ \E victims \in SUBSET Watchable : WatchRead(victims)
  \/ WatchCommit
  \/ WatchRolledBack
  \/ \E t \in Task : BackoffEnds(t)
  \/ CheckCompletion

Spec == Init /\ [][Next]_vars

(* run_forever ticks for as long as the run is active, and the clock goes  *)
(* on: a task that stays claimed is past the hard timeout one day.  Nothing*)
(* is assumed of the workers, which may never answer.                      *)
Fairness ==
  /\ WF_vars(Schedule)
  /\ WF_vars(Verify)
  /\ WF_vars(WatchCommit)
  /\ WF_vars(CheckCompletion)
  /\ \A t \in Task : WF_vars(BackoffEnds(t))
  /\ \A t \in Task :
       WF_vars(\E victims \in SUBSET Watchable : t \in victims /\ WatchRead(victims))

FairSpec == Spec /\ Fairness

-----------------------------------------------------------------------------
(* Properties.                                                             *)

(* Types of the state.                                                     *)
TypeOK ==
  /\ row \in [Task -> Row]
  /\ plan \subseteq Coders
  /\ dispatched \subseteq Task \X Nat
  /\ run \in {"ACTIVE", "COMPLETED", "FAILED"}
  /\ watch \subseteq [task: Task, rev: Nat, retries: Nat]
  /\ latches \subseteq Task \X Nat

(* The columns state, execution_phase and assigned_role tell one story:    *)
(* they are written by nine different branches of the guardian, by the     *)
(* scheduler, the cascade and the watchdog, and each reader looks at       *)
(* another one of them (the scheduler and the watchdog at state, the       *)
(* verification at role and phase, the completion check at phase).         *)
WorkerStages ==
  {<<"RESEARCHING", "RESEARCHER">>, <<"PLANNING", "PLANNER">>,
   <<"CODING", "CODER">>, <<"REVIEWING", "REVIEWER">>}

Coherent(r) ==
  \/ /\ r.state \in {"READY", "CLAIMED", "PROCESSING"}
     /\ <<r.phase, r.role>> \in WorkerStages
  \/ /\ r.state = "SUBMITTED"
     /\ r.phase = "VERIFYING"
     /\ r.role = "SYSTEM"
  \/ r.state = "VERIFIED" /\ r.phase = "COMPLETE"
  \/ r.state = "FAILED" /\ r.phase \in FailedPhases

StagesCoherent == \A t \in Task : Coherent(row[t])

(* The revision fences the workers off: an assignment carries the current  *)
(* revision of its task only as long as the task is claimed under it, so   *)
(* no late, repeated or reordered answer passes the revision check of a    *)
(* task that was settled, taken back or verified meanwhile.                *)
Fenced ==
  \A t \in Task :
    <<t, row[t].rev>> \in dispatched => row[t].state = "CLAIMED"

(* Where an assignment stands: its revision is spent, or its task is       *)
(* claimed under it, or the tick that handed it out was rolled back and    *)
(* the task has not moved since.  Claims, and what the watchdog has read,  *)
(* stem from assignments.  With the types and the stages this is inductive.*)
AssignmentsAccounted ==
  /\ \A a \in dispatched :
       \/ a[2] < row[a[1]].rev
       \/ a[2] = row[a[1]].rev /\ row[a[1]].state = "CLAIMED"
       \/ a[2] = row[a[1]].rev + 1 /\ row[a[1]].state \in {"READY", "FAILED"}
  /\ \A t \in Task : row[t].state = "CLAIMED" => <<t, row[t].rev>> \in dispatched
  /\ \A s \in watch : <<s.task, s.rev>> \in dispatched

Inv == TypeOK /\ StagesCoherent /\ AssignmentsAccounted

(* The tasks of a plan exist only when research and planning are done, and *)
(* planning is first assigned when the research is done.                   *)
StagesInOrder ==
  /\ plan # {} => row[Planner].phase = "COMPLETE"
  /\ (\E a \in dispatched : a[1] = Planner) => row[Researcher].phase = "COMPLETE"

(* A run that has ended has no task left to do, and its status is what its *)
(* tasks came to, also after answers that arrive when it has ended.        *)
VerdictStands ==
  /\ run = "COMPLETED" => \A t \in Existing : row[t].state = "VERIFIED"
  /\ run = "FAILED" => /\ \A t \in Existing : Terminal(row[t])
                       /\ \E t \in Existing : row[t].state = "FAILED"

(* A task is rejected by its reviewer at most MaxRejections times, and     *)
(* fewer while it is still open, through every interleaving of timeouts,   *)
(* contract violations and repeated answers; the duplicate the guardian    *)
(* does not charge cannot occur, as between two reviews there is always    *)
(* another transition.                                                     *)
RejectionsBounded ==
  \A t \in Task :
    /\ row[t].rejections <= MaxRejections
    /\ ~Terminal(row[t]) => row[t].rejections < MaxRejections
    /\ row[t].phase = "REVIEWING" => row[t].last # "REVIEW_FAILURE"

(* Where no answer breaks its contract, the charges of an open task stay   *)
(* below its budgets, whichever of the failures they came from.            *)
OpenWithinBudget ==
  \A t \in Task :
    ~Terminal(row[t]) =>
      row[t].attempts < MaxIterations \/ row[t].attempts < MaxRejections

(* One coder at a time is at work under an assignment.                     *)
OneCoderClaimed ==
  \A t, u \in Task :
    /\ row[t].state = "CLAIMED" /\ row[t].role = "CODER"
    /\ row[u].state = "CLAIMED" /\ row[u].role = "CODER"
    => t = u

(* What is done or failed stays so.                                        *)
TerminalIsFinal ==
  [][\A t \in Task :
       Terminal(row[t]) => /\ row'[t].phase = row[t].phase
                           /\ row'[t].rev = row[t].rev]_vars

(* The engine implements the lease of a task.                              *)
StageOf(t) ==
  IF t \notin Existing THEN "absent"
  ELSE CASE row[t].state = "READY"      -> "open"
         [] row[t].state = "CLAIMED"    -> "held"
         [] row[t].state = "PROCESSING" -> "stuck"
         [] row[t].state = "SUBMITTED"  -> "parked"
         [] row[t].state = "VERIFIED"   -> "done"
         [] row[t].state = "FAILED"     -> "failed"

Lease == INSTANCE TaskLease WITH
  Seed    <- {Researcher, Planner},
  stage   <- [t \in Task |-> StageOf(t)],
  token   <- [t \in Task |-> row[t].rev],
  granted <- dispatched,
  verdict <- CASE run = "ACTIVE"    -> "pending"
               [] run = "COMPLETED" -> "good"
               [] run = "FAILED"    -> "bad"

LeaseSpec == Lease!Spec

(* A run ends, however many answers are lost, late or repeated: the        *)
(* watchdog takes back what is not answered and the budgets run out.       *)
RunEnds == <>(run # "ACTIVE")

-----------------------------------------------------------------------------
(* What the documentation says and the code does not do.                   *)

(* docs/decisions/Stand 04.07.2026.md: "HARD TIMEOUT darf PROCESSING       *)
(* überschreiben", and of 03.07: "Kein Mutex-Deadlock".  An answer refused *)
(* after the lock leaves its task in PROCESSING, where neither the         *)
(* scheduler nor the watchdog looks for it.                                *)
ProcessingEnds ==
  \A t \in Task : row[t].state = "PROCESSING" ~> row[t].state # "PROCESSING"

(* scheduler.py, _handle_assignments: "Block CODER dispatch when another   *)
(* CODER task in the same run is still non-terminal".  While a coder's     *)
(* work is verified or reviewed its role is no longer CODER, and the gate  *)
(* lets the next coder start.                                              *)
AtWork(t) ==
  /\ t \in plan
  /\ row[t].state \in {"CLAIMED", "PROCESSING", "SUBMITTED"} \/ row[t].phase = "REVIEWING"

CodersSerial == \A t, u \in Task : AtWork(t) /\ AtWork(u) => t = u

(* repository.py, get_unassigned_ready_tasks: "a task is dispatchable only  *)
(* once ALL its dependencies are COMPLETE".  Of the dependencies a planner *)
(* is told to declare between the tasks of its plan, none reaches a row.   *)
PlanOrderKept ==
  \A d \in PlanOrder :
    /\ {d[1], d[2]} \subseteq plan
    /\ \E a \in dispatched : a[1] = d[1]
    => row[d[2]].phase = "COMPLETE"

(* settings.py: "Nach N Reviewer-Ablehnungen -> Task                       *)
(* FAILED_ITERATION_LIMIT".  The attempts that are compared with N also    *)
(* count the failures of the coder and of the verification.                *)
FailedByReviews ==
  \A t \in Task :
    row[t].last = "REVIEW_FAILURE" /\ Terminal(row[t])
      => row[t].rejections = MaxRejections
=============================================================================
