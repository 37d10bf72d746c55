----------------------------- MODULE InProcess -----------------------------
(***************************************************************************)
(* The engine with the workers of its own process: run_snake.py without    *)
(* pi.  InternalTransport is two queues in memory, one for each direction, *)
(* and run_worker_sim, a single coroutine, takes the assignments one after *)
(* the other, asks the language model, and publishes an answer to each.    *)
(*                                                                         *)
(* The engine is Engine, whose steps are joined with those of the queues.  *)
(* Its watchdog has no part here: it takes an assignment back after thirty *)
(* minutes, and main gives a run up after twenty.                          *)
(***************************************************************************)
EXTENDS Engine, Sequences, SequencesExt

CONSTANT MaxFaults  \* bound of the model: commits that fail, answers lost to
                    \* an exception or a store, and breaches of a contract

ASSUME FaultsBounded == MaxFaults \in Nat

(* A plan names finitely many tasks.                                       *)
ASSUME CodersFinite == IsFiniteSet(Coders)

VARIABLES
  queue,     \* InternalTransport._dispatch_queue
  work,      \* the assignment run_worker_sim asks the model about, or Idle
  inbox,     \* InternalTransport._queue with what was polled and not yet taken in
  up,        \* main awaits the run, and the simulator is not cancelled
  repeated,  \* history: how often a tick that was rolled back handed out each task
  lost,      \* history: <<task, state_revision>> of answers with an error inside
  faults     \* failures so far

simulator == <<queue, work, inbox, up>>
history   == <<repeated, lost, faults>>
allvars   == <<vars, simulator, history>>

(* The payload of the scheduler, and what is answered to it.               *)
Assignment == [task: Task, rev: Nat, role: AssignedRole]
Idle == [task |-> Planner, rev |-> 0, role |-> NoRole]

Published(a, answer) == Append(inbox, [task |-> a.task, rev |-> a.rev, answer |-> answer])

Fault == faults < MaxFaults /\ faults' = faults + 1

-----------------------------------------------------------------------------
(* The ticks of the engine.                                                *)

AssignmentOf(t) == [task |-> t, rev |-> row[t].rev + 1, role |-> row[t].role]

(* InternalTransport.dispatch of every task of a batch, in the order of    *)
(* the rows.                                                               *)
Enqueued(batch) ==
  \E order \in SetToSeqs({AssignmentOf(t) : t \in batch}) : queue' = queue \o order

Assign ==
  /\ Schedule
  /\ Enqueued({t \in Task : row[t].state = "READY" /\ row'[t].state = "CLAIMED"})
  /\ UNCHANGED <<work, inbox, up, history>>

(* The commit of the tick fails when its callbacks are on their way.       *)
AssignRolledBack ==
  /\ Fault
  /\ Ticking
  /\ \E batch \in Batches :
       /\ batch # {}
       /\ dispatched' = dispatched \cup Assignments(batch)
       /\ Enqueued(batch)
       /\ repeated' = [t \in Task |-> IF t \in batch THEN repeated[t] + 1 ELSE repeated[t]]
  /\ UNCHANGED <<row, plan, run, watch, latches, work, inbox, up, lost>>

VerifySubmitted == Verify /\ UNCHANGED <<simulator, history>>

Conclude == CheckCompletion /\ UNCHANGED <<simulator, history>>

(* Whoever holds the claim, the answer passes.                             *)
FaultyCurrent(m) == Arrives(m.task)

(* An answer whose files the store fails to write.                         *)
Unstored(answer) == [answer EXCEPT !.verdict = "store"]

HasFiles(answer) == answer.event \in {"CODE_SUBMITTED", "RESEARCH_COMPLETE"}

(* process_serialized: the answers of a poll are taken in by coroutines of *)
(* their own, in whatever order these come to their transaction.           *)
Current(m) == m.rev = row[m.task].rev /\ Arrives(m.task)

TakeIn(i) ==
  LET m == inbox[i] IN
  /\ inbox' = RemoveAt(inbox, i)
  /\ \/ ~Current(m) /\ UNCHANGED <<vars, lost, faults>>
     \/ Current(m) /\ Intake(m.task, m.answer) /\ UNCHANGED <<lost, faults>>
     \/ /\ Fault
        /\ Current(m)
        /\ HasFiles(m.answer)
        /\ Intake(m.task, Unstored(m.answer))
        /\ lost' = lost \cup {<<m.task, m.rev>>}
  /\ UNCHANGED <<queue, work, up, repeated>>

(* An exception, such as that of a failed commit, is logged: the message   *)
(* is acknowledged, the transaction rolled back.                           *)
LoseAnswer(i) ==
  /\ Fault
  /\ inbox' = RemoveAt(inbox, i)
  /\ lost' = lost \cup {<<inbox[i].task, inbox[i].rev>>}
  /\ UNCHANGED <<vars, queue, work, up, repeated>>

-----------------------------------------------------------------------------
(* The simulator and its workers.                                          *)

Reply(event, role, verdict) == [event |-> event, sender |-> role, verdict |-> verdict]

(* _create_error_report, and the reply of run_worker_sim to any exception. *)
Failure(role) == Reply("TASK_FAILED", role, "ok")

(* What each worker makes of an answer of the model that it can read; the  *)
(* guardian may find fault with it all the same.                           *)

(* PlannerWorker: a plan with tasks.                                       *)
PlanReplies == {Reply("PLAN_SUBMITTED", "PLANNER", v) : v \in {"ok", "plan"}}

(* ExecutionWorker: files, perhaps none, whose actions are whatever words  *)
(* the model uses.                                                         *)
CodeReplies ==
  {Reply("CODE_SUBMITTED", "CODER", v) : v \in {"ok", "contract", "scope"}}

(* ResearcherWorker: a brief, which need not be a text.                    *)
BriefReplies ==
  {Reply("RESEARCH_COMPLETE", "RESEARCHER", v) : v \in {"ok", "contract"}}

Readable(role) ==
  CASE role = "PLANNER"    -> PlanReplies
    [] role = "CODER"      -> CodeReplies
    [] role = "RESEARCHER" -> BriefReplies

(* A failure stands for the verdict the model did not give.                *)
FaultyApproval == Failure("REVIEWER")

(* The simulator approves what it is given to review.                      *)
Approval == Reply("REVIEW_APPROVED", "REVIEWER", "ok")

(* The roles the simulator has a branch for, and all it may answer.        *)
ServedRole == {"PLANNER", "CODER", "RESEARCHER", "REVIEWER"}

Replies(role) ==
  IF role = "REVIEWER" THEN {Approval} ELSE Readable(role) \cup {Failure(role)}

(* These answers are among those Engine's workers may give, as their files *)
(* are stored or not, and Engine's commits may fail.                       *)
ASSUME EngineCovers ==
  /\ FaultyDb = TRUE
  /\ \A role \in ServedRole : \A answer \in Replies(role) :
       /\ answer \in Responses[role]
       /\ HasFiles(answer) => Unstored(answer) \in Responses[role]

(* There is no branch for the reviewers: their assignments are skipped.    *)
FaultyFetch ==
  /\ up /\ work = Idle /\ queue # <<>>
  /\ queue' = Tail(queue)
  /\ work' = IF Head(queue).role = "REVIEWER" THEN Idle ELSE Head(queue)
  /\ UNCHANGED <<vars, inbox, up, history>>

Fetch ==
  /\ up /\ work = Idle /\ queue # <<>>
  /\ queue' = Tail(queue)
  /\ IF Head(queue).role = "REVIEWER"
     THEN inbox' = Published(Head(queue), Approval) /\ UNCHANGED work
     ELSE work' = Head(queue) /\ UNCHANGED inbox
  /\ UNCHANGED <<vars, up, history>>

(* handle_request and handle_assignment, when the call returns.            *)
Respond ==
  /\ up /\ work # Idle
  /\ \E answer \in Readable(work.role) :
       /\ inbox' = Published(work, answer)
       /\ IF answer.verdict = "contract" THEN Fault ELSE UNCHANGED faults
  /\ work' = Idle
  /\ UNCHANGED <<vars, queue, up, repeated, lost>>

(* The worker tries again itself, and reports the failure as well.         *)
FaultyGiveUp ==
  /\ up /\ work # Idle
  /\ inbox' = Published(work, Failure(work.role))
  /\ work' = Idle
  /\ queue' = Append(queue, work)
  /\ UNCHANGED <<vars, up, history>>

(* The exception of the provider ends the turn of the simulator.           *)
FaultyUnanswered ==
  /\ up /\ work # Idle
  /\ work' = Idle
  /\ UNCHANGED <<vars, queue, inbox, up, history>>

(* The answer is refused by the worker, or the call fails, or it has taken *)
(* 305 seconds: generate_json raises, and the simulator reports a failure. *)
GiveUp ==
  /\ up /\ work # Idle
  /\ inbox' = Published(work, Failure(work.role))
  /\ work' = Idle
  /\ UNCHANGED <<vars, queue, up, history>>

(* main sees the end of the run, or twenty minutes are over: the simulator *)
(* is cancelled in the middle of whatever it does.  A tick of the engine   *)
(* that is under way is completed.                                         *)
Stop ==
  /\ up
  /\ up' = FALSE /\ work' = Idle
  /\ UNCHANGED <<vars, queue, inbox, history>>

-----------------------------------------------------------------------------
SimulatedInit ==
  /\ Init
  /\ queue = <<>> /\ work = Idle /\ inbox = <<>> /\ up = TRUE
  /\ repeated = [t \in Task |-> 0] /\ lost = {} /\ faults = 0

SimulatedNext ==
  \/ Assign
  \/ AssignRolledBack
  \/ VerifySubmitted
  \/ Conclude
  \/ \E i \in DOMAIN inbox : TakeIn(i) \/ LoseAnswer(i)
  \/ Fetch
  \/ Respond
  \/ GiveUp
  \/ Stop

SimulatedSpec == SimulatedInit /\ [][SimulatedNext]_allvars

(* The coroutines run and every call ends in time, which is when it is     *)
(* given up.  Of the model nothing is assumed, and the run need not be     *)
(* stopped.  The answers are finitely many, none can be passed over.       *)
SimulatedFairness ==
  /\ WF_allvars(Assign)
  /\ WF_allvars(VerifySubmitted)
  /\ WF_allvars(Conclude)
  /\ WF_allvars(\E i \in DOMAIN inbox : TakeIn(i))
  /\ WF_allvars(Fetch)
  /\ WF_allvars(GiveUp)

FairSimulatedSpec == SimulatedSpec /\ SimulatedFairness

-----------------------------------------------------------------------------
(* Properties.                                                             *)

(* Types of the state.                                                     *)
SimulatorTypeOK ==
  /\ queue \in Seq(Assignment)
  /\ work \in Assignment \cup {Idle}
  /\ inbox \in Seq([task: Task, rev: Nat, answer: Response])
  /\ up \in BOOLEAN
  /\ repeated \in [Task -> Nat]
  /\ lost \subseteq Task \X Nat

(* How often a task occurs in one of the queues, and, with what is worked  *)
(* on, how many of its assignments and answers are on their way.           *)
Occurrences(seq, t) == Cardinality({i \in DOMAIN seq : seq[i].task = t})

Copies(t) ==
  Occurrences(queue, t) + Occurrences(inbox, t)
  + IF work # Idle /\ work.task = t THEN 1 ELSE 0

UnderWay(t, rev) ==
  \/ \E i \in DOMAIN queue : queue[i].task = t /\ queue[i].rev = rev
  \/ \E i \in DOMAIN inbox : inbox[i].task = t /\ inbox[i].rev = rev
  \/ work # Idle /\ work.task = t /\ work.rev = rev

(* A claimed task can count on an answer: while the simulator runs, its    *)
(* current assignment waits, is worked on or is answered, whatever the     *)
(* model returned, unless taking in the answer met an error.  Nobody else  *)
(* would free the task before the run is given up.                         *)
ClaimAnswered ==
  up => \A t \in Task :
          row[t].state = "CLAIMED" =>
            UnderWay(t, row[t].rev) \/ <<t, row[t].rev>> \in lost

(* "The worker does not retry; the Engine decides": of a task there is one *)
(* assignment or answer under way while it is claimed and none while it is *)
(* not, apart from those of ticks that were rolled back.                   *)
NoSecondCopy ==
  \A t \in Task :
    Copies(t) <= repeated[t] + IF row[t].state = "CLAIMED" THEN 1 ELSE 0

(* No task is left in PROCESSING by an answer of these workers, good or    *)
(* bad: the guardian refuses none of them under the role and in the phase  *)
(* its task is in, so only a store that fails can leave it there.          *)
OnlyStoreSticks ==
  \A t \in Task :
    row[t].state = "PROCESSING" => <<t, row[t].rev - 1>> \in lost

(* Engine is faithful to this process: each of its steps is one of         *)
(* Engine's, or none.  An answer is never taken in under another role than *)
(* the one its assignment was made for, although copies of an assignment   *)
(* outlive the tick that was rolled back, the claim and the phase.  This   *)
(* is Spec; that a step may be none is said again, and first, as most of   *)
(* the steps of this process are, which spares TLC Engine's Next.          *)
EngineSpec == Init /\ [][UNCHANGED vars \/ Next]_vars

(* Without the watchdog, and with a model that may never answer, a run     *)
(* reaches its verdict: every call is given up in time and every failure   *)
(* is charged.  The exceptions are an answer that met an error, and main's *)
(* own limit.                                                              *)
VerdictReached == <>(run # "ACTIVE" \/ ~up \/ lost # {})
=============================================================================
