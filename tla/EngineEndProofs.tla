--------------------------- MODULE EngineEndProofs ---------------------------
(***************************************************************************)
(* Proofs about how tasks and runs of Engine end: what is over is never    *)
(* reopened, and the verdict on a run stands.                              *)
(***************************************************************************)
EXTENDS EngineProofs

(* A row that waits for the scheduler, is held or is being verified is not *)
(* over.                                                                   *)
LEMMA OpenRow ==
  ASSUME NEW r, Coherent(r), r.state \in {"READY", "CLAIMED", "SUBMITTED"}
  PROVE  ~Terminal(r)
BY DEF Coherent, Terminal, WorkerStages, TerminalPhases, FailedPhases

(* Every answer changes the one row it arrives for.                        *)
LEMMA IntakeTouches ==
  ASSUME NEW t \in Task, NEW m \in Response, Intake(t, m)
  PROVE  /\ Arrives(t)
         /\ \E next : Put(t, next)
         /\ UNCHANGED <<dispatched, run, watch, latches>>
<1>1. CASE Refuse(t, m)
  BY <1>1 DEF Refuse
<1>2. CASE Unsaved(t, m)
  BY <1>2 DEF Unsaved, Answered
<1>3. CASE Accept(t, m)
  BY <1>3 DEF Accept, Answered
<1>4. CASE ReportFailure(t, m)
  BY <1>4 DEF ReportFailure, Answered
<1>5. CASE BreakContract(t, m)
  BY <1>5 DEF BreakContract, Answered
<1>6. CASE LeaveScope(t, m)
  BY <1>6 DEF LeaveScope, Answered
<1>7. CASE Drift(t, m)
  BY <1>7 DEF Drift, Answered
<1>8. CASE AcceptPlan(t, m)
  BY <1>8 DEF AcceptPlan, Answered
<1>9. CASE RejectPlan(t, m)
  BY <1>9 DEF RejectPlan, Answered
<1>10. CASE RejectReview(t, m)
  BY <1>10 DEF RejectReview, Answered
<1>11. QED
  BY <1>1, <1>2, <1>3, <1>4, <1>5, <1>6, <1>7, <1>8, <1>9, <1>10 DEF Intake

(* No step moves a row that is over.                                       *)
LEMMA OverStays ==
  ASSUME Inv, [Next]_vars, NEW u \in Task, Terminal(row[u])
  PROVE  /\ row'[u].phase = row[u].phase
         /\ row'[u].rev = row[u].rev
<1>1. row \in [Task -> Row] /\ row[u] \in Row /\ Coherent(row[u])
  BY DEF Inv, TypeOK, StagesCoherent
<1>2. row[u].state \notin {"READY", "CLAIMED", "SUBMITTED"}
  BY <1>1, OpenRow
<1>3. CASE Schedule
  <2>1. PICK batch \in Batches :
          row' = [t \in Task |-> IF t \in batch THEN Claimed(row[t])
                                 ELSE IF t \in Doomed THEN CascadeFailed(row[t])
                                 ELSE row[t]]
    BY <1>3 DEF Schedule
  <2>2. u \notin batch /\ u \notin Doomed
    BY <1>2, BatchReady
  <2>3. QED  BY <2>1, <2>2
<1>4. CASE \E t \in Task : \E m \in Responses[row[t].role] : Intake(t, m)
  <2>1. PICK t \in Task : \E m \in Responses[row[t].role] : Intake(t, m)
    BY <1>4
  <2>2. Responses[row[t].role] \subseteq Response
    BY ResponsesTyped DEF Inv, TypeOK, Row
  <2>3. Arrives(t) /\ \E next : Put(t, next)
    BY <2>1, <2>2, IntakeTouches
  <2>4. u # t
    BY <2>3 DEF Arrives
  <2>5. QED  BY <1>1, <2>3, <2>4 DEF Put
<1>5. CASE Verify
  <2>1. u \notin Submitted
    BY DEF Submitted, Terminal, TerminalPhases, FailedPhases
  <2>2. PICK passed \in SUBSET Submitted :
          row' = [t \in Task |->
                   IF t \in passed
                   THEN Routed(Held(row[t]), "VERIFY_SUCCESS", "REVIEWING", "REVIEWER")
                   ELSE IF t \in Submitted
                   THEN ChargedFor(Held(row[t]), "VERIFY_FAILURE", MaxIterations,
                                   "CODING", "CODER", NoRole)
                   ELSE row[t]]
    BY <1>5 DEF Verify
  <2>3. QED  BY <2>1, <2>2
<1>6. CASE WatchCommit
  BY <1>2, <1>6, WatchCommitRows DEF Stays
<1>7. CASE \E t \in Task : BackoffEnds(t)
  BY <1>1, <1>7 DEF BackoffEnds, Put
<1>8. CASE UNCHANGED row
  BY <1>8
<1>9. QED
  BY <1>3, <1>4, <1>5, <1>6, <1>7, <1>8
  DEF Next, ScheduleRolledBack, WatchRead, WatchRolledBack, CheckCompletion, vars

(* A task that is complete or failed keeps its phase and its revision:     *)
(* neither a late answer, nor the watchdog's stale copy of the row, nor    *)
(* another tick reopens it.                                                *)
THEOREM OverIsOver == Spec => TerminalIsFinal
<1>1. Inv /\ [Next]_vars =>
        [\A t \in Task : Terminal(row[t]) => /\ row'[t].phase = row[t].phase
                                             /\ row'[t].rev = row[t].rev]_vars
  BY OverStays
<1>2. QED  BY <1>1, Invariance, PTL DEF Spec, TerminalIsFinal

-----------------------------------------------------------------------------
(* When a run has ended, every row is over and the watchdog is at rest: it *)
(* acts on what it has read in the same tick, before the completion check. *)
Settled ==
  run # "ACTIVE" => watch = {} /\ \A t \in Existing : Terminal(row[t])

(* In a row that is over, the state column says how.                       *)
LEMMA OverState ==
  ASSUME NEW r, Coherent(r), Terminal(r)
  PROVE  /\ r.phase \in FailedPhases => r.state = "FAILED"
         /\ r.phase \notin FailedPhases => r.state = "VERIFIED"
BY DEF Coherent, Terminal, WorkerStages, TerminalPhases, FailedPhases

(* Once a run has ended, only backoffs still run out.                      *)
LEMMA EndedStep ==
  ASSUME Inv, Settled, run # "ACTIVE", [Next]_vars
  PROVE  /\ UNCHANGED <<plan, run, watch>>
         /\ \A t \in Existing : row'[t].state = row[t].state
                                /\ row'[t].phase = row[t].phase
<1>1. watch = {} /\ \A t \in Existing : Terminal(row[t])
  BY DEF Settled
<1>2. row \in [Task -> Row] /\ ActiveTasks \subseteq Existing /\ Existing \subseteq Task
  BY DEF Inv, TypeOK, ActiveTasks, Existing, Task
<1>3. ASSUME NEW t \in Task, NEW m \in Response, Intake(t, m)
      PROVE  FALSE
  BY <1>1, <1>2, <1>3, IntakeTouches DEF Arrives
<1>4. ~ \E t \in Task : \E m \in Responses[row[t].role] : Intake(t, m)
  BY <1>3, ResponsesTyped DEF Inv, TypeOK, Row
<1>5. CASE \E t \in Task : BackoffEnds(t)
  BY <1>2, <1>5 DEF BackoffEnds, Put
<1>6. CASE UNCHANGED vars
  BY <1>6 DEF vars
<1>7. QED
  BY <1>1, <1>4, <1>5, <1>6
  DEF Next, Schedule, ScheduleRolledBack, Verify, WatchRead, WatchCommit,
      WatchRolledBack, CheckCompletion, Ticking

(* The end is reached only by the completion check.                        *)
LEMMA EndingStep ==
  ASSUME Inv, run = "ACTIVE", run' # "ACTIVE", [Next]_vars
  PROVE  CheckCompletion
<1>1. ~ \E t \in Task : \E m \in Responses[row[t].role] : Intake(t, m)
  BY IntakeTouches, ResponsesTyped DEF Inv, TypeOK, Row
<1>2. QED
  BY <1>1 DEF Next, Schedule, ScheduleRolledBack, Verify, WatchRead, WatchCommit,
              WatchRolledBack, BackoffEnds, vars

LEMMA EndKept ==
  ASSUME Inv, Inv', Settled, VerdictStands, [Next]_vars
  PROVE  Settled' /\ VerdictStands'
<1>1. CASE run = "ACTIVE" /\ run' = "ACTIVE"
  BY <1>1 DEF Settled, VerdictStands
<1>2. CASE run = "ACTIVE" /\ run' # "ACTIVE"
  <2>1. CheckCompletion
    BY <1>2, EndingStep
  <2>2. /\ UNCHANGED <<row, plan, watch>>
        /\ watch = {}
        /\ \A t \in Existing : Terminal(row[t])
        /\ run' = IF \E t \in Existing : row[t].phase \in FailedPhases
                  THEN "FAILED" ELSE "COMPLETED"
    BY <2>1 DEF CheckCompletion, Ticking
  <2>3. \A t \in Existing : t \in Task /\ Coherent(row[t])
    BY DEF Inv, TypeOK, StagesCoherent, Existing, Task
  <2>4. \A t \in Existing : /\ row[t].phase \in FailedPhases => row[t].state = "FAILED"
                            /\ row[t].phase \notin FailedPhases => row[t].state = "VERIFIED"
    BY <2>2, <2>3, OverState
  <2>5. Existing' = Existing
    BY <2>2 DEF Existing
  <2>6. QED  BY <2>2, <2>4, <2>5 DEF Settled, VerdictStands, Terminal
<1>3. CASE run # "ACTIVE"
  <2>1. /\ UNCHANGED <<plan, run, watch>>
        /\ \A t \in Existing : row'[t].state = row[t].state
                               /\ row'[t].phase = row[t].phase
    BY <1>3, EndedStep
  <2>2. Existing' = Existing
    BY <2>1 DEF Existing
  <2>3. QED  BY <1>3, <2>1, <2>2 DEF Settled, VerdictStands, Terminal
<1>4. QED  BY <1>1, <1>2, <1>3

(* The verdict on a run is the one its tasks came to, and whatever arrives *)
(* after it changes neither.                                               *)
THEOREM VerdictIsLasting == Spec => []VerdictStands
<1>1. Init => Settled /\ VerdictStands
  BY DEF Init, Settled, VerdictStands
<1>2. Inv /\ Inv' /\ Settled /\ VerdictStands /\ [Next]_vars
        => Settled' /\ VerdictStands'
  BY EndKept
<1>3. QED  BY <1>1, <1>2, Invariance, PTL DEF Spec
=============================================================================
