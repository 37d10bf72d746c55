---------------------------- MODULE EngineProofs ----------------------------
(***************************************************************************)
(* Proofs about Engine, for every set of coders, every limit, every kind   *)
(* of answer, and with commits that may fail.                              *)
(*                                                                         *)
(* Inv is inductive.  The first part shows what the helpers make of one    *)
(* row, the second that a step which settles one claimed task keeps Inv,   *)
(* the third goes through the actions.                                     *)
(***************************************************************************)
EXTENDS Engine, TLAPS

Roles == AssignedRole \cup {NoRole}

(* Where a row may be routed: to a worker's phase with that worker's role, *)
(* to the verification with SYSTEM, or to its end with any role or none.   *)
Landing(phase, role) ==
  \/ <<phase, role>> \in WorkerStages \cup {<<"VERIFYING", "SYSTEM">>}
  \/ phase \in TerminalPhases /\ role \in Roles

(* A row that was moved on from r, and is no longer held by a worker.      *)
Onward(r, next) ==
  /\ next \in Row
  /\ Coherent(next)
  /\ next.rev > r.rev
  /\ next.state # "CLAIMED"

-----------------------------------------------------------------------------
(* The lock turns a claimed row into one in PROCESSING, one revision on.   *)
LEMMA HeldOnward ==
  ASSUME NEW r \in Row, Coherent(r), r.state = "CLAIMED"
  PROVE  /\ Onward(r, Held(r))
         /\ Held(r).phase = r.phase
<1>1. r.rev + 1 \in Nat
  BY DEF Row
<1>2. [r EXCEPT !.state = "PROCESSING", !.rev = r.rev + 1] \in Row
  BY <1>1 DEF Row
<1>3. /\ Held(r) \in Row
      /\ Held(r).state = "PROCESSING" /\ Held(r).rev = r.rev + 1
      /\ Held(r).phase = r.phase /\ Held(r).role = r.role
  BY <1>2 DEF Held, Row
<1>4. Held(r).rev > r.rev
  BY <1>3 DEF Row
<1>5. Coherent(Held(r))
  BY <1>3 DEF Coherent
<1>6. QED  BY <1>3, <1>4, <1>5 DEF Onward

(* What transition_task_atomic makes of a row.                             *)
LEMMA MovedRow ==
  ASSUME NEW r \in Row, NEW event \in TaskEvent,
         NEW state \in {"READY", "SUBMITTED", "VERIFIED", "FAILED"},
         NEW phase \in ExecutionPhase, NEW role \in Roles
  PROVE  /\ Moved(r, event, state, phase, role) \in Row
         /\ Moved(r, event, state, phase, role).state = state
         /\ Moved(r, event, state, phase, role).phase = phase
         /\ Moved(r, event, state, phase, role).role
              = IF role = NoRole THEN r.role ELSE role
         /\ Moved(r, event, state, phase, role).rev = r.rev + 1
<1> DEFINE newRole == IF role = NoRole THEN r.role ELSE role
<1> DEFINE newRev == r.rev + 1
<1> DEFINE rejected == IF event = "REVIEW_FAILURE" THEN r.rejections + 1
                       ELSE r.rejections
<1> DEFINE q == [r EXCEPT !.state = state, !.phase = phase, !.role = newRole,
                          !.rev = newRev, !.last = event, !.rejections = rejected]
<1>1. newRole \in AssignedRole /\ newRev \in Nat /\ rejected \in Nat
  BY DEF Row, Roles
<1>2. Moved(r, event, state, phase, role) = q
  BY DEF Moved
<1> HIDE DEF newRole, newRev, rejected
<1>3. /\ q \in Row
      /\ q.state = state /\ q.phase = phase /\ q.role = newRole /\ q.rev = newRev
  BY <1>1 DEF Row
<1>4. QED  BY <1>2, <1>3 DEF newRole, newRev

(* A charge changes the attempts only.                                     *)
LEMMA ChargedOnward ==
  ASSUME NEW r \in Row, NEW q \in Row, Onward(r, q)
  PROVE  Onward(r, Charged(q))
BY DEF Onward, Charged, Coherent, Row

(* Whatever row is routed to a landing is coherent there.                  *)
LEMMA RoutedOnward ==
  ASSUME NEW r \in Row, NEW event \in TaskEvent, NEW phase, NEW role,
         Landing(phase, role)
  PROVE  Onward(r, Routed(r, event, phase, role))
<1> DEFINE state == StateFor(phase, role)
<1> DEFINE q == Routed(r, event, phase, role)
<1>1. /\ phase \in ExecutionPhase
      /\ role \in Roles
      /\ state \in {"READY", "SUBMITTED", "VERIFIED", "FAILED"}
  BY DEF Landing, WorkerStages, Roles, AssignedRole, ExecutionPhase, WorkPhases,
         TerminalPhases, FailedPhases, StateFor
<1>2. /\ q.state = state
      /\ q.phase = phase
      /\ q.role = IF role = NoRole THEN r.role ELSE role
      /\ q.rev = r.rev + 1
      /\ q \in Row
  BY <1>1, MovedRow DEF Routed
<1>3. Coherent(q)
  <2>1. CASE phase \in TerminalPhases
    BY <1>2, <2>1 DEF Coherent, StateFor, TerminalPhases, FailedPhases
  <2>2. CASE <<phase, role>> = <<"VERIFYING", "SYSTEM">>
    BY <1>2, <2>2 DEF Coherent, StateFor, FailedPhases, NoRole
  <2>3. CASE <<phase, role>> \in WorkerStages
    BY <1>2, <2>3 DEF Coherent, StateFor, FailedPhases, WorkerStages, NoRole
  <2>4. QED  BY <2>1, <2>2, <2>3 DEF Landing
<1>4. q.rev > r.rev /\ q.state # "CLAIMED"
  BY <1>1, <1>2 DEF Row
<1>5. QED  BY <1>2, <1>3, <1>4 DEF Onward

(* A routed row is further on than the row it was held from.               *)
LEMMA HeldRouted ==
  ASSUME NEW r \in Row, NEW q \in Row, Onward(r, q),
         NEW event \in TaskEvent, NEW phase, NEW role, Landing(phase, role)
  PROVE  Onward(r, Routed(q, event, phase, role))
<1>1. Onward(q, Routed(q, event, phase, role))
  BY RoutedOnward
<1>2. QED  BY <1>1 DEF Onward, Row

(* Charging a failure leads onward whether or not the budget is spent.     *)
LEMMA ChargedForOnward ==
  ASSUME NEW r \in Row, NEW q \in Row, Onward(r, q),
         NEW event \in TaskEvent, NEW limit, NEW phase, NEW role,
         NEW lastRole \in Roles, Landing(phase, role)
  PROVE  Onward(r, ChargedFor(q, event, limit, phase, role, lastRole))
<1>1. Charged(q) \in Row /\ Onward(r, Charged(q))
  BY ChargedOnward DEF Onward
<1>2. Landing("FAILED_ITERATION_LIMIT", lastRole)
  BY DEF Landing, TerminalPhases, FailedPhases
<1>3. /\ Onward(r, Routed(Charged(q), event, phase, role))
      /\ Onward(r, Routed(Charged(q), event, "FAILED_ITERATION_LIMIT", lastRole))
  BY <1>1, <1>2, HeldRouted
<1>4. QED  BY <1>3 DEF ChargedFor

(* Every move of the governance matrix ends at a landing.                  *)
LEMMA MatrixLands ==
  \A move \in Matrix : Landing(move.to, move.role) /\ move.event \in TaskEvent
BY DEF Matrix, Move, Landing, WorkerStages, TerminalPhases, FailedPhases,
       Roles, AssignedRole, NoRole, TaskEvent

(* A timeout takes a claimed row back, or fails it.                        *)
LEMMA ExpiredOnward ==
  ASSUME NEW r \in Row, Coherent(r), r.state = "CLAIMED"
  PROVE  Onward(r, Expired(r))
<1> DEFINE late == [r EXCEPT !.retries = @ + 1]
<1> DEFINE failed == Moved(late, "WORKER_TIMEOUT", "FAILED", "FAILED", NoRole)
<1> DEFINE back == Moved(late, "WORKER_TIMEOUT", "READY", r.phase, NoRole)
<1>1. r.retries + 1 \in Nat
  BY DEF Row
<1>2. /\ late \in Row
      /\ late.rev = r.rev /\ late.phase = r.phase /\ late.role = r.role
  BY <1>1 DEF Row
<1>3. <<r.phase, r.role>> \in WorkerStages
  BY DEF Coherent
<1> HIDE DEF late
<1>4. /\ "WORKER_TIMEOUT" \in TaskEvent /\ "FAILED" \in ExecutionPhase
      /\ "FAILED" \in FailedPhases /\ NoRole \in Roles /\ r.phase \in ExecutionPhase
  BY DEF TaskEvent, ExecutionPhase, TerminalPhases, FailedPhases, Roles, Row
<1>5. /\ failed \in Row /\ failed.state = "FAILED" /\ failed.phase = "FAILED"
      /\ failed.rev = r.rev + 1
  BY <1>2, <1>4, MovedRow
<1>6. /\ back \in Row /\ back.state = "READY" /\ back.phase = r.phase
      /\ back.role = r.role /\ back.rev = r.rev + 1
  BY <1>2, <1>4, MovedRow
<1>7. Onward(r, failed)
  BY <1>4, <1>5 DEF Onward, Coherent, Row
<1>8. Onward(r, [back EXCEPT !.waiting = TRUE])
  <2> HIDE DEF back
  <2> DEFINE q == [back EXCEPT !.waiting = TRUE]
  <2>1. /\ q \in Row /\ q.state = "READY" /\ q.phase = r.phase /\ q.role = r.role
        /\ q.rev = r.rev + 1
    BY <1>6 DEF Row
  <2>2. Coherent(q)
    BY <1>3, <2>1 DEF Coherent
  <2>3. QED  BY <2>1, <2>2 DEF Onward, Row
<1>9. Expired(r) = failed \/ Expired(r) = [back EXCEPT !.waiting = TRUE]
  BY DEF Expired, late
<1>10. QED  BY <1>7, <1>8, <1>9

(* A charge that was written although the timeout lost its race does not   *)
(* move the row.                                                           *)
LEMMA WrittenStays ==
  ASSUME NEW r \in Row, Coherent(r), NEW s \in [task: Task, rev: Nat, retries: Nat]
  PROVE  /\ WrittenAnyway(r, s) \in Row
         /\ Coherent(WrittenAnyway(r, s))
         /\ WrittenAnyway(r, s).rev = r.rev
         /\ WrittenAnyway(r, s).phase = r.phase
         /\ WrittenAnyway(r, s).state = r.state
<1> DEFINE retries == s.retries + 1
<1> DEFINE waiting == r.waiting \/ s.retries + 1 < MaxIterations
<1> DEFINE q == [r EXCEPT !.retries = retries, !.waiting = waiting]
<1>1. retries \in Nat /\ waiting \in BOOLEAN
  OBVIOUS
<1>2. WrittenAnyway(r, s) = q
  BY DEF WrittenAnyway
<1> HIDE DEF retries, waiting
<1>3. /\ q \in Row
      /\ q.state = r.state /\ q.phase = r.phase /\ q.role = r.role /\ q.rev = r.rev
  BY <1>1 DEF Row
<1>4. Coherent(q)
  BY <1>3 DEF Coherent
<1>5. QED  BY <1>2, <1>3, <1>4

-----------------------------------------------------------------------------
(* Steps on the table.                                                     *)

(* The row keeps its revision and its state, or it leaves a state in which *)
(* it was neither ready nor failed and moves on.                           *)
Stays(t) ==
  /\ row'[t] \in Row
  /\ Coherent(row'[t])
  /\ row'[t].rev = row[t].rev
  /\ row'[t].state = row[t].state

Leaves(t) ==
  /\ row[t].state \notin {"READY", "FAILED"}
  /\ Onward(row[t], row'[t])

(* Inv survives a step in which every row stays or leaves, and nothing is  *)
(* handed out or read by the watchdog.                                     *)
LEMMA RowsKeepInv ==
  ASSUME Inv,
         row' = [t \in Task |-> row'[t]],
         \A t \in Task : Stays(t) \/ Leaves(t),
         plan' \subseteq Coders,
         dispatched' = dispatched,
         run' \in {"ACTIVE", "COMPLETED", "FAILED"},
         watch' \subseteq watch,
         latches' \subseteq Task \X Nat
  PROVE  Inv'
<1>1. \A t \in Task : row'[t] \in Row /\ Coherent(row'[t])
  BY DEF Stays, Leaves, Onward
<1>2. TypeOK'
  BY <1>1 DEF Inv, TypeOK
<1>3. StagesCoherent'
  BY <1>1 DEF StagesCoherent
<1>4. AssignmentsAccounted'
  <2>1. ASSUME NEW a \in dispatched'
        PROVE  \/ a[2] < row'[a[1]].rev
               \/ a[2] = row'[a[1]].rev /\ row'[a[1]].state = "CLAIMED"
               \/ a[2] = row'[a[1]].rev + 1 /\ row'[a[1]].state \in {"READY", "FAILED"}
    <3> DEFINE t == a[1]
    <3>1. t \in Task /\ a[2] \in Nat /\ a \in dispatched /\ row[t] \in Row
      BY <2>1 DEF Inv, TypeOK
    <3>2. /\ row[t].rev \in Nat
          /\ row'[t].rev \in Nat
      BY <1>1, <3>1 DEF Row
    <3>3. \/ a[2] < row[t].rev
          \/ a[2] = row[t].rev /\ row[t].state = "CLAIMED"
          \/ a[2] = row[t].rev + 1 /\ row[t].state \in {"READY", "FAILED"}
      BY <3>1 DEF Inv, AssignmentsAccounted
    <3>4. CASE Stays(t)
      BY <3>3, <3>4 DEF Stays
    <3>5. CASE Leaves(t)
      <4>1. row'[t].rev > row[t].rev /\ row[t].state \notin {"READY", "FAILED"}
        BY <3>5 DEF Leaves, Onward
      <4>2. QED  BY <3>1, <3>2, <3>3, <4>1
    <3>6. QED  BY <3>1, <3>4, <3>5
  <2>2. ASSUME NEW t \in Task, row'[t].state = "CLAIMED"
        PROVE  <<t, row'[t].rev>> \in dispatched'
    BY <2>2 DEF Stays, Leaves, Onward, Inv, AssignmentsAccounted
  <2>3. \A s \in watch' : <<s.task, s.rev>> \in dispatched'
    BY DEF Inv, AssignmentsAccounted
  <2>4. QED  BY <2>1, <2>2, <2>3 DEF AssignmentsAccounted
<1>5. QED  BY <1>2, <1>3, <1>4 DEF Inv

(* An answer that passes the revision check finds its task claimed.        *)
LEMMA ArrivesClaimed ==
  ASSUME Inv, NEW t \in Task, Arrives(t)
  PROVE  row[t] \in Row /\ Coherent(row[t]) /\ row[t].state = "CLAIMED"
<1>1. row[t] \in Row /\ Coherent(row[t]) /\ row[t].rev \in Nat
  BY DEF Inv, TypeOK, StagesCoherent, Row
<1>2. \/ row[t].rev < row[t].rev
      \/ row[t].state = "CLAIMED"
      \/ row[t].rev = row[t].rev + 1
  BY DEF Inv, AssignmentsAccounted, Arrives
<1>3. QED  BY <1>1, <1>2

(* Inv survives every answer that moves its task onward.                   *)
LEMMA SettleKeepsInv ==
  ASSUME Inv, NEW t \in Task, Arrives(t), NEW next, Onward(row[t], next),
         Put(t, next), plan' \subseteq Coders,
         UNCHANGED <<dispatched, run, watch, latches>>
  PROVE  Inv'
<1>1. row[t].state = "CLAIMED" /\ row \in [Task -> Row]
  BY ArrivesClaimed DEF Inv, TypeOK
<1>2. row' = [u \in Task |-> IF u = t THEN next ELSE row[u]]
  BY <1>1 DEF Put
<1>3. Leaves(t)
  BY <1>1, <1>2 DEF Leaves
<1>4. \A u \in Task \ {t} : Stays(u)
  BY <1>1, <1>2 DEF Stays, Inv, StagesCoherent
<1>5. /\ row' = [u \in Task |-> row'[u]]
      /\ run' \in {"ACTIVE", "COMPLETED", "FAILED"}
      /\ latches' \subseteq Task \X Nat
  BY <1>2 DEF Inv, TypeOK
<1>6. QED  BY <1>3, <1>4, <1>5, RowsKeepInv

(* In particular every answer that routes the held row.                    *)
LEMMA RouteKeepsInv ==
  ASSUME Inv, NEW t \in Task, Arrives(t), NEW event \in TaskEvent,
         NEW phase, NEW role, Landing(phase, role), NEW lastRole \in Roles, NEW limit,
         \/ Put(t, Routed(Held(row[t]), event, phase, role))
         \/ Put(t, Routed(Charged(Held(row[t])), event, phase, role))
         \/ Put(t, ChargedFor(Held(row[t]), event, limit, phase, role, lastRole)),
         plan' \subseteq Coders,
         UNCHANGED <<dispatched, run, watch, latches>>
  PROVE  Inv'
<1>1. Held(row[t]) \in Row /\ row[t] \in Row /\ Onward(row[t], Held(row[t]))
  BY ArrivesClaimed, HeldOnward DEF Onward
<1>2. Charged(Held(row[t])) \in Row /\ Onward(row[t], Charged(Held(row[t])))
  BY <1>1, ChargedOnward DEF Onward
<1>3. Onward(row[t], Routed(Held(row[t]), event, phase, role))
  BY <1>1, HeldRouted
<1>4. Onward(row[t], Routed(Charged(Held(row[t])), event, phase, role))
  BY <1>1, <1>2, HeldRouted
<1>5. Onward(row[t], ChargedFor(Held(row[t]), event, limit, phase, role, lastRole))
  BY <1>1, ChargedForOnward
<1>6. QED  BY <1>3, <1>4, <1>5, SettleKeepsInv

-----------------------------------------------------------------------------
(* The actions.                                                            *)

(* The answers of the workers, whoever gives them and however they fare.   *)
LEMMA IntakeKeepsInv ==
  ASSUME Inv, NEW t \in Task, NEW m \in Response, Intake(t, m)
  PROVE  Inv'
<1>1. plan \subseteq Coders
  BY DEF Inv, TypeOK
<1>2. m.event \in TaskEvent
  BY DEF Response
<1>3. /\ NoRole \in Roles /\ "SYSTEM" \in Roles
      /\ {"SUBMISSION_INVALID_SCHEMA", "VERIFY_FAILURE"} \subseteq TaskEvent
      /\ Landing("CODING", "CODER") /\ Landing("RESEARCHING", "RESEARCHER")
      /\ Landing("PLANNING", "PLANNER")
      /\ Landing("FAILED", NoRole) /\ Landing("COMPLETE", NoRole)
  BY DEF Roles, AssignedRole, TaskEvent, Landing, WorkerStages, TerminalPhases,
         FailedPhases
<1>4. CASE Refuse(t, m)
  <2>1. Onward(row[t], Held(row[t]))
    BY <1>4, ArrivesClaimed, HeldOnward DEF Refuse
  <2>2. QED  BY <1>1, <1>4, <2>1, SettleKeepsInv DEF Refuse
<1>5. CASE Unsaved(t, m)
  <2>1. Arrives(t)
    BY <1>5 DEF Unsaved, Answered
  <2>2. row[t] \in Row /\ Held(row[t]) \in Row /\ Onward(row[t], Held(row[t]))
    BY <2>1, ArrivesClaimed, HeldOnward DEF Onward
  <2>3. Onward(row[t], Charged(Held(row[t])))
    BY <2>2, ChargedOnward
  <2>4. QED  BY <1>1, <1>5, <2>1, <2>2, <2>3, SettleKeepsInv DEF Unsaved, Answered
<1>6. CASE Accept(t, m)
  <2>1. PICK move \in Matrix : Put(t, Routed(Held(row[t]), m.event, move.to, move.role))
    BY <1>6 DEF Accept
  <2>2. Landing(move.to, move.role)
    BY MatrixLands
  <2>3. QED
    BY <1>1, <1>2, <1>3, <1>6, <2>1, <2>2, RouteKeepsInv DEF Accept, Answered
<1>7. CASE ReportFailure(t, m)
  <2>1. PICK move \in Matrix :
          Put(t, ChargedFor(Held(row[t]), m.event, MaxIterations,
                            move.to, move.role, NoRole))
    BY <1>7 DEF ReportFailure
  <2>2. Landing(move.to, move.role)
    BY MatrixLands
  <2>3. QED
    BY <1>1, <1>2, <1>3, <1>7, <2>1, <2>2, RouteKeepsInv DEF ReportFailure, Answered
<1>8. CASE BreakContract(t, m)
  BY <1>1, <1>3, <1>8, RouteKeepsInv DEF BreakContract, Answered
<1>9. CASE LeaveScope(t, m)
  BY <1>1, <1>3, <1>9, RouteKeepsInv DEF LeaveScope, Answered
<1>10. CASE Drift(t, m)
  BY <1>1, <1>2, <1>3, <1>10, RouteKeepsInv DEF Drift, Answered
<1>11. CASE AcceptPlan(t, m)
  <2>1. plan' \subseteq Coders
    BY <1>11 DEF AcceptPlan
  <2>2. QED  BY <1>2, <1>3, <1>11, <2>1, RouteKeepsInv DEF AcceptPlan, Answered
<1>12. CASE RejectPlan(t, m)
  BY <1>1, <1>2, <1>3, <1>12, RouteKeepsInv DEF RejectPlan, Answered
<1>13. CASE RejectReview(t, m)
  BY <1>1, <1>2, <1>3, <1>13, RouteKeepsInv DEF RejectReview, Answered
<1>14. QED
  BY <1>4, <1>5, <1>6, <1>7, <1>8, <1>9, <1>10, <1>11, <1>12, <1>13 DEF Intake

(* What the scheduler claims or gives up is ready, and not both.           *)
LEMMA BatchReady ==
  ASSUME Inv, NEW batch \in Batches
  PROVE  batch \cup Doomed \subseteq {t \in Task : row[t].state = "READY"}
<1>1. ActiveTasks \subseteq Task
  BY DEF Inv, TypeOK, ActiveTasks, Task
<1>2. Ready \subseteq {t \in ActiveTasks : row[t].state = "READY"}
  BY DEF Ready
<1>3. /\ Runnable \subseteq Ready /\ CodersRunnable \subseteq Runnable
      /\ Doomed \subseteq Ready
  BY DEF Runnable, CodersRunnable, Doomed
<1>4. batch \subseteq Runnable
  BY <1>3 DEF Batches
<1>5. QED  BY <1>1, <1>2, <1>3, <1>4

(* A claim puts the row at the revision its assignment carries.            *)
LEMMA ClaimedRow ==
  ASSUME NEW r \in Row, Coherent(r), r.state = "READY"
  PROVE  /\ Claimed(r) \in Row
         /\ Coherent(Claimed(r))
         /\ Claimed(r).state = "CLAIMED"
         /\ Claimed(r).rev = r.rev + 1
<1>1. r.rev + 1 \in Nat
  BY DEF Row
<1>2. [r EXCEPT !.state = "CLAIMED", !.rev = r.rev + 1] \in Row
  BY <1>1 DEF Row
<1>3. /\ Claimed(r) \in Row /\ Claimed(r).state = "CLAIMED"
      /\ Claimed(r).rev = r.rev + 1
      /\ Claimed(r).phase = r.phase /\ Claimed(r).role = r.role
  BY <1>2 DEF Claimed, Row
<1>4. Coherent(Claimed(r))
  BY <1>3 DEF Coherent
<1>5. QED  BY <1>3, <1>4

(* The cascade fails a row without moving its revision.                    *)
LEMMA CascadeRow ==
  ASSUME NEW r \in Row
  PROVE  /\ CascadeFailed(r) \in Row
         /\ Coherent(CascadeFailed(r))
         /\ CascadeFailed(r).state = "FAILED"
         /\ CascadeFailed(r).rev = r.rev
<1>1. "FAILED" \in ExecutionPhase /\ "FAILED" \in FailedPhases
  BY DEF ExecutionPhase, TerminalPhases, FailedPhases
<1>2. /\ CascadeFailed(r) \in Row
      /\ CascadeFailed(r).state = "FAILED" /\ CascadeFailed(r).phase = "FAILED"
      /\ CascadeFailed(r).rev = r.rev
  BY <1>1 DEF CascadeFailed, Row
<1>3. QED  BY <1>1, <1>2 DEF Coherent

(* A tick of the scheduler keeps Inv.                                      *)
LEMMA ScheduleKeepsInv ==
  ASSUME Inv, Schedule
  PROVE  Inv'
<1>1. PICK batch \in Batches :
        /\ row' = [t \in Task |-> IF t \in batch THEN Claimed(row[t])
                                  ELSE IF t \in Doomed THEN CascadeFailed(row[t])
                                  ELSE row[t]]
        /\ dispatched' = dispatched \cup Assignments(batch)
  BY DEF Schedule
<1>2. \A t \in Task : row[t] \in Row /\ Coherent(row[t]) /\ row[t].rev \in Nat
  BY DEF Inv, TypeOK, StagesCoherent, Row
<1>3. ASSUME NEW t \in Task, t \in batch
      PROVE  /\ row[t].state = "READY"
             /\ row'[t] \in Row /\ Coherent(row'[t])
             /\ row'[t].state = "CLAIMED" /\ row'[t].rev = row[t].rev + 1
  <2>1. row[t].state = "READY"
    BY <1>3, BatchReady
  <2>2. row'[t] = Claimed(row[t])
    BY <1>1, <1>3
  <2>3. QED  BY <1>2, <2>1, <2>2, ClaimedRow
<1>4. ASSUME NEW t \in Task, t \notin batch, t \in Doomed
      PROVE  /\ row[t].state = "READY"
             /\ row'[t] \in Row /\ Coherent(row'[t])
             /\ row'[t].state = "FAILED" /\ row'[t].rev = row[t].rev
  <2>1. row[t].state = "READY"
    BY <1>4, BatchReady
  <2>2. row'[t] = CascadeFailed(row[t])
    BY <1>1, <1>4
  <2>3. QED  BY <1>2, <2>1, <2>2, CascadeRow
<1>5. ASSUME NEW t \in Task, t \notin batch, t \notin Doomed
      PROVE  row'[t] = row[t]
  BY <1>1, <1>5
<1>6. \A t \in Task : row'[t] \in Row /\ Coherent(row'[t])
  BY <1>2, <1>3, <1>4, <1>5
<1>7. Assignments(batch) \subseteq Task \X Nat
  BY <1>2, BatchReady DEF Assignments
<1>8. UNCHANGED <<plan, run, watch, latches>>
  BY DEF Schedule
<1>9. TypeOK'
  BY <1>1, <1>6, <1>7, <1>8 DEF Inv, TypeOK
<1>10. StagesCoherent'
  BY <1>6 DEF StagesCoherent
<1>11. ASSUME NEW a \in dispatched'
       PROVE  \/ a[2] < row'[a[1]].rev
              \/ a[2] = row'[a[1]].rev /\ row'[a[1]].state = "CLAIMED"
              \/ a[2] = row'[a[1]].rev + 1 /\ row'[a[1]].state \in {"READY", "FAILED"}
  <2>1. CASE a \in Assignments(batch)
    <3>1. PICK t \in batch : a = <<t, row[t].rev + 1>>
      BY <2>1 DEF Assignments
    <3>2. t \in Task
      BY BatchReady
    <3>3. QED  BY <1>3, <3>1, <3>2
  <2>2. CASE a \in dispatched
    <3> DEFINE t == a[1]
    <3>1. t \in Task /\ a[2] \in Nat /\ row[t].rev \in Nat
      BY <1>2, <2>2 DEF Inv, TypeOK
    <3>2. \/ a[2] < row[t].rev
          \/ a[2] = row[t].rev /\ row[t].state = "CLAIMED"
          \/ a[2] = row[t].rev + 1 /\ row[t].state \in {"READY", "FAILED"}
      BY <2>2 DEF Inv, AssignmentsAccounted
    <3>3. CASE t \in batch
      <4>1. /\ row[t].state = "READY" /\ row'[t].state = "CLAIMED"
            /\ row'[t].rev = row[t].rev + 1
        BY <1>3, <3>1, <3>3
      <4>2. QED  BY <3>1, <3>2, <4>1
    <3>4. CASE t \notin batch /\ t \in Doomed
      <4>1. /\ row[t].state = "READY" /\ row'[t].state = "FAILED"
            /\ row'[t].rev = row[t].rev
        BY <1>4, <3>1, <3>4
      <4>2. QED  BY <3>1, <3>2, <4>1
    <3>5. CASE t \notin batch /\ t \notin Doomed
      <4>1. row'[t] = row[t]
        BY <1>5, <3>1, <3>5
      <4>2. QED  BY <3>2, <4>1
    <3>6. QED  BY <3>3, <3>4, <3>5
  <2>3. QED  BY <1>1, <2>1, <2>2
<1>12. ASSUME NEW t \in Task, row'[t].state = "CLAIMED"
       PROVE  <<t, row'[t].rev>> \in dispatched'
  <2>1. CASE t \in batch
    BY <1>1, <1>3, <2>1 DEF Assignments
  <2>2. CASE t \notin batch
    <3>1. t \notin Doomed
      BY <1>4, <1>12, <2>2
    <3>2. row'[t] = row[t]
      BY <1>5, <2>2, <3>1
    <3>3. QED  BY <1>1, <1>12, <3>2 DEF Inv, AssignmentsAccounted
  <2>3. QED  BY <2>1, <2>2
<1>13. \A s \in watch' : <<s.task, s.rev>> \in dispatched'
  BY <1>1, <1>8 DEF Inv, AssignmentsAccounted
<1>14. AssignmentsAccounted'
  BY <1>11, <1>12, <1>13 DEF AssignmentsAccounted
<1>15. QED  BY <1>9, <1>10, <1>14 DEF Inv

(* Assignments whose claim was rolled back are of the next revision.       *)
LEMMA RollbackKeepsInv ==
  ASSUME Inv, ScheduleRolledBack
  PROVE  Inv'
<1>1. PICK batch \in Batches : dispatched' = dispatched \cup Assignments(batch)
  BY DEF ScheduleRolledBack
<1>2. UNCHANGED <<row, plan, run, watch, latches>>
  BY DEF ScheduleRolledBack
<1>3. \A t \in batch : t \in Task /\ row[t].state = "READY" /\ row[t].rev \in Nat
  BY BatchReady DEF Inv, TypeOK, Row
<1>4. TypeOK' /\ StagesCoherent'
  BY <1>1, <1>2, <1>3 DEF Inv, TypeOK, StagesCoherent, Assignments
<1>5. \A a \in Assignments(batch) :
        a[2] = row'[a[1]].rev + 1 /\ row'[a[1]].state \in {"READY", "FAILED"}
  BY <1>2, <1>3 DEF Assignments
<1>6. AssignmentsAccounted'
  BY <1>1, <1>2, <1>5 DEF Inv, AssignmentsAccounted
<1>7. QED  BY <1>4, <1>6 DEF Inv

(* The verdicts of the sandbox move submitted tasks onward.                *)
LEMMA JudgedOnward ==
  ASSUME NEW r \in Row, Coherent(r), r.role = "SYSTEM", r.phase = "VERIFYING"
  PROVE  /\ r.state = "SUBMITTED"
         /\ Onward(r, Routed(Held(r), "VERIFY_SUCCESS", "REVIEWING", "REVIEWER"))
         /\ Onward(r, ChargedFor(Held(r), "VERIFY_FAILURE", MaxIterations,
                                 "CODING", "CODER", NoRole))
<1>1. r.state = "SUBMITTED"
  BY DEF Coherent, WorkerStages, FailedPhases
<1>2. Held(r) = r
  BY <1>1 DEF Held
<1>3. /\ {"VERIFY_SUCCESS", "VERIFY_FAILURE"} \subseteq TaskEvent
      /\ Landing("REVIEWING", "REVIEWER") /\ Landing("CODING", "CODER")
      /\ Landing("FAILED_ITERATION_LIMIT", NoRole)
  BY DEF TaskEvent, Landing, WorkerStages, TerminalPhases, FailedPhases, Roles
<1>4. r.attempts + 1 \in Nat
  BY DEF Row
<1>5. Charged(r) \in Row /\ Charged(r).rev = r.rev
  BY <1>4 DEF Charged, Row
<1>6. \A phase, role : Landing(phase, role) =>
        Onward(r, Routed(Charged(r), "VERIFY_FAILURE", phase, role))
  <2> SUFFICES ASSUME NEW phase, NEW role, Landing(phase, role)
               PROVE  Onward(r, Routed(Charged(r), "VERIFY_FAILURE", phase, role))
    OBVIOUS
  <2>1. Onward(Charged(r), Routed(Charged(r), "VERIFY_FAILURE", phase, role))
    BY <1>3, <1>5, RoutedOnward
  <2>2. QED  BY <1>5, <2>1 DEF Onward
<1>7. Onward(r, Routed(r, "VERIFY_SUCCESS", "REVIEWING", "REVIEWER"))
  BY <1>3, RoutedOnward
<1>8. Onward(r, ChargedFor(r, "VERIFY_FAILURE", MaxIterations, "CODING", "CODER", NoRole))
  BY <1>3, <1>6 DEF ChargedFor
<1>9. QED  BY <1>1, <1>2, <1>7, <1>8

LEMMA VerifyKeepsInv ==
  ASSUME Inv, Verify
  PROVE  Inv'
<1>1. PICK passed \in SUBSET Submitted :
        row' = [t \in Task |->
                 IF t \in passed
                 THEN Routed(Held(row[t]), "VERIFY_SUCCESS", "REVIEWING", "REVIEWER")
                 ELSE IF t \in Submitted
                 THEN ChargedFor(Held(row[t]), "VERIFY_FAILURE", MaxIterations,
                                 "CODING", "CODER", NoRole)
                 ELSE row[t]]
  BY DEF Verify
<1>2. \A t \in Task : row[t] \in Row /\ Coherent(row[t])
  BY DEF Inv, TypeOK, StagesCoherent
<1>3. ASSUME NEW t \in Task, t \in Submitted
      PROVE  Leaves(t)
  <2>1. row[t].role = "SYSTEM" /\ row[t].phase = "VERIFYING"
    BY <1>3 DEF Submitted
  <2>2. CASE t \in passed
    BY <1>1, <1>2, <2>1, <2>2, JudgedOnward DEF Leaves
  <2>3. CASE t \notin passed
    BY <1>1, <1>2, <1>3, <2>1, <2>3, JudgedOnward DEF Leaves
  <2>4. QED  BY <2>2, <2>3
<1>4. ASSUME NEW t \in Task, t \notin Submitted
      PROVE  Stays(t)
  BY <1>1, <1>2, <1>4 DEF Stays
<1>5. /\ row' = [t \in Task |-> row'[t]]
      /\ plan' \subseteq Coders
      /\ run' \in {"ACTIVE", "COMPLETED", "FAILED"}
      /\ latches' \subseteq Task \X Nat
      /\ UNCHANGED <<dispatched, watch>>
  BY <1>1 DEF Verify, Inv, TypeOK
<1>6. QED  BY <1>3, <1>4, <1>5, RowsKeepInv

(* What the watchdog reads are claims, hence assignments.                  *)
LEMMA WatchReadKeepsInv ==
  ASSUME Inv, NEW victims \in SUBSET Watchable, WatchRead(victims)
  PROVE  Inv'
<1>1. \A t \in victims : /\ t \in Task
                         /\ row[t].state = "CLAIMED"
                         /\ row[t] \in Row
  BY DEF Watchable, Existing, Task, Inv, TypeOK
<1>2. watch' = {[task |-> t, rev |-> row[t].rev, retries |-> row[t].retries] :
                t \in victims}
  BY DEF WatchRead
<1>3. UNCHANGED <<row, plan, dispatched, run, latches>>
  BY DEF WatchRead
<1>4. watch' \subseteq [task: Task, rev: Nat, retries: Nat]
  BY <1>1, <1>2 DEF Row
<1>5. ASSUME NEW s \in watch'
      PROVE  <<s.task, s.rev>> \in dispatched
  <2>1. PICK t \in victims :
          s = [task |-> t, rev |-> row[t].rev, retries |-> row[t].retries]
    BY <1>2
  <2>2. s.task = t /\ s.rev = row[t].rev
    BY <2>1
  <2>3. t \in Task /\ row[t].state = "CLAIMED"
    BY <1>1
  <2>4. <<t, row[t].rev>> \in dispatched
    BY <2>3 DEF Inv, AssignmentsAccounted
  <2>5. QED  BY <2>2, <2>4
<1>6. TypeOK' /\ StagesCoherent'
  BY <1>3, <1>4 DEF Inv, TypeOK, StagesCoherent
<1>7. AssignmentsAccounted'
  BY <1>3, <1>5 DEF Inv, AssignmentsAccounted
<1>8. QED  BY <1>6, <1>7 DEF Inv

(* A copy whose revision is still current is of a claimed row.             *)
LEMMA CurrentCopyClaimed ==
  ASSUME Inv, NEW s \in watch, s.rev = row[s.task].rev
  PROVE  row[s.task].state = "CLAIMED"
<1>1. s.task \in Task /\ s.rev \in Nat /\ row[s.task].rev \in Nat
  BY DEF Inv, TypeOK, Row
<1>2. <<s.task, s.rev>> \in dispatched
  BY DEF Inv, AssignmentsAccounted
<1>3. \/ s.rev < row[s.task].rev
      \/ row[s.task].state = "CLAIMED"
      \/ s.rev = row[s.task].rev + 1
  BY <1>2 DEF Inv, AssignmentsAccounted
<1>4. QED  BY <1>1, <1>3

(* What the watchdog's commit does to each row.                            *)
LEMMA WatchCommitRows ==
  ASSUME Inv, WatchCommit, NEW t \in Task
  PROVE  \/ Leaves(t) /\ row[t].state = "CLAIMED"
         \/ Stays(t) /\ row'[t].phase = row[t].phase
<1>1. row[t] \in Row /\ Coherent(row[t])
  BY DEF Inv, TypeOK, StagesCoherent
<1>2. CASE \E s \in watch : s.task = t
  <2> DEFINE s == CHOOSE s \in watch : s.task = t
  <2>1. s \in watch /\ s.task = t
    BY <1>2, Zenon
  <2>2. s \in [task: Task, rev: Nat, retries: Nat]
    BY <2>1 DEF Inv, TypeOK
  <2>3. row'[t] = IF s.rev = row[t].rev THEN Expired(row[t])
                  ELSE WrittenAnyway(row[t], s)
    BY <1>2 DEF WatchCommit
  <2> HIDE DEF s
  <2>4. CASE s.rev = row[t].rev
    <3>1. row[t].state = "CLAIMED"
      BY <2>1, <2>4, CurrentCopyClaimed
    <3>2. Onward(row[t], row'[t])
      BY <1>1, <2>3, <2>4, <3>1, ExpiredOnward
    <3>3. QED  BY <3>1, <3>2 DEF Leaves
  <2>5. CASE s.rev # row[t].rev
    BY <1>1, <2>2, <2>3, <2>5, WrittenStays DEF Stays
  <2>6. QED  BY <2>4, <2>5
<1>3. CASE ~\E s \in watch : s.task = t
  <2>1. row'[t] = row[t]
    BY <1>3 DEF WatchCommit
  <2>2. QED  BY <1>1, <2>1 DEF Stays
<1>4. QED  BY <1>2, <1>3

LEMMA LatchedTyped ==
  ASSUME TypeOK
  PROVE  Latched \subseteq Task \X Nat
BY DEF TypeOK, Latched

LEMMA WatchCommitKeepsInv ==
  ASSUME Inv, WatchCommit
  PROVE  Inv'
<1>1. \A t \in Task : Stays(t) \/ Leaves(t)
  BY WatchCommitRows
<1>2. latches' \subseteq Task \X Nat
  BY LatchedTyped DEF WatchCommit, Inv
<1>3. /\ row' = [t \in Task |-> row'[t]]
      /\ watch' \subseteq watch
      /\ UNCHANGED <<plan, dispatched, run>>
  BY DEF WatchCommit
<1>4. plan' \subseteq Coders /\ run' \in {"ACTIVE", "COMPLETED", "FAILED"}
  BY <1>3 DEF Inv, TypeOK
<1>5. QED  BY <1>1, <1>2, <1>3, <1>4, RowsKeepInv

LEMMA WatchRollbackKeepsInv ==
  ASSUME Inv, WatchRolledBack
  PROVE  Inv'
<1>1. latches' \subseteq Task \X Nat /\ watch' = {}
  BY LatchedTyped DEF WatchRolledBack, Inv
<1>2. UNCHANGED <<row, plan, dispatched, run>>
  BY DEF WatchRolledBack
<1>3. QED  BY <1>1, <1>2 DEF Inv, TypeOK, StagesCoherent, AssignmentsAccounted

LEMMA BackoffKeepsInv ==
  ASSUME Inv, NEW t \in Task, BackoffEnds(t)
  PROVE  Inv'
<1> DEFINE q == [row[t] EXCEPT !.waiting = FALSE]
<1>1. row \in [Task -> Row] /\ \A u \in Task : row[u] \in Row /\ Coherent(row[u])
  BY DEF Inv, TypeOK, StagesCoherent
<1>2. row' = [u \in Task |-> IF u = t THEN q ELSE row[u]]
  BY <1>1 DEF BackoffEnds, Put
<1>3. /\ q \in Row /\ q.state = row[t].state /\ q.phase = row[t].phase
      /\ q.role = row[t].role /\ q.rev = row[t].rev
  BY <1>1 DEF Row
<1>4. Coherent(q)
  BY <1>1, <1>3 DEF Coherent
<1> HIDE DEF q
<1>5. \A u \in Task : Stays(u)
  BY <1>1, <1>2, <1>3, <1>4 DEF Stays
<1>6. /\ row' = [u \in Task |-> row'[u]]
      /\ UNCHANGED <<plan, dispatched, run, watch, latches>>
  BY <1>2 DEF BackoffEnds
<1>7. plan' \subseteq Coders /\ run' \in {"ACTIVE", "COMPLETED", "FAILED"}
      /\ latches' \subseteq Task \X Nat
  BY <1>6 DEF Inv, TypeOK
<1>8. QED  BY <1>5, <1>6, <1>7, RowsKeepInv

LEMMA CompletionKeepsInv ==
  ASSUME Inv, CheckCompletion
  PROVE  Inv'
<1>1. /\ UNCHANGED <<row, plan, dispatched, watch, latches>>
      /\ run' \in {"COMPLETED", "FAILED"}
  BY DEF CheckCompletion
<1>2. QED  BY <1>1 DEF Inv, TypeOK, StagesCoherent, AssignmentsAccounted

-----------------------------------------------------------------------------
(* The theorems.                                                           *)

LEMMA InitInv ==
  ASSUME Init
  PROVE  Inv
<1>1. \A phase \in {"RESEARCHING", "PLANNING", "CODING"}, role \in AssignedRole :
        FreshRow(phase, role) \in Row
  BY DEF FreshRow, Row, ExecutionPhase, WorkPhases
<1>2. {"RESEARCHER", "PLANNER", "CODER"} \subseteq AssignedRole
  BY DEF AssignedRole
<1>3. ASSUME NEW t \in Task
      PROVE  row[t] \in Row /\ Coherent(row[t]) /\ row[t].state = "READY"
  <2>1. \/ row[t] = FreshRow("RESEARCHING", "RESEARCHER")
        \/ row[t] = FreshRow("PLANNING", "PLANNER")
        \/ row[t] = FreshRow("CODING", "CODER")
    BY DEF Init
  <2>2. row[t] \in Row
    BY <1>1, <1>2, <2>1
  <2>3. Coherent(row[t]) /\ row[t].state = "READY"
    BY <2>1 DEF Coherent, FreshRow, WorkerStages
  <2>4. QED  BY <2>2, <2>3
<1>4. TypeOK
  BY <1>3 DEF Init, TypeOK
<1>5. StagesCoherent
  BY <1>3 DEF StagesCoherent
<1>6. AssignmentsAccounted
  BY <1>3 DEF Init, AssignmentsAccounted
<1>7. QED  BY <1>4, <1>5, <1>6 DEF Inv

LEMMA NextInv ==
  ASSUME Inv, [Next]_vars
  PROVE  Inv'
<1>1. CASE Schedule
  BY <1>1, ScheduleKeepsInv
<1>2. CASE ScheduleRolledBack
  BY <1>2, RollbackKeepsInv
<1>3. CASE \E t \in Task : \E m \in Responses[row[t].role] : Intake(t, m)
  <2>1. PICK t \in Task : \E m \in Responses[row[t].role] : Intake(t, m)
    BY <1>3
  <2>2. Responses[row[t].role] \subseteq Response
    BY ResponsesTyped DEF Inv, TypeOK, Row
  <2>3. QED  BY <2>1, <2>2, IntakeKeepsInv
<1>4. CASE Verify
  BY <1>4, VerifyKeepsInv
<1>5. CASE \E victims \in SUBSET Watchable : WatchRead(victims)
  BY <1>5, WatchReadKeepsInv
<1>6. CASE WatchCommit
  BY <1>6, WatchCommitKeepsInv
<1>7. CASE WatchRolledBack
  BY <1>7, WatchRollbackKeepsInv
<1>8. CASE \E t \in Task : BackoffEnds(t)
  BY <1>8, BackoffKeepsInv
<1>9. CASE CheckCompletion
  BY <1>9, CompletionKeepsInv
<1>10. CASE UNCHANGED vars
  BY <1>10 DEF vars, Inv, TypeOK, StagesCoherent, AssignmentsAccounted
<1>11. QED
  BY <1>1, <1>2, <1>3, <1>4, <1>5, <1>6, <1>7, <1>8, <1>9, <1>10 DEF Next

(* Every reachable state satisfies the inductive invariant.                *)
THEOREM Invariance == Spec => []Inv
<1>1. Init => Inv
  BY InitInv
<1>2. Inv /\ [Next]_vars => Inv'
  BY NextInv
<1>3. QED  BY <1>1, <1>2, PTL DEF Spec

(* The rows, plans, assignments and latches always have their types: no    *)
(* transition leaves a role, phase or state the enumerations do not know.  *)
THEOREM TypeCorrect == Spec => []TypeOK
<1>1. Inv => TypeOK
  BY DEF Inv
<1>2. QED  BY <1>1, Invariance, PTL

(* state, execution_phase and assigned_role agree in every row, however    *)
(* the guardian, the scheduler and the watchdog interleave.                *)
THEOREM StagesAgree == Spec => []StagesCoherent
<1>1. Inv => StagesCoherent
  BY DEF Inv
<1>2. QED  BY <1>1, Invariance, PTL

(* Every assignment ever handed out is accounted for.                      *)
THEOREM AllAccounted == Spec => []AssignmentsAccounted
<1>1. Inv => AssignmentsAccounted
  BY DEF Inv
<1>2. QED  BY <1>1, Invariance, PTL

(* No answer to a spent assignment passes the revision check: whoever      *)
(* presents the current revision of a task holds its claim.                *)
THEOREM WorkersFenced == Spec => []Fenced
<1>1. ASSUME Inv, NEW t \in Task, <<t, row[t].rev>> \in dispatched
      PROVE  row[t].state = "CLAIMED"
  <2>1. row[t].rev \in Nat
    BY <1>1 DEF Inv, TypeOK, Row
  <2>2. \/ row[t].rev < row[t].rev
        \/ row[t].state = "CLAIMED"
        \/ row[t].rev = row[t].rev + 1
    BY <1>1 DEF Inv, AssignmentsAccounted
  <2>3. QED  BY <2>1, <2>2
<1>2. Inv => Fenced
  BY <1>1 DEF Fenced
<1>3. QED  BY <1>2, Invariance, PTL
=============================================================================
