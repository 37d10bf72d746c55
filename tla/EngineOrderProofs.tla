--------------------------- MODULE EngineOrderProofs ---------------------------
(***************************************************************************)
(* Proofs about how the tasks of Engine follow one another, what they are  *)
(* charged, and that the rows implement TaskLease.                         *)
(*                                                                         *)
(* The first part says once what an answer makes of the row it arrives     *)
(* for; the others read off what they need.                                *)
(***************************************************************************)
EXTENDS EngineEndProofs

-----------------------------------------------------------------------------
(* What the helpers leave in the columns.                                  *)

LEMMA HeldFields ==
  ASSUME NEW r \in Row, Coherent(r), r.state = "CLAIMED"
  PROVE  /\ Held(r) \in Row /\ Onward(r, Held(r))
         /\ Held(r).phase = r.phase /\ Held(r).attempts = r.attempts
         /\ Held(r).last = r.last /\ Held(r).rejections = r.rejections
<1>1. Held(r) \in Row /\ Onward(r, Held(r))
  BY HeldOnward DEF Onward
<1>2. Held(r) = [r EXCEPT !.state = "PROCESSING", !.rev = @ + 1]
  BY DEF Held
<1>3. QED  BY <1>1, <1>2 DEF Row

LEMMA ChargedFields ==
  ASSUME NEW q \in Row
  PROVE  /\ Charged(q) \in Row
         /\ Charged(q).phase = q.phase /\ Charged(q).attempts = q.attempts + 1
         /\ Charged(q).last = q.last /\ Charged(q).rejections = q.rejections
<1>1. q.attempts + 1 \in Nat
  BY DEF Row
<1>2. QED  BY <1>1 DEF Charged, Row

LEMMA RoutedFields ==
  ASSUME NEW q \in Row, NEW event \in TaskEvent, NEW phase, NEW role,
         Landing(phase, role)
  PROVE  /\ Routed(q, event, phase, role) \in Row
         /\ Routed(q, event, phase, role).state = StateFor(phase, role)
         /\ Routed(q, event, phase, role).phase = phase
         /\ Routed(q, event, phase, role).attempts = q.attempts
         /\ Routed(q, event, phase, role).last = event
         /\ Routed(q, event, phase, role).rejections
              = IF event = "REVIEW_FAILURE" THEN q.rejections + 1 ELSE q.rejections
<1> DEFINE next == Routed(q, event, phase, role)
<1> DEFINE newRole == IF role = NoRole THEN q.role ELSE role
<1> DEFINE rejected == IF event = "REVIEW_FAILURE" THEN q.rejections + 1
                       ELSE q.rejections
<1>1. next \in Row
  BY RoutedOnward DEF Onward
<1>2. next = [q EXCEPT !.state = StateFor(phase, role), !.phase = phase,
                       !.role = newRole, !.rev = q.rev + 1, !.last = event,
                       !.rejections = rejected]
  BY DEF Routed, Moved
<1> HIDE DEF newRole, rejected
<1>3. /\ next.phase = phase /\ next.attempts = q.attempts /\ next.last = event
      /\ next.rejections = rejected /\ next.state = StateFor(phase, role)
  BY <1>2 DEF Row
<1>4. QED  BY <1>1, <1>3 DEF rejected

LEMMA RoutedState ==
  ASSUME NEW q \in Row, NEW event \in TaskEvent, NEW phase, NEW role,
         Landing(phase, role)
  PROVE  Routed(q, event, phase, role).state = StateFor(phase, role)
BY RoutedFields

-----------------------------------------------------------------------------
(* What an answer makes of its row.                                        *)

(* The reviews are charged at least as often as they are counted, and      *)
(* within their limit.  With the types and the stages this is inductive.   *)
Accounts(r) ==
  /\ r.rejections <= r.attempts
  /\ r.rejections <= MaxRejections
  /\ ~Terminal(r) => r.rejections < MaxRejections
  /\ r.phase = "REVIEWING" => r.last # "REVIEW_FAILURE"

Within(r) == ~Terminal(r) => r.attempts < MaxIterations \/ r.attempts < MaxRejections

(* Nothing comes to be planned or researched that was not; the accounts    *)
(* stay in order; and what is charged is within budget.                    *)
Follows(r, next) ==
  /\ next.phase \in {"PLANNING", "RESEARCHING"} => r.phase = next.phase
  /\ Accounts(r) => Accounts(next)

(* The answers for which the guardian charges an attempt and compares it   *)
(* with no limit.                                                          *)
Unlimited(m) ==
  m.verdict = "contract" \/ (m.event = "TASK_FAILED" /\ m.verdict = "store")

(* A row that is routed on, at a charge or none, by anything but a review. *)
LEMMA RoutedFollows ==
  ASSUME NEW r \in Row, NEW q \in Row, ~Terminal(r),
         q.rejections = r.rejections, q.attempts >= r.attempts,
         NEW event \in TaskEvent, event # "REVIEW_FAILURE",
         NEW phase, NEW role, Landing(phase, role),
         phase \in {"PLANNING", "RESEARCHING"} => r.phase = phase
  PROVE  Follows(r, Routed(q, event, phase, role))
<1> DEFINE next == Routed(q, event, phase, role)
<1>1. /\ next.phase = phase /\ next.last = event /\ next.attempts = q.attempts
      /\ next.rejections = r.rejections
  BY RoutedFields
<1>2. /\ r.rejections \in Nat /\ r.attempts \in Nat /\ q.attempts \in Nat
  BY DEF Row
<1> HIDE DEF next
<1>3. Accounts(r) => Accounts(next)
  BY <1>1, <1>2, BudgetsPositive DEF Accounts
<1>4. QED  BY <1>1, <1>3 DEF Follows, next

LEMMA ChargedForFollows ==
  ASSUME NEW r \in Row, NEW q \in Row, ~Terminal(r),
         q.rejections = r.rejections, q.attempts = r.attempts,
         NEW event \in TaskEvent, event # "REVIEW_FAILURE", NEW limit,
         NEW phase, NEW role, Landing(phase, role), NEW lastRole \in Roles,
         phase \in {"PLANNING", "RESEARCHING"} => r.phase = phase
  PROVE  Follows(r, ChargedFor(q, event, limit, phase, role, lastRole))
<1>1. /\ Charged(q) \in Row /\ Charged(q).rejections = r.rejections
      /\ Charged(q).attempts = r.attempts + 1 /\ r.attempts \in Nat
  BY ChargedFields DEF Row
<1>2. Landing("FAILED_ITERATION_LIMIT", lastRole)
  BY DEF Landing, TerminalPhases, FailedPhases
<1>3. Charged(q).attempts >= r.attempts
  BY <1>1
<1>4. /\ Follows(r, Routed(Charged(q), event, phase, role))
      /\ Follows(r, Routed(Charged(q), event, "FAILED_ITERATION_LIMIT", lastRole))
  BY <1>1, <1>2, <1>3, RoutedFollows
<1>5. QED  BY <1>4 DEF ChargedFor

(* A charge that is compared with one of the limits leaves an open task    *)
(* within its budget.                                                      *)
LEMMA ChargedForWithin ==
  ASSUME NEW q \in Row, NEW event \in TaskEvent,
         NEW limit \in {MaxIterations, MaxRejections},
         NEW phase, NEW role, Landing(phase, role), NEW lastRole \in Roles
  PROVE  Within(ChargedFor(q, event, limit, phase, role, lastRole))
<1>1. /\ Charged(q) \in Row /\ Charged(q).attempts = q.attempts + 1
      /\ q.attempts \in Nat
  BY ChargedFields DEF Row
<1>2. Landing("FAILED_ITERATION_LIMIT", lastRole)
  BY DEF Landing, TerminalPhases, FailedPhases
<1>3. CASE q.attempts + 1 >= limit
  <2>1. ChargedFor(q, event, limit, phase, role, lastRole).phase
          = "FAILED_ITERATION_LIMIT"
    BY <1>1, <1>2, <1>3, RoutedFields DEF ChargedFor
  <2>2. QED  BY <2>1 DEF Within, Terminal, TerminalPhases, FailedPhases
<1>4. CASE ~(q.attempts + 1 >= limit)
  <2>1. ChargedFor(q, event, limit, phase, role, lastRole).attempts = q.attempts + 1
    BY <1>1, <1>4, RoutedFields DEF ChargedFor
  <2>2. q.attempts + 1 < MaxIterations \/ q.attempts + 1 < MaxRejections
    BY <1>1, <1>4, BudgetsPositive
  <2>3. QED  BY <2>1, <2>2 DEF Within
<1>5. QED  BY <1>3, <1>4

LEMMA RoutedWithin ==
  ASSUME NEW r \in Row, NEW q \in Row, ~Terminal(r), q.attempts = r.attempts,
         NEW event \in TaskEvent, NEW phase, NEW role, Landing(phase, role)
  PROVE  Within(r) => Within(Routed(q, event, phase, role))
BY RoutedFields DEF Within

(* The moves of the matrix: planning and research are not come back to,    *)
(* and no review leads to another one.                                     *)
LEMMA MatrixOrder ==
  \A move \in Matrix :
    move.to \in {"PLANNING", "RESEARCHING"} => move.from = move.to
BY DEF Matrix, Move

(* What became of the row of t when its answer m was taken in: one lemma   *)
(* for all ten ways.                                                       *)
Taken(t, m, next) ==
  /\ Put(t, next)
  /\ Onward(row[t], next)
  /\ Follows(row[t], next)
  /\ ~Unlimited(m) => (Within(row[t]) => Within(next))
  /\ \/ UNCHANGED plan
     \/ /\ row[t].phase = "PLANNING" /\ next.state = "VERIFIED"
        /\ next.phase = "COMPLETE"
        /\ plan' \in SUBSET Coders \ {{}} /\ plan' \cap Existing = {}

LEMMA RoutedTaken ==
  ASSUME Inv, NEW t \in Task, NEW m \in Response, Arrives(t), UNCHANGED plan,
         NEW event \in TaskEvent, event # "REVIEW_FAILURE",
         NEW phase, NEW role, Landing(phase, role), NEW lastRole \in Roles,
         phase \in {"PLANNING", "RESEARCHING"} => row[t].phase = phase,
         \/ Put(t, Routed(Held(row[t]), event, phase, role))
         \/ Unlimited(m) /\ Put(t, Routed(Charged(Held(row[t])), event, phase, role))
         \/ Put(t, ChargedFor(Held(row[t]), event, MaxIterations, phase, role, lastRole))
  PROVE  \E next : Taken(t, m, next)
<1> DEFINE r == row[t]
           q == Held(row[t])
<1>1. r \in Row /\ Coherent(r) /\ r.state = "CLAIMED" /\ ~Terminal(r)
  BY ArrivesClaimed, OpenRow
<1>2. /\ q \in Row /\ Onward(r, q)
      /\ q.attempts = r.attempts /\ q.rejections = r.rejections
      /\ r.attempts \in Nat
  BY <1>1, HeldFields DEF Row
<1>3. /\ Charged(q) \in Row /\ Onward(r, Charged(q))
      /\ Charged(q).attempts = r.attempts + 1 /\ Charged(q).rejections = r.rejections
  BY <1>1, <1>2, ChargedFields, ChargedOnward
<1>4. q.attempts >= r.attempts /\ Charged(q).attempts >= r.attempts
  BY <1>2, <1>3
<1> HIDE DEF r, q
<1>5. CASE Put(t, Routed(q, event, phase, role))
  <2>1. Onward(r, Routed(q, event, phase, role))
    BY <1>1, <1>2, HeldRouted
  <2>2. Follows(r, Routed(q, event, phase, role))
    BY <1>1, <1>2, <1>4, RoutedFollows DEF r
  <2>3. Within(r) => Within(Routed(q, event, phase, role))
    BY <1>1, <1>2, RoutedWithin
  <2>4. QED  BY <1>5, <2>1, <2>2, <2>3 DEF Taken, r
<1>6. CASE Unlimited(m) /\ Put(t, Routed(Charged(q), event, phase, role))
  <2>1. Onward(r, Routed(Charged(q), event, phase, role))
    BY <1>1, <1>3, HeldRouted
  <2>2. Follows(r, Routed(Charged(q), event, phase, role))
    BY <1>1, <1>3, <1>4, RoutedFollows DEF r
  <2>3. QED  BY <1>6, <2>1, <2>2 DEF Taken, r
<1>7. CASE Put(t, ChargedFor(q, event, MaxIterations, phase, role, lastRole))
  <2>1. Onward(r, ChargedFor(q, event, MaxIterations, phase, role, lastRole))
    BY <1>1, <1>2, ChargedForOnward
  <2>2. Follows(r, ChargedFor(q, event, MaxIterations, phase, role, lastRole))
    BY <1>1, <1>2, ChargedForFollows DEF r
  <2>3. Within(ChargedFor(q, event, MaxIterations, phase, role, lastRole))
    BY <1>2, ChargedForWithin
  <2>4. QED  BY <1>7, <2>1, <2>2, <2>3 DEF Taken, r
<1>8. QED  BY <1>5, <1>6, <1>7 DEF q

(* The lock alone, or with the charge of a failure that is not stored.     *)
LEMMA HeldTaken ==
  ASSUME Inv, NEW t \in Task, NEW m \in Response, Arrives(t), UNCHANGED plan,
         \/ Put(t, Held(row[t]))
         \/ Unlimited(m) /\ Put(t, Charged(Held(row[t])))
  PROVE  \E next : Taken(t, m, next)
<1> DEFINE r == row[t]
           q == Held(row[t])
<1>1. r \in Row /\ Coherent(r) /\ r.state = "CLAIMED" /\ ~Terminal(r)
  BY ArrivesClaimed, OpenRow
<1>2. /\ q \in Row /\ Onward(r, q) /\ q.phase = r.phase
      /\ q.attempts = r.attempts /\ q.rejections = r.rejections /\ q.last = r.last
      /\ r.attempts \in Nat /\ r.rejections \in Nat
  BY <1>1, HeldFields DEF Row
<1>3. /\ Onward(r, Charged(q)) /\ Charged(q).phase = r.phase
      /\ Charged(q).attempts = r.attempts + 1 /\ Charged(q).rejections = r.rejections
      /\ Charged(q).last = r.last
  BY <1>1, <1>2, ChargedFields, ChargedOnward
<1> HIDE DEF r, q
<1>4. Follows(r, q) /\ (Within(r) => Within(q))
  BY <1>2 DEF Follows, Accounts, Within, Terminal
<1>5. Follows(r, Charged(q))
  <2>1. Accounts(r) => Accounts(Charged(q))
    BY <1>2, <1>3, BudgetsPositive DEF Accounts, Terminal
  <2>2. QED  BY <1>3, <2>1 DEF Follows
<1>6. CASE Put(t, q)
  BY <1>2, <1>4, <1>6 DEF Taken, r
<1>7. CASE Unlimited(m) /\ Put(t, Charged(q))
  BY <1>3, <1>5, <1>7 DEF Taken, r
<1>8. QED  BY <1>6, <1>7 DEF q

LEMMA PlanTaken ==
  ASSUME Inv, NEW t \in Task, NEW m \in Response, AcceptPlan(t, m)
  PROVE  \E next : Taken(t, m, next)
<1> DEFINE r == row[t]
           next == Routed(Held(row[t]), m.event, "COMPLETE", NoRole)
<1>1. Arrives(t) /\ Put(t, next) /\ m.event = "PLAN_SUBMITTED"
  BY DEF AcceptPlan, Answered
<1>2. r \in Row /\ Coherent(r) /\ r.state = "CLAIMED" /\ ~Terminal(r)
  BY <1>1, ArrivesClaimed, OpenRow
<1>3. /\ Held(r) \in Row /\ Onward(r, Held(r))
      /\ Held(r).attempts = r.attempts /\ Held(r).rejections = r.rejections
      /\ r.attempts \in Nat
  BY <1>2, HeldFields DEF Row
<1>4. /\ Landing("COMPLETE", NoRole) /\ "PLAN_SUBMITTED" \in TaskEvent
      /\ "COMPLETE" \notin {"PLANNING", "RESEARCHING"}
  BY DEF Landing, TerminalPhases, Roles, TaskEvent
<1>5. Onward(r, next)
  BY <1>1, <1>2, <1>3, <1>4, HeldRouted
<1>6. Follows(r, next)
  <2>1. Held(r).attempts >= r.attempts
    BY <1>3
  <2>2. QED  BY <1>1, <1>2, <1>3, <1>4, <2>1, RoutedFollows
<1>7. next.phase = "COMPLETE" /\ next \in Row
  BY <1>1, <1>3, <1>4, RoutedFields
<1>8. next.state = "VERIFIED" /\ Within(next)
  BY <1>5, <1>7
  DEF Onward, Coherent, WorkerStages, FailedPhases, Within, Terminal, TerminalPhases
<1>9. r.phase = "PLANNING"
  <2>1. AuthorizeEvent(r.phase, m.sender, "PLAN_SUBMITTED")
    BY <1>1 DEF AcceptPlan, Answered, Authorized
  <2>2. QED  BY <2>1 DEF AuthorizeEvent, PhaseAuth
<1>10. plan' \in SUBSET Coders \ {{}} /\ plan' \cap Existing = {}
  BY DEF AcceptPlan
<1> HIDE DEF next
<1>11. QED  BY <1>1, <1>5, <1>6, <1>8, <1>7, <1>9, <1>10 DEF Taken

LEMMA ReviewTaken ==
  ASSUME Inv, NEW t \in Task, NEW m \in Response, RejectReview(t, m)
  PROVE  \E next : Taken(t, m, next)
<1> DEFINE r == row[t]
           q == Held(row[t])
           routed == Routed(q, "REVIEW_FAILURE", "CODING", "CODER")
           charged == ChargedFor(q, "REVIEW_FAILURE", MaxRejections,
                                 "CODING", "CODER", NoRole)
<1>1. /\ Arrives(t) /\ UNCHANGED plan
      /\ Put(t, IF r.last = "REVIEW_FAILURE" THEN routed ELSE charged)
  BY DEF RejectReview, Answered
<1>2. r \in Row /\ Coherent(r) /\ r.state = "CLAIMED" /\ ~Terminal(r)
  BY <1>1, ArrivesClaimed, OpenRow
<1>3. /\ q \in Row /\ Onward(r, q)
      /\ q.attempts = r.attempts /\ q.rejections = r.rejections
      /\ r.attempts \in Nat /\ r.rejections \in Nat
  BY <1>2, HeldFields DEF Row
<1>4. /\ Landing("CODING", "CODER") /\ Landing("FAILED_ITERATION_LIMIT", NoRole)
      /\ "REVIEW_FAILURE" \in TaskEvent /\ NoRole \in Roles
  BY DEF Landing, WorkerStages, TerminalPhases, FailedPhases, Roles, TaskEvent
<1>5. r.phase = "REVIEWING"
  <2>1. AuthorizeEvent(r.phase, m.sender, "REVIEW_FAILURE")
    BY DEF RejectReview, Answered, Authorized
  <2>2. QED  BY <2>1 DEF AuthorizeEvent, PhaseAuth
<1>6. Onward(r, routed) /\ Onward(r, charged)
  BY <1>2, <1>3, <1>4, HeldRouted, ChargedForOnward
<1>7. /\ Charged(q) \in Row /\ Charged(q).attempts = r.attempts + 1
      /\ Charged(q).rejections = r.rejections
  BY <1>3, ChargedFields
<1> HIDE DEF q
<1>8. /\ charged.attempts = r.attempts + 1 /\ charged.rejections = r.rejections + 1
      /\ IF r.attempts + 1 >= MaxRejections
         THEN charged.phase = "FAILED_ITERATION_LIMIT" ELSE charged.phase = "CODING"
  BY <1>3, <1>4, <1>7, RoutedFields DEF ChargedFor
<1>9. Follows(r, charged)
  <2>1. Accounts(r) => Accounts(charged)
    BY <1>2, <1>3, <1>8, BudgetsPositive
    DEF Accounts, Terminal, TerminalPhases, FailedPhases
  <2>2. QED  BY <1>8, <2>1 DEF Follows
<1>10. Within(charged)
  BY <1>3, <1>4, ChargedForWithin
<1>11. Follows(r, routed) \/ r.last # "REVIEW_FAILURE"
  <2>1. r.last = "REVIEW_FAILURE" => ~Accounts(r)
    BY <1>5 DEF Accounts
  <2>2. routed.phase = "CODING"
    BY <1>3, <1>4, RoutedFields
  <2>3. QED  BY <2>1, <2>2 DEF Follows
<1>12. Within(r) => Within(routed)
  BY <1>2, <1>3, <1>4, RoutedWithin
<1> HIDE DEF routed, charged
<1>13. CASE r.last = "REVIEW_FAILURE"
  BY <1>1, <1>6, <1>11, <1>12, <1>13 DEF Taken
<1>14. CASE r.last # "REVIEW_FAILURE"
  BY <1>1, <1>6, <1>9, <1>10, <1>14 DEF Taken
<1>15. QED  BY <1>13, <1>14

LEMMA IntakeTaken ==
  ASSUME Inv, NEW t \in Task, NEW m \in Response, Intake(t, m)
  PROVE  \E next : Taken(t, m, next)
<1>1. Arrives(t) /\ m.event \in TaskEvent
  BY IntakeTouches DEF Response
<1>2. /\ NoRole \in Roles /\ "SYSTEM" \in Roles
      /\ {"SUBMISSION_INVALID_SCHEMA", "VERIFY_FAILURE"} \subseteq TaskEvent
      /\ Landing("CODING", "CODER") /\ Landing("RESEARCHING", "RESEARCHER")
      /\ Landing("PLANNING", "PLANNER") /\ Landing("FAILED", NoRole)
  BY DEF Roles, AssignedRole, TaskEvent, Landing, WorkerStages, TerminalPhases,
         FailedPhases
<1>3. \A event : Answered(t, m, event, m.verdict) => <<row[t].phase, event>> \in PhaseAuth
  BY DEF Answered, Authorized, AuthorizeEvent
<1>4. CASE Refuse(t, m)
  BY <1>1, <1>4, HeldTaken DEF Refuse
<1>5. CASE Unsaved(t, m)
  BY <1>1, <1>5, HeldTaken DEF Unsaved, Answered, Unlimited
<1>6. CASE Accept(t, m)
  <2>1. PICK move \in Matrix :
          /\ move.from = row[t].phase
          /\ Put(t, Routed(Held(row[t]), m.event, move.to, move.role))
    BY <1>6 DEF Accept
  <2>2. /\ Landing(move.to, move.role)
        /\ move.to \in {"PLANNING", "RESEARCHING"} => row[t].phase = move.to
    BY <2>1, MatrixLands, MatrixOrder
  <2>3. m.event # "REVIEW_FAILURE" /\ UNCHANGED plan
    BY <1>6 DEF Accept
  <2>4. QED  BY <1>1, <1>2, <2>1, <2>2, <2>3, RoutedTaken
<1>7. CASE ReportFailure(t, m)
  <2>1. PICK move \in Matrix :
          /\ move.from = row[t].phase
          /\ Put(t, ChargedFor(Held(row[t]), m.event, MaxIterations,
                               move.to, move.role, NoRole))
    BY <1>7 DEF ReportFailure
  <2>2. /\ Landing(move.to, move.role)
        /\ move.to \in {"PLANNING", "RESEARCHING"} => row[t].phase = move.to
    BY <2>1, MatrixLands, MatrixOrder
  <2>3. m.event # "REVIEW_FAILURE" /\ UNCHANGED plan
    BY <1>7 DEF ReportFailure, Answered
  <2>4. QED  BY <1>1, <1>2, <2>1, <2>2, <2>3, RoutedTaken
<1>8. CASE BreakContract(t, m)
  <2>1. UNCHANGED plan /\ Unlimited(m)
    BY <1>8 DEF BreakContract, Answered, Unlimited
  <2>2. CASE m.event = "CODE_SUBMITTED"
    <3>1. Put(t, Routed(Charged(Held(row[t])), "SUBMISSION_INVALID_SCHEMA",
                        "CODING", "CODER"))
      BY <1>8, <2>2 DEF BreakContract, Answered
    <3>2. QED  BY <1>1, <1>2, <2>1, <3>1, RoutedTaken
  <2>3. CASE m.event # "CODE_SUBMITTED"
    <3>1. /\ Answered(t, m, "RESEARCH_COMPLETE", "contract")
          /\ Put(t, Routed(Charged(Held(row[t])), "SUBMISSION_INVALID_SCHEMA",
                           "RESEARCHING", "RESEARCHER"))
      BY <1>8, <2>3 DEF BreakContract, Answered
    <3>2. row[t].phase = "RESEARCHING"
      BY <3>1 DEF Answered, Authorized, AuthorizeEvent, PhaseAuth
    <3>3. QED  BY <1>1, <1>2, <2>1, <3>1, <3>2, RoutedTaken
  <2>4. QED  BY <2>2, <2>3
<1>9. CASE LeaveScope(t, m)
  BY <1>1, <1>2, <1>9, RoutedTaken DEF LeaveScope
<1>10. CASE Drift(t, m)
  <2>1. m.event = "RESEARCH_COMPLETE"
    BY <1>10 DEF Drift, Answered
  <2>2. QED  BY <1>1, <1>2, <1>10, <2>1, RoutedTaken DEF Drift
<1>11. CASE AcceptPlan(t, m)
  BY <1>11, PlanTaken
<1>12. CASE RejectPlan(t, m)
  <2>1. m.event = "PLAN_SUBMITTED" /\ row[t].phase = "PLANNING"
    BY <1>12 DEF RejectPlan, Answered, Authorized, AuthorizeEvent, PhaseAuth
  <2>2. QED  BY <1>1, <1>2, <1>12, <2>1, RoutedTaken DEF RejectPlan
<1>13. CASE RejectReview(t, m)
  BY <1>13, ReviewTaken
<1>14. QED
  BY <1>4, <1>5, <1>6, <1>7, <1>8, <1>9, <1>10, <1>11, <1>12, <1>13 DEF Intake

-----------------------------------------------------------------------------
(* What every step makes of every row.                                     *)

(* A row that changes in none of the columns the accounts are about.       *)
LEMMA SameFollows ==
  ASSUME NEW r, NEW next,
         next.phase = r.phase, next.attempts = r.attempts,
         next.rejections = r.rejections,
         next.last = r.last \/ next.last = "WORKER_TIMEOUT"
  PROVE  Follows(r, next) /\ (Within(r) => Within(next))
BY DEF Follows, Accounts, Within, Terminal

(* A row that fails, for whatever reason but a review.                     *)
LEMMA FailedFollows ==
  ASSUME NEW r, NEW next, next.phase = "FAILED",
         next.attempts = r.attempts, next.rejections = r.rejections
  PROVE  Follows(r, next) /\ (Within(r) => Within(next))
BY DEF Follows, Accounts, Within, Terminal, TerminalPhases, FailedPhases

LEMMA ExpiredFollows ==
  ASSUME NEW r \in Row
  PROVE  Follows(r, Expired(r)) /\ (Within(r) => Within(Expired(r)))
<1> DEFINE late == [r EXCEPT !.retries = @ + 1]
           failed == Moved(late, "WORKER_TIMEOUT", "FAILED", "FAILED", NoRole)
           back == Moved(late, "WORKER_TIMEOUT", "READY", r.phase, NoRole)
<1>1. r.retries + 1 \in Nat /\ r.rev + 1 \in Nat
  BY DEF Row
<1>2. /\ late \in Row /\ late.role = r.role /\ late.rev = r.rev
      /\ late.attempts = r.attempts /\ late.rejections = r.rejections
  BY <1>1 DEF Row
<1> HIDE DEF late
<1>3. /\ failed.phase = "FAILED" /\ failed.attempts = r.attempts
      /\ failed.rejections = r.rejections
  BY <1>2 DEF Moved, Row
<1>4. /\ back.phase = r.phase /\ back.attempts = r.attempts
      /\ back.rejections = r.rejections /\ back.last = "WORKER_TIMEOUT"
      /\ back = [back EXCEPT !.phase = r.phase]
  BY <1>2 DEF Moved, Row
<1>5. Expired(r) = failed \/ Expired(r) = [back EXCEPT !.waiting = TRUE]
  BY DEF Expired, late
<1>6. CASE Expired(r) = failed
  BY <1>3, <1>6, FailedFollows
<1>7. CASE Expired(r) = [back EXCEPT !.waiting = TRUE]
  <2>1. /\ "WORKER_TIMEOUT" \in TaskEvent /\ r.phase \in ExecutionPhase
        /\ NoRole \in Roles
    BY DEF TaskEvent, Row, Roles
  <2>2. back \in Row
    BY <1>2, <2>1, MovedRow
  <2> HIDE DEF back
  <2>3. /\ Expired(r).phase = r.phase /\ Expired(r).attempts = r.attempts
        /\ Expired(r).rejections = r.rejections /\ Expired(r).last = "WORKER_TIMEOUT"
    BY <1>4, <1>7, <2>2 DEF Row
  <2>4. QED  BY <2>3, SameFollows
<1>8. QED  BY <1>5, <1>6, <1>7

LEMMA ExpiredState ==
  ASSUME NEW r \in Row
  PROVE  Expired(r).state \in {"READY", "FAILED"}
BY DEF Expired, Moved, Row

LEMMA ScheduleFollows ==
  ASSUME Inv, Schedule, NEW u \in Task
  PROVE  Follows(row[u], row'[u]) /\ (Within(row[u]) => Within(row'[u]))
<1>1. row[u] \in Row
  BY DEF Inv, TypeOK
<1>2. row'[u] \in {Claimed(row[u]), CascadeFailed(row[u]), row[u]}
  BY DEF Schedule
<1>3. /\ Claimed(row[u]).phase = row[u].phase
      /\ Claimed(row[u]).attempts = row[u].attempts
      /\ Claimed(row[u]).rejections = row[u].rejections
      /\ Claimed(row[u]).last = row[u].last
  BY <1>1 DEF Claimed, Row
<1>4. /\ CascadeFailed(row[u]).phase = "FAILED"
      /\ CascadeFailed(row[u]).attempts = row[u].attempts
      /\ CascadeFailed(row[u]).rejections = row[u].rejections
  BY <1>1 DEF CascadeFailed, Row
<1>5. QED  BY <1>2, <1>3, <1>4, SameFollows, FailedFollows

LEMMA VerifyFollows ==
  ASSUME Inv, Verify, NEW u \in Task
  PROVE  Follows(row[u], row'[u]) /\ (Within(row[u]) => Within(row'[u]))
<1> DEFINE passed == Routed(Held(row[u]), "VERIFY_SUCCESS", "REVIEWING", "REVIEWER")
           failed == ChargedFor(Held(row[u]), "VERIFY_FAILURE", MaxIterations,
                                "CODING", "CODER", NoRole)
<1>1. row[u] \in Row /\ Coherent(row[u])
  BY DEF Inv, TypeOK, StagesCoherent
<1>2. IF u \in Submitted THEN row'[u] \in {passed, failed} ELSE row'[u] = row[u]
  BY DEF Verify
<1>3. CASE u \in Submitted
  <2>1. row[u].state = "SUBMITTED"
    BY <1>1, <1>3, JudgedOnward DEF Submitted
  <2>2. Held(row[u]) = row[u] /\ ~Terminal(row[u])
    BY <1>1, <2>1, OpenRow DEF Held
  <2>3. /\ {"VERIFY_SUCCESS", "VERIFY_FAILURE"} \subseteq TaskEvent /\ NoRole \in Roles
        /\ Landing("REVIEWING", "REVIEWER") /\ Landing("CODING", "CODER")
        /\ row[u].attempts >= row[u].attempts
    BY <1>1 DEF TaskEvent, Landing, WorkerStages, Roles, Row
  <2>4. Follows(row[u], passed) /\ (Within(row[u]) => Within(passed))
    BY <1>1, <2>2, <2>3, RoutedFollows, RoutedWithin
  <2>5. Follows(row[u], failed) /\ Within(failed)
    BY <1>1, <2>2, <2>3, ChargedForFollows, ChargedForWithin
  <2>6. QED  BY <1>2, <1>3, <2>4, <2>5
<1>4. CASE u \notin Submitted
  BY <1>2, <1>4, SameFollows
<1>5. QED  BY <1>3, <1>4

(* The watchdog's commit: the row expires, or keeps what it says about its *)
(* stage and its accounts.                                                 *)
LEMMA WatchFollows ==
  ASSUME Inv, WatchCommit, NEW u \in Task
  PROVE  /\ Follows(row[u], row'[u]) /\ (Within(row[u]) => Within(row'[u]))
         /\ row'[u].state = "CLAIMED" => row'[u].role = row[u].role
         /\ \/ row'[u].state \in {"READY", "FAILED"}
            \/ row'[u].state = row[u].state /\ row'[u].rev = row[u].rev
<1>1. row[u] \in Row /\ Coherent(row[u])
  BY DEF Inv, TypeOK, StagesCoherent
<1>2. CASE \E s \in watch : s.task = u
  <2> DEFINE s == CHOOSE s \in watch : s.task = u
  <2>1. s \in watch /\ s.task = u
    BY <1>2, Zenon
  <2>2. s \in [task: Task, rev: Nat, retries: Nat]
    BY <2>1 DEF Inv, TypeOK
  <2>3. row'[u] = IF s.rev = row[u].rev THEN Expired(row[u])
                  ELSE WrittenAnyway(row[u], s)
    BY <1>2 DEF WatchCommit
  <2> HIDE DEF s
  <2>4. CASE s.rev = row[u].rev
    <3>1. row[u].state = "CLAIMED"
      BY <2>1, <2>4, CurrentCopyClaimed
    <3>2. row'[u].state # "CLAIMED"
      BY <1>1, <2>3, <2>4, <3>1, ExpiredOnward DEF Onward
    <3>3. QED  BY <1>1, <2>3, <2>4, <3>2, ExpiredFollows, ExpiredState
  <2>5. CASE s.rev # row[u].rev
    <3> DEFINE waiting == row[u].waiting \/ s.retries + 1 < MaxIterations
    <3>1. row'[u] = [row[u] EXCEPT !.retries = s.retries + 1, !.waiting = waiting]
      BY <2>3, <2>5 DEF WrittenAnyway
    <3> HIDE DEF waiting
    <3>2. /\ row'[u].phase = row[u].phase /\ row'[u].attempts = row[u].attempts
          /\ row'[u].rejections = row[u].rejections /\ row'[u].last = row[u].last
          /\ row'[u].role = row[u].role
          /\ row'[u].state = row[u].state /\ row'[u].rev = row[u].rev
      BY <1>1, <3>1 DEF Row
    <3>3. QED  BY <3>2, SameFollows
  <2>6. QED  BY <2>4, <2>5
<1>3. CASE ~\E s \in watch : s.task = u
  <2>1. row'[u] = row[u]
    BY <1>3 DEF WatchCommit
  <2>2. QED  BY <2>1, SameFollows
<1>4. QED  BY <1>2, <1>3

LEMMA BackoffFollows ==
  ASSUME Inv, NEW t \in Task, BackoffEnds(t), NEW u \in Task
  PROVE  /\ Follows(row[u], row'[u]) /\ (Within(row[u]) => Within(row'[u]))
         /\ row'[u].state = row[u].state /\ row'[u].role = row[u].role
         /\ row'[u].rev = row[u].rev /\ row'[u].phase = row[u].phase
<1>1. row \in [Task -> Row] /\ row[u] \in Row
  BY DEF Inv, TypeOK
<1>2. row'[u] = row[u] \/ row'[u] = [row[u] EXCEPT !.waiting = FALSE]
  BY <1>1 DEF BackoffEnds, Put
<1>3. /\ row'[u].phase = row[u].phase /\ row'[u].attempts = row[u].attempts
      /\ row'[u].rejections = row[u].rejections /\ row'[u].last = row[u].last
      /\ row'[u].state = row[u].state /\ row'[u].role = row[u].role
      /\ row'[u].rev = row[u].rev
  BY <1>1, <1>2 DEF Row
<1>4. QED  BY <1>3, SameFollows

(* The row an answer arrives for changes as it is taken, no other one.     *)
LEMMA TakenRows ==
  ASSUME Inv, NEW t \in Task, NEW m \in Response, Intake(t, m)
  PROVE  \E next : /\ Taken(t, m, next)
                   /\ row'[t] = next
                   /\ \A u \in Task \ {t} : row'[u] = row[u]
<1>1. PICK next : Taken(t, m, next)
  BY IntakeTaken
<1>2. row \in [Task -> Row] /\ row' = [row EXCEPT ![t] = next]
  BY <1>1 DEF Taken, Put, Inv, TypeOK
<1>3. QED  BY <1>1, <1>2

(* All together: whatever happens, every row follows on itself.            *)
LEMMA StepFollows ==
  ASSUME Inv, [Next]_vars, NEW u \in Task
  PROVE  /\ Follows(row[u], row'[u])
         /\ (\A role \in AssignedRole : \A m \in Responses[role] : ~Unlimited(m))
              => (Within(row[u]) => Within(row'[u]))
<1>1. CASE Schedule
  BY <1>1, ScheduleFollows
<1>2. CASE \E t \in Task : \E m \in Responses[row[t].role] : Intake(t, m)
  <2>1. PICK t \in Task : \E m \in Responses[row[t].role] : Intake(t, m)
    BY <1>2
  <2>2. PICK m \in Responses[row[t].role] : Intake(t, m)
    BY <2>1
  <2>3. m \in Response /\ row[t].role \in AssignedRole
    BY <2>2, ResponsesTyped DEF Inv, TypeOK, Row
  <2>4. PICK next : /\ Taken(t, m, next) /\ row'[t] = next
                    /\ \A v \in Task \ {t} : row'[v] = row[v]
    BY <2>2, <2>3, TakenRows
  <2>5. CASE u = t
    BY <2>3, <2>4, <2>5 DEF Taken
  <2>6. CASE u # t
    BY <2>4, <2>6, SameFollows
  <2>7. QED  BY <2>5, <2>6
<1>3. CASE Verify
  BY <1>3, VerifyFollows
<1>4. CASE WatchCommit
  BY <1>4, WatchFollows
<1>5. CASE \E t \in Task : BackoffEnds(t)
  BY <1>5, BackoffFollows
<1>6. CASE UNCHANGED row
  BY <1>6, SameFollows
<1>7. QED
  BY <1>1, <1>2, <1>3, <1>4, <1>5, <1>6
  DEF Next, ScheduleRolledBack, WatchRead, WatchRolledBack, CheckCompletion, vars

-----------------------------------------------------------------------------
(* The budgets.                                                            *)

LEMMA InitRows ==
  ASSUME Init, NEW t \in Task
  PROVE  /\ row[t].state = "READY" /\ row[t].rev = 0
         /\ row[t].attempts = 0 /\ row[t].rejections = 0 /\ row[t].last = "NONE"
         /\ row[t].phase = "PLANNING" => t = Planner
         /\ row[t].phase = "RESEARCHING" => t = Researcher
BY DEF Init, FreshRow

(* A task is rejected by its reviewer no more often than the limit allows, *)
(* and less often while it is open, for every limit and every answer: each *)
(* rejection is also charged, and the charge is compared with the limit.   *)
THEOREM RejectionsWithinLimit == Spec => []RejectionsBounded
<1> DEFINE AllAccounts == \A t \in Task : Accounts(row[t])
<1>1. Init => AllAccounts
  BY InitRows, BudgetsPositive DEF Accounts
<1>2. Inv /\ AllAccounts /\ [Next]_vars => AllAccounts'
  BY StepFollows DEF Follows
<1>3. AllAccounts => RejectionsBounded
  BY DEF Accounts, RejectionsBounded
<1>4. QED  BY <1>1, <1>2, <1>3, Invariance, PTL DEF Spec

(* Where no answer is sent back or charged without a limit, an open task   *)
(* has been charged less than one of its limits, whatever the charges were *)
(* for.                                                                    *)
THEOREM OpenTasksWithinBudget ==
  ASSUME \A role \in AssignedRole : \A m \in Responses[role] : ~Unlimited(m)
  PROVE  Spec => []OpenWithinBudget
<1>1. Init => OpenWithinBudget
  BY InitRows, BudgetsPositive DEF OpenWithinBudget
<1>2. Inv /\ OpenWithinBudget /\ [Next]_vars => OpenWithinBudget'
  BY StepFollows DEF OpenWithinBudget, Within
<1>3. QED  BY <1>1, <1>2, Invariance, PTL DEF Spec

-----------------------------------------------------------------------------
(* The order of the stages, and the gate.                                  *)

(* Planning and research are the planner's and the researcher's alone, and *)
(* what no plan has brought into being has not been touched.  With         *)
(* StagesInOrder and OneCoderClaimed this is inductive: the first says     *)
(* that only the planner's answer brings a plan, the second that the gate, *)
(* which looks at existing rows, sees every claim.                         *)
Homes ==
  \A t \in Task : /\ row[t].phase = "PLANNING" => t = Planner
                  /\ row[t].phase = "RESEARCHING" => t = Researcher

Unborn == \A t \in Task \ Existing : row[t].state = "READY"

Ordered == Homes /\ Unborn /\ StagesInOrder /\ OneCoderClaimed

(* A plan is there for good, and only the planner's answer brings one.     *)
LEMMA PlanStep ==
  ASSUME Inv, Homes, [Next]_vars
  PROVE  \/ UNCHANGED plan
         \/ /\ plan = {} /\ row'[Planner].phase = "COMPLETE"
            /\ row'[Planner].state = "VERIFIED"
            /\ \A u \in Task \ {Planner} : row'[u] = row[u]
<1>1. CASE \E t \in Task : \E m \in Responses[row[t].role] : Intake(t, m)
  <2>1. PICK t \in Task : \E m \in Responses[row[t].role] : Intake(t, m)
    BY <1>1
  <2>2. PICK m \in Responses[row[t].role] : Intake(t, m)
    BY <2>1
  <2>3. m \in Response
    BY <2>2, ResponsesTyped DEF Inv, TypeOK, Row
  <2>4. PICK next : /\ Taken(t, m, next) /\ row'[t] = next
                    /\ \A u \in Task \ {t} : row'[u] = row[u]
    BY <2>2, <2>3, TakenRows
  <2>5. t \in ActiveTasks
    BY <2>2, <2>3, IntakeTouches DEF Arrives
  <2>6. CASE row[t].phase = "PLANNING"
    <3>1. t = Planner
      BY <2>6 DEF Homes
    <3>2. plan = {}
      BY <2>5, <3>1, TasksDistinct DEF ActiveTasks, Inv, TypeOK
    <3>3. QED  BY <2>4, <3>1, <3>2 DEF Taken
  <2>7. CASE row[t].phase # "PLANNING"
    BY <2>4, <2>7 DEF Taken
  <2>8. QED  BY <2>6, <2>7
<1>2. CASE UNCHANGED plan
  BY <1>2
<1>3. QED
  BY <1>1, <1>2
  DEF Next, Schedule, ScheduleRolledBack, Verify, WatchRead, WatchCommit,
      WatchRolledBack, BackoffEnds, CheckCompletion, vars

LEMMA HomesKept ==
  ASSUME Inv, Homes, [Next]_vars
  PROVE  Homes'
BY StepFollows DEF Homes, Follows

(* A row that no plan has named stays as it is in all that matters.        *)
LEMMA AbsentRow ==
  ASSUME Inv, Unborn, [Next]_vars, NEW u \in Task \ Existing
  PROVE  row'[u].state = "READY" /\ row'[u].rev = row[u].rev
<1>1. /\ row \in [Task -> Row] /\ row[u] \in Row /\ row[u].state = "READY"
      /\ ActiveTasks \subseteq Existing /\ u \in Task
  BY DEF Inv, TypeOK, Unborn, ActiveTasks, Existing
<1>2. CASE Schedule
  <2>1. PICK batch \in Batches :
          row' = [t \in Task |-> IF t \in batch THEN Claimed(row[t])
                                 ELSE IF t \in Doomed THEN CascadeFailed(row[t])
                                 ELSE row[t]]
    BY <1>2 DEF Schedule
  <2>2. batch \cup Doomed \subseteq ActiveTasks
    BY DEF Batches, CodersRunnable, Runnable, Doomed, Ready
  <2>3. QED  BY <1>1, <2>1, <2>2
<1>3. CASE \E t \in Task : \E m \in Responses[row[t].role] : Intake(t, m)
  <2>1. PICK t \in Task : \E m \in Responses[row[t].role] : Intake(t, m)
    BY <1>3
  <2>2. PICK m \in Responses[row[t].role] : Intake(t, m)
    BY <2>1
  <2>3. m \in Response
    BY <2>2, ResponsesTyped DEF Inv, TypeOK, Row
  <2>4. u # t
    BY <1>1, <2>2, <2>3, IntakeTouches DEF Arrives
  <2>5. row'[u] = row[u]
    BY <1>1, <2>2, <2>3, <2>4, TakenRows
  <2>6. QED  BY <1>1, <2>5
<1>4. CASE Verify
  <2>1. u \notin Submitted
    BY DEF Submitted
  <2>2. row'[u] = row[u]
    BY <1>1, <1>4, <2>1 DEF Verify
  <2>3. QED  BY <1>1, <2>2
<1>5. CASE WatchCommit
  BY <1>1, <1>5, WatchCommitRows DEF Stays
<1>6. CASE \E t \in Task : BackoffEnds(t)
  BY <1>1, <1>6, BackoffFollows
<1>7. CASE UNCHANGED row
  BY <1>1, <1>7
<1>8. QED
  BY <1>2, <1>3, <1>4, <1>5, <1>6, <1>7
  DEF Next, ScheduleRolledBack, WatchRead, WatchRolledBack, CheckCompletion, vars

LEMMA UnbornKept ==
  ASSUME Inv, Homes, Unborn, [Next]_vars
  PROVE  Unborn'
<1>1. Existing \subseteq Existing'
  BY PlanStep DEF Existing
<1>2. QED  BY <1>1, AbsentRow DEF Unborn

(* The scheduler hands out the planner's task when the research is done.   *)
LEMMA PlannerAfterResearch ==
  ASSUME NEW batch \in Batches, Planner \in batch
  PROVE  row[Researcher].phase = "COMPLETE"
<1>1. Planner \in Runnable
  BY DEF Batches, CodersRunnable
<1>2. QED  BY <1>1 DEF Runnable, Deps

LEMMA StagesInOrderKept ==
  ASSUME Inv, Homes, StagesInOrder, [Next]_vars
  PROVE  StagesInOrder'
<1>1. Planner \in Task /\ Researcher \in Task
  BY DEF Task
<1>2. \A t \in Task : row[t].phase = "COMPLETE" => row'[t].phase = "COMPLETE"
  BY OverStays DEF Terminal, TerminalPhases
<1>3. plan' # {} => row'[Planner].phase = "COMPLETE"
  BY <1>1, <1>2, PlanStep DEF StagesInOrder
<1>4. ASSUME NEW a \in dispatched', a[1] = Planner, a \notin dispatched
      PROVE  row[Researcher].phase = "COMPLETE"
  <2>1. PICK batch \in Batches : dispatched' = dispatched \cup Assignments(batch)
    <3>1. ~ \E t \in Task : \E m \in Responses[row[t].role] : Intake(t, m)
      BY <1>4, IntakeTouches, ResponsesTyped DEF Inv, TypeOK, Row
    <3>2. Schedule \/ ScheduleRolledBack
      BY <1>4, <3>1
      DEF Next, Verify, WatchRead, WatchCommit, WatchRolledBack, BackoffEnds,
          CheckCompletion, vars
    <3>3. QED  BY <3>2 DEF Schedule, ScheduleRolledBack
  <2>2. Planner \in batch
    BY <1>4, <2>1 DEF Assignments
  <2>3. QED  BY <2>2, PlannerAfterResearch
<1>5. QED  BY <1>1, <1>2, <1>3, <1>4 DEF StagesInOrder

(* The scheduler claims one coder's task at most, and only when no other   *)
(* existing one is claimed.                                                *)
LEMMA OneCoderInBatch ==
  ASSUME NEW batch \in Batches, NEW t \in batch, row[t].role = "CODER"
  PROVE  /\ ~GateBlocked(t)
         /\ \A u \in batch : row[u].role = "CODER" => u = t
<1> DEFINE others == Runnable \ CodersRunnable
           open == {u \in CodersRunnable : ~GateBlocked(u)}
<1>1. batch = others \/ \E u \in open : batch = others \cup {u}
  BY DEF Batches
<1>2. \A u \in others : row[u].role # "CODER"
  BY DEF CodersRunnable
<1>3. PICK u \in open : batch = others \cup {u}
  BY <1>1, <1>2
<1>4. QED  BY <1>2, <1>3

(* Outside the scheduler, who is claimed was claimed before, in that role. *)
LEMMA ClaimsKept ==
  ASSUME Inv, [Next]_vars, ~Schedule, NEW u \in Task, row'[u].state = "CLAIMED"
  PROVE  row[u].state = "CLAIMED" /\ row[u].role = row'[u].role
<1>1. row[u] \in Row /\ Coherent(row[u])
  BY DEF Inv, TypeOK, StagesCoherent
<1>2. CASE \E t \in Task : \E m \in Responses[row[t].role] : Intake(t, m)
  <2>1. PICK t \in Task : \E m \in Responses[row[t].role] : Intake(t, m)
    BY <1>2
  <2>2. PICK m \in Responses[row[t].role] : Intake(t, m)
    BY <2>1
  <2>3. m \in Response
    BY <2>2, ResponsesTyped DEF Inv, TypeOK, Row
  <2>4. PICK next : /\ Taken(t, m, next) /\ row'[t] = next
                    /\ \A v \in Task \ {t} : row'[v] = row[v]
    BY <2>2, <2>3, TakenRows
  <2>5. QED  BY <2>4 DEF Taken, Onward
<1>3. CASE Verify
  <2>1. u \in Submitted => Onward(row[u], row'[u])
    BY <1>1, <1>3, JudgedOnward DEF Verify, Submitted
  <2>2. u \notin Submitted => row'[u] = row[u]
    BY <1>3 DEF Verify
  <2>3. QED  BY <2>1, <2>2 DEF Onward
<1>4. CASE WatchCommit
  BY <1>4, WatchCommitRows, WatchFollows DEF Stays, Leaves, Onward
<1>5. CASE \E t \in Task : BackoffEnds(t)
  BY <1>5, BackoffFollows
<1>6. CASE UNCHANGED row
  BY <1>6
<1>7. QED
  BY <1>2, <1>3, <1>4, <1>5, <1>6
  DEF Next, ScheduleRolledBack, WatchRead, WatchRolledBack, CheckCompletion, vars

LEMMA OneCoderKept ==
  ASSUME Inv, Unborn, OneCoderClaimed, [Next]_vars
  PROVE  OneCoderClaimed'
<1>1. CASE Schedule
  <2>1. PICK batch \in Batches :
          row' = [t \in Task |-> IF t \in batch THEN Claimed(row[t])
                                 ELSE IF t \in Doomed THEN CascadeFailed(row[t])
                                 ELSE row[t]]
    BY <1>1 DEF Schedule
  <2>2. \A u \in Task : row[u] \in Row
    BY DEF Inv, TypeOK
  <2>3. ASSUME NEW u \in Task, row'[u].state = "CLAIMED", row'[u].role = "CODER"
        PROVE  /\ row[u].role = "CODER"
               /\ u \in batch \/ (row[u].state = "CLAIMED" /\ u \in Existing)
    <3>1. CASE u \in batch
      <4>1. Claimed(row[u]).role = row[u].role
        BY <2>2 DEF Claimed, Row
      <4>2. QED  BY <2>1, <2>3, <3>1, <4>1
    <3>2. CASE u \notin batch
      <4>1. u \notin Doomed
        BY <2>1, <2>2, <2>3, <3>2, CascadeRow
      <4>2. row'[u] = row[u]
        BY <2>1, <3>2, <4>1
      <4>3. QED  BY <2>3, <4>2 DEF Unborn
    <3>3. QED  BY <3>1, <3>2
  <2>4. ASSUME NEW t \in Task, row'[t].state = "CLAIMED", row'[t].role = "CODER",
               NEW u \in Task, row'[u].state = "CLAIMED", row'[u].role = "CODER"
        PROVE  t = u
    <3>1. ASSUME NEW v \in Task, v \in batch, row[v].role = "CODER",
                 NEW w \in Task, row[w].role = "CODER",
                 w \in batch \/ (row[w].state = "CLAIMED" /\ w \in Existing)
          PROVE  v = w
      BY <3>1, OneCoderInBatch DEF GateBlocked
    <3>2. QED  BY <2>3, <2>4, <3>1 DEF OneCoderClaimed
  <2>5. QED  BY <2>4 DEF OneCoderClaimed
<1>2. CASE ~Schedule
  BY <1>2, ClaimsKept DEF OneCoderClaimed
<1>3. QED  BY <1>1, <1>2

LEMMA OrderedInvariance == Spec => []Ordered
<1>1. Init => Ordered
  <2>1. ASSUME Init PROVE Homes /\ Unborn /\ OneCoderClaimed
    BY <2>1, InitRows DEF Homes, Unborn, OneCoderClaimed, Existing
  <2>2. ASSUME Init PROVE StagesInOrder
    BY <2>2 DEF Init, StagesInOrder
  <2>3. QED  BY <2>1, <2>2 DEF Ordered
<1>2. Inv /\ Ordered /\ [Next]_vars => Ordered'
  BY HomesKept, UnbornKept, StagesInOrderKept, OneCoderKept DEF Ordered
<1>3. QED  BY <1>1, <1>2, Invariance, PTL DEF Spec

(* No task of a plan exists before planning is complete, and planning is   *)
(* not handed out before the research is: neither a plan that comes twice  *)
(* nor a claim that was rolled back turns the order round.                 *)
THEOREM StagesKeepOrder == Spec => []StagesInOrder
<1>1. Ordered => StagesInOrder
  BY DEF Ordered
<1>2. QED  BY <1>1, OrderedInvariance, PTL

(* At most one coder works under an assignment, for any number of coders:  *)
(* the gate looks at existing rows only, and there are no other claims.    *)
THEOREM CodersTakeTurns == Spec => []OneCoderClaimed
<1>1. Ordered => OneCoderClaimed
  BY DEF Ordered
<1>2. QED  BY <1>1, OrderedInvariance, PTL

-----------------------------------------------------------------------------
(* The rows implement the lease of a task.                                 *)

(* The stage of the lease that stands in the state column of an existing   *)
(* row.                                                                    *)
Column ==
  [s \in {"READY", "CLAIMED", "PROCESSING", "SUBMITTED", "VERIFIED", "FAILED"} |->
     CASE s = "READY"      -> "open"
       [] s = "CLAIMED"    -> "held"
       [] s = "PROCESSING" -> "stuck"
       [] s = "SUBMITTED"  -> "parked"
       [] s = "VERIFIED"   -> "done"
       [] s = "FAILED"     -> "failed"]

LEMMA StageOfRow ==
  ASSUME Inv, NEW t \in Task
  PROVE  StageOf(t) = IF t \in Existing THEN Column[row[t].state] ELSE "absent"
BY DEF StageOf, Column, Inv, TypeOK, Row

LEMMA StageAfter ==
  ASSUME Inv', NEW t \in Task
  PROVE  StageOf(t)' = IF t \in Existing' THEN Column[row'[t].state] ELSE "absent"
BY DEF StageOf, Column, Inv, TypeOK, Row

LEMMA LeaseTyped ==
  ASSUME Inv, Inv'
  PROVE  /\ Lease!Typed
         /\ \A t \in Task : row[t].rev \in Nat /\ row'[t].rev \in Nat
<1>1. \A t \in Task : row[t].rev \in Nat /\ row'[t].rev \in Nat
  BY DEF Inv, TypeOK, Row
<1>2. \A t \in Task : StageOf(t)' \in Lease!Stage
  BY StageAfter DEF Column, Lease!Stage, Inv, TypeOK, Row
<1>3. QED  BY <1>1, <1>2 DEF Lease!Typed

(* A row that did not change its state and its revision is the same lease. *)
LEMMA SameLease ==
  ASSUME Inv, Inv', NEW t \in Task,
         row'[t].state = row[t].state, row'[t].rev = row[t].rev,
         t \in Existing <=> t \in Existing'
  PROVE  Lease!Same(t)
BY StageOfRow, StageAfter DEF Lease!Same

LEMMA ScheduleGrants ==
  ASSUME Inv, Inv', Schedule
  PROVE  Lease!Next
<1>1. PICK batch \in Batches :
        /\ row' = [t \in Task |-> IF t \in batch THEN Claimed(row[t])
                                  ELSE IF t \in Doomed THEN CascadeFailed(row[t])
                                  ELSE row[t]]
        /\ dispatched' = dispatched \cup Assignments(batch)
  BY DEF Schedule
<1>2. Existing' = Existing /\ run' = run
  BY DEF Schedule, Existing
<1>3. \A t \in Task : row[t] \in Row /\ Coherent(row[t])
  BY DEF Inv, TypeOK, StagesCoherent
<1>4. ActiveTasks \subseteq Existing /\ batch \cup Doomed \subseteq ActiveTasks
  BY DEF ActiveTasks, Existing, Batches, CodersRunnable, Runnable, Doomed, Ready
<1>5. \A t \in batch \cup Doomed : t \in Task /\ t \in Existing /\ row[t].state = "READY"
  BY <1>4, BatchReady
<1>6. batch \in SUBSET Lease!At("open")
  BY <1>5, StageOfRow DEF Lease!At, Column
<1>7. Lease!Handed(batch) = Assignments(batch)
  BY <1>5 DEF Lease!Handed, Assignments
<1>8. ASSUME NEW t \in Task, t \in batch
      PROVE  StageOf(t)' = "held" /\ row'[t].rev = row[t].rev + 1
  <2>1. row'[t].state = "CLAIMED" /\ row'[t].rev = row[t].rev + 1
    BY <1>1, <1>3, <1>5, <1>8, ClaimedRow
  <2>2. QED  BY <1>2, <1>5, <1>8, <2>1, StageAfter DEF Column
<1>9. ASSUME NEW t \in Task, t \notin batch
      PROVE  Lease!Same(t) \/ Lease!GivenUp(t)
  <2>1. CASE t \in Doomed
    <3>1. row'[t].state = "FAILED" /\ row'[t].rev = row[t].rev
      BY <1>1, <1>3, <1>9, <2>1, CascadeRow
    <3>2. StageOf(t) = "open" /\ StageOf(t)' = "failed"
      BY <1>2, <1>5, <2>1, <3>1, StageOfRow, StageAfter DEF Column
    <3>3. QED  BY <3>1, <3>2 DEF Lease!GivenUp
  <2>2. CASE t \notin Doomed
    BY <1>1, <1>2, <1>9, <2>2, SameLease
  <2>3. QED  BY <2>1, <2>2
<1>10. Lease!Grant(batch)
  BY <1>1, <1>2, <1>7, <1>8, <1>9, LeaseTyped DEF Lease!Grant
<1>11. QED  BY <1>6, <1>10 DEF Lease!Next

LEMMA RollbackOffers ==
  ASSUME Inv, ScheduleRolledBack
  PROVE  Lease!Next
<1>1. PICK batch \in Batches : dispatched' = dispatched \cup Assignments(batch)
  BY DEF ScheduleRolledBack
<1>2. UNCHANGED <<row, plan, run>>
  BY DEF ScheduleRolledBack
<1>3. ActiveTasks \subseteq Existing /\ batch \subseteq ActiveTasks
  BY DEF ActiveTasks, Existing, Batches, CodersRunnable, Runnable, Ready
<1>4. \A t \in batch : t \in Task /\ t \in Existing /\ row[t].state = "READY"
  BY <1>3, BatchReady
<1>5. batch \in SUBSET Lease!At("open")
  BY <1>4, StageOfRow DEF Lease!At, Column
<1>6. Lease!Handed(batch) = Assignments(batch)
  BY <1>4 DEF Lease!Handed, Assignments
<1>7. Lease!Offer(batch)
  BY <1>1, <1>2, <1>6 DEF Lease!Offer, StageOf, Existing
<1>8. QED  BY <1>5, <1>7 DEF Lease!Next

(* Whatever an answer does to its task is an answer of the lease's holder; *)
(* one that brings a plan brings its tasks into being.                     *)
LEMMA IntakeAnswers ==
  ASSUME Inv, Inv', Ordered, NEW t \in Task, NEW m \in Response, Intake(t, m)
  PROVE  Lease!Next
<1>1. PICK next : /\ Taken(t, m, next) /\ row'[t] = next
                  /\ \A u \in Task \ {t} : row'[u] = row[u]
  BY TakenRows
<1>2. /\ <<t, row[t].rev>> \in dispatched /\ t \in ActiveTasks
      /\ UNCHANGED <<dispatched, run>> /\ row[t].state = "CLAIMED"
  BY IntakeTouches, ArrivesClaimed DEF Arrives
<1>3. t \in Existing /\ Existing \subseteq Existing'
  <2>1. UNCHANGED plan \/ row[t].phase = "PLANNING"
    BY <1>1 DEF Taken
  <2>2. row[t].phase = "PLANNING" => plan = {}
    BY <1>2, TasksDistinct DEF Ordered, Homes, ActiveTasks, Inv, TypeOK
  <2>3. QED  BY <1>2, <2>1, <2>2 DEF ActiveTasks, Existing
<1>4. Lease!Goes(t, "held", {"open", "stuck", "parked", "done", "failed"})
  <2>1. /\ next.state \in {"READY", "PROCESSING", "SUBMITTED", "VERIFIED", "FAILED"}
        /\ next.rev > row[t].rev
    BY <1>1 DEF Taken, Onward, Row
  <2>2. StageOf(t) = "held" /\ StageOf(t)' = Column[next.state]
    BY <1>1, <1>2, <1>3, StageOfRow, StageAfter DEF Column
  <2>3. QED  BY <1>1, <2>1, <2>2 DEF Lease!Goes, Column
<1>5. ASSUME NEW u \in Task \ {t}
      PROVE  Lease!Same(u) \/ (StageOf(t)' = "done" /\ Lease!Admitted(u))
  <2>1. CASE u \in Existing <=> u \in Existing'
    BY <1>1, <2>1, SameLease
  <2>2. CASE u \notin Existing /\ u \in Existing'
    <3>1. row'[u].state = "READY" /\ row'[u].rev = row[u].rev
      BY <1>1, <2>2 DEF Ordered, Unborn
    <3>2. StageOf(u) = "absent" /\ StageOf(u)' = "open"
      BY <2>2, <3>1, StageOfRow, StageAfter DEF Column
    <3>3. next.state = "VERIFIED"
      BY <1>1, <2>2 DEF Taken, Existing
    <3>4. StageOf(t)' = "done"
      BY <1>1, <1>3, <3>3, StageAfter DEF Column
    <3>5. QED  BY <3>1, <3>2, <3>4 DEF Lease!Admitted
  <2>3. QED  BY <1>3, <2>1, <2>2
<1>6. Lease!Answer(t)
  BY <1>2, <1>4, <1>5, LeaseTyped DEF Lease!Answer
<1>7. t \in Lease!At("held")
  BY <1>2, <1>3, StageOfRow DEF Lease!At, Column
<1>8. QED  BY <1>6, <1>7 DEF Lease!Next

LEMMA VerifyJudges ==
  ASSUME Inv, Inv', Verify
  PROVE  Lease!Next
<1>1. UNCHANGED <<dispatched, run>> /\ Existing' = Existing
  BY DEF Verify, Existing
<1>2. ASSUME NEW t \in Task
      PROVE  Lease!Same(t) \/ Lease!Goes(t, "parked", {"open", "failed"})
  <2>1. row[t] \in Row /\ Coherent(row[t]) /\ row'[t] \in Row /\ Coherent(row'[t])
    BY DEF Inv, TypeOK, StagesCoherent
  <2>2. CASE t \in Submitted
    <3>1. t \in Existing /\ row[t].state = "SUBMITTED"
      BY <2>1, <2>2, JudgedOnward DEF Submitted
    <3>2. \/ row'[t] = Routed(row[t], "VERIFY_SUCCESS", "REVIEWING", "REVIEWER")
          \/ row'[t] = ChargedFor(row[t], "VERIFY_FAILURE", MaxIterations,
                                  "CODING", "CODER", NoRole)
      BY <2>2, <3>1 DEF Verify, Held
    <3>3. /\ Landing("REVIEWING", "REVIEWER") /\ Landing("CODING", "CODER")
          /\ Landing("FAILED_ITERATION_LIMIT", NoRole)
          /\ "VERIFY_SUCCESS" \in TaskEvent /\ "VERIFY_FAILURE" \in TaskEvent
      BY DEF Landing, WorkerStages, TerminalPhases, FailedPhases, Roles, TaskEvent
    <3>4. row'[t].state \in {"READY", "FAILED"}
      <4>1. Charged(row[t]) \in Row
        BY <2>1, ChargedFields
      <4>2. /\ StateFor("REVIEWING", "REVIEWER") = "READY"
            /\ StateFor("CODING", "CODER") = "READY"
            /\ StateFor("FAILED_ITERATION_LIMIT", NoRole) = "FAILED"
        BY DEF StateFor, FailedPhases
      <4>3. /\ Routed(row[t], "VERIFY_SUCCESS", "REVIEWING", "REVIEWER").state = "READY"
            /\ Routed(Charged(row[t]), "VERIFY_FAILURE", "CODING", "CODER").state
                 = "READY"
            /\ Routed(Charged(row[t]), "VERIFY_FAILURE", "FAILED_ITERATION_LIMIT",
                      NoRole).state = "FAILED"
        BY <2>1, <3>3, <4>1, <4>2, RoutedState
      <4>4. QED  BY <3>2, <4>3 DEF ChargedFor
    <3>5. Onward(row[t], row'[t])
      BY <2>1, <2>2, JudgedOnward DEF Verify, Submitted
    <3>6. row'[t].rev > row[t].rev
      BY <3>5 DEF Onward
    <3>8. StageOf(t) = "parked" /\ StageOf(t)' \in {"open", "failed"}
      BY <1>1, <3>1, <3>4, StageOfRow, StageAfter DEF Column
    <3>9. QED  BY <3>6, <3>8 DEF Lease!Goes
  <2>3. CASE t \notin Submitted
    <3>1. row'[t] = row[t]
      BY <2>3 DEF Verify
    <3>2. QED  BY <1>1, <3>1, SameLease
  <2>4. QED  BY <2>2, <2>3
<1>3. Lease!Judge
  BY <1>1, <1>2, LeaseTyped DEF Lease!Judge
<1>4. QED  BY <1>3 DEF Lease!Next

(* The watchdog takes back what is claimed and has not moved since; where  *)
(* an answer came first, it only writes columns the lease does not know.   *)
LEMMA WatchRevokes ==
  ASSUME Inv, Inv', Unborn, WatchCommit
  PROVE  Lease!Next
<1>1. UNCHANGED <<dispatched, run>> /\ Existing' = Existing
  BY DEF WatchCommit, Existing
<1>2. ASSUME NEW t \in Task
      PROVE  Lease!Same(t) \/ Lease!Goes(t, "held", {"open", "failed"})
  <2>1. CASE Leaves(t) /\ row[t].state = "CLAIMED"
    <3>1. row'[t].rev > row[t].rev /\ row[t] \in Row
      BY <2>1 DEF Leaves, Onward, Inv, TypeOK
    <3>2. row'[t].state \in {"READY", "FAILED"}
      BY <3>1, WatchFollows DEF Row
    <3>3. t \in Existing
      BY <2>1 DEF Unborn
    <3>4. StageOf(t) = "held" /\ StageOf(t)' \in {"open", "failed"}
      BY <1>1, <2>1, <3>2, <3>3, StageOfRow, StageAfter DEF Column
    <3>5. QED  BY <3>1, <3>4 DEF Lease!Goes
  <2>2. CASE Stays(t)
    BY <1>1, <2>2, SameLease DEF Stays
  <2>3. QED  BY <2>1, <2>2, WatchCommitRows
<1>3. Lease!Revoke
  BY <1>1, <1>2, LeaseTyped DEF Lease!Revoke
<1>4. QED  BY <1>3 DEF Lease!Next

(* The run ends when the tasks are done or failed, as one failed or none.  *)
LEMMA CompletionConcludes ==
  ASSUME Inv, Inv', CheckCompletion
  PROVE  Lease!Next
<1>1. /\ run = "ACTIVE" /\ UNCHANGED <<row, plan, dispatched>>
      /\ \A t \in Existing : Terminal(row[t])
      /\ run' = IF \E t \in Existing : row[t].phase \in FailedPhases
                THEN "FAILED" ELSE "COMPLETED"
  BY DEF CheckCompletion, Ticking
<1>2. Existing \subseteq Task
  BY DEF Existing, Task, Inv, TypeOK
<1>3. \A t \in Existing : Coherent(row[t]) /\ Terminal(row[t])
  BY <1>1, <1>2 DEF Inv, StagesCoherent
<1>4. \A t \in Existing :
        IF row[t].phase \in FailedPhases THEN row[t].state = "FAILED"
        ELSE row[t].state = "VERIFIED"
  BY <1>3 DEF Coherent, Terminal, TerminalPhases, FailedPhases, WorkerStages
<1>5. \A t \in Task : StageOf(t) \in {"absent", "done", "failed"}
  BY <1>4, StageOfRow DEF Column
<1>6. (\E t \in Existing : row[t].phase \in FailedPhases)
        <=> \E t \in Task : StageOf(t) = "failed"
  BY <1>2, <1>4, StageOfRow DEF Column
<1>7. Lease!Conclude
  BY <1>1, <1>5, <1>6 DEF Lease!Conclude, StageOf, Existing
<1>8. QED  BY <1>7 DEF Lease!Next

LEMMA BackoffSame ==
  ASSUME Inv, Inv', NEW t \in Task, BackoffEnds(t)
  PROVE  UNCHANGED Lease!vars
<1>1. UNCHANGED <<plan, dispatched, run>>
  BY DEF BackoffEnds
<1>2. \A u \in Task : row'[u].state = row[u].state /\ row'[u].rev = row[u].rev
  BY BackoffFollows
<1>3. \A u \in Task : Lease!Same(u)
  BY <1>1, <1>2, SameLease DEF Existing
<1>4. QED  BY <1>1, <1>3 DEF Lease!Same, Lease!vars

LEMMA LeaseStep ==
  ASSUME Inv, Inv', Ordered, [Next]_vars
  PROVE  [Lease!Next]_(Lease!vars)
<1>1. CASE \E t \in Task : \E m \in Responses[row[t].role] : Intake(t, m)
  <2>1. PICK t \in Task : \E m \in Responses[row[t].role] : Intake(t, m)
    BY <1>1
  <2>2. PICK m \in Responses[row[t].role] : Intake(t, m)
    BY <2>1
  <2>3. m \in Response
    BY <2>2, ResponsesTyped DEF Inv, TypeOK, Row
  <2>4. QED  BY <2>2, <2>3, IntakeAnswers
<1>2. CASE Schedule \/ ScheduleRolledBack \/ Verify \/ WatchCommit \/ CheckCompletion
  BY <1>2, ScheduleGrants, RollbackOffers, VerifyJudges, WatchRevokes,
     CompletionConcludes DEF Ordered
<1>3. CASE \E t \in Task : BackoffEnds(t)
  BY <1>3, BackoffSame
<1>4. CASE UNCHANGED <<row, plan, dispatched, run>>
  BY <1>4 DEF Lease!vars, StageOf, Existing
<1>5. QED
  BY <1>1, <1>2, <1>3, <1>4 DEF Next, WatchRead, WatchRolledBack, vars

(* The task table implements the lease, whatever the answers: a task is    *)
(* handed out under its next revision, only an answer under the current    *)
(* one settles it, each settlement spends the revision, and the run's      *)
(* status is what its tasks add up to.                                     *)
THEOREM EngineKeepsLease == Spec => LeaseSpec
<1>1. Init => Lease!Init
  <2>1. ASSUME Init, NEW t \in Task
        PROVE  /\ StageOf(t) = IF t \in {Researcher, Planner} THEN "open" ELSE "absent"
               /\ row[t].rev = 0
    BY <2>1, InitRows DEF StageOf, Existing, Init
  <2>2. QED  BY <2>1 DEF Init, Lease!Init
<1>2. Inv /\ Inv' /\ Ordered /\ [Next]_vars => [Lease!Next]_(Lease!vars)
  BY LeaseStep
<1>3. QED
  BY <1>1, <1>2, Invariance, OrderedInvariance, PTL DEF Spec, LeaseSpec, Lease!Spec
=============================================================================
