---------------------------- MODULE WorkspaceProofs ----------------------------
(***************************************************************************)
(* Proofs about Workspace: what is verified, reviewed and done is what was *)
(* submitted, the two lists of a task's files agree, and what passes the   *)
(* verification has left the rest of the project alone.                    *)
(***************************************************************************)
EXTENDS Workspace, TLAPS

-----------------------------------------------------------------------------
(* Types of what the operations make.                                      *)

LEMMA Contents ==
  /\ Original \in Content /\ Absent \in Content
  /\ \A a \in Answer : By(a.task, a.claim) \in Content /\ By(a.task, a.claim) # Absent
BY DEF Content, Original, Absent, Answer, Assignment, By

LEMMA AnswerFields ==
  ASSUME NEW a \in Answer
  PROVE  /\ a.task \in Tasks /\ a.claim \in 1..MaxWork /\ <<a.task, a.claim>> \in Assignment
         /\ a.shape \in Shape /\ a.shape.writes \subseteq Files
         /\ a.shape.deletes \subseteq Files /\ a.shape.writes \cap a.shape.deletes = {}
         /\ a # NoAnswer
BY DEF Answer, Assignment, Shape, NoAnswer

LEMMA TreesTyped ==
  ASSUME NEW a \in Answer, NEW tree \in Tree
  PROVE  /\ Materialized(tree, a) \in Tree /\ Stored(tree, a) \in Tree
         /\ Emptied \in Tree
BY Contents DEF Materialized, Stored, Emptied, Tree

LEMMA RecordedTyped ==
  ASSUME NEW a, NEW table \in [Files -> {"none", "live", "deleted"}]
  PROVE  Recorded(table, a) \in [Files -> {"none", "live", "deleted"}]
BY DEF Recorded

LEMMA InitTyped ==
  ASSUME Init
  PROVE  TypeOK
<1>1. project \in Tree
  BY Contents DEF Init, Tree
<1>2. Emptied \in Tree
  BY Contents DEF Emptied, Tree
<1>3. MaxWork \in Nat
  BY PlansTyped
<1>4. project \in Tree /\ baseline \in Tree /\ disk \in [Coders -> Tree]
      /\ ground \in [Coders -> Tree]
  BY <1>1, <1>2 DEF Init
<1>5. \A c \in Coders : DOMAIN snapshots[c] = {}
  BY DEF Init
<1>6. /\ scope \in [Coders -> (SUBSET Files) \cup {NoScope}]
      /\ expected \in [Coders -> SUBSET Files] /\ criteria \in [Coders -> SUBSET Files]
      /\ stage \in [Tasks -> Stage]
      /\ rows \in [Coders -> [Files -> {"none", "live", "deleted"}]]
      /\ submission \in [Coders -> Answer \cup {NoAnswer}]
  <2>1. scope \in [Coders -> (SUBSET Files) \cup {NoScope}]
    BY DEF Init
  <2>2. stage \in [Tasks -> Stage]
    BY DEF Init, Stage
  <2>3. submission \in [Coders -> Answer \cup {NoAnswer}]
    BY DEF Init
  <2>4. rows \in [Coders -> [Files -> {"none", "live", "deleted"}]]
    BY DEF Init
  <2>5. expected \in [Coders -> SUBSET Files] /\ criteria \in [Coders -> SUBSET Files]
    BY DEF Init
  <2>6. QED  BY <2>1, <2>2, <2>3, <2>4, <2>5
<1>7. /\ work \in 0..MaxWork /\ claim \in [Tasks -> 0..work]
      /\ wired \subseteq Coders /\ unchecked \subseteq Coders
  BY <1>3 DEF Init
<1>8. dispatched \subseteq Assignment /\ inbox \subseteq Answer
  BY DEF Init
<1>9. QED  BY <1>4, <1>5, <1>6, <1>7, <1>8 DEF TypeOK

(* The tables a plan or an answer does not touch.                          *)
LEMMA PlanTyped ==
  ASSUME TypeOK, NEW plan \in Plans, NEW unwired \in SUBSET Coders,
         AcceptPlan(plan, unwired)
  PROVE  TypeOK'
<1>1. plan \in [Coders -> TaskDef]
  BY PlansTyped
<1>2. \A c \in Coders : Expects(plan[c]) \subseteq Files /\ plan[c].mentions \subseteq Files
  BY <1>1 DEF Expects, TaskDef
<1>3. scope' \in [Coders -> (SUBSET Files) \cup {NoScope}]
  BY <1>2 DEF AcceptPlan, Registered, TypeOK
<1>4. expected' \in [Coders -> SUBSET Files] /\ criteria' \in [Coders -> SUBSET Files]
  <2>1. CASE UNCHANGED <<expected, criteria, stage>>
    BY <2>1 DEF TypeOK
  <2>2. CASE /\ expected' = [c \in Coders |-> Expects(plan[c])]
             /\ criteria' = [c \in Coders |-> plan[c].mentions]
    BY <1>2, <2>2
  <2>3. QED  BY <2>1, <2>2 DEF AcceptPlan
<1>5. stage' \in [Tasks -> Stage]
  BY DEF AcceptPlan, TypeOK, Stage
<1>6. work' \in 0..MaxWork /\ work' >= work
  <2>1. PICK k \in {0, 1, 2} : Work(k)
    BY DEF AcceptPlan
  <2>2. QED  BY <2>1, PlansTyped DEF TypeOK, Work
<1>7. claim' \in [Tasks -> 0..work']
  BY <1>6, PlansTyped DEF AcceptPlan, TypeOK
<1>8. wired' \subseteq Coders /\ UNCHANGED unchecked
  BY DEF AcceptPlan
<1>9. QED  BY <1>3, <1>4, <1>5, <1>6, <1>7, <1>8 DEF AcceptPlan, TypeOK, snaps, files

LEMMA HandOutTyped ==
  ASSUME TypeOK, NEW t \in Tasks, HandOut(t), NEW k \in {1, 2}, Work(k),
         Claim(t) \/ UNCHANGED <<stage, claim>>
  PROVE  /\ dispatched' \subseteq Assignment
         /\ stage' \in [Tasks -> Stage] /\ claim' \in [Tasks -> 0..work']
         /\ work' \in 0..MaxWork
<1>1. /\ work \in 0..MaxWork /\ work' = work + k /\ work' <= MaxWork /\ MaxWork \in Nat
      /\ claim \in [Tasks -> 0..work] /\ claim[t] \in 0..work
  BY PlansTyped DEF TypeOK, Work
<1>2. claim[t] + 1 \in 1..MaxWork /\ claim[t] + 1 \in 0..work' /\ work' \in 0..MaxWork
  BY <1>1
<1>3. dispatched' \subseteq Assignment
  BY <1>2 DEF HandOut, TypeOK, Assignment
<1>4. stage' \in [Tasks -> Stage]
  BY DEF Claim, TypeOK, Stage
<1>5. \A u \in Tasks : claim[u] \in 0..work'
  BY <1>1
<1>6. claim' \in [Tasks -> 0..work']
  BY <1>1, <1>2, <1>5 DEF Claim
<1>7. QED  BY <1>2, <1>3, <1>4, <1>6

LEMMA SnapshotTyped ==
  ASSUME TypeOK, NEW t \in Tasks,
         Snapshot(t) \/ UNCHANGED <<snapshots, ground>>
  PROVE  /\ \A c \in Coders : \A n \in DOMAIN snapshots'[c] :
              n \in Nat /\ snapshots'[c][n] \in Tree
         /\ ground' \in [Coders -> Tree]
<1>1. CASE Snapshot(t)
  <2>1. ASSUME NEW c \in Coders, NEW n \in DOMAIN snapshots'[c]
        PROVE  n \in Nat /\ snapshots'[c][n] \in Tree
    <3>1. CASE c = t
      <4>1. snapshots'[c] = [m \in DOMAIN snapshots[c] \cup {claim[c] + 1} |->
                               IF m = claim[c] + 1 THEN project ELSE snapshots[c][m]]
        BY <1>1, <3>1 DEF Snapshot
      <4>2. claim[c] + 1 \in Nat /\ project \in Tree
        BY <3>1 DEF TypeOK
      <4>3. QED  BY <2>1, <4>1, <4>2 DEF TypeOK
    <3>2. CASE c # t
      BY <1>1, <2>1, <3>2 DEF Snapshot, TypeOK
    <3>3. QED  BY <3>1, <3>2
  <2>2. ground' \in [Coders -> Tree]
    BY <1>1 DEF Snapshot, TypeOK
  <2>3. QED  BY <2>1, <2>2
<1>2. CASE UNCHANGED <<snapshots, ground>>
  BY <1>2 DEF TypeOK
<1>3. QED  BY <1>1, <1>2

LEMMA AssignTyped ==
  ASSUME TypeOK, NEW t \in Tasks, Assign(t) \/ AssignUnsaved(t) \/ AssignRolledBack(t)
  PROVE  TypeOK'
<1>1. PICK k \in {1, 2} : Work(k)
  BY DEF Assign, AssignUnsaved, AssignRolledBack
<1>2. HandOut(t) /\ (Claim(t) \/ UNCHANGED <<stage, claim>>)
  BY DEF Assign, AssignUnsaved, AssignRolledBack
<1>3. Snapshot(t) \/ UNCHANGED <<snapshots, ground>>
  BY DEF Assign, AssignUnsaved, AssignRolledBack
<1>4. /\ dispatched' \subseteq Assignment
      /\ stage' \in [Tasks -> Stage] /\ claim' \in [Tasks -> 0..work']
      /\ work' \in 0..MaxWork
  BY <1>1, <1>2, HandOutTyped
<1>5. /\ \A c \in Coders : \A n \in DOMAIN snapshots'[c] :
           n \in Nat /\ snapshots'[c][n] \in Tree
      /\ ground' \in [Coders -> Tree]
  BY <1>3, SnapshotTyped
<1>6. UNCHANGED <<project, baseline, scope, wired, unchecked, expected, criteria, inbox,
                  disk, rows, submission>>
  BY <1>2 DEF HandOut, memory, scopes, files
<1>7. QED  BY <1>4, <1>5, <1>6 DEF TypeOK

LEMMA ReceiveTyped ==
  ASSUME TypeOK, NEW a \in Answer, Receive(a)
  PROVE  TypeOK'
<1>1. project' \in Tree
  BY TreesTyped DEF Receive, TypeOK
<1>2. QED  BY <1>1 DEF Receive, TypeOK, snaps, memory, scopes, files

LEMMA StageTyped ==
  ASSUME TypeOK, NEW t \in Tasks, TakeBack(t) \/ (t \in Coders /\ (Verify(t) \/ Review(t)))
  PROVE  TypeOK'
<1>1. \E next \in Stage : stage' = [stage EXCEPT ![t] = next]
  BY DEF TakeBack, Verify, Review, Stage
<1>2. UNCHANGED <<project, snaps, scopes, claim, dispatched, inbox, files>>
  BY DEF TakeBack, Verify, Review, memory
<1>3. unchecked' \subseteq Coders
  <2>1. unchecked' \in {unchecked, unchecked \cup {t}, unchecked \ {t}}
        /\ (t \in Coders \/ UNCHANGED unchecked)
    BY DEF TakeBack, Verify, Review, memory
  <2>2. QED  BY <2>1 DEF TypeOK
<1>4. work' \in 0..MaxWork /\ claim \in [Tasks -> 0..work']
  <2>1. PICK k \in {0, 1} : work' = work + k /\ work + k <= MaxWork
    <3>1. ASSUME TakeBack(t) \/ Review(t)
          PROVE  work' = work + 0 /\ work + 0 <= MaxWork
      BY <3>1, PlansTyped DEF TakeBack, Review, TypeOK
    <3>2. ASSUME Verify(t)
          PROVE  \E k \in {0, 1} : Work(k)
      BY <3>2 DEF Verify
    <3>3. QED  BY <3>1, <3>2 DEF Work
  <2>2. work \in 0..MaxWork /\ MaxWork \in Nat /\ claim \in [Tasks -> 0..work]
    BY PlansTyped DEF TypeOK
  <2>3. work' \in 0..MaxWork /\ 0..work \subseteq 0..work'
    BY <2>1, <2>2
  <2>4. QED  BY <2>2, <2>3
<1>5. QED  BY <1>1, <1>2, <1>3, <1>4 DEF TypeOK, snaps, scopes, files

LEMMA JudgeTyped ==
  ASSUME TypeOK, NEW a \in inbox, Judge(a)
  PROVE  TypeOK'
<1>1. a \in Answer
  BY DEF TypeOK
<1>2. PICK next \in Stage : Settle(a, next)
  BY DEF Judge, RefuseCode, AcceptCode, StoreFails, StoreRolledBack, JudgeResearch, Stage
<1>3. stage' \in [Tasks -> Stage] /\ inbox' \subseteq Answer
  BY <1>2 DEF Settle, TypeOK
<1>4. work' \in 0..MaxWork /\ claim' \in [Tasks -> 0..work']
  <2>1. work' = work \/ (work' = work + 1 /\ work + 1 <= MaxWork)
    BY DEF Judge, RefuseCode, AcceptCode, StoreFails, StoreRolledBack, JudgeResearch, Work
  <2>2. claim' = claim /\ claim \in [Tasks -> 0..work] /\ work \in 0..MaxWork /\ MaxWork \in Nat
    BY <1>2, PlansTyped DEF Settle, TypeOK
  <2>3. work' \in 0..MaxWork /\ 0..work \subseteq 0..work'
    BY <2>1, <2>2
  <2>4. QED  BY <2>2, <2>3
<1>5. /\ disk' \in [Coders -> Tree]
      /\ rows' \in [Coders -> [Files -> {"none", "live", "deleted"}]]
      /\ submission' \in [Coders -> Answer \cup {NoAnswer}]
  <2>1. CASE UNCHANGED files
    BY <2>1 DEF files, TypeOK
  <2>2. CASE Storable(a) /\ ~UNCHANGED files
    <3>1. disk[a.task] \in Tree /\ rows[a.task] \in [Files -> {"none", "live", "deleted"}]
      BY <2>2 DEF Storable, TypeOK
    <3>2. /\ Stored(disk[a.task], a) \in Tree /\ Emptied \in Tree
          /\ Recorded(rows[a.task], a) \in [Files -> {"none", "live", "deleted"}]
      BY <1>1, <3>1, TreesTyped, RecordedTyped
    <3>3. /\ \E dir \in Tree : disk' = [disk EXCEPT ![a.task] = dir]
          /\ rows' = rows \/ rows' = [rows EXCEPT ![a.task] = Recorded(@, a)]
          /\ submission' = submission \/ submission' = [submission EXCEPT ![a.task] = a]
      BY <2>2, <3>2
      DEF Judge, RefuseCode, AcceptCode, StoreFails, StoreRolledBack, JudgeResearch, files
    <3>4. disk' \in [Coders -> Tree]
      BY <3>3 DEF TypeOK
    <3>5. rows' \in [Coders -> [Files -> {"none", "live", "deleted"}]]
      BY <3>2, <3>3 DEF TypeOK
    <3>6. submission' \in [Coders -> Answer \cup {NoAnswer}]
      BY <1>1, <3>3 DEF TypeOK
    <3>7. QED  BY <3>4, <3>5, <3>6
  <2>3. QED
    BY <2>1, <2>2
    DEF Judge, RefuseCode, AcceptCode, StoreFails, StoreRolledBack, JudgeResearch
<1>6. UNCHANGED <<project, baseline, snapshots, ground, scope, wired, unchecked, expected,
                  criteria, dispatched>>
  BY <1>2 DEF Settle, snaps, memory, scopes
<1>7. QED  BY <1>3, <1>4, <1>5, <1>6 DEF TypeOK

LEMMA NextTyped ==
  ASSUME TypeOK, [Next]_vars
  PROVE  TypeOK'
<1>1. CASE \E plan \in Plans, unwired \in SUBSET Coders : AcceptPlan(plan, unwired)
  BY <1>1, PlanTyped
<1>2. CASE \E t \in Tasks : Assign(t) \/ AssignUnsaved(t) \/ AssignRolledBack(t)
  BY <1>2, AssignTyped
<1>3. CASE \E a \in Answer : Receive(a)
  BY <1>3, ReceiveTyped
<1>4. CASE \E t \in Tasks : TakeBack(t) \/ (t \in Coders /\ (Verify(t) \/ Review(t)))
  BY <1>4, StageTyped
<1>5. CASE \E a \in inbox : Judge(a)
  BY <1>5, JudgeTyped
<1>6. CASE UNCHANGED vars
  BY <1>6 DEF vars, TypeOK
<1>7. QED  BY <1>1, <1>2, <1>3, <1>4, <1>5, <1>6 DEF Next, Tasks

(* Types of the state, for every project, every plan and every answer.     *)
THEOREM TypeCorrect == Spec => []TypeOK
<1>1. QED  BY InitTyped, NextTyped, PTL DEF Spec

-----------------------------------------------------------------------------
(* The two lists of the files of a task.                                   *)

(* Outside a plan, one task that is there moves on, or none.               *)
Moves(t) ==
  \E next \in Stage : stage[t] # "absent" /\ stage' = [stage EXCEPT ![t] = next]

LEMMA StageStep ==
  ASSUME TypeOK, [Next]_vars, ~ \E plan \in Plans, unwired \in SUBSET Coders : AcceptPlan(plan, unwired)
  PROVE  UNCHANGED stage \/ \E t \in Tasks : Moves(t)
<1>1. ASSUME NEW t \in Tasks,
             Assign(t) \/ AssignUnsaved(t) \/ AssignRolledBack(t) \/ TakeBack(t)
      PROVE  UNCHANGED stage \/ Moves(t)
  BY <1>1 DEF Assign, AssignUnsaved, AssignRolledBack, HandOut, Claim, TakeBack, Moves, Stage
<1>2. ASSUME NEW a \in inbox, Judge(a)
      PROVE  Moves(a.task) /\ a.task \in Tasks
  <2>1. \E next \in Stage : Settle(a, next)
    BY <1>2
    DEF Judge, RefuseCode, AcceptCode, StoreFails, StoreRolledBack, JudgeResearch, Stage
  <2>2. a.task \in Tasks
    BY AnswerFields DEF TypeOK
  <2>3. QED  BY <2>1, <2>2 DEF Settle, Current, Moves
<1>3. ASSUME NEW c \in Coders, Verify(c) \/ Review(c)
      PROVE  Moves(c)
  BY <1>3 DEF Verify, Review, Moves, Stage
<1>4. ASSUME NEW a \in Answer, Receive(a)
      PROVE  UNCHANGED stage
  BY <1>4 DEF Receive
<1>5. CASE UNCHANGED vars
  BY <1>5 DEF vars
<1>6. QED  BY <1>1, <1>2, <1>3, <1>4, <1>5 DEF Next, Tasks

(* A task does not come into being but with its plan, and all the others.  *)
LEMMA PresentBefore ==
  ASSUME TypeOK, [Next]_vars, NEW c \in Coders, stage'[c] # "absent",
         ~ \E plan \in Plans, unwired \in SUBSET Coders : AcceptPlan(plan, unwired)
  PROVE  /\ stage[c] # "absent" /\ wired' = wired
         /\ scope'[c] = scope[c] /\ expected'[c] = expected[c]
<1>1. UNCHANGED scopes
  BY DEF Next, Assign, AssignUnsaved, AssignRolledBack, HandOut, TakeBack, Receive, Judge,
     RefuseCode, AcceptCode, StoreFails, StoreRolledBack, JudgeResearch, Settle,
     Verify, Review, vars, memory, scopes
<1>2. UNCHANGED stage \/ \E t \in Tasks : Moves(t)
  BY StageStep
<1>3. QED  BY <1>1, <1>2 DEF scopes, Moves, Tasks, TypeOK

LEMMA AgreeKept ==
  ASSUME TypeOK, ScopesAgree, [Next]_vars
  PROVE  ScopesAgree'
<1>1. CASE \E plan \in Plans, unwired \in SUBSET Coders : AcceptPlan(plan, unwired)
  <2>1. PICK plan \in Plans, unwired \in SUBSET Coders : AcceptPlan(plan, unwired)
    BY <1>1
  <2>2. CASE expected' = [c \in Coders |-> Expects(plan[c])]
    BY <2>1, <2>2 DEF AcceptPlan, Registered, ScopesAgree
  <2>3. CASE UNCHANGED stage
    BY <2>1, <2>3 DEF AcceptPlan, ScopesAgree
  <2>4. QED  BY <2>1, <2>2, <2>3 DEF AcceptPlan
<1>2. CASE ~ \E plan \in Plans, unwired \in SUBSET Coders : AcceptPlan(plan, unwired)
  <2>1. SUFFICES ASSUME NEW c \in wired', stage'[c] # "absent"
                 PROVE  scope'[c] = expected'[c]
    BY DEF ScopesAgree
  <2>2. c \in Coders
    BY NextTyped DEF TypeOK
  <2>3. QED  BY <1>2, <2>1, <2>2, PresentBefore DEF ScopesAgree
<1>3. QED  BY <1>1, <1>2

(* For a task whose scope could be registered with the plan that created   *)
(* it, the scope in memory, by which the verification compares the tree,   *)
(* and the expected artifacts in the row, by which the guardian takes the  *)
(* files, are the same list, however many plans before it failed to be     *)
(* committed and left their scopes behind.                                 *)
THEOREM ScopesStayAgreed == Spec => []ScopesAgree
<1>1. Init => ScopesAgree
  BY DEF Init, ScopesAgree
<1>2. QED  BY <1>1, TypeCorrect, AgreeKept, PTL DEF Spec
-----------------------------------------------------------------------------
(* What was submitted lies in the store.                                   *)

Late == {"submitted", "reviewing", "done"}

OnDisk(c) ==
  /\ submission[c] # NoAnswer
  /\ submission[c].shape.writes \subseteq Shown(c)
  /\ \A f \in submission[c].shape.writes :
       disk[c][f] = By(c, submission[c].claim) /\ rows[c][f] = "live"
  /\ \A f \in submission[c].shape.deletes :
       disk[c][f] = Absent /\ rows[c][f] = "deleted"

(* What the accepted answer brings.                                        *)
LEMMA AcceptedOnDisk ==
  ASSUME TypeOK, NEW a \in inbox, AcceptCode(a)
  PROVE  OnDisk(a.task)'
<1> DEFINE c == a.task
<1>1. /\ a \in Answer /\ c \in Coders
      /\ disk[c] \in Tree /\ rows[c] \in [Files -> {"none", "live", "deleted"}]
  BY DEF TypeOK, AcceptCode, Storable
<1>2. /\ a.shape.writes \subseteq Files /\ a.shape.deletes \subseteq Files
      /\ a.shape.writes \cap a.shape.deletes = {} /\ a # NoAnswer
      /\ By(c, a.claim) # Absent
  BY <1>1, AnswerFields, Contents
<1>3. /\ disk'[c] = Stored(disk[c], a) /\ rows'[c] = Recorded(rows[c], a)
      /\ submission'[c] = a /\ expected' = expected
  BY <1>1 DEF AcceptCode, Settle, memory, scopes, TypeOK
<1>4. \A f \in a.shape.writes : disk'[c][f] = By(c, a.claim) /\ rows'[c][f] = "live"
  BY <1>2, <1>3 DEF Stored, Recorded
<1>5. \A f \in a.shape.deletes : disk'[c][f] = Absent /\ rows'[c][f] = "deleted"
  BY <1>2, <1>3 DEF Stored, Recorded
<1>6. expected[c] = {} \/ a.shape.writes \subseteq expected[c]
  BY DEF AcceptCode, Storable, InExpected
<1>7. a.shape.writes \subseteq Shown(c)'
  BY <1>2, <1>3, <1>4, <1>6 DEF Shown
<1>8. QED  BY <1>2, <1>3, <1>4, <1>5, <1>7 DEF OnDisk

(* What happens to a task between its assignment and its submission, or    *)
(* to another task, does not reach the files of one that was submitted.    *)
LEMMA LateKept ==
  ASSUME TypeOK, [Next]_vars, NEW c \in Coders, stage'[c] \in Late,
         ~ \E a \in inbox : AcceptCode(a) /\ a.task = c
  PROVE  /\ stage[c] \in Late /\ expected'[c] = expected[c]
         /\ disk'[c] = disk[c] /\ rows'[c] = rows[c] /\ submission'[c] = submission[c]
<1> DEFINE Goal == /\ stage[c] \in Late /\ expected'[c] = expected[c]
                   /\ disk'[c] = disk[c] /\ rows'[c] = rows[c]
                   /\ submission'[c] = submission[c]
<1>t. c \in Tasks /\ stage \in [Tasks -> Stage]
  BY DEF Tasks, TypeOK
<1>1. ASSUME NEW plan \in Plans, NEW unwired \in SUBSET Coders, AcceptPlan(plan, unwired)
      PROVE  Goal
  BY <1>t, <1>1 DEF AcceptPlan, files, Late
<1>2. ASSUME NEW t \in Tasks,
             Assign(t) \/ AssignUnsaved(t) \/ AssignRolledBack(t) \/ TakeBack(t)
      PROVE  Goal
  BY <1>t, <1>2
  DEF Assign, AssignUnsaved, AssignRolledBack, HandOut, Claim, TakeBack, files, memory, scopes,
      Late
<1>3. ASSUME NEW a \in Answer, Receive(a)
      PROVE  Goal
  BY <1>3 DEF Receive, files, memory, scopes
<1>4. ASSUME NEW a \in inbox, Judge(a)
      PROVE  Goal
  <2>1. a.task \in Tasks /\ expected' = expected
    BY <1>4, AnswerFields
    DEF TypeOK, Judge, RefuseCode, AcceptCode, StoreFails, StoreRolledBack, JudgeResearch,
        Settle, memory, scopes
  <2>2. CASE a.task = c
    <3>1. c # Researcher
      BY ResearcherApart
    <3>2. RefuseCode(a) \/ StoreFails(a) \/ StoreRolledBack(a)
      BY <1>4, <2>2, <3>1 DEF Judge, JudgeResearch
    <3>3. \E next \in {"ready", "stuck", "claimed"} : stage' = [stage EXCEPT ![c] = next]
      BY <2>2, <3>2 DEF RefuseCode, StoreFails, StoreRolledBack, Settle
    <3>4. QED  BY <1>t, <3>3 DEF Late
  <2>3. CASE a.task # c
    <3>1. stage'[c] = stage[c]
      BY <1>t, <1>4, <2>3
      DEF Judge, RefuseCode, AcceptCode, StoreFails, StoreRolledBack, JudgeResearch, Settle
    <3>2. disk'[c] = disk[c] /\ rows'[c] = rows[c] /\ submission'[c] = submission[c]
      BY <1>4, <2>3
      DEF Judge, RefuseCode, AcceptCode, StoreFails, StoreRolledBack, JudgeResearch, TypeOK, files
    <3>3. QED  BY <2>1, <3>1, <3>2
  <2>4. QED  BY <2>2, <2>3
<1>5. ASSUME NEW d \in Coders, Verify(d) \/ Review(d)
      PROVE  Goal
  <2>1. \E next \in Stage : /\ stage' = [stage EXCEPT ![d] = next]
                            /\ stage[d] \in {"submitted", "reviewing"}
    BY <1>5 DEF Verify, Review, Stage
  <2>2. stage[c] \in Late
    BY <1>t, <2>1 DEF Late
  <2>3. QED  BY <1>5, <2>2 DEF Verify, Review, files, scopes
<1>6. CASE UNCHANGED vars
  BY <1>6 DEF vars
<1>7. QED  BY <1>1, <1>2, <1>3, <1>4, <1>5, <1>6 DEF Next

LEMMA OnDiskKept ==
  ASSUME TypeOK, SubmissionOnDisk, [Next]_vars
  PROVE  SubmissionOnDisk'
<1> SUFFICES ASSUME NEW c \in Coders, stage'[c] \in Late
             PROVE  OnDisk(c)'
  BY DEF SubmissionOnDisk, OnDisk, Late
<1>1. CASE \E a \in inbox : AcceptCode(a) /\ a.task = c
  BY <1>1, AcceptedOnDisk
<1>2. CASE ~ \E a \in inbox : AcceptCode(a) /\ a.task = c
  <2>1. /\ stage[c] \in Late /\ expected'[c] = expected[c]
        /\ disk'[c] = disk[c] /\ rows'[c] = rows[c] /\ submission'[c] = submission[c]
    BY <1>2, LateKept
  <2>2. OnDisk(c)
    BY <2>1 DEF SubmissionOnDisk, OnDisk, Late
  <2>3. QED  BY <2>1, <2>2 DEF OnDisk, Shown
<1>3. QED  BY <1>1, <1>2

(* Whatever arrives late, fails to commit or is removed, what is verified, *)
(* reviewed and done lies in the store as it was submitted, with its rows, *)
(* and the reviewer is shown all of it.                                    *)
THEOREM SubmissionsStay == Spec => []SubmissionOnDisk
<1>1. Init => SubmissionOnDisk
  BY ResearcherApart DEF Init, SubmissionOnDisk, Tasks
<1>2. QED  BY <1>1, TypeCorrect, OnDiskKept, PTL DEF Spec
-----------------------------------------------------------------------------
(* What the verification compares the tree with.                           *)

(* The newest snapshot of a task is the one taken last: the names of the   *)
(* snapshots grow with the assignments, and one that was rolled back gives *)
(* its name to the next.  Before the first, the baseline of the run stands *)
(* for it.                                                                 *)
Newest ==
  \A c \in Coders :
    /\ DOMAIN snapshots[c] \subseteq 1..(claim[c] + 1)
    /\ DOMAIN snapshots[c] = {} => ground[c] = baseline
    /\ DOMAIN snapshots[c] # {} =>
         \E m \in DOMAIN snapshots[c] :
           (\A n \in DOMAIN snapshots[c] : n <= m) /\ snapshots[c][m] = ground[c]

LEMMA SnapshotNewest ==
  ASSUME TypeOK, Newest, NEW t \in Tasks, Snapshot(t), UNCHANGED baseline,
         Claim(t) \/ UNCHANGED claim
  PROVE  Newest'
<1> SUFFICES ASSUME NEW c \in Coders
             PROVE  /\ DOMAIN snapshots'[c] \subseteq 1..(claim'[c] + 1)
                    /\ DOMAIN snapshots'[c] = {} => ground'[c] = baseline'
                    /\ DOMAIN snapshots'[c] # {} =>
                         \E m \in DOMAIN snapshots'[c] :
                           /\ \A n \in DOMAIN snapshots'[c] : n <= m
                           /\ snapshots'[c][m] = ground'[c]
  BY DEF Newest
<1> DEFINE top == claim[c] + 1
<1>1. /\ claim[c] \in Nat /\ (claim'[c] = claim[c] \/ claim'[c] = top)
      /\ DOMAIN snapshots[c] \subseteq 1..top
  BY PlansTyped DEF TypeOK, Tasks, Claim, Newest
<1>2. CASE c = t
  <2>1. snapshots'[c] = [n \in DOMAIN snapshots[c] \cup {top} |->
                           IF n = top THEN project ELSE snapshots[c][n]]
    BY <1>2 DEF Snapshot
  <2>2. DOMAIN snapshots'[c] = DOMAIN snapshots[c] \cup {top} /\ snapshots'[c][top] = project
    BY <2>1
  <2>3. ground'[c] = project
    BY <1>2 DEF Snapshot
  <2>4. DOMAIN snapshots'[c] \subseteq 1..top /\ top \in DOMAIN snapshots'[c]
    BY <1>1, <2>2
  <2>5. \A n \in DOMAIN snapshots'[c] : n <= top
    BY <2>4, <1>1
  <2>6. DOMAIN snapshots'[c] \subseteq 1..(claim'[c] + 1)
    BY <1>1, <2>4
  <2>7. QED  BY <2>2, <2>3, <2>4, <2>5, <2>6
<1>3. CASE c # t
  <2>1. snapshots'[c] = snapshots[c] /\ ground'[c] = ground[c]
    BY <1>3 DEF Snapshot
  <2>2. DOMAIN snapshots'[c] \subseteq 1..(claim'[c] + 1)
    BY <1>1, <2>1
  <2>3. QED  BY <2>1, <2>2 DEF Newest
<1>4. QED  BY <1>2, <1>3

LEMMA NewestKept ==
  ASSUME TypeOK, Newest, [Next]_vars
  PROVE  Newest'
<1>1. ASSUME NEW t \in Tasks, Assign(t) \/ AssignRolledBack(t)
      PROVE  Newest'
  BY <1>1, SnapshotNewest DEF Assign, AssignRolledBack, HandOut
<1>2. ASSUME NEW t \in Tasks, AssignUnsaved(t)
      PROVE  Newest'
  <2>1. UNCHANGED snaps /\ claim' = [claim EXCEPT ![t] = @ + 1]
    BY <1>2 DEF AssignUnsaved, HandOut, Claim, snaps
  <2>2. \A c \in Coders : /\ claim[c] \in Nat
                          /\ claim'[c] = claim[c] \/ claim'[c] = claim[c] + 1
    BY <2>1, PlansTyped DEF TypeOK, Tasks
  <2>3. \A c \in Coders : 1..(claim[c] + 1) \subseteq 1..(claim'[c] + 1)
    BY <2>2
  <2>4. QED  BY <2>1, <2>3 DEF Newest, snaps
<1>3. CASE UNCHANGED <<snaps, claim>>
  BY <1>3 DEF Newest, snaps
<1>4. QED
  BY <1>1, <1>2, <1>3
  DEF Next, AcceptPlan, TakeBack, Receive, Judge, RefuseCode, AcceptCode, StoreFails,
      StoreRolledBack, JudgeResearch, Settle, Verify, Review, vars, snaps

LEMMA ResolvedIsGround ==
  ASSUME TypeOK, Newest, NEW c \in Coders
  PROVE  Resolved(c) = ground[c]
<1>1. CASE DOMAIN snapshots[c] = {}
  BY <1>1 DEF Newest, Resolved
<1>2. CASE DOMAIN snapshots[c] # {}
  <2> DEFINE taken == DOMAIN snapshots[c]
             last == CHOOSE n \in taken : \A m \in taken : m <= n
  <2>1. PICK m \in taken : (\A n \in taken : n <= m) /\ snapshots[c][m] = ground[c]
    BY <1>2 DEF Newest
  <2>2. last \in taken /\ \A n \in taken : n <= last
    BY <2>1
  <2>3. taken \subseteq Nat
    BY DEF TypeOK
  <2>4. last = m
    <3> HIDE DEF last
    <3>1. QED  BY <2>1, <2>2, <2>3
  <2>5. Resolved(c) = snapshots[c][last]
    BY <1>2 DEF Resolved
  <2>6. QED  BY <2>1, <2>4, <2>5
<1>3. QED  BY <1>1, <1>2

(* Only a verification sends a task to review, and one that has compared   *)
(* the tree leaves no doubt about the task.                                *)
LEMMA ReviewingVerified ==
  ASSUME TypeOK, [Next]_vars, NEW c \in Coders,
         stage[c] = "submitted", stage'[c] = "reviewing"
  PROVE  (ScopeKept(c) \/ c \in unchecked') /\ project' = project
<1>t. c \in Tasks /\ stage \in [Tasks -> Stage]
  BY DEF Tasks, TypeOK
<1>1. ASSUME NEW plan \in Plans, NEW unwired \in SUBSET Coders, AcceptPlan(plan, unwired)
      PROVE  FALSE
  BY <1>t, <1>1 DEF AcceptPlan
<1>2. ASSUME NEW t \in Tasks,
             Assign(t) \/ AssignUnsaved(t) \/ AssignRolledBack(t) \/ TakeBack(t)
      PROVE  FALSE
  BY <1>t, <1>2
  DEF Assign, AssignUnsaved, AssignRolledBack, HandOut, Claim, TakeBack
<1>3. ASSUME NEW a \in Answer, Receive(a)
      PROVE  FALSE
  BY <1>3 DEF Receive
<1>4. ASSUME NEW a \in inbox, Judge(a)
      PROVE  FALSE
  <2>1. \E next \in Stage \ {"reviewing"} : Settle(a, next)
    BY <1>4
    DEF Judge, RefuseCode, AcceptCode, StoreFails, StoreRolledBack, JudgeResearch, Stage
  <2>2. QED  BY <1>t, <2>1 DEF Settle
<1>5. ASSUME NEW d \in Coders, Verify(d) \/ Review(d)
      PROVE  (ScopeKept(c) \/ c \in unchecked') /\ project' = project
  <2>1. d = c
    BY <1>t, <1>5 DEF Verify, Review
  <2>2. CASE Verify(c)
    <3> DEFINE Passed(inspected, compared) ==
                 inspected /\ Readable(c) # {} /\ (compared => ScopeKept(c))
    <3>1. PICK inspected \in BOOLEAN, compared \in BOOLEAN :
            /\ stage' = [stage EXCEPT ![c] = IF Passed(inspected, compared)
                                             THEN "reviewing" ELSE "ready"]
            /\ unchecked' = IF Passed(inspected, compared) /\ ~compared
                            THEN unchecked \cup {c} ELSE unchecked
      BY <2>2 DEF Verify
    <3>2. Passed(inspected, compared)
      BY <1>t, <3>1
    <3>3. ScopeKept(c) \/ c \in unchecked'
      BY <3>1, <3>2
    <3>4. QED  BY <2>2, <3>3 DEF Verify
  <2>3. CASE Review(c)
    BY <2>3 DEF Review
  <2>4. QED  BY <1>5, <2>1, <2>2, <2>3
<1>6. CASE UNCHANGED vars
  BY <1>6 DEF vars
<1>7. QED  BY <1>1, <1>2, <1>3, <1>4, <1>5, <1>6 DEF Next

(* What passes the comparison with a scope of its own has left every file  *)
(* outside its task's expected files as it was when the last snapshot of   *)
(* the tree was taken for the task, however many assignments were rolled   *)
(* back, taken back or made without a snapshot, and whatever other answers *)
(* wrote meanwhile.                                                        *)
THEOREM PassedHasKeptScope == Spec => PassedKeptScope
<1>1. Init => Newest
  BY DEF Init, Newest
<1>2. Spec => []Newest
  BY <1>1, TypeCorrect, NewestKept, PTL DEF Spec
<1>3. ASSUME TypeOK, ScopesAgree, Newest, [Next]_vars, NEW c \in wired \ unchecked',
             stage[c] = "submitted", stage'[c] = "reviewing"
      PROVE  Diff(ground[c], project) \subseteq expected[c]
  <2>1. c \in Coders /\ ScopeKept(c)
    BY <1>3, ReviewingVerified DEF TypeOK
  <2>2. scope[c] = expected[c] /\ expected[c] \subseteq Files
    BY <1>3, <2>1 DEF ScopesAgree, TypeOK
  <2>3. InScope(c)
    BY <2>1, <2>2, NoScopeApart DEF ScopeKept, NoScope
  <2>4. QED  BY <1>3, <2>1, <2>2, <2>3, ResolvedIsGround DEF InScope
<1>4. TypeOK /\ ScopesAgree /\ Newest /\ [Next]_vars =>
        [\A c \in wired \ unchecked' :
           stage[c] = "submitted" /\ stage'[c] = "reviewing" =>
             Diff(ground[c], project) \subseteq expected[c]]_vars
  BY <1>3
<1>5. QED  BY <1>2, <1>4, TypeCorrect, ScopesStayAgreed, PTL DEF Spec, PassedKeptScope
=============================================================================
