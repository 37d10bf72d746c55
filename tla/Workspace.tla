----------------------------- MODULE Workspace -----------------------------
(***************************************************************************)
(* The files of one run in ingest mode: the project tree the run works on, *)
(* the artifact store beside it, and the snapshots a verification compares *)
(* the tree with.                                                          *)
(*                                                                         *)
(* Four parties touch them without a common lock: the receiver copies the  *)
(* files of an answer into the tree before anything has judged the answer; *)
(* the guardian stores the files of an answer it accepts, before the       *)
(* transaction that records them commits; the scheduler takes a snapshot   *)
(* of the tree when it hands a task to a coder; the verification reads all *)
(* three.  Budgets, roles and the order of the checks are Engine's: here a *)
(* task may be given up at any failure.                                    *)
(***************************************************************************)
EXTENDS Naturals, FiniteSets

CONSTANTS
  Researcher,   \* the task that explores the project
  Coders,       \* the tasks of the plan
  Files,        \* relative paths inside the project tree
  Ingested,     \* the paths present in the project that was copied
  Plans,        \* the plans the planner may submit
  Shapes,       \* the artifacts[] each worker may answer with
  MaxWork       \* bound of the model: assignments, and commits, writes,
                \* registrations and comparisons that fail

Tasks == Coders \cup {Researcher}

ASSUME ResearcherApart == Researcher \notin Coders

(* What stands for no scope is no path.                                    *)
ASSUME NoScopeApart == "unregistered" \notin Files

(* The artifacts[] of an answer: paths to CREATE or UPDATE, paths to       *)
(* DELETE, and whether the contents stand in the answer itself or in the   *)
(* files the worker has left behind.                                       *)
Shape == {s \in [writes: SUBSET Files, deletes: SUBSET Files, inline: BOOLEAN] :
            s.writes \cap s.deletes = {}}

(* What a plan says of one task: the expected_artifacts to create and to   *)
(* update, and the files its acceptance_criteria mention.                  *)
TaskDef == [creates: SUBSET Files, updates: SUBSET Files, mentions: SUBSET Files]

ASSUME PlansTyped ==
  /\ Ingested \subseteq Files
  /\ Plans \subseteq [Coders -> TaskDef]
  /\ Shapes \in [Tasks -> SUBSET Shape]
  /\ MaxWork \in Nat

(* What a file holds is told by where it is from: the project that was     *)
(* copied, or the answer to one assignment.                                *)
Original == <<"project", 0>>
Absent   == <<"absent", 0>>
By(t, n) == <<t, n>>
Assignment == Tasks \X (1..MaxWork)
Content  == {Original, Absent} \cup Assignment
Tree     == [Files -> Content]

(* The answer to the n-th assignment of a task.                            *)
Answer ==
  {[task |-> a[1], claim |-> a[2], shape |-> s] : a \in Assignment, s \in Shape}

VARIABLES
  project,     \* workspace/<run>/project
  baseline,    \* workspace/<run>/baseline_manifest.json
  snapshots,   \* workspace/<run>/.task_baselines, by task and assignment
  scope,       \* ingest_context._TASK_SCOPE, in memory
  expected,    \* Task.expected_artifacts
  criteria,    \* the files Task.acceptance_criteria mention
  stage,       \* where each task stands
  claim,       \* assignments of each task so far: orders its revisions
  dispatched,  \* assignments whose worker has not finished
  inbox,       \* answers received and not judged
  disk,        \* the files under artifacts/<run>/<task>
  rows,        \* the rows of the artifact table
  work,        \* assignments and failures so far
  wired,       \* history: the tasks the last plan registered a scope for
  unchecked,   \* history: the tasks in review whose comparison has failed
  ground,      \* history: the tree when the last snapshot was taken of it
  submission   \* history: the answer that was accepted last

vars == <<project, baseline, snapshots, scope, expected, criteria, stage, claim,
          dispatched, inbox, disk, rows, work, wired, unchecked, ground, submission>>

NoScope == {"unregistered"}
NoAnswer == [task |-> Researcher, claim |-> 0, shape |-> {}]
Stage == {"absent", "ready", "claimed", "stuck", "submitted", "reviewing",
          "done", "failed"}

-----------------------------------------------------------------------------
(* diff_manifests: changed, added and removed paths.                       *)
Diff(old, new) == {f \in Files : old[f] # new[f]}

Expects(def) == def.creates \cup def.updates

(* validate_plan_draft: every task has one to three files, no file is      *)
(* created twice, and what is updated is created in the same plan.         *)
PlanSound(plan) ==
  /\ \A c \in Coders : Cardinality(Expects(plan[c])) \in 1..3
  /\ \A c, d \in Coders : c # d => plan[c].creates \cap plan[d].creates = {}
  /\ \A c \in Coders : plan[c].updates \subseteq UNION {plan[d].creates : d \in Coders}

(* The plan's tasks are given a scope only where none is registered.       *)
FaultyRegistered(registered, plan, unwired) ==
  [c \in Coders |-> IF c \in unwired \/ registered[c] # NoScope THEN registered[c]
                    ELSE Expects(plan[c])]

(* _wire_ingest_scope for every task of a plan: an exception (a manifest   *)
(* that cannot be read, a path that TaskDefinition refuses and the schema  *)
(* of the plan takes) is logged, and the task is left with what an earlier *)
(* plan has registered for it, if one has.                                 *)
Registered(registered, plan, unwired) ==
  [c \in Coders |-> IF c \in unwired THEN registered[c] ELSE Expects(plan[c])]

(* _inline_content and materialize_to_workspace: contents read from the    *)
(* worker's files are copied into the tree as they are read.  The gate for *)
(* paths outside the scope of the task calls a logger its module does not  *)
(* have, and the handler around it passes over the NameError and copies.   *)
Materialized(tree, a) ==
  [f \in Files |-> IF f \in a.shape.writes /\ ~a.shape.inline THEN By(a.task, a.claim)
                   ELSE tree[f]]

(* The write targets in the coder's task file: the expected files, and in  *)
(* this file only, those _extend_scope_from_criteria adds: what the        *)
(* criteria mention outside the scope.  Files the project has it would set *)
(* apart, but it looks for them in project/project and finds none.         *)
Targets(c) == expected[c] \cup (criteria[c] \ scope[c])

(* Whether an answer names files of the project, as the contract of a      *)
(* coder asks of it and the policy of the researcher forbids.              *)
NamesFiles(a) == a.shape.writes \cup a.shape.deletes # {}

(* _validate_coder_scope: what is to be written is expected, if anything   *)
(* is.  Deletions are not looked at.                                       *)
InExpected(a, paths) == paths = {} \/ a.shape.writes \subseteq paths

(* The deleted paths are no longer listed.                                 *)
FaultyListing(dir, a) ==
  [f \in Files \ a.shape.deletes |->
     IF f \in a.shape.writes THEN By(a.task, a.claim) ELSE dir[f]]

(* A file that is there already is kept.                                   *)
FaultyStored(dir, a) ==
  [f \in Files |-> IF f \in a.shape.writes /\ dir[f] = Absent THEN By(a.task, a.claim)
                   ELSE IF f \in a.shape.deletes THEN Absent
                   ELSE dir[f]]

(* persist_artifacts, run to its end.                                      *)
Stored(dir, a) ==
  [f \in Files |-> IF f \in a.shape.writes THEN By(a.task, a.claim)
                   ELSE IF f \in a.shape.deletes THEN Absent
                   ELSE dir[f]]

(* save_artifact: one row per task and path.                               *)
Recorded(table, a) ==
  [f \in Files |-> IF f \in a.shape.writes THEN "live"
                   ELSE IF f \in a.shape.deletes THEN "deleted"
                   ELSE table[f]]

(* ArtifactStore._rollback removes the directory of the task, with what    *)
(* earlier answers have left there.                                        *)
Emptied == [f \in Files |-> Absent]

(* get_artifacts: a row whose file cannot be read is passed over, whatever *)
(* hash the row carries.                                                   *)
Readable(c) == {f \in Files : rows[c][f] # "none" /\ disk[c][f] # Absent}

(* What the task file of the reviewer contains: the expected files, as     *)
(* they lie in the store; all of them where none is expected.              *)
Shown(c) ==
  {f \in Files : disk[c][f] # Absent /\ (expected[c] = {} \/ f \in expected[c])}

(* resolve_baseline_for_task and its fallback.  A snapshot is named for    *)
(* the revision of the assignment, and the revision has moved on when the  *)
(* verification asks: the exact name is never there, the newest is taken.  *)
Resolved(c) ==
  LET taken == DOMAIN snapshots[c] IN
  IF taken = {} THEN baseline
  ELSE snapshots[c][CHOOSE n \in taken : \A m \in taken : m <= n]

(* New files are not looked at.                                            *)
FaultyInScope(c) ==
  {f \in Diff(Resolved(c), project) : Resolved(c)[f] # Absent} \subseteq scope[c]

(* verify_scope: no path outside the scope has changed, gone or come;      *)
(* everything outside it is protected.                                     *)
InScope(c) == Diff(Resolved(c), project) \subseteq scope[c]

(* ScopeVerifierAdapter: a task without a scope in memory is not looked at. *)
ScopeKept(c) == scope[c] = NoScope \/ InScope(c)

(* verify_researcher_readonly: the project is as it was copied.            *)
ProjectUnchanged == Diff(baseline, project) = {}

-----------------------------------------------------------------------------
(* Controller.create_run with setup_ingest_run.                            *)
Init ==
  /\ project = [f \in Files |-> IF f \in Ingested THEN Original ELSE Absent]
  /\ baseline = project
  /\ snapshots = [c \in Coders |-> [n \in {} |-> baseline]]
  /\ scope = [c \in Coders |-> NoScope]
  /\ expected = [c \in Coders |-> {}]
  /\ criteria = [c \in Coders |-> {}]
  /\ stage = [t \in Tasks |-> IF t = Researcher THEN "ready" ELSE "absent"]
  /\ claim = [t \in Tasks |-> 0]
  /\ dispatched = {}
  /\ inbox = {}
  /\ disk = [c \in Coders |-> Emptied]
  /\ work = 0
  /\ wired = {}
  /\ unchecked = {}
  /\ rows = [c \in Coders |-> [f \in Files |-> "none"]]
  /\ ground = [c \in Coders |-> project]
  /\ submission = [c \in Coders |-> NoAnswer]

files == <<disk, rows, submission>>
scopes == <<scope, wired, expected, criteria>>
memory == <<scopes, unchecked>>
snaps == <<baseline, snapshots, ground>>

Work(n) == work + n <= MaxWork /\ work' = work + n

(* The guardian accepts a plan it finds sound.  The scopes are registered  *)
(* in memory while the transaction that creates the tasks is open, and     *)
(* stay when it fails; the tasks are created whether or not theirs could   *)
(* be registered.                                                          *)
AcceptPlan(plan, unwired) ==
  LET faults == IF unwired = {} THEN 0 ELSE 1 IN
  /\ stage[Researcher] = "done"
  /\ \A c \in Coders : stage[c] = "absent"
  /\ PlanSound(plan)
  /\ scope' = Registered(scope, plan, unwired)
  /\ wired' = Coders \ unwired
  /\ \/ /\ expected' = [c \in Coders |-> Expects(plan[c])]
        /\ criteria' = [c \in Coders |-> plan[c].mentions]
        /\ stage' = [t \in Tasks |-> IF t \in Coders THEN "ready" ELSE stage[t]]
        /\ Work(faults)
     \/ /\ Work(faults + 1)
        /\ UNCHANGED <<expected, criteria, stage>>
  /\ UNCHANGED <<project, snaps, unchecked, claim, dispatched, inbox, files>>

(* is_coder_gate_blocked.                                                  *)
GateOpen(t) ==
  t \in Coders => \A u \in Coders \ {t} : stage[u] # "claimed"

(* _handle_assignments: the snapshot of the tree, for a coder's task, and  *)
(* the assignment to the messenger.                                        *)
HandOut(t) ==
  /\ stage[t] = "ready" /\ GateOpen(t)
  /\ dispatched' = dispatched \cup {<<t, claim[t] + 1>>}
  /\ UNCHANGED <<project, baseline, memory, inbox, files>>

Claim(t) ==
  /\ stage' = [stage EXCEPT ![t] = "claimed"]
  /\ claim' = [claim EXCEPT ![t] = @ + 1]

(* save_task_baseline.                                                     *)
Snapshot(t) ==
  /\ snapshots' = [c \in Coders |->
                     IF c = t
                     THEN [n \in DOMAIN snapshots[c] \cup {claim[c] + 1} |->
                             IF n = claim[c] + 1 THEN project ELSE snapshots[c][n]]
                     ELSE snapshots[c]]
  /\ ground' = [c \in Coders |-> IF c = t THEN project ELSE ground[c]]

Assign(t) == Work(1) /\ HandOut(t) /\ Claim(t) /\ Snapshot(t)

(* The snapshot cannot be saved, which is logged and forgotten.            *)
AssignUnsaved(t) ==
  /\ Work(2) /\ t \in Coders /\ HandOut(t) /\ Claim(t)
  /\ UNCHANGED <<snapshots, ground>>

(* The commit fails: the worker starts and the snapshot is there, the task *)
(* is ready at its old revision.                                           *)
AssignRolledBack(t) ==
  Work(2) /\ HandOut(t) /\ Snapshot(t) /\ UNCHANGED <<stage, claim>>

(* The receiver reads the answer of a worker, completes it, and hands it   *)
(* to the orchestrator.                                                    *)
Receive(a) ==
  /\ <<a.task, a.claim>> \in dispatched
  /\ a.shape \in Shapes[a.task]
  /\ dispatched' = dispatched \ {<<a.task, a.claim>>}
  /\ inbox' = inbox \cup {a}
  /\ project' = Materialized(project, a)
  /\ UNCHANGED <<snaps, memory, stage, claim, files, work>>

(* The watchdog takes a task back.                                         *)
TakeBack(t) ==
  /\ stage[t] = "claimed"
  /\ stage' = [stage EXCEPT ![t] = "ready"]
  /\ UNCHANGED <<project, snaps, memory, claim, dispatched, inbox, files, work>>

-----------------------------------------------------------------------------
(* The guardian.                                                           *)

(* The revision check: the answer is to the assignment that stands.  One   *)
(* that is not, or whose transaction fails before a file is written,       *)
(* leaves nothing: it stays in the inbox, unjudged.                        *)
Current(a) == stage[a.task] = "claimed" /\ claim[a.task] = a.claim

Settle(a, next) ==
  /\ a \in inbox
  /\ Current(a)
  /\ inbox' = inbox \ {a}
  /\ stage' = [stage EXCEPT ![a.task] = next]
  /\ UNCHANGED <<project, snaps, memory, claim, dispatched>>

(* _validate_artifact_contract and _validate_coder_scope let it pass.      *)
Storable(a) ==
  /\ a.task \in Coders
  /\ NamesFiles(a)
  /\ InExpected(a, expected[a.task])

(* It breaks the contract or leaves the expected paths.                    *)
RefuseCode(a) ==
  /\ a.task \in Coders
  /\ ~Storable(a)
  /\ Settle(a, "ready")
  /\ UNCHANGED <<files, work>>

AcceptCode(a) ==
  /\ Storable(a)
  /\ Settle(a, "submitted")
  /\ disk' = [disk EXCEPT ![a.task] = Stored(@, a)]
  /\ rows' = [rows EXCEPT ![a.task] = Recorded(@, a)]
  /\ submission' = [submission EXCEPT ![a.task] = a]
  /\ UNCHANGED work

(* A write fails: the directory goes, the rows of earlier answers stay,    *)
(* and the task is left in PROCESSING.                                     *)
StoreFails(a) ==
  /\ Work(1)
  /\ Storable(a)
  /\ Settle(a, "stuck")
  /\ disk' = [disk EXCEPT ![a.task] = Emptied]
  /\ UNCHANGED <<rows, submission>>

(* The commit fails: what the store did to the files stays.                *)
StoreRolledBack(a) ==
  /\ Work(1)
  /\ Storable(a)
  /\ Settle(a, "claimed")
  /\ \E dir \in {Stored(disk[a.task], a), Emptied} :
       disk' = [disk EXCEPT ![a.task] = dir]
  /\ UNCHANGED <<rows, submission>>

(* The researcher may write its briefing only, which is not a file of the  *)
(* project; then nothing in the project may differ from what was copied,   *)
(* unless the comparison fails, which is not fatal to the research.        *)
JudgeResearch(a) ==
  /\ a.task = Researcher
  /\ \/ /\ NamesFiles(a)
        /\ Settle(a, "ready")
        /\ UNCHANGED work
     \/ /\ ~NamesFiles(a)
        /\ Settle(a, IF ProjectUnchanged THEN "done" ELSE "failed")
        /\ UNCHANGED work
     \/ /\ ~NamesFiles(a)
        /\ Settle(a, "done")
        /\ Work(1)
     \/ /\ ~NamesFiles(a)
        /\ Settle(a, "stuck")
        /\ Work(1)
  /\ UNCHANGED files

(* ExecutionService.verify: the files in the store are read and inspected  *)
(* (which the model leaves open), then the tree is compared; _scope_check  *)
(* takes an exception of the comparison for a pass.                        *)
Verify(c) ==
  /\ stage[c] = "submitted"
  /\ \E inspected, compared \in BOOLEAN :
       LET passed == inspected /\ Readable(c) # {} /\ (compared => ScopeKept(c)) IN
       /\ stage' = [stage EXCEPT ![c] = IF passed THEN "reviewing" ELSE "ready"]
       /\ unchecked' = IF passed /\ ~compared THEN unchecked \cup {c} ELSE unchecked
       /\ Work(IF compared THEN 0 ELSE 1)
  /\ UNCHANGED <<project, snaps, scopes, claim, dispatched, inbox, files>>

(* The reviewer's verdict.                                                 *)
Review(c) ==
  /\ stage[c] = "reviewing"
  /\ \E next \in {"done", "ready"} : stage' = [stage EXCEPT ![c] = next]
  /\ unchecked' = unchecked \ {c}
  /\ UNCHANGED <<project, snaps, scopes, claim, dispatched, inbox, files, work>>

Judge(a) ==
  \/ RefuseCode(a)
  \/ AcceptCode(a)
  \/ StoreFails(a)
  \/ StoreRolledBack(a)
  \/ JudgeResearch(a)

Next ==
  \/ \E plan \in Plans, unwired \in SUBSET Coders : AcceptPlan(plan, unwired)
  \/ \E t \in Tasks : Assign(t) \/ AssignUnsaved(t) \/ AssignRolledBack(t) \/ TakeBack(t)
  \/ \E a \in Answer : Receive(a)
  \/ \E a \in inbox : Judge(a)
  \/ \E c \in Coders : Verify(c) \/ Review(c)

Spec == Init /\ [][Next]_vars

-----------------------------------------------------------------------------
(* Properties.                                                             *)

(* Types of the state.                                                     *)
TypeOK ==
  /\ project \in Tree /\ baseline \in Tree
  /\ \A c \in Coders : \A n \in DOMAIN snapshots[c] :
       n \in Nat /\ snapshots[c][n] \in Tree
  /\ scope \in [Coders -> (SUBSET Files) \cup {NoScope}]
  /\ expected \in [Coders -> SUBSET Files] /\ criteria \in [Coders -> SUBSET Files]
  /\ stage \in [Tasks -> Stage]
  /\ claim \in [Tasks -> 0..work]
  /\ dispatched \subseteq Assignment
  /\ inbox \subseteq Answer
  /\ disk \in [Coders -> Tree]
  /\ rows \in [Coders -> [Files -> {"none", "live", "deleted"}]]
  /\ work \in 0..MaxWork
  /\ wired \subseteq Coders /\ unchecked \subseteq Coders
  /\ ground \in [Coders -> Tree]
  /\ submission \in [Coders -> Answer \cup {NoAnswer}]

(* While a submission is verified or reviewed, and for good when it is     *)
(* done, the store holds what was submitted: neither a late answer, nor an *)
(* answer whose transaction failed after its files were written, nor the   *)
(* removal of the directory reaches the files of the last accepted answer. *)
(* The reviewer is shown all of them, although he is shown the files that  *)
(* are expected, and not those that were submitted.                        *)
SubmissionOnDisk ==
  \A c \in Coders :
    stage[c] \in {"submitted", "reviewing", "done"} =>
      /\ submission[c] # NoAnswer
      /\ submission[c].shape.writes \subseteq Shown(c)
      /\ \A f \in submission[c].shape.writes :
           disk[c][f] = By(c, submission[c].claim) /\ rows[c][f] = "live"
      /\ \A f \in submission[c].shape.deletes :
           disk[c][f] = Absent /\ rows[c][f] = "deleted"

(* The scope the verification reads from memory is the list of files the   *)
(* guardian reads from the task's row, although the first survives the     *)
(* rollback of the plan that brought it: a plan that was not committed     *)
(* leaves nothing to a task that a later one could register.               *)
ScopesAgree ==
  \A c \in wired : stage[c] # "absent" => scope[c] = expected[c]

(* What passes the comparison of the verification has left everything      *)
(* outside its task's expected files as it was when the coder was sent     *)
(* off, whatever ticks that were rolled back have left among the           *)
(* snapshots, and whoever else wrote into the tree meanwhile.  If the      *)
(* snapshot of that moment could not be saved, the moment is the one       *)
(* before, or the beginning.  Nothing is said of a task without a scope    *)
(* of its own, or whose comparison failed: the code passes both.           *)
PassedKeptScope ==
  [][\A c \in wired \ unchecked' :
       stage[c] = "submitted" /\ stage'[c] = "reviewing" =>
         Diff(ground[c], project) \subseteq expected[c]]_vars

-----------------------------------------------------------------------------
(* What the documentation says and the code does not do.                   *)

(* workspace_materializer.py, materialize_to_workspace: "Out-of-scope      *)
(* artifacts (e.g. protected files written by a non-compliant CODER) are   *)
(* skipped with a warning so the scope verifier sees the original baseline *)
(* state for those files".                                                 *)
OutOfScopeSkipped ==
  [][\A c \in Coders, f \in Files :
       project'[f] # project[f] /\ project'[f][1] = c => f \in scope[c]]_vars

(* scope_verifier.py: "This is the deterministic guard", which re-reads    *)
(* "the live workspace tree" and answers BASELINE_MISSING where the "guard *)
(* cannot run".  Whatever goes to review has left the rest of the tree as  *)
(* it was.                                                                 *)
RestStays ==
  [][\A c \in Coders :
       stage[c] = "submitted" /\ stage'[c] = "reviewing" =>
         Diff(ground[c], project) \subseteq expected[c]]_vars

(* scheduler.py, _extend_scope_from_criteria: "If a criterion mentions a   *)
(* file that already exists in the project, add it to scope_files          *)
(* (read-only access)".  A coder that writes nothing but the targets in    *)
(* its task file writes no file which the project had and its task was not *)
(* expected to change.                                                     *)
ExistingReadOnly ==
  \A a \in inbox :
    a.task \in Coders /\ Current(a) /\ a.shape.writes \subseteq Targets(a.task) =>
      \A f \in a.shape.writes \ expected[a.task] : ground[a.task][f] = Absent
=============================================================================
