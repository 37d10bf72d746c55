----------------------------- MODULE Governance -----------------------------
(***************************************************************************)
(* The transition tables of engine/governance.py: which event moves a task *)
(* from which execution phase to which other one, who may raise it, and in *)
(* which phase it is allowed.  They are constants: the class keeps no      *)
(* state.  Each table is a relation, as the dictionaries of the source.    *)
(***************************************************************************)

NoRole == "NONE"

AssignedRole ==
  {"PLANNER", "RESEARCHER", "CODER", "VERIFIER", "REVIEWER", "SYSTEM"}

WorkPhases == {"PLANNING", "RESEARCHING", "CODING", "VERIFYING", "REVIEWING"}

FailedPhases == {"FAILED", "FAILED_ITERATION_LIMIT"}

TerminalPhases == FailedPhases \cup {"COMPLETE"}

ExecutionPhase == WorkPhases \cup TerminalPhases

TaskEvent ==
  {"PLAN_SUBMITTED", "PLAN_APPROVED", "PLAN_REJECTED", "RESEARCH_COMPLETE",
   "CODE_SUBMITTED", "SUBMISSION_INVALID_SCHEMA", "VERIFY_SUCCESS",
   "VERIFY_FAILURE", "REVIEW_APPROVED", "REVIEW_FAILURE", "TASK_FAILED",
   "ITERATION_LIMIT_REACHED", "WORKER_TIMEOUT"}

Move(from, event, to, role) ==
  [from |-> from, event |-> event, to |-> to, role |-> role]

(* _matrix: (phase, event) -> TransitionResult(next phase, next role).     *)
Matrix ==
  { Move("PLANNING", "PLAN_SUBMITTED", "CODING", "CODER"),
    Move("PLANNING", "PLAN_APPROVED", "CODING", "CODER"),
    Move("PLANNING", "PLAN_REJECTED", "PLANNING", "PLANNER"),
    Move("PLANNING", "WORKER_TIMEOUT", "PLANNING", "PLANNER"),
    Move("PLANNING", "TASK_FAILED", "PLANNING", "PLANNER"),
    Move("CODING", "CODE_SUBMITTED", "VERIFYING", "SYSTEM"),
    Move("CODING", "SUBMISSION_INVALID_SCHEMA", "CODING", "CODER"),
    Move("CODING", "TASK_FAILED", "CODING", "CODER"),
    Move("CODING", "WORKER_TIMEOUT", "CODING", "CODER"),
    Move("VERIFYING", "VERIFY_SUCCESS", "REVIEWING", "REVIEWER"),
    Move("VERIFYING", "VERIFY_FAILURE", "CODING", "CODER"),
    Move("VERIFYING", "WORKER_TIMEOUT", "VERIFYING", "SYSTEM"),
    Move("REVIEWING", "REVIEW_APPROVED", "COMPLETE", NoRole),
    Move("REVIEWING", "REVIEW_FAILURE", "CODING", "CODER"),
    Move("REVIEWING", "WORKER_TIMEOUT", "REVIEWING", "REVIEWER"),
    Move("RESEARCHING", "RESEARCH_COMPLETE", "COMPLETE", NoRole),
    Move("RESEARCHING", "TASK_FAILED", "RESEARCHING", "RESEARCHER"),
    Move("RESEARCHING", "WORKER_TIMEOUT", "RESEARCHING", "RESEARCHER") }

(* _role_auth: event -> the roles that may raise it.                       *)
RoleAuth ==
  ({"PLANNER"} \X {"PLAN_SUBMITTED", "PLAN_APPROVED", "PLAN_REJECTED"})
  \cup {<<"RESEARCHER", "RESEARCH_COMPLETE">>, <<"CODER", "CODE_SUBMITTED">>}
  \cup ({"SYSTEM", "CODER"} \X {"SUBMISSION_INVALID_SCHEMA"})
  \cup ({"SYSTEM"} \X {"VERIFY_SUCCESS", "VERIFY_FAILURE", "WORKER_TIMEOUT"})
  \cup ({"REVIEWER"} \X {"REVIEW_APPROVED", "REVIEW_FAILURE"})
  \cup ({"PLANNER", "RESEARCHER", "CODER", "REVIEWER"} \X {"TASK_FAILED"})

(* _phase_auth: phase -> the events allowed in it.  REVIEWING is the one   *)
(* phase of a worker that lacks TASK_FAILED, although RoleAuth grants it   *)
(* to the REVIEWER.                                                        *)
PhaseAuth ==
  ({"PLANNING"} \X {"PLAN_SUBMITTED", "PLAN_APPROVED", "PLAN_REJECTED",
                    "WORKER_TIMEOUT", "TASK_FAILED"})
  \cup ({"RESEARCHING"} \X {"RESEARCH_COMPLETE", "TASK_FAILED", "WORKER_TIMEOUT"})
  \cup ({"CODING"} \X {"CODE_SUBMITTED", "SUBMISSION_INVALID_SCHEMA",
                       "TASK_FAILED", "WORKER_TIMEOUT"})
  \cup ({"VERIFYING"} \X {"VERIFY_SUCCESS", "VERIFY_FAILURE", "WORKER_TIMEOUT"})
  \cup ({"REVIEWING"} \X {"REVIEW_APPROVED", "REVIEW_FAILURE", "WORKER_TIMEOUT"})

(* authorize_event: the phase allows the event and the role may raise it.  *)
AuthorizeEvent(phase, role, event) ==
  /\ <<phase, event>> \in PhaseAuth
  /\ <<role, event>> \in RoleAuth
=============================================================================
