------------------------------ MODULE EngineMC ------------------------------
(***************************************************************************)
(* Instances of Engine for TLC: which answers the workers of a run give.   *)
(***************************************************************************)
EXTENDS Engine, TLC

Answer(event, sender, verdict) ==
  [event |-> event, sender |-> sender, verdict |-> verdict]

NoAnswers == [role \in AssignedRole |-> {}]

(* Every worker does its work as it is told; the coder may leave its scope *)
(* and the reviewer may reject.                                            *)
CoderAnswers ==
  [NoAnswers EXCEPT
    !["RESEARCHER"] = {Answer("RESEARCH_COMPLETE", "RESEARCHER", "ok")},
    !["PLANNER"]    = {Answer("PLAN_SUBMITTED", "PLANNER", "ok")},
    !["CODER"]      = {Answer("CODE_SUBMITTED", "CODER", "ok"),
                       Answer("CODE_SUBMITTED", "CODER", "scope")},
    !["REVIEWER"]   = {Answer("REVIEW_APPROVED", "REVIEWER", "ok"),
                       Answer("REVIEW_FAILURE", "REVIEWER", "ok")}]

(* All the answers of workers that keep to the protocol, good and bad.     *)
ProtocolAnswers ==
  [CoderAnswers EXCEPT
    !["RESEARCHER"] = @ \cup {Answer("RESEARCH_COMPLETE", "RESEARCHER", "drift"),
                              Answer("TASK_FAILED", "RESEARCHER", "ok")},
    !["PLANNER"]    = @ \cup {Answer("PLAN_SUBMITTED", "PLANNER", "plan"),
                              Answer("TASK_FAILED", "PLANNER", "ok")},
    !["CODER"]      = @ \cup {Answer("TASK_FAILED", "CODER", "ok")}]

(* With them, those that are sent back without limit, that are refused, or *)
(* that cannot be stored.                                                  *)
AnyAnswers ==
  [ProtocolAnswers EXCEPT
    !["RESEARCHER"] = @ \cup {Answer("RESEARCH_COMPLETE", "RESEARCHER", "contract"),
                              Answer("SUBMISSION_INVALID_SCHEMA", "RESEARCHER", "ok")},
    !["PLANNER"]    = @ \cup {Answer("PLAN_REJECTED", "PLANNER", "ok"),
                              Answer("PLAN_APPROVED", "PLANNER", "ok")},
    !["CODER"]      = @ \cup {Answer("CODE_SUBMITTED", "CODER", "contract"),
                              Answer("CODE_SUBMITTED", "CODER", "store"),
                              Answer("CODE_SUBMITTED", "REVIEWER", "ok"),
                              Answer("TASK_FAILED", "CODER", "store"),
                              Answer("SUBMISSION_INVALID_SCHEMA", "SYSTEM", "ok")},
    !["REVIEWER"]   = @ \cup {Answer("TASK_FAILED", "REVIEWER", "ok")}]

(* A reviewer that reports TASK_FAILED, as the prompts of all workers say. *)
RefusedAnswers ==
  [CoderAnswers EXCEPT
    !["REVIEWER"] = @ \cup {Answer("TASK_FAILED", "REVIEWER", "ok")}]

(* The tasks of a plan declare no order, or all wait for the same one.     *)
NoOrder == {}

OneFirst ==
  LET first == CHOOSE c \in Coders : TRUE
  IN (Coders \ {first}) \X {first}

(* The coders of a plan are alike: safety runs may permute them.           *)
CoderSymmetry == Permutations(Coders)
=============================================================================
