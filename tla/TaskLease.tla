------------------------------ MODULE TaskLease ------------------------------
(***************************************************************************)
(* What the engine promises about a task, whatever its phase and role: it  *)
(* is handed out under a token, only the holder of the current token can   *)
(* settle it, settling spends the token, a task that is done or failed     *)
(* stays so, and the verdict on the run is the one its tasks add up to.    *)
(***************************************************************************)
EXTENDS Naturals

CONSTANTS Task,  \* the tasks that may ever exist
          Seed   \* those a run starts with, a subset of Task

VARIABLES
  stage,    \* where each task is in its life
  token,    \* the token it was last handed out, or taken back, under
  granted,  \* every <<task, token>> ever handed to a worker
  verdict   \* the outcome of the run

vars == <<stage, token, granted, verdict>>

Stage == {"absent", "open", "held", "stuck", "parked", "done", "failed"}

TypeOK ==
  /\ stage \in [Task -> Stage]
  /\ token \in [Task -> Nat]
  /\ granted \subseteq Task \X Nat
  /\ verdict \in {"pending", "good", "bad"}

Init ==
  /\ stage = [t \in Task |-> IF t \in Seed THEN "open" ELSE "absent"]
  /\ token = [t \in Task |-> 0]
  /\ granted = {}
  /\ verdict = "pending"

Same(t) == stage'[t] = stage[t] /\ token'[t] = token[t]

(* t goes from one stage to one of others, and its token is spent.         *)
Goes(t, from, to) ==
  /\ stage[t] = from
  /\ stage'[t] \in to
  /\ token'[t] > token[t]

GivenUp(t) ==
  /\ stage[t] = "open" /\ stage'[t] = "failed"
  /\ token'[t] = token[t]

Admitted(t) ==
  /\ stage[t] = "absent" /\ stage'[t] = "open"
  /\ token'[t] = token[t]

At(s) == {t \in Task : stage[t] = s}

Handed(tasks) == {<<t, token[t] + 1>> : t \in tasks}

Typed == stage' \in [Task -> Stage] /\ token' \in [Task -> Nat]

(* Hands out open tasks; others are given up in the same step.             *)
Grant(given) ==
  /\ \A t \in Task :
       IF t \in given THEN stage'[t] = "held" /\ token'[t] = token[t] + 1
       ELSE Same(t) \/ GivenUp(t)
  /\ Typed
  /\ granted' = granted \cup Handed(given)
  /\ UNCHANGED verdict

(* Workers receive tasks that are not handed out after all.                *)
Offer(given) ==
  /\ granted' = granted \cup Handed(given)
  /\ UNCHANGED <<stage, token, verdict>>

(* The holder of the current token settles the task; one that is done may  *)
(* bring others into being.                                                *)
Answer(t) ==
  /\ <<t, token[t]>> \in granted
  /\ Goes(t, "held", {"open", "stuck", "parked", "done", "failed"})
  /\ \A u \in Task \ {t} :
       Same(u) \/ (stage'[t] = "done" /\ Admitted(u))
  /\ Typed
  /\ UNCHANGED <<granted, verdict>>

(* Tasks that wait for the system's own judgement receive it.              *)
Judge ==
  /\ \A t \in Task : Same(t) \/ Goes(t, "parked", {"open", "failed"})
  /\ Typed
  /\ UNCHANGED <<granted, verdict>>

(* Tasks are taken back from the workers that hold them.                   *)
Revoke ==
  /\ \A t \in Task : Same(t) \/ Goes(t, "held", {"open", "failed"})
  /\ Typed
  /\ UNCHANGED <<granted, verdict>>

Conclude ==
  /\ verdict = "pending"
  /\ \A t \in Task : stage[t] \in {"absent", "done", "failed"}
  /\ verdict' = IF \E t \in Task : stage[t] = "failed" THEN "bad" ELSE "good"
  /\ UNCHANGED <<stage, token, granted>>

Next ==
  \/ \E given \in SUBSET At("open") : Grant(given)
  \/ \E given \in SUBSET At("open") : Offer(given)
  \/ \E t \in At("held") : Answer(t)
  \/ Judge
  \/ Revoke
  \/ Conclude

Spec == Init /\ [][Next]_vars
=============================================================================
