------------------------------- MODULE Intake -------------------------------
(***************************************************************************)
(* How the answers of the workers, the orchestrator's tick and one SQLite  *)
(* file share the rows of the task table.                                  *)
(*                                                                         *)
(* A tick spawns one coroutine per answer and awaits none of them, so that *)
(* they run beside later ticks.  They meet at two kinds of lock: an        *)
(* asyncio.Lock per task, which each side takes, and SQLite's write lock,  *)
(* which a transaction takes with its first write, keeps to its commit,    *)
(* and waits for no longer than the busy timeout.  Reads take neither: a   *)
(* row that was read may have changed when it is written.                  *)
(*                                                                         *)
(* Engine takes each of these transactions as one step.  Here they are     *)
(* taken apart, and LeaseKept says that what is committed still obeys      *)
(* TaskLease.  What an answer says is left open.                           *)
(***************************************************************************)
EXTENDS Naturals, Sequences, FiniteSets, SequencesExt

CONSTANTS
  Tasks,
  MaxAnswers,   \* bound of the model: assignments sent to workers
  Twice,        \* those among them whose answer may be delivered twice
  MaxFaults     \* bound of the model: transactions that fail

ASSUME TasksFinite == IsFiniteSet(Tasks)
ASSUME BoundsTyped ==
  /\ MaxAnswers \in Nat /\ MaxFaults \in Nat
  /\ Twice \subseteq 1..MaxAnswers

(* The deliveries of answers: the first ones, and the second ones.         *)
Sent    == 1..MaxAnswers
Again   == {MaxAnswers + m : m \in Twice}
Answers == Sent \cup Again
MessageOf(h) == IF h \in Sent THEN h ELSE h - MaxAnswers

(* Beside them the tick may hold a lock.                                   *)
Tick   == 0
Nobody == 2 * MaxAnswers + 1

VARIABLES
  row,       \* the committed task table: state_revision and state
  draft,     \* rows written by the tick's open transaction
  writer,    \* who holds SQLite's write lock
  owner,     \* Orchestrator._task_locks: who holds each task's lock
  mail,      \* the task and state_revision each worker was given
  pc,        \* where each delivery of an answer stands
  recorded,  \* ProcessedEvent: the messages that were processed
  lockOf,    \* the task whose lock its coroutine takes
  phantom,   \* assignments sent whose claim was rolled back
  at,        \* the phase of the tick
  todo,      \* the rows, as read, that the phase has still to treat
  faults

table == <<row, draft, writer, recorded>>
posts == <<mail, phantom>>
phase == <<at, todo>>
vars  == <<table, owner, posts, pc, lockOf, phase, faults>>

State == {"ready", "claimed", "processing", "judging", "ended"}
Row   == [rev: Nat, state: State]
Read  == Tasks \X Nat
NoRow == [t \in {} |-> [rev |-> 0, state |-> "ready"]]
None  == <<>>
Turn  == Head(todo)

Pc == {"none", "out", "queued", "current", "stale", "held",
       "done", "refused", "lost"}
Over == {"done", "refused", "lost"}
Open == {"watching", "verifying", "scheduling"}
At   == Open \cup {"watch", "verify", "schedule", "poll"}

TaskOf(h) == mail[MessageOf(h)][1]
RevOf(h)  == mail[MessageOf(h)][2]

Init ==
  /\ row = [t \in Tasks |-> [rev |-> 0, state |-> "ready"]]
  /\ draft = NoRow /\ writer = Nobody
  /\ owner = [t \in Tasks |-> Nobody]
  /\ mail = [m \in Sent |-> None] /\ pc = [h \in Answers |-> "none"]
  /\ lockOf = [h \in Answers |-> None] /\ recorded = {} /\ phantom = {}
  /\ at = "watch" /\ todo = <<>>
  /\ faults = 0

Fault == faults < MaxFaults /\ faults' = faults + 1

-----------------------------------------------------------------------------
(* Waiting for SQLite.                                                     *)

(* The connection is opened with no limit to its patience.                 *)
FaultyOutOfPatience(who) == FALSE

(* Five seconds have passed and another transaction still has the lock.    *)
OutOfPatience(who) == writer \notin {Nobody, who}

MayWrite(who) == writer \in {Nobody, who}

(* The row as the tick's transaction sees it.                              *)
Now(t) == IF t \in DOMAIN draft THEN draft[t] ELSE row[t]

With(t, r) == [u \in DOMAIN draft \cup {t} |-> IF u = t THEN r ELSE draft[u]]

(* The update is made by the task's id alone.                              *)
FaultyMatches(r, rev) == TRUE

(* The condition of transition_task_atomic's update.                       *)
Matches(r, rev) == r.rev = rev

-----------------------------------------------------------------------------
(* The tick.                                                               *)

After == [watch |-> "verify", watching |-> "verify",
          verify |-> "schedule", verifying |-> "schedule",
          schedule |-> "poll", scheduling |-> "poll"]

(* A phase begins; one that finds nothing to do is over.                   *)
Reads(from, to, states) ==
  /\ at = from
  /\ \E chosen \in SUBSET {t \in Tasks : row[t].state \in states} :
       /\ \E order \in SetToSeqs(chosen) :
            todo' = [i \in DOMAIN order |-> <<order[i], row[order[i]].rev>>]
       /\ at' = IF chosen = {} THEN After[from] ELSE to
  /\ UNCHANGED <<table, owner, posts, pc, lockOf, faults>>

(* _handle_worker_timeouts reads the claimed rows; some are overdue.       *)
Watch == Reads("watch", "watching", {"claimed"})

(* _handle_verification_phase reads the rows to judge.  A row that cannot  *)
(* be judged is passed over.                                               *)
Verify == Reads("verify", "verifying", {"judging"})

(* _handle_assignments reads the ready rows; some are held back.           *)
Schedule ==
  /\ Reads("schedule", "scheduling", {"ready"})
  /\ Len(todo') <= Cardinality({m \in Sent : pc[m] = "none"})

(* The tick takes the task's lock, with the write lock perhaps in hand.    *)
TickLocks ==
  /\ at \in {"watching", "verifying"} /\ todo # <<>>
  /\ owner[Turn[1]] = Nobody
  /\ owner' = [owner EXCEPT ![Turn[1]] = Tick]
  /\ UNCHANGED <<table, posts, pc, lockOf, phase, faults>>

(* The tick's own event about the row, WORKER_TIMEOUT or the verdict, goes *)
(* through process_response in the transaction of the phase.  The task's   *)
(* lock is given back before the transaction ends.                         *)
TickActs ==
  /\ at \in {"watching", "verifying"} /\ todo # <<>>
  /\ owner[Turn[1]] = Tick /\ MayWrite(Tick)
  /\ writer' = Tick
  /\ \E s \in {"ready", "ended"} :
       draft' = IF Matches(Now(Turn[1]), Turn[2])
                THEN With(Turn[1], [rev |-> Now(Turn[1]).rev + 1, state |-> s])
                ELSE draft
  /\ owner' = [owner EXCEPT ![Turn[1]] = Nobody]
  /\ todo' = Tail(todo)
  /\ UNCHANGED <<row, recorded, posts, pc, lockOf, at, faults>>

(* assign_task_with_timeout claims the row, and the worker is sent for     *)
(* before the claim is committed.                                          *)
Claim ==
  /\ at = "scheduling" /\ todo # <<>> /\ MayWrite(Tick)
  /\ writer' = Tick /\ todo' = Tail(todo)
  /\ IF Matches(Now(Turn[1]), Turn[2])
     THEN \E m \in Sent :
            /\ pc[m] = "none" /\ \A l \in Sent : l < m => pc[l] # "none"
            /\ pc' = [pc EXCEPT ![m] = "out"]
            /\ mail' = [mail EXCEPT ![m] = <<Turn[1], Turn[2] + 1>>]
            /\ draft' = With(Turn[1], [rev |-> Turn[2] + 1, state |-> "claimed"])
     ELSE UNCHANGED <<pc, mail, draft>>
  /\ UNCHANGED <<row, recorded, owner, phantom, lockOf, at, faults>>

(* The phase is through and its transaction commits.                       *)
Commit ==
  /\ at \in Open /\ todo = <<>>
  /\ row' = [t \in Tasks |-> Now(t)] /\ draft' = NoRow
  /\ writer' = IF writer = Tick THEN Nobody ELSE writer
  /\ at' = After[at]
  /\ UNCHANGED <<recorded, owner, posts, pc, lockOf, todo, faults>>

(* The tick ends with an exception, and the phase's transaction with it.   *)
Aborted ==
  /\ at' = "watch" /\ todo' = <<>>
  /\ draft' = NoRow /\ writer' = IF writer = Tick THEN Nobody ELSE writer
  /\ owner' = [t \in Tasks |-> IF owner[t] = Tick THEN Nobody ELSE owner[t]]
  /\ phantom' = phantom \cup
       {m \in Sent : /\ at = "scheduling" /\ mail[m] # None
                     /\ TaskOf(m) \in DOMAIN draft
                     /\ RevOf(m) = draft[TaskOf(m)].rev}
  /\ UNCHANGED <<row, recorded, mail, pc, lockOf>>

TickGivesUp ==
  /\ at \in Open /\ todo # <<>> /\ OutOfPatience(Tick)
  /\ at = "scheduling" \/ owner[Turn[1]] = Tick
  /\ Aborted /\ UNCHANGED faults

TickFails == at \in Open /\ Fault /\ Aborted

(* Answers are taken in whenever they have come.                           *)
FaultyPolls(a) == a \in Open \cup {"poll"}

Polls(a) == a = "poll"

(* The workers answer once and when they like, and a transport may hand an *)
(* answer over twice.  Each one that has come is given a coroutine.  They  *)
(* run when the loop over them is through, and all of them take the lock   *)
(* it set last.                                                            *)
Poll ==
  /\ Polls(at)
  /\ \E batch \in SUBSET {h \in Answers : pc[h] = "out" \/ (h \in Again /\ pc[h] = "none")} :
       /\ \A h \in batch \cap Again : pc[MessageOf(h)] \notin {"none", "out"} \/ MessageOf(h) \in batch
       /\ pc' = [h \in Answers |-> IF h \in batch THEN "queued" ELSE pc[h]]
       /\ IF batch = {} THEN lockOf' = lockOf
          ELSE \E last \in batch :
                 lockOf' = [h \in Answers |-> IF h \in batch THEN <<TaskOf(last)>>
                                              ELSE lockOf[h]]
  /\ at' = IF at = "poll" THEN "watch" ELSE at
  /\ UNCHANGED <<table, owner, posts, todo, faults>>

-----------------------------------------------------------------------------
(* The coroutine of an answer.                                             *)

(* The coroutine takes the lock, and process_response reads the task and   *)
(* checks its phase and revision.                                          *)
Check(h) ==
  /\ pc[h] = "queued" /\ owner[lockOf[h][1]] = Nobody
  /\ owner' = [owner EXCEPT ![lockOf[h][1]] = h]
  /\ pc' = [pc EXCEPT ![h] =
              IF row[TaskOf(h)].state # "ended" /\ row[TaskOf(h)].rev = RevOf(h)
              THEN "current" ELSE "stale"]
  /\ UNCHANGED <<table, posts, lockOf, phase, faults>>

(* The lock is not given back.                                             *)
FaultyEnds(h, how) ==
  /\ pc' = [pc EXCEPT ![h] = how] /\ owner' = owner

(* The coroutine of an answer ends, and with it the lock.                  *)
Ends(h, how) ==
  /\ pc' = [pc EXCEPT ![h] = how]
  /\ owner' = [owner EXCEPT ![lockOf[h][1]] = Nobody]

(* The transaction commits unless the message was recorded before: its id  *)
(* is the key of ProcessedEvent, and the insert fails at the commit.       *)
Records(h, how) ==
  /\ recorded' = recorded \cup {MessageOf(h)}
  /\ Ends(h, IF MessageOf(h) \in recorded THEN "lost" ELSE how)

(* A refusal is recorded too, and needs the write lock for it.             *)
Refuse(h) ==
  /\ pc[h] = "stale" /\ MayWrite(h)
  /\ Records(h, "refused")
  /\ UNCHANGED <<row, draft, writer, posts, lockOf, phase, faults>>

(* CLAIMED becomes PROCESSING, if the row is still the one that was read.  *)
Take(h) ==
  /\ pc[h] = "current" /\ MayWrite(h)
  /\ IF Matches(row[TaskOf(h)], RevOf(h))
     THEN /\ writer' = h
          /\ pc' = [pc EXCEPT ![h] = "held"]
          /\ UNCHANGED <<owner, recorded>>
     ELSE /\ Records(h, "refused") /\ UNCHANGED writer
  /\ UNCHANGED <<row, draft, posts, lockOf, phase, faults>>

(* The rest of process_response, and the commit.  An answer that is found  *)
(* wanting now leaves the row PROCESSING.                                  *)
Settle(h) ==
  /\ pc[h] = "held"
  /\ \E s \in {"ready", "judging", "ended", "processing"} :
       row' = IF MessageOf(h) \in recorded THEN row
              ELSE [row EXCEPT ![TaskOf(h)] =
                      [rev |-> @.rev + IF s = "processing" THEN 1 ELSE 2, state |-> s]]
  /\ writer' = Nobody
  /\ Records(h, "done")
  /\ UNCHANGED <<draft, posts, lockOf, phase, faults>>

(* The transaction fails.  The message is acknowledged all the same.       *)
Fails(h) ==
  /\ pc[h] = "held" /\ Fault
  /\ writer' = Nobody
  /\ Ends(h, "lost")
  /\ UNCHANGED <<row, draft, recorded, posts, lockOf, phase>>

(* The write lock did not come in time.                                    *)
GivesUp(h) ==
  /\ pc[h] \in {"current", "stale"} /\ OutOfPatience(h)
  /\ Ends(h, "lost")
  /\ UNCHANGED <<table, posts, lockOf, phase, faults>>

-----------------------------------------------------------------------------
TickStep ==
  \/ Watch \/ Verify \/ Schedule \/ TickLocks \/ TickActs \/ Claim
  \/ Commit \/ TickGivesUp \/ Poll
AnswerStep(h) ==
  \/ Check(h) \/ Refuse(h) \/ Take(h) \/ Settle(h) \/ GivesUp(h)

Next ==
  \/ TickStep \/ TickFails
  \/ \E h \in Answers : AnswerStep(h) \/ Fails(h)

Spec == Init /\ [][Next]_vars

(* The event loop runs whatever can run.  Workers need not answer.         *)
FairSpec ==
  /\ Spec /\ WF_vars(TickStep)
  /\ \A h \in Answers : WF_vars(AnswerStep(h))

-----------------------------------------------------------------------------
(* An answer is being processed; the tick is processing its own event.      *)
Busy(h)   == pc[h] \in {"current", "stale", "held"}
Ticking(t) == owner[t] = Tick

(* The holders of a lock are at the place in the code where it is held:    *)
(* a coroutine has its lock from "async with" to its end and SQLite's      *)
(* write lock from its first write to its end, and a tick that ends has    *)
(* neither.                                                                *)
TypeOK ==
  /\ row \in [Tasks -> Row]
  /\ DOMAIN draft \subseteq Tasks /\ draft \in [DOMAIN draft -> Row]
  /\ writer \in Answers \cup {Tick, Nobody}
  /\ owner \in [Tasks -> Answers \cup {Tick, Nobody}]
  /\ recorded \subseteq Sent
  /\ mail \in [Sent -> Read \cup {None}]
  /\ pc \in [Answers -> Pc]
  /\ lockOf \in [Answers -> {<<t>> : t \in Tasks} \cup {None}]
  /\ phantom \subseteq Sent /\ at \in At
  /\ todo \in Seq(Read)
  /\ faults \in 0..MaxFaults
  /\ \A h \in Answers : (writer = h) <=> (pc[h] = "held")
  /\ \A h \in Answers, t \in Tasks : (owner[t] = h) <=> (Busy(h) /\ lockOf[h] = <<t>>)
  /\ (writer = Tick \/ \E t \in Tasks : owner[t] = Tick) => at \in Open
  /\ DOMAIN draft # {} => writer = Tick

(* An answer is refused as stale only if something else has settled or     *)
(* taken back the assignment it belongs to, or the assignment was never    *)
(* committed.  Workers are sent for before the claim is committed: the     *)
(* tick's order, claims first and then the poll, keeps an early answer     *)
(* from meeting the row as it was before (orchestrator.py:54-60).          *)
CurrentNotRefused ==
  \A h \in Answers :
    pc[h] = "refused" => row[TaskOf(h)].rev > RevOf(h) \/ MessageOf(h) \in phantom

(* "Per-task serialization to prevent event races" (orchestrator.py:32):   *)
(* of the answers about a task and the tick's own event about it, one at a *)
(* time is being processed.                                                *)
Serialized ==
  \A t \in Tasks :
    /\ \A g, h \in {a \in Answers : Busy(a) /\ TaskOf(a) = t} : g = h
    /\ \A h \in Answers : ~(Busy(h) /\ TaskOf(h) = t /\ Ticking(t))

(* Whatever the coroutines and the tick read before they write, and        *)
(* whichever locks they take, what is committed obeys the lease: an answer *)
(* settles a task only under the revision it was handed out with, which is *)
(* spent by that, and the tick takes back only what is held.               *)
StageOf(state) ==
  CASE state = "ready"      -> "open"
    [] state = "claimed"    -> "held"
    [] state = "processing" -> "stuck"
    [] state = "judging"    -> "parked"
    [] state = "ended"      -> "failed"

Granted == {mail[m] : m \in {l \in Sent : mail[l] # None}}

Lease == INSTANCE TaskLease WITH
  Task    <- Tasks,
  Seed    <- Tasks,
  stage   <- [t \in Tasks |-> StageOf(row[t].state)],
  token   <- [t \in Tasks |-> row[t].rev],
  granted <- Granted,
  verdict <- "pending"

LeaseKept == Lease!Spec

(* No wait is for ever.  The tick can wait for a task's lock with SQLite's *)
(* write lock in hand (orchestrator.py:176) while the answer that has the  *)
(* task's lock waits for the write lock: SQLite's patience ends it, at the *)
(* cost of the answer.                                                     *)
NobodyWaitsForever ==
  /\ \A h \in Answers : (pc[h] = "queued") ~> (pc[h] \in Over)
  /\ []<>(at = "watch")
=============================================================================
