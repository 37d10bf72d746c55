------------------------------- MODULE PiMesh -------------------------------
(***************************************************************************)
(* The workers of a run as processes: the messenger callback that starts   *)
(* one `pi` process for each assignment under a semaphore, the files they  *)
(* and the callback exchange in the crew directories, and the receiver     *)
(* that turns the response files into messages for the engine.             *)
(*                                                                         *)
(* Callback, pool and receiver share one event loop and suspend only where *)
(* they wait for a slot, a process or the next scan: each stretch between  *)
(* is one step.  The workers are processes of their own and may write at   *)
(* any time, each of their files in one step; a scan that reads one file   *)
(* early and another one late differs from an atomic one only in which     *)
(* scan finds what.                                                        *)
(*                                                                         *)
(* Of the engine only what TaskLease promises is here: it hands out tasks  *)
(* under tokens (state_revision), takes them back, and settles them.       *)
(***************************************************************************)
EXTENDS Naturals, Sequences, FiniteSets

CONSTANTS
  Task,         \* the tasks, once for each role that works on them
  Researchers,  \* the tasks of the RESEARCHER
  Dummies,      \* the reviews that REVIEWER_IS_DUMMY approves without worker
  Leftover,     \* the tasks of whose name an earlier run has left files
  OldBrief,     \* whether an earlier run has left its research/brief.md
  MaxSpawns,    \* MAX_CONCURRENT_SPAWNS
  Rollbacks,    \* whether a tick that handed out a task may be rolled back
  Written,      \* the kinds of responses that workers write
  MaxLost,      \* bound of the model: how many keys exceptions may lose
  MaxRev        \* bound of the model: the highest revision handed out

ASSUME RolesAreTasks ==
  /\ Researchers \subseteq Task
  /\ Dummies \subseteq Task \ Researchers
  /\ Leftover \subseteq Task \ Researchers

ASSUME WorkersWrite ==
  Written \subseteq {"partial", "good", "bad", "unfit", "odd", "shapeless"}

ASSUME BoundsNatural ==
  /\ MaxSpawns \in Nat \ {0}
  /\ MaxRev \in Nat \ {0}
  /\ MaxLost \in Nat
  /\ OldBrief \in BOOLEAN
  /\ Rollbacks \in BOOLEAN

VARIABLES
  stage, token, granted,  \* the engine, as in TaskLease
  calls,     \* the callbacks the scheduler has created, in order
  spawned,   \* the assignments the callback has seen
  taskfile,  \* the revision in tasks/<task>.md, 0 without a file
  queue,     \* the assignments that wait for spawn_sem, in order
  slots,     \* the assignments that hold it
  spec,      \* the revision a worker has found in the task file, or 0
  live,      \* the assignments whose process runs
  file,      \* the response file of each task
  brief,     \* research/brief.md
  limits,    \* the tasks whose worker.log shows the 429s of a given-up call
  consumed,  \* PiMeshReceiverLoop._consumed
  inbox,     \* what is published and not yet taken in
  lost       \* of no process: the keys whose message came to nothing

engine == <<stage, token, granted>>
pool == <<calls, spawned, taskfile, queue, slots, spec>>
receiver == <<consumed, inbox, lost>>
vars == <<engine, pool, live, file, brief, limits, receiver>>

(* An assignment: a task under the revision it was handed out with.        *)
Key == Task \X (1..MaxRev)

NoFile == [rev |-> 0, kind |-> "none"]

(* A response file as the receiver tells them apart: it is of another run, *)
(* it cannot be taken yet (half a JSON, artifacts or plan still missing),  *)
(* it passes or breaks the schema and the path rules, or the receiver has  *)
(* written it itself.  An unfit one breaks the schema in a field that the  *)
(* report of the breach takes over: its sender, timestamp or revision.     *)
(* Two kinds are valid JSON that the scan stumbles over: an odd one has    *)
(* artifacts that are no list, or a path that is no string; a shapeless    *)
(* one is no object at all, or its revision cannot be part of a key.       *)
File ==
  {NoFile} \cup
  [rev: 1..MaxRev,
   kind: {"foreign", "partial", "good", "bad", "unfit", "odd", "shapeless",
          "recovered"}]

Message ==
  [task: Task, rev: 0..MaxRev,
   kind: {"answer", "broken", "unfit", "limited"}]

Answer(k) == [task |-> k[1], rev |-> k[2], kind |-> "answer"]

KeysOf(messages) == {<<m.task, m.rev>> : m \in messages}

(* An exception loses these messages.                                      *)
Lose(messages) ==
  /\ lost' = lost \cup KeysOf(messages)
  /\ lost' # lost => Cardinality(lost') <= MaxLost

-----------------------------------------------------------------------------
(* The engine.                                                             *)

Assign(t) ==
  /\ stage[t] = "open" /\ token[t] < MaxRev
  /\ stage' = [stage EXCEPT ![t] = "held"]
  /\ token' = [token EXCEPT ![t] = @ + 1]
  /\ granted' = granted \cup {<<t, token[t] + 1>>}
  /\ calls' = Append(calls, <<t, token[t] + 1>>)
  /\ UNCHANGED <<spawned, taskfile, queue, slots, spec, live, file, brief,
                 limits, receiver>>

(* The tick is rolled back after it created the callback: the next one     *)
(* hands the task out under the same revision.  Once per revision here.    *)
AssignRolledBack(t) ==
  /\ Rollbacks
  /\ stage[t] = "open" /\ token[t] < MaxRev
  /\ <<t, token[t] + 1>> \notin granted
  /\ granted' = granted \cup {<<t, token[t] + 1>>}
  /\ calls' = Append(calls, <<t, token[t] + 1>>)
  /\ UNCHANGED <<stage, token, spawned, taskfile, queue, slots, spec, live,
                 file, brief, limits, receiver>>

(* The watchdog: no process is told, none is stopped.                      *)
TakeBack(t) ==
  /\ stage[t] = "held"
  /\ stage' = [stage EXCEPT ![t] = "open"]
  /\ token' = [token EXCEPT ![t] = @ + 1]
  /\ UNCHANGED <<granted, pool, live, file, brief, limits, receiver>>

(* Any answer settles its task.                                            *)
FaultyFresh(m) == m.kind \in {"answer", "broken"}

(* The guardian takes an answer to the current revision.  That of a rate   *)
(* limit carries revision 0, which no assignment has, and the report of an *)
(* unfit response does not pass the schema either.                         *)
Fresh(m) ==
  /\ m.kind \in {"answer", "broken"}
  /\ m.rev = token[m.task]

(* poll and process_response: what is not fresh is dropped.  A broken      *)
(* answer is sent back, or refused after the lock (Engine).  Lost is the   *)
(* report of an unfit one, and the answer to a claim that was rolled back, *)
(* which comes before the claim is made again.                             *)
Deliver(m) ==
  /\ m \in inbox
  /\ inbox' = inbox \ {m}
  /\ IF Fresh(m)
     THEN /\ \E s \in IF m.kind = "answer" THEN {"open", "done"}
                      ELSE {"open", "stuck"} :
               stage' = [stage EXCEPT ![m.task] = s]
          /\ token' = [token EXCEPT ![m.task] = @ + 1]
     ELSE UNCHANGED <<stage, token>>
  /\ lost' = IF \/ Fresh(m) \/ m.rev < token[m.task] \/ m.kind = "limited"
             THEN lost
             ELSE lost \cup KeysOf({m})
  /\ UNCHANGED <<granted, pool, live, file, brief, limits, consumed>>

(* Messages are off the queue before they are looked at, and answered to   *)
(* in tasks nobody awaits: an exception there, or in the loop that makes   *)
(* them, only leaves a line in the log.                                    *)
DeliveryFails(m) ==
  /\ m \in inbox /\ Fresh(m)
  /\ inbox' = inbox \ {m}
  /\ Lose({m})
  /\ UNCHANGED <<engine, pool, live, file, brief, limits, consumed>>

-----------------------------------------------------------------------------
(* The messenger callback and its pool.                                    *)

(* Takes k off; it is gone into if it is seen for the first time.          *)
Called(k) ==
  /\ calls # <<>> /\ k = Head(calls)
  /\ calls' = Tail(calls)
  /\ spawned' = spawned \cup {k}
  /\ UNCHANGED <<engine, slots, spec, live, brief, limits, consumed, lost>>

FaultySeen(k) == FALSE

Seen(k) == k \in spawned

SkipDuplicate(k) ==
  /\ Called(k)
  /\ Seen(k)
  /\ UNCHANGED <<taskfile, queue, file, inbox>>

ApproveUnseen(k) ==
  /\ Called(k)
  /\ ~Seen(k)
  /\ k[1] \in Dummies
  /\ inbox' = inbox \cup {Answer(k)}
  /\ UNCHANGED <<taskfile, queue, file>>

(* The worker is started also when its task file could not be written.     *)
FaultyPrepared(k) ==
  {taskfile, [taskfile EXCEPT ![k[1]] = k[2]]} \X {queue, Append(queue, k)}

(* What becomes of the task file and the queue: the file is written, the   *)
(* session of the worker prepared, and a coroutine queues for a slot.      *)
(* Where the first or the second fails, the callback ends.                 *)
Prepared(k) ==
  {<<taskfile, queue>>}
  \cup {[taskfile EXCEPT ![k[1]] = k[2]]} \X {queue, Append(queue, k)}

(* A retry of a coder that carries feedback first loses the response file  *)
(* of the attempt before.                                                  *)
Dispatch(k) ==
  /\ Called(k)
  /\ ~Seen(k)
  /\ k[1] \notin Dummies
  /\ \E feedback \in {FALSE, k[1] \notin Researchers} :
       file' = IF feedback THEN [file EXCEPT ![k[1]] = NoFile] ELSE file
  /\ \E p \in Prepared(k) : taskfile' = p[1] /\ queue' = p[2]
  /\ UNCHANGED inbox

(* asyncio runs the callbacks in the order of their creation.              *)
Callback ==
  \E k \in Key : SkipDuplicate(k) \/ ApproveUnseen(k) \/ Dispatch(k)

(* _spawn_limited, from a free slot to the wait for the process: the first *)
(* in the queue is served.  When Popen fails, its exception gives the slot *)
(* back.                                                                   *)
Start ==
  /\ queue # <<>>
  /\ Cardinality(slots) < MaxSpawns
  /\ LET k == Head(queue) IN
       /\ queue' = Tail(queue)
       /\ spec' = [spec EXCEPT ![k] = taskfile[k[1]]]
       /\ \/ slots' = slots \cup {k} /\ live' = live \cup {k}
          \/ UNCHANGED <<slots, live>>
  /\ UNCHANGED <<engine, calls, spawned, taskfile, file, brief, limits, receiver>>

(* The slot is given back only where the response has been published.      *)
FaultyRelease(k) ==
  /\ k \in slots \ live
  /\ k \in consumed
  /\ slots' = slots \ {k}
  /\ UNCHANGED <<engine, calls, spawned, taskfile, queue, spec, live, file,
                 brief, limits, receiver>>

(* proc.wait returns.                                                      *)
Release(k) ==
  /\ k \in slots \ live
  /\ slots' = slots \ {k}
  /\ UNCHANGED <<engine, calls, spawned, taskfile, queue, spec, live, file,
                 brief, limits, receiver>>

-----------------------------------------------------------------------------
(* The workers: `pi` processes, started for k.  They may write their       *)
(* response more than once, forget it, end early or never.                 *)

(* It reads the task file, which is not named for the revision.            *)
Reads(k) ==
  /\ k \in live
  /\ spec' = [spec EXCEPT ![k] = taskfile[k[1]]]
  /\ UNCHANGED <<engine, calls, spawned, taskfile, queue, slots, live, file,
                 brief, limits, receiver>>

Writes(k) ==
  /\ k \in live
  /\ \E kind \in Written :
       file' = [file EXCEPT ![k[1]] = [rev |-> spec[k], kind |-> kind]]
  /\ UNCHANGED <<engine, pool, live, brief, limits, receiver>>

Briefs(k) ==
  /\ k \in live /\ k[1] \in Researchers
  /\ brief' = "own"
  /\ UNCHANGED <<engine, pool, live, file, limits, receiver>>

IsLimited(k) ==
  /\ k \in live
  /\ limits' = limits \cup {k[1]}
  /\ UNCHANGED <<engine, pool, live, file, brief, receiver>>

Ends(k) ==
  /\ k \in live
  /\ live' = live \ {k}
  /\ UNCHANGED <<engine, pool, file, brief, limits, receiver>>

-----------------------------------------------------------------------------
(* The receiver: scan_once and the publication of what it returns.         *)

(* An answer is remembered by its task alone.                              *)
FaultyUsed(t, r) == \E c \in consumed : c[1] = t /\ c[2] # 0

(* The key (run, task, revision) of a response has been consumed.          *)
Used(t, r) == <<t, r>> \in consumed

(* The 429s are published once per run, while there is no response file.   *)
Limited ==
  {t \in limits : file[t] = NoFile /\ ~Used(t, 0)}

(* The files that no scan gets past: it asks what is no object for its     *)
(* event, and joins to a directory what is no path, unless another file    *)
(* has used the key.                                                       *)
Raising ==
  {t \in Task : \/ file[t].kind = "shapeless"
                \/ file[t].kind = "odd" /\ ~Used(t, file[t].rev)}

(* Artifacts are looked for in the root of the crew directory only, where  *)
(* the brief of a recovered response never is.                             *)
FaultyTaken(f) ==
  {t \in Task : f[t].kind \in {"good", "bad", "unfit"} /\ ~Used(t, f[t].rev)}

(* What the scan takes from the files f: complete responses of this run.   *)
Taken(f) ==
  {t \in Task : /\ f[t].kind \in {"good", "bad", "unfit", "recovered"}
                /\ ~Used(t, f[t].rev)}

(* _recover_researcher_response: there is a brief, the callback has set up *)
(* a work directory for the task, and there is no response file.           *)
Recovered ==
  {t \in Researchers : /\ brief # "none"
                       /\ file[t] = NoFile
                       /\ \E k \in Key : k[1] = t /\ spec[k] # 0}

(* The task file is not asked for the revision.                            *)
FaultyFilesAfter ==
  [t \in Task |-> IF t \in Recovered THEN [rev |-> 0, kind |-> "recovered"]
                  ELSE file[t]]

(* The files with the responses it makes up.                               *)
FilesAfter ==
  [t \in Task |-> IF t \in Recovered
                  THEN [rev |-> taskfile[t], kind |-> "recovered"]
                  ELSE file[t]]

(* A breach of the schema or the path rules is published as such.          *)
Report(kind) ==
  CASE kind = "bad" -> "broken"
    [] kind = "unfit" -> "unfit"
    [] OTHER -> "answer"

(* What a scan that finds the files f consumes.                            *)
Found(f) ==
  {[task |-> t, rev |-> 0, kind |-> "limited"] : t \in Limited}
  \cup {[task |-> t, rev |-> f[t].rev, kind |-> Report(f[t].kind)] : t \in Taken(f)}

Published == Found(FilesAfter)

(* The receiver signals the pool.                                          *)
FaultySignalled == KeysOf(Published)

(* The assignments whose task_done_event a scan sets.  The receiver is     *)
(* made before the first callback, when the dictionary of the events is    *)
(* still empty; `task_done_events or {}` gives it another one, which no    *)
(* one fills.  task_assigned_at goes the same way, and with it the guards  *)
(* for workers that ended, or hang, without a response: they never report. *)
Signalled == {}

Scan ==
  /\ Raising = {}
  /\ inbox' = inbox \cup Published
  /\ consumed' = consumed \cup KeysOf(Published)
  /\ file' = FilesAfter
  /\ slots' = slots \ Signalled
  /\ UNCHANGED <<engine, calls, spawned, taskfile, queue, spec, live, brief,
                 limits, lost>>

(* scan_once leaves by an exception, which run only logs: what the scan    *)
(* has consumed before, the 429s and whichever files the directory lists   *)
(* first, is never published.  Where the worker wrote the file between the *)
(* two passes, responses have been recovered.                              *)
ScanFails ==
  /\ Raising # {}
  /\ \E f \in {file, FilesAfter} :
       \E dropped \in SUBSET Found(f) :
         /\ file' = f
         /\ \A m \in Found(f) \ dropped : m.kind # "limited"
         /\ consumed' = consumed \cup KeysOf(dropped)
         /\ Lose(dropped)
  /\ UNCHANGED <<engine, pool, live, brief, limits, inbox>>

(* Once it is published, the report of an unfit response may raise where   *)
(* the pool is signalled, by a sender that cannot be part of a key: what   *)
(* comes after it in the batch is consumed and never published.            *)
PublicationFails ==
  /\ Raising = {}
  /\ \E dropped \in SUBSET Published :
       /\ \E m \in Published \ dropped : m.kind = "unfit"
       /\ inbox' = inbox \cup (Published \ dropped)
       /\ Lose(dropped)
  /\ consumed' = consumed \cup KeysOf(Published)
  /\ file' = FilesAfter
  /\ UNCHANGED <<engine, pool, live, brief, limits>>

(* One round of the loop in run.                                           *)
Round == Scan \/ ScanFails \/ PublicationFails

-----------------------------------------------------------------------------
Init ==
  /\ stage = [t \in Task |-> "open"]
  /\ token = [t \in Task |-> 0]
  /\ granted = {}
  /\ calls = <<>> /\ queue = <<>>
  /\ spawned = {} /\ slots = {} /\ live = {}
  /\ taskfile = [t \in Task |-> 0]
  /\ spec = [k \in Key |-> 0]
  /\ \E old \in [Leftover -> {"foreign", "shapeless"}] :
       file = [t \in Task |-> IF t \in Leftover THEN [rev |-> 1, kind |-> old[t]]
                              ELSE NoFile]
  /\ brief = IF OldBrief THEN "old" ELSE "none"
  /\ limits \in SUBSET Leftover
  /\ consumed = {} /\ inbox = {} /\ lost = {}

Next ==
  \/ \E t \in Task : Assign(t) \/ AssignRolledBack(t) \/ TakeBack(t)
  \/ \E m \in inbox : Deliver(m) \/ DeliveryFails(m)
  \/ Callback
  \/ Start
  \/ \E k \in Key : Release(k)
  \/ \E k \in Key : Reads(k) \/ Writes(k) \/ Briefs(k) \/ IsLimited(k) \/ Ends(k)
  \/ Round

Spec == Init /\ [][Next]_vars

(* The receiver scans every second and the orchestrator polls every half.  *)
(* No message is published twice, so none can be passed over for ever.     *)
Hearing ==
  /\ WF_vars(Round)
  /\ WF_vars(\E m \in inbox : Deliver(m) \/ DeliveryFails(m))

HearingSpec == Spec /\ Hearing

(* The event loop runs its coroutines; of the workers nothing is assumed.  *)
(* No assignment is started twice, so none can be passed over for ever.    *)
Fairness ==
  /\ Hearing
  /\ WF_vars(Callback)
  /\ WF_vars(Start)
  /\ WF_vars(\E k \in Key : Release(k))

FairSpec == Spec /\ Fairness

(* With workers that do end, as `pi` does when its calls are over.         *)
EndingSpec == FairSpec /\ WF_vars(\E k \in Key : Ends(k))

-----------------------------------------------------------------------------
(* Properties.                                                             *)

(* Types of the state.                                                     *)
TypeOK ==
  /\ stage \in [Task -> {"open", "held", "stuck", "done"}]
  /\ token \in [Task -> 0..MaxRev + 1]
  /\ granted \subseteq Key
  /\ calls \in Seq(Key) /\ queue \in Seq(Key)
  /\ spawned \subseteq Key /\ slots \subseteq Key /\ live \subseteq Key
  /\ taskfile \in [Task -> 0..MaxRev]
  /\ spec \in [Key -> 0..MaxRev]
  /\ file \in [Task -> File]
  /\ brief \in {"none", "old", "own"}
  /\ limits \subseteq Task
  /\ consumed \subseteq Task \X (0..MaxRev)
  /\ inbox \subseteq Message
  /\ lost \subseteq Task \X (0..MaxRev)

(* An assignment is started at most once ("pro (task_id, state_revision)   *)
(* hoechstens ein Spawn"), also when the tick that handed it out was       *)
(* rolled back and another one hands it out again.                         *)
StartedOnce ==
  /\ \A i, j \in DOMAIN queue : queue[i] = queue[j] => i = j
  /\ \A i \in DOMAIN queue : spec[queue[i]] = 0

(* No more processes run than there are slots, however late or often the   *)
(* responses come: a slot outlives its process, never the other way.       *)
LiveBounded ==
  /\ live \subseteq slots
  /\ Cardinality(slots) <= MaxSpawns

(* A worker that had to wait for its slot may read the task file of a      *)
(* later assignment, but never that of an earlier one, and none that the   *)
(* engine has not handed out: so the worker of the current assignment      *)
(* answers under the current revision.                                     *)
ReadsNoOlder ==
  \A k \in Key :
    spec[k] # 0 => /\ k[2] <= spec[k]
                   /\ <<k[1], spec[k]>> \in granted

(* The engine and the mesh together keep what TaskLease promises, however  *)
(* late the answers come and whoever writes the response file last.        *)
Lease == INSTANCE TaskLease WITH Seed <- Task, verdict <- "pending"

LeaseSpec == Lease!Spec

(* A response to the current assignment does not lie in the crew directory *)
(* for ever: it is published and taken in, also when it is not the first   *)
(* one for its task, when a 429 was reported before, or when the file of   *)
(* an earlier run or attempt was there first.  Two things keep it there:   *)
(* a file, of whatever task, that no scan gets past, for as long as it     *)
(* lies there; and a key that was consumed for a message which came to     *)
(* nothing: by an exception, because it reported an unfit response, or     *)
(* because the claim it answers had been rolled back.                      *)
Unheard(t) ==
  /\ stage[t] = "held"
  /\ file[t].rev = token[t]
  /\ file[t].kind \in {"good", "bad", "recovered"}

Excused(t) == Raising # {} \/ <<t, token[t]>> \in lost

AnswersHeard == \A t \in Task : []<>(Unheard(t) => Excused(t))

(* The assignments that wait for a slot get one if workers end, whether or *)
(* not the processes before them could be started: no task has assignments *)
(* waiting for ever.                                                       *)
Waits(t) == \E i \in DOMAIN queue : queue[i][1] = t

QueueServed == \A t \in Task : []<>~Waits(t)

-----------------------------------------------------------------------------
(* What the comments and tests say and the code does not do.               *)

(* run_pi_mesh.py, _spawn_limited: "Slot wird bis Outcome (Response        *)
(* published / Timeout / Proc-Exit) gehalten".  A worker that does not end *)
(* after its response keeps the slot.                                      *)
SlotUntilAnswer ==
  \A k \in Key : k \in consumed ~> k \notin slots

(* docs/vision/PiMesh_Architektur.md: "Schema / Protocol violation |       *)
(* SUBMISSION_INVALID_SCHEMA | ... | Guardian -> Retry / Fail              *)
(* (deterministisch gemappt)".  What takes in the report of a breach by    *)
(* the worker of the current assignment moves the task.                    *)
BreachMapped ==
  [][\A m \in inbox \ inbox' :
       m.kind \in {"broken", "unfit"} /\ m.rev = token[m.task]
         => token'[m.task] # token[m.task]]_vars

(* run_pi_mesh.py, _schema_fail: "Kanonischer Struktur-Bruch ->            *)
(* SUBMISSION_INVALID_SCHEMA (kein Repair)".  A response that is no object *)
(* stops every scan before it is reported.                                 *)
Malformed(t) == file[t].kind \in {"odd", "shapeless"}

BreachReported ==
  \A t \in Task :
    Malformed(t) ~> \/ ~Malformed(t)
                    \/ \E m \in inbox : m.task = t /\ m.kind \in {"broken", "unfit"}

(* run_pi_mesh.py, _recover_researcher_response: "wenn der RESEARCHER      *)
(* `research/brief.md` geschrieben hat".  The brief may be the one of an   *)
(* earlier run in the same crew directory, and the research of this run is *)
(* complete as soon as its worker has been started.                        *)
BriefIsOwn ==
  \A t \in Task : file[t].kind = "recovered" => brief = "own"
=============================================================================
