---------------------------- MODULE RunLifecycle ----------------------------
(***************************************************************************)
(* A run from its creation to its archive, and the archives of the runs    *)
(* before it.                                                              *)
(*                                                                         *)
(* A process takes one run: main creates and starts it, asks for its       *)
(* status every five seconds, archives it when the status is terminal, and *)
(* stops it.  Beside main, on the same event loop, run the orchestrator's  *)
(* heartbeat, which declares the verdict, answers nobody awaits, which may *)
(* still end tasks, and whoever calls cancel_run.  The process may also    *)
(* run out of time or die.  The next process has a database of its own and *)
(* finds the archive directory as it was left.                             *)
(*                                                                         *)
(* What a tick does to the tasks is Engine's: here they are open, or all   *)
(* ended, with or without a failure.                                       *)
(***************************************************************************)
EXTENDS Naturals, Sequences, FiniteSets, SequencesExt

CONSTANTS
  KeepLast,        \* settings.KEEP_LAST_N
  KeepCompressed,  \* settings.KEEP_COMPRESSED_LAST_N
  MaxRuns,         \* bound of the model: processes
  MaxFaults        \* bound of the model: ticks, commits, writes and removals
                   \* that fail, and crashes

ASSUME LimitsTyped ==
  /\ KeepLast \in Nat \ {0} /\ KeepCompressed \in Nat
  /\ MaxRuns \in Nat /\ MaxFaults \in Nat

Run == 1..MaxRuns

VARIABLES
  n,         \* the run of the current process
  main,      \* where main stands
  status,    \* Run.status
  tasks,     \* what the run's rows in the task table amount to
  late,      \* an answer is being processed that no tick awaits
  loop,      \* where run_forever and its tick stand
  verdict,   \* final_status, read from the counts and not yet written
  running,   \* Orchestrator.running
  listed,    \* the run is in _orchestrators and _running_tasks
  cut,       \* cancel() was called on the heartbeat's task
  cancel,    \* where cancel_run stands
  dirs,      \* archive/runs/<run>, by time of modification, oldest first
  dir,       \* what each directory holds
  tars,      \* archive/runs/<run>.tar.gz, oldest first
  tar,       \* what each of them holds
  record,    \* terminal_state in the run's manifest
  todo,      \* what enforce_retention has listed and not come to
  archived,  \* history: runs whose archive was written
  failures,  \* history: <<process, run, how>> of compressions that went wrong
  faults     \* failures so far

Status == {"ACTIVE", "COMPLETED", "FAILED", "CANCELLED"}
Ended  == Status \ {"ACTIVE"}
Main   == {"over", "created", "polling", "archiving", "auditing", "retaining",
           "capping", "stopping", "waiting"}
Loop   == {"none", "new", "guard", "busy", "count", "judged", "asleep", "ended"}
(* run.log only, all files, or some of them.                               *)
Holds  == {"none", "log", "whole", "part"}

(* How the compression of a directory may go wrong.                        *)
Wrong  == {"tar fails", "kept", "half removed"}

archive == <<dirs, dir, tars, tar, todo, archived, failures>>
rowvars == <<status, tasks>>
engine  == <<late, loop, verdict, running, cut>>
vars == <<n, main, rowvars, engine, listed, cancel, archive, record, faults>>

Init ==
  /\ n = 0 /\ main = "over"
  /\ status = "ACTIVE" /\ tasks = "open"
  /\ late = FALSE /\ loop = "none" /\ verdict = "ACTIVE"
  /\ running = FALSE /\ cut = FALSE
  /\ listed = FALSE /\ cancel = "none"
  /\ dirs = <<>> /\ tars = <<>>
  /\ dir = [r \in Run |-> "none"] /\ tar = [r \in Run |-> "none"]
  /\ record = "none"
  /\ todo = <<>> /\ archived = {} /\ failures = {} /\ faults = 0

Fault == faults < MaxFaults /\ faults' = faults + 1

(* Its earlier place is kept.                                              *)
FaultyTouched(seq, r) == Append(seq, r)

(* A run's directory is made or changed.                                   *)
Touched(seq, r) == Append(RemoveFirst(seq, r), r)

-----------------------------------------------------------------------------
(* The archive's retention.                                                *)

(* The newest are taken for the oldest.                                    *)
FaultySurplus(seq, keep) ==
  IF Len(seq) > keep THEN SubSeq(seq, keep + 1, Len(seq)) ELSE <<>>

(* The oldest, beyond the number to keep.                                  *)
Surplus(seq, keep) ==
  IF Len(seq) > keep THEN SubSeq(seq, 1, Len(seq) - keep) ELSE <<>>

(* RunArchiver._compress_and_remove, of one directory.  The tarball may    *)
(* end early, over what an earlier one held; the removal may fail before   *)
(* it has begun or half-way, which makes the directory the newest.         *)
Compress(r, how) ==
  /\ tars' = Touched(tars, r)
  /\ tar' = [tar EXCEPT ![r] = IF how = "tar fails" THEN "part" ELSE dir[r]]
  /\ \/ how = "done" /\ dirs' = RemoveFirst(dirs, r) /\ dir' = [dir EXCEPT ![r] = "none"]
     \/ how \in {"tar fails", "kept"} /\ UNCHANGED <<dirs, dir>>
     \/ how = "half removed" /\ dirs' = Touched(dirs, r) /\ dir' = [dir EXCEPT ![r] = "part"]
  /\ failures' = IF how = "done" THEN failures ELSE failures \cup {<<n, r, how>>}
  /\ archived' = archived

-----------------------------------------------------------------------------
(* main.                                                                   *)

(* A process starts: a fresh database, create_run, the run's log.          *)
CreateRun ==
  /\ main = "over" /\ n < MaxRuns
  /\ n' = n + 1 /\ main' = "created"
  /\ status' = "ACTIVE" /\ tasks' = "open"
  /\ late' = FALSE /\ loop' = "none" /\ verdict' = "ACTIVE"
  /\ running' = FALSE /\ cut' = FALSE /\ listed' = FALSE /\ cancel' = "none"
  /\ dirs' = Append(dirs, n') /\ dir' = [dir EXCEPT ![n'] = "log"]
  /\ record' = "none"
  /\ UNCHANGED <<tars, tar, todo, archived, failures, faults>>

(* start_run.                                                              *)
StartRun ==
  /\ main = "created"
  /\ main' = "polling"
  /\ running' = TRUE /\ loop' = "new" /\ listed' = TRUE
  /\ UNCHANGED <<n, rowvars, late, verdict, cut, cancel, archive, record, faults>>

SeeEnd ==
  /\ main = "polling" /\ status \in Ended
  /\ main' = "archiving"
  /\ UNCHANGED <<n, rowvars, engine, listed, cancel, archive, record, faults>>

(* archive_run up to the auditor: the status is read anew.                 *)
WriteArchive ==
  /\ main = "archiving"
  /\ main' = "auditing"
  /\ dirs' = Touched(dirs, n) /\ dir' = [dir EXCEPT ![n] = "whole"]
  /\ record' = status /\ archived' = archived \cup {n}
  /\ UNCHANGED <<n, rowvars, engine, listed, cancel, tars, tar, todo, failures, faults>>

(* A file cannot be written, which is logged.                              *)
ArchiveFails ==
  /\ Fault
  /\ main = "archiving"
  /\ main' = "stopping"
  /\ \E holds \in {"log", "part"} : dir' = [dir EXCEPT ![n] = holds]
  /\ dirs' = Touched(dirs, n)
  /\ UNCHANGED <<n, rowvars, engine, listed, cancel, tars, tar, todo, record,
                 archived, failures>>

(* The auditor's report; then enforce_retention lists the directories.  It *)
(* does not await, so nothing but a crash comes between its steps.         *)
Retain ==
  /\ main = "auditing"
  /\ main' = "retaining" /\ todo' = Surplus(dirs, KeepLast)
  /\ UNCHANGED <<n, rowvars, engine, listed, cancel, record, dirs, dir, tars, tar,
                 archived, failures, faults>>

CompressNext ==
  /\ main = "retaining" /\ todo # <<>>
  /\ todo' = Tail(todo)
  /\ \/ Compress(Head(todo), "done") /\ UNCHANGED faults
     \/ Fault /\ \E how \in Wrong : Compress(Head(todo), how)
  /\ UNCHANGED <<n, main, rowvars, engine, listed, cancel, record>>

(* The soft cap on compressed archives.                                    *)
ListTars ==
  /\ main = "retaining" /\ todo = <<>>
  /\ main' = "capping" /\ todo' = Surplus(tars, KeepCompressed)
  /\ UNCHANGED <<n, rowvars, engine, listed, cancel, record, dirs, dir, tars, tar,
                 archived, failures, faults>>

(* An unlink that fails is passed over.                                    *)
Unlink ==
  /\ main = "capping" /\ todo # <<>>
  /\ todo' = Tail(todo)
  /\ \/ /\ tars' = RemoveFirst(tars, Head(todo))
        /\ tar' = [tar EXCEPT ![Head(todo)] = "none"]
        /\ UNCHANGED faults
     \/ Fault /\ UNCHANGED <<tars, tar>>
  /\ UNCHANGED <<n, main, rowvars, engine, listed, cancel, record, dirs, dir,
                 archived, failures>>

EndRetention ==
  /\ main = "capping" /\ todo = <<>>
  /\ main' = "stopping"
  /\ UNCHANGED <<n, rowvars, engine, listed, cancel, record, archive, faults>>

(* asyncio.wait_for around main gives up: what it awaits is cancelled, and *)
(* its finally clause stops the run.                                       *)
TimeOut ==
  /\ main \in {"polling", "archiving", "auditing"}
  /\ main' = "stopping"
  /\ UNCHANGED <<n, rowvars, engine, listed, cancel, archive, record, faults>>

(* stop_run: unknown to it after a cancel_run.                             *)
StopRun ==
  /\ main = "stopping"
  /\ IF listed THEN running' = FALSE /\ main' = "waiting"
     ELSE main' = "over" /\ UNCHANGED running
  /\ UNCHANGED <<n, rowvars, late, loop, verdict, cut, listed, cancel, archive,
                 record, faults>>

(* The heartbeat is left to itself when the ten seconds are over.          *)
FaultyStopTimesOut ==
  /\ main = "waiting" /\ loop # "ended"
  /\ main' = "over" /\ listed' = FALSE
  /\ UNCHANGED <<n, rowvars, engine, cancel, archive, record, faults>>

(* The heartbeat is waited for without a limit.                            *)
FaultyWait ==
  /\ main = "waiting" /\ loop = "ended"
  /\ UNCHANGED vars

(* Ten seconds are over: the heartbeat is cancelled and waited for.        *)
StopTimesOut ==
  /\ main = "waiting" /\ loop # "ended"
  /\ cut' = TRUE
  /\ UNCHANGED <<n, main, rowvars, late, loop, verdict, running, listed, cancel,
                 archive, record, faults>>

(* A stopped run is taken for a completed one.                             *)
FaultyStopped ==
  /\ main = "waiting" /\ loop = "ended"
  /\ main' = "over" /\ listed' = FALSE /\ status' = "COMPLETED"
  /\ UNCHANGED <<n, tasks, engine, cancel, archive, record, faults>>

(* stop_run goes on: the status is left as it is.                          *)
Stopped ==
  /\ main = "waiting" /\ loop = "ended"
  /\ main' = "over" /\ listed' = FALSE
  /\ UNCHANGED <<n, rowvars, engine, cancel, archive, record, faults>>

(* The process dies; what it had open in the archive stays as it is.       *)
Crash ==
  /\ Fault
  /\ main # "over"
  /\ main' = "over" /\ loop' = "ended" /\ late' = FALSE /\ listed' = FALSE
  /\ verdict' = "ACTIVE"
  /\ todo' = <<>>
  /\ \/ UNCHANGED <<dirs, dir, tars, tar, archived, failures>>
     \/ /\ main = "archiving"
        /\ dirs' = Touched(dirs, n) /\ dir' = [dir EXCEPT ![n] = "part"]
        /\ UNCHANGED <<tars, tar, archived, failures>>
     \/ /\ main = "retaining" /\ todo # <<>>
        /\ \E how \in Wrong : Compress(Head(todo), how)
  /\ UNCHANGED <<n, rowvars, running, cut, cancel, record>>

-----------------------------------------------------------------------------
(* The heartbeat.                                                          *)

(* No code of main is at work that does not await.                         *)
Awaiting == main \notin {"retaining", "capping"}

(* run_forever sets running, whatever stop has set it to before.           *)
LoopBegins ==
  /\ loop = "new"
  /\ running' = TRUE /\ loop' = "guard"
  /\ UNCHANGED <<n, main, rowvars, late, verdict, listed, cut, cancel, archive,
                 record, faults>>

(* The guard of the tick.                                                  *)
Guard ==
  /\ loop = "guard"
  /\ IF status = "ACTIVE" THEN loop' = "busy" /\ UNCHANGED running
     ELSE loop' = "asleep" /\ running' = FALSE
  /\ UNCHANGED <<n, main, rowvars, late, verdict, listed, cut, cancel, archive,
                 record, faults>>

Worked(old) == IF old = "open" THEN {"open", "done", "failed"} ELSE {old}

(* The phases before the completion check; answers are left to tasks of    *)
(* their own.                                                              *)
Work ==
  /\ loop = "busy"
  /\ loop' = "count"
  /\ tasks' \in Worked(tasks)
  /\ late' \in {late, TRUE}
  /\ UNCHANGED <<n, main, status, verdict, running, listed, cut, cancel, archive,
                 record, faults>>

(* An answer is processed, in its own time, whatever became of the run.    *)
LateAnswer ==
  /\ late
  /\ tasks' \in Worked(tasks)
  /\ late' = FALSE
  /\ UNCHANGED <<n, main, status, loop, verdict, running, listed, cut, cancel,
                 archive, record, faults>>

(* Tasks that are not in a terminal phase do not stop the check.           *)
FaultyCount ==
  /\ loop = "count"
  /\ loop' = "judged"
  /\ verdict' = IF tasks = "failed" THEN "FAILED" ELSE "COMPLETED"
  /\ UNCHANGED <<n, main, rowvars, late, running, listed, cut, cancel, archive,
                 record, faults>>

(* _check_run_completion, up to its update.                                *)
Count ==
  /\ loop = "count"
  /\ IF tasks = "open" THEN loop' = "asleep" /\ UNCHANGED verdict
     ELSE /\ loop' = "judged"
          /\ verdict' = IF tasks = "failed" THEN "FAILED" ELSE "COMPLETED"
  /\ UNCHANGED <<n, main, rowvars, late, running, listed, cut, cancel, archive,
                 record, faults>>

(* Its update, which asks for no status.                                   *)
Declare ==
  /\ loop = "judged"
  /\ status' = verdict /\ loop' = "asleep" /\ verdict' = "ACTIVE"
  /\ UNCHANGED <<n, main, tasks, late, running, listed, cut, cancel,
                 archive, record, faults>>

(* The tick raises and is rolled back.                                     *)
TickFails ==
  /\ Fault
  /\ loop \in {"busy", "count", "judged"}
  /\ loop' = "asleep" /\ verdict' = "ACTIVE"
  /\ UNCHANGED <<n, main, rowvars, late, running, listed, cut, cancel,
                 archive, record>>

(* The guard raises, outside the handler of the tick: the heartbeat ends,  *)
(* which nobody hears of before stop_run waits for it.                     *)
GuardFails ==
  /\ Fault
  /\ loop = "guard"
  /\ loop' = "ended"
  /\ UNCHANGED <<n, main, rowvars, late, verdict, running, listed, cut, cancel,
                 archive, record>>

Wake ==
  /\ loop = "asleep"
  /\ loop' = IF running THEN "guard" ELSE "ended"
  /\ UNCHANGED <<n, main, rowvars, late, verdict, running, listed, cut, cancel,
                 archive, record, faults>>

(* The cancellation reaches the heartbeat where it waits; a commit that    *)
(* was under way may still be carried out.                                 *)
CutShort ==
  /\ Awaiting
  /\ cut /\ loop \notin {"none", "ended"}
  /\ loop' = "ended" /\ verdict' = "ACTIVE"
  /\ \/ UNCHANGED status
     \/ loop = "judged" /\ status' = verdict
  /\ UNCHANGED <<n, main, tasks, late, running, listed, cut, cancel,
                 archive, record, faults>>

-----------------------------------------------------------------------------
(* cancel_run: the status first, then the heartbeat, whose stop() is a     *)
(* coroutine nobody awaits.                                                *)
CancelMark ==
  /\ cancel = "none" /\ main \notin {"over", "created"}
  /\ cancel' = "marked" /\ status' = "CANCELLED"
  /\ UNCHANGED <<n, main, tasks, engine, listed, archive, record, faults>>

CancelTear ==
  /\ cancel = "marked" /\ main # "over"
  /\ cancel' = "returned"
  /\ cut' = (cut \/ listed) /\ listed' = FALSE
  /\ UNCHANGED <<n, main, rowvars, late, loop, verdict, running, archive, record,
                 faults>>

(* main, once its run is created and unless a write fails.                 *)
MainStep ==
  \/ StartRun \/ SeeEnd \/ WriteArchive
  \/ Retain \/ CompressNext \/ ListTars \/ Unlink \/ EndRetention
  \/ TimeOut \/ StopRun \/ StopTimesOut \/ Stopped

LoopStep ==
  /\ Awaiting
  /\ LoopBegins \/ Guard \/ Work \/ Count \/ Declare \/ Wake

Next ==
  \/ CreateRun \/ MainStep \/ ArchiveFails \/ Crash
  \/ LoopStep \/ CutShort
  \/ Awaiting /\ (TickFails \/ GuardFails \/ LateAnswer \/ CancelMark \/ CancelTear)

(* The event loop resumes whatever can go on, its timers fire, and it      *)
(* delivers a cancellation.  Nothing is asked of answers and callers of    *)
(* cancel_run, and nothing has to fail.                                    *)
Fairness == WF_vars(MainStep) /\ WF_vars(LoopStep) /\ WF_vars(CutShort)

Spec == Init /\ [][Next]_vars /\ Fairness

-----------------------------------------------------------------------------
(* Properties.                                                             *)

(* Types of the state; the directories and tarballs in the two sequences   *)
(* are those that hold something.                                          *)
TypeOK ==
  /\ n \in 0..MaxRuns /\ main \in Main
  /\ status \in Status /\ verdict \in Status
  /\ tasks \in {"open", "done", "failed"}
  /\ {late, running, listed, cut} \subseteq BOOLEAN
  /\ loop \in Loop /\ cancel \in {"none", "marked", "returned"}
  /\ dir \in [Run -> Holds] /\ tar \in [Run -> Holds]
  /\ record \in Ended \cup {"none"}
  /\ archived \subseteq Run /\ faults \in 0..MaxFaults
  /\ failures \subseteq Run \X Run \X Wrong
  /\ {dirs, tars, todo} \subseteq Seq(Run) /\ \A seq \in {dirs, tars, todo} : IsInjective(seq)
  /\ ToSet(dirs) = {r \in Run : dir[r] # "none"}
  /\ ToSet(tars) = {r \in Run : tar[r] # "none"}
  /\ todo # <<>> => main \in {"retaining", "capping"}

(* A run is COMPLETED or FAILED only when every one of its tasks has       *)
(* ended, and FAILED exactly when one of them failed: neither an answer    *)
(* that comes while the counts are read, nor the stop of a run out of      *)
(* time, makes it otherwise.                                               *)
VerdictJustified ==
  /\ status = "COMPLETED" => tasks = "done"
  /\ status = "FAILED" => tasks = "failed"

(* The archive of a run nobody cancelled says of it what the database      *)
(* says, also after stop_run and after a failed tick.                      *)
ArchiveAgrees ==
  record # "none" /\ cancel = "none" => record = status

(* When main is through, the heartbeat has ended, or is about to by a      *)
(* cancellation, also when stop_run came before it had begun.              *)
NoLoopLeft == main = "over" => loop \in {"none", "ended"} \/ cut

(* Runs whose directory was removed in part.                               *)
Damaged == {r \in Run : \E m \in Run : <<m, r, "half removed">> \in failures}

(* An archived run can be read in full, as directory or as tarball, until  *)
(* KeepLast + KeepCompressed runs have come after it.  Every compression   *)
(* that goes wrong takes one of these places, as the order in which the    *)
(* oldest are removed changes with it; if it spoils a directory, the       *)
(* record of that run is lost as well.                                     *)
RecordKept ==
  \A r \in archived \ Damaged :
      \/ dir[r] = "whole"
      \/ tar[r] = "whole"
      \/ (n - r) + Cardinality(failures) >= KeepLast + KeepCompressed

(* Every process ends: whatever the tasks do, wherever the heartbeat       *)
(* stands when it is stopped, and whoever cancels the run meanwhile.       *)
EveryProcessEnds == main # "over" ~> main = "over"

-----------------------------------------------------------------------------
(* What the documentation says and the code does not do.                   *)

(* controller.py, cancel_run: "Hard stop: Marks run as CANCELLED and       *)
(* terminates orchestrator immediately", "Mark in DB first (Orchestrator   *)
(* tick check will catch this)".                                           *)
CancelStands ==
  [][status = "CANCELLED" /\ n' = n => status' = "CANCELLED"]_vars
=============================================================================
