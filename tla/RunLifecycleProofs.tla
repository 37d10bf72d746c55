--------------------------- MODULE RunLifecycleProofs ---------------------------
(***************************************************************************)
(* Proofs about RunLifecycle: the verdict on a run, what its archive says  *)
(* of it, where the heartbeat is when main is through, and for how long an *)
(* archived run can be read.                                               *)
(*                                                                         *)
(* The invariant has two halves.  Control is about one process and says    *)
(* nothing of files; Shelves is about the directories and tarballs of all  *)
(* of them.  Between them stand lemmas about lines: sequences in which     *)
(* nothing occurs twice, from which members are removed and put at the end.*)
(***************************************************************************)
EXTENDS RunLifecycle, SequenceTheorems, FiniteSetTheorems, TLAPS

-----------------------------------------------------------------------------
(* The control of one process: everything but the files of the archive.    *)

Typed ==
  /\ main \in Main /\ status \in Status /\ loop \in Loop
  /\ tasks \in {"open", "done", "failed"}
  /\ verdict \in {"ACTIVE", "COMPLETED", "FAILED"}
  /\ cancel \in {"none", "marked", "returned"}
  /\ record \in Ended \cup {"none"}

(* The verdict is justified from the moment the tasks are counted: tasks   *)
(* that have ended stay as they are, so what was true of the counts is     *)
(* still true of the tasks when the status is written.                     *)
CountStands ==
  /\ verdict = "COMPLETED" => tasks = "done"
  /\ verdict = "FAILED" => tasks = "failed"
  /\ loop = "judged" => verdict # "ACTIVE"

(* Only cancel_run cancels, and main writes the archive of ended runs: a   *)
(* verdict declared again afterwards is the one the archive has.           *)
EndsKept ==
  /\ cancel = "none" => status # "CANCELLED"
  /\ main = "archiving" => status \in Ended

(* From start_run to stop_run the controller knows the run, or cancel_run  *)
(* has cancelled its heartbeat; before, there is no heartbeat.             *)
HeartbeatKnown ==
  /\ main = "created" => loop = "none" /\ cancel = "none"
  /\ main \notin {"over", "created"} => listed \/ cut

Control ==
  /\ Typed /\ CountStands /\ EndsKept /\ HeartbeatKnown
  /\ VerdictJustified /\ ArchiveAgrees /\ NoLoopLeft

LEMMA InitControl ==
  ASSUME Init
  PROVE  Control
BY DEF Init, Control, Typed, CountStands, EndsKept, HeartbeatKnown,
       VerdictJustified, ArchiveAgrees, NoLoopLeft, Main, Status, Loop, Ended

(* What main does.                                                         *)
LEMMA MainKeepsControl ==
  ASSUME Control, MainStep \/ CreateRun \/ ArchiveFails \/ Crash
  PROVE  Control'
<1> USE DEF Control, Typed, CountStands, EndsKept, HeartbeatKnown, VerdictJustified,
            ArchiveAgrees, NoLoopLeft, Main, Status, Loop, Ended, rowvars, engine
<1>1. CASE CreateRun
  BY <1>1 DEF CreateRun
<1>2. CASE StartRun
  BY <1>2 DEF StartRun
<1>3. CASE SeeEnd
  BY <1>3 DEF SeeEnd
<1>4. CASE WriteArchive
  BY <1>4 DEF WriteArchive
<1>5. CASE Retain
  BY <1>5 DEF Retain
<1>6. CASE TimeOut
  BY <1>6 DEF TimeOut
<1>7. CASE StopRun
  <2>1. CASE listed
    BY <1>7, <2>1 DEF StopRun
  <2>2. CASE ~listed
    BY <1>7, <2>2 DEF StopRun
  <2>3. QED  BY <2>1, <2>2
<1>8. CASE StopTimesOut
  BY <1>8 DEF StopTimesOut
<1>9. CASE Stopped
  BY <1>9 DEF Stopped
<1>10. CASE ArchiveFails
  BY <1>10 DEF ArchiveFails
<1>11. CASE Crash
  BY <1>11 DEF Crash
<1>12. CASE CompressNext \/ ListTars \/ Unlink \/ EndRetention
  <2>1. /\ UNCHANGED <<rowvars, engine, listed, cancel, record>>
        /\ main \in {"retaining", "capping"}
        /\ main' \in {"retaining", "capping", "stopping"}
    BY <1>12 DEF CompressNext, ListTars, Unlink, EndRetention
  <2>2. QED  BY <2>1
<1>13. QED
  BY <1>1, <1>2, <1>3, <1>4, <1>5, <1>6, <1>7, <1>8, <1>9, <1>10, <1>11, <1>12 DEF MainStep

(* What the heartbeat, the answers and cancel_run do.                      *)
LEMMA LoopKeepsControl ==
  ASSUME Control, LoopStep \/ TickFails \/ GuardFails \/ CutShort \/ LateAnswer
                  \/ CancelMark \/ CancelTear
  PROVE  Control'
<1> USE DEF Control, Typed, CountStands, EndsKept, HeartbeatKnown, VerdictJustified,
            ArchiveAgrees, NoLoopLeft, Main, Status, Loop, Ended, rowvars, engine
<1>1. CASE LoopBegins
  BY <1>1 DEF LoopBegins
<1>2. CASE Guard
  <2>1. CASE status = "ACTIVE"
    BY <1>2, <2>1 DEF Guard
  <2>2. CASE status # "ACTIVE"
    BY <1>2, <2>2 DEF Guard
  <2>3. QED  BY <2>1, <2>2
<1>3. CASE Work
  <2>1. tasks' \in {"open", "done", "failed"} /\ (tasks # "open" => tasks' = tasks)
    BY <1>3 DEF Work, Worked
  <2>2. QED  BY <1>3, <2>1 DEF Work
<1>4. CASE Count
  BY <1>4 DEF Count
<1>5. CASE Declare
  BY <1>5 DEF Declare
<1>6. CASE Wake
  BY <1>6 DEF Wake
<1>7. CASE TickFails \/ GuardFails
  BY <1>7 DEF TickFails, GuardFails
<1>8. CASE CutShort
  BY <1>8 DEF CutShort
<1>9. CASE LateAnswer
  <2>1. tasks' \in {"open", "done", "failed"} /\ (tasks # "open" => tasks' = tasks)
    BY <1>9 DEF LateAnswer, Worked
  <2>2. QED  BY <1>9, <2>1 DEF LateAnswer
<1>10. CASE CancelMark
  BY <1>10 DEF CancelMark
<1>11. CASE CancelTear
  <2>1. /\ cancel = "marked" /\ cancel' = "returned" /\ main # "over"
        /\ UNCHANGED <<main, status, tasks, loop, verdict, record>>
    BY <1>11 DEF CancelTear
  <2>2. listed \/ cut => cut'
    BY <1>11, Zenon DEF CancelTear
  <2>3. QED  BY <2>1, <2>2
<1>12. QED
  BY <1>1, <1>2, <1>3, <1>4, <1>5, <1>6, <1>7, <1>8, <1>9, <1>10, <1>11 DEF LoopStep

LEMMA StutterKeepsControl ==
  ASSUME Control, UNCHANGED vars
  PROVE  Control'
BY DEF vars, Control, Typed, CountStands, EndsKept, HeartbeatKnown, rowvars, engine,
       VerdictJustified, ArchiveAgrees, NoLoopLeft

LEMMA ControlInvariance == Spec => []Control
<1>1. Control /\ [Next]_vars => Control'
  BY MainKeepsControl, LoopKeepsControl, StutterKeepsControl DEF Next
<1>2. QED  BY <1>1, InitControl, PTL DEF Spec

-----------------------------------------------------------------------------
(* The theorems.                                                           *)

(* A run is COMPLETED or FAILED only as its tasks have it, for any number  *)
(* of runs and faults: between the count and the write nothing changes     *)
(* that was counted, and nobody else writes such a status.                 *)
THEOREM VerdictsAreJustified == Spec => []VerdictJustified
<1>1. Control => VerdictJustified
  BY DEF Control
<1>2. QED  BY <1>1, ControlInvariance, PTL

(* What the manifest of a run says of its end is what the database says,   *)
(* unless somebody called cancel_run: a tick that is still under way can   *)
(* only declare the same verdict again.                                    *)
THEOREM ArchivesAgree == Spec => []ArchiveAgrees
<1>1. Control => ArchiveAgrees
  BY DEF Control
<1>2. QED  BY <1>1, ControlInvariance, PTL

(* No heartbeat outlives main without a cancellation on its way.           *)
THEOREM HeartbeatsEnd == Spec => []NoLoopLeft
<1>1. Control => NoLoopLeft
  BY DEF Control
<1>2. QED  BY <1>1, ControlInvariance, PTL

-----------------------------------------------------------------------------
(* Sequences without repetition.                                           *)

Precedes(seq, s, t) == \E i, j \in DOMAIN seq : i < j /\ seq[i] = s /\ seq[j] = t

Line(seq) == seq \in Seq(Run) /\ IsInjective(seq)

LEMMA LineIs ==
  ASSUME NEW seq, Line(seq)
  PROVE  /\ Len(seq) \in Nat /\ DOMAIN seq = 1..Len(seq)
         /\ \A i \in 1..Len(seq) : seq[i] \in Run
         /\ \A i, j \in 1..Len(seq) : seq[i] = seq[j] => i = j
         /\ \A r : r \in ToSet(seq) <=> \E i \in 1..Len(seq) : seq[i] = r
         /\ ToSet(seq) \subseteq Run
<1>1. /\ Len(seq) \in Nat /\ DOMAIN seq = 1..Len(seq)
      /\ \A i \in 1..Len(seq) : seq[i] \in Run
  BY LenProperties DEF Line
<1>2. QED  BY <1>1 DEF Line, IsInjective, ToSet

(* Nothing stands twice, so it is either before or behind.                 *)
LEMMA LineOrder ==
  ASSUME NEW seq, Line(seq)
  PROVE  /\ \A s, t : Precedes(seq, s, t) =>
              s \in ToSet(seq) /\ t \in ToSet(seq) /\ ~Precedes(seq, t, s) /\ s # t
         /\ \A s, t \in ToSet(seq) : s = t \/ Precedes(seq, s, t) \/ Precedes(seq, t, s)
<1>1. /\ Len(seq) \in Nat /\ DOMAIN seq = 1..Len(seq)
      /\ \A i, j \in 1..Len(seq) : seq[i] = seq[j] => i = j
      /\ \A r : r \in ToSet(seq) <=> \E i \in 1..Len(seq) : seq[i] = r
  BY LineIs
<1>2. ASSUME NEW s, NEW t, Precedes(seq, s, t)
      PROVE  s \in ToSet(seq) /\ t \in ToSet(seq) /\ ~Precedes(seq, t, s) /\ s # t
  BY <1>1, <1>2 DEF Precedes
<1>3. ASSUME NEW s \in ToSet(seq), NEW t \in ToSet(seq), s # t
      PROVE  Precedes(seq, s, t) \/ Precedes(seq, t, s)
  <2>1. PICK i \in 1..Len(seq) : seq[i] = s
    BY <1>1
  <2>2. PICK j \in 1..Len(seq) : seq[j] = t
    BY <1>1
  <2>3. i < j \/ j < i
    BY <1>1, <1>3, <2>1, <2>2
  <2>4. QED  BY <1>1, <2>1, <2>2, <2>3 DEF Precedes
<1>4. QED  BY <1>2, <1>3

(* As many stand in it as it is long.                                      *)
LEMMA LineCount ==
  ASSUME NEW seq, Line(seq)
  PROVE  IsFiniteSet(ToSet(seq)) /\ Cardinality(ToSet(seq)) = Len(seq)
<1>1. /\ Len(seq) \in Nat /\ DOMAIN seq = 1..Len(seq) /\ seq \in [1..Len(seq) -> Run]
  BY LenProperties DEF Line
<1>2. seq \in Bijection(1..Len(seq), ToSet(seq))
  BY <1>1 DEF Line, ToSet, Bijection, Injection, Surjection, IsInjective
<1>3. IsFiniteSet(1..Len(seq)) /\ Cardinality(1..Len(seq)) = Len(seq)
  BY <1>1, FS_Interval
<1>4. ExistsBijection(1..Len(seq), ToSet(seq))
  BY <1>2 DEF ExistsBijection
<1>5. QED  BY <1>3, <1>4, FS_Bijection

(* What is appended stands behind all that was there.                      *)
LEMMA AppendLine ==
  ASSUME NEW seq, Line(seq), NEW r \in Run, r \notin ToSet(seq)
  PROVE  /\ Line(Append(seq, r)) /\ ToSet(Append(seq, r)) = ToSet(seq) \cup {r}
         /\ \A s, t : Precedes(Append(seq, r), s, t) <=>
              Precedes(seq, s, t) \/ (s \in ToSet(seq) /\ t = r)
<1> DEFINE more == Append(seq, r)
           len == Len(seq)
<1>1. /\ len \in Nat /\ DOMAIN seq = 1..len
      /\ \A i, j \in 1..len : seq[i] = seq[j] => i = j
      /\ \A q : q \in ToSet(seq) <=> \E i \in 1..len : seq[i] = q
  BY LineIs
<1>2. /\ more \in Seq(Run) /\ Len(more) = len + 1
      /\ \A i \in 1..len : more[i] = seq[i]
      /\ more[len + 1] = r
  BY AppendProperties DEF Line
<1>3. DOMAIN more = 1..(len + 1)
  BY <1>2, LenProperties
<1> HIDE DEF more, len
<1>4. \A i \in 1..(len + 1) : i \in 1..len \/ i = len + 1
  BY <1>1
<1>5. \A i \in 1..len : i \in 1..(len + 1) /\ i < len + 1
  BY <1>1
<1>6. IsInjective(more)
  BY <1>1, <1>2, <1>3, <1>4 DEF IsInjective
<1>7. \A q : q \in ToSet(more) <=> q \in ToSet(seq) \/ q = r
  BY <1>1, <1>2, <1>3, <1>4, <1>5 DEF ToSet
<1>8. ASSUME NEW s, NEW t
      PROVE  Precedes(more, s, t) <=> Precedes(seq, s, t) \/ (s \in ToSet(seq) /\ t = r)
  <2>1. ASSUME Precedes(more, s, t)
        PROVE  Precedes(seq, s, t) \/ (s \in ToSet(seq) /\ t = r)
    <3>1. PICK i \in 1..(len + 1), j \in 1..(len + 1) : i < j /\ more[i] = s /\ more[j] = t
      BY <1>3, <2>1 DEF Precedes
    <3>2. i \in 1..len
      BY <1>1, <3>1
    <3>3. CASE j = len + 1
      BY <1>1, <1>2, <3>1, <3>2, <3>3
    <3>4. CASE j \in 1..len
      BY <1>1, <1>2, <3>1, <3>2, <3>4 DEF Precedes
    <3>5. QED  BY <1>4, <3>3, <3>4
  <2>2. ASSUME Precedes(seq, s, t)
        PROVE  Precedes(more, s, t)
    BY <1>1, <1>2, <1>3, <1>5, <2>2 DEF Precedes
  <2>3. ASSUME s \in ToSet(seq), t = r
        PROVE  Precedes(more, s, t)
    <3>1. PICK i \in 1..len : seq[i] = s
      BY <1>1, <2>3
    <3>2. i \in DOMAIN more /\ len + 1 \in DOMAIN more /\ i < len + 1
      BY <1>1, <1>3, <1>5
    <3>3. QED  BY <1>2, <2>3, <3>1, <3>2 DEF Precedes
  <2>4. QED  BY <2>1, <2>2, <2>3
<1>9. QED  BY <1>2, <1>6, <1>7, <1>8 DEF Line, more

(* What is taken out leaves the others in their order.                     *)
LEMMA RemoveAtLine ==
  ASSUME NEW seq, Line(seq), NEW i \in DOMAIN seq
  PROVE  /\ Line(RemoveAt(seq, i)) /\ ToSet(RemoveAt(seq, i)) = ToSet(seq) \ {seq[i]}
         /\ \A s, t : Precedes(RemoveAt(seq, i), s, t) <=>
              Precedes(seq, s, t) /\ s # seq[i] /\ t # seq[i]
<1> DEFINE rest == RemoveAt(seq, i)
           front == SubSeq(seq, 1, i - 1)
           rear == SubSeq(seq, i + 1, Len(seq))
           len == Len(seq)
<1>1. /\ len \in Nat /\ DOMAIN seq = 1..len /\ i \in 1..len
      /\ \A j \in 1..len : seq[j] \in Run
      /\ \A j, k \in 1..len : seq[j] = seq[k] => j = k
      /\ \A q : q \in ToSet(seq) <=> \E j \in 1..len : seq[j] = q
  BY LineIs
<1>2. /\ front \in Seq(Run) /\ Len(front) = i - 1
      /\ \A j \in 1..(i - 1) : front[j] = seq[j]
  BY <1>1, SubSeqProperties
<1>3. /\ rear \in Seq(Run) /\ Len(rear) = len - i
      /\ \A j \in 1..(len - i) : rear[j] = seq[i + j]
  BY <1>1, SubSeqProperties
<1>4. /\ rest \in Seq(Run) /\ Len(rest) = len - 1
      /\ \A j \in 1..(len - 1) :
           rest[j] = IF j <= i - 1 THEN front[j] ELSE rear[j - (i - 1)]
  <2>0. rest = front \o rear
    BY DEF RemoveAt
  <2> HIDE DEF front, rear, rest
  <2>1. /\ front \o rear \in Seq(Run) /\ Len(front \o rear) = Len(front) + Len(rear)
        /\ \A j \in 1..(Len(front) + Len(rear)) :
             (front \o rear)[j] = IF j <= Len(front) THEN front[j] ELSE rear[j - Len(front)]
    BY <1>2, <1>3, ConcatProperties
  <2>2. Len(front) + Len(rear) = len - 1
    BY <1>1, <1>2, <1>3
  <2>3. QED  BY <1>2, <2>0, <2>1, <2>2
<1>5. DOMAIN rest = 1..(len - 1)
  BY <1>4, LenProperties
<1> HIDE DEF rest, front, rear, len
<1>6. \A j \in 1..(len - 1) : j < i => j \in 1..len /\ rest[j] = seq[j]
  BY <1>1, <1>2, <1>4
<1>7. \A j \in 1..(len - 1) : ~(j < i) => j + 1 \in 1..len /\ rest[j] = seq[j + 1]
  <2> SUFFICES ASSUME NEW j \in 1..(len - 1), ~(j < i)
               PROVE  j + 1 \in 1..len /\ rest[j] = seq[j + 1]
    OBVIOUS
  <2>1. j - (i - 1) \in 1..(len - i) /\ i + (j - (i - 1)) = j + 1 /\ ~(j <= i - 1)
    BY <1>1
  <2>2. rest[j] = rear[j - (i - 1)]
    BY <1>4, <2>1
  <2>3. rear[j - (i - 1)] = seq[i + (j - (i - 1))]
    BY <1>3, <2>1
  <2>4. j + 1 \in 1..len
    BY <1>1
  <2>5. QED  BY <2>1, <2>2, <2>3, <2>4
<1> DEFINE up1(j) == IF j < i THEN j ELSE j + 1
           down(j) == IF j < i THEN j ELSE j - 1
<1>8. /\ \A j \in 1..(len - 1) : up1(j) \in 1..len /\ up1(j) # i /\ rest[j] = seq[up1(j)]
      /\ \A j, k \in 1..(len - 1) : (j < k <=> up1(j) < up1(k)) /\ (up1(j) = up1(k) => j = k)
  BY <1>1, <1>6, <1>7
<1>9. \A j \in 1..len : j # i => down(j) \in 1..(len - 1) /\ up1(down(j)) = j
  BY <1>1
<1> HIDE DEF up1, down
<1>10. IsInjective(rest)
  BY <1>1, <1>5, <1>8 DEF IsInjective
<1>11. \A q : q \in ToSet(rest) <=> q \in ToSet(seq) /\ q # seq[i]
  <2>1. \A q : q \in ToSet(rest) <=> \E j \in 1..(len - 1) : rest[j] = q
    BY <1>5 DEF ToSet
  <2>2. QED  BY <1>1, <1>8, <1>9, <2>1
<1>12. ASSUME NEW s, NEW t
       PROVE  Precedes(rest, s, t) <=> Precedes(seq, s, t) /\ s # seq[i] /\ t # seq[i]
  <2>1. ASSUME Precedes(rest, s, t)
        PROVE  Precedes(seq, s, t) /\ s # seq[i] /\ t # seq[i]
    <3>1. PICK j \in 1..(len - 1), k \in 1..(len - 1) : j < k /\ rest[j] = s /\ rest[k] = t
      BY <1>5, <2>1 DEF Precedes
    <3>2. /\ up1(j) \in 1..len /\ up1(k) \in 1..len /\ up1(j) < up1(k)
          /\ seq[up1(j)] = s /\ seq[up1(k)] = t /\ up1(j) # i /\ up1(k) # i
      BY <1>8, <3>1
    <3>3. QED  BY <1>1, <3>2 DEF Precedes
  <2>2. ASSUME Precedes(seq, s, t), s # seq[i], t # seq[i]
        PROVE  Precedes(rest, s, t)
    <3>1. PICK j \in 1..len, k \in 1..len : j < k /\ seq[j] = s /\ seq[k] = t
      BY <1>1, <2>2 DEF Precedes
    <3>2. /\ down(j) \in 1..(len - 1) /\ down(k) \in 1..(len - 1)
          /\ up1(down(j)) = j /\ up1(down(k)) = k
      BY <1>9, <2>2, <3>1
    <3>3. down(j) < down(k) /\ rest[down(j)] = s /\ rest[down(k)] = t
      BY <1>8, <3>1, <3>2
    <3>4. QED  BY <1>5, <3>2, <3>3 DEF Precedes
  <2>3. QED  BY <2>1, <2>2
<1>13. QED  BY <1>4, <1>10, <1>11, <1>12 DEF Line, rest

LEMMA RemoveLine ==
  ASSUME NEW seq, Line(seq), NEW r
  PROVE  /\ Line(RemoveFirst(seq, r)) /\ ToSet(RemoveFirst(seq, r)) = ToSet(seq) \ {r}
         /\ \A s, t : Precedes(RemoveFirst(seq, r), s, t) <=>
              Precedes(seq, s, t) /\ s # r /\ t # r
<1>1. /\ Len(seq) \in Nat /\ DOMAIN seq = 1..Len(seq)
      /\ \A i, j \in 1..Len(seq) : seq[i] = seq[j] => i = j
      /\ \A q : q \in ToSet(seq) <=> \E i \in 1..Len(seq) : seq[i] = q
  BY LineIs
<1>2. CASE r \in ToSet(seq)
  <2>1. PICK i \in 1..Len(seq) : seq[i] = r
    BY <1>1, <1>2
  <2>2. {j \in 1..Len(seq) : seq[j] = r} = {i}
    BY <1>1, <2>1
  <2>3. Min({i}) = i
    BY <1>1 DEF Min
  <2>4. SelectInSeq(seq, LAMBDA v : v = r) = i
    BY <2>2, <2>3 DEF SelectInSeq
  <2>5. RemoveFirst(seq, r) = RemoveAt(seq, i)
    BY <1>1, <2>1, <2>4 DEF RemoveFirst
  <2>6. QED  BY <1>1, <2>1, <2>5, RemoveAtLine
<1>3. CASE r \notin ToSet(seq)
  <2>1. RemoveFirst(seq, r) = seq
    BY <1>1, <1>3 DEF RemoveFirst
  <2>2. QED  BY <1>3, <2>1, LineOrder
<1>4. QED  BY <1>2, <1>3

(* What is touched becomes the newest.                                     *)
LEMMA TouchedLine ==
  ASSUME NEW seq, Line(seq), NEW r \in Run
  PROVE  /\ Line(Touched(seq, r)) /\ ToSet(Touched(seq, r)) = ToSet(seq) \cup {r}
         /\ \A s, t : Precedes(Touched(seq, r), s, t) <=>
              \/ Precedes(seq, s, t) /\ s # r /\ t # r
              \/ s \in ToSet(seq) /\ s # r /\ t = r
<1>1. /\ Line(RemoveFirst(seq, r)) /\ ToSet(RemoveFirst(seq, r)) = ToSet(seq) \ {r}
      /\ \A s, t : Precedes(RemoveFirst(seq, r), s, t) <=>
           Precedes(seq, s, t) /\ s # r /\ t # r
  BY RemoveLine
<1> DEFINE rest == RemoveFirst(seq, r)
<1> HIDE DEF rest
<1>2. /\ Line(Append(rest, r)) /\ ToSet(Append(rest, r)) = ToSet(rest) \cup {r}
      /\ \A s, t : Precedes(Append(rest, r), s, t) <=>
           Precedes(rest, s, t) \/ (s \in ToSet(rest) /\ t = r)
  BY <1>1, AppendLine DEF rest
<1>3. Touched(seq, r) = Append(rest, r)
  BY DEF Touched, rest
<1>4. QED  BY <1>1, <1>2, <1>3 DEF rest

(* The head of a list goes first.                                          *)
LEMMA TailLine ==
  ASSUME NEW seq, Line(seq), seq # <<>>
  PROVE  /\ Line(Tail(seq)) /\ Head(seq) \in ToSet(seq)
         /\ ToSet(Tail(seq)) = ToSet(seq) \ {Head(seq)}
         /\ \A s, t : Precedes(Tail(seq), s, t) <=>
              Precedes(seq, s, t) /\ s # Head(seq) /\ t # Head(seq)
         /\ \A t \in ToSet(seq) : t # Head(seq) => Precedes(seq, Head(seq), t)
<1>1. /\ Len(seq) \in Nat \ {0} /\ DOMAIN seq = 1..Len(seq) /\ Head(seq) = seq[1]
      /\ \A i \in 1..Len(seq) : seq[i] \in Run
      /\ \A q : q \in ToSet(seq) <=> \E i \in 1..Len(seq) : seq[i] = q
  BY LineIs, EmptySeq DEF Line
<1>2. 1 \in DOMAIN seq /\ Head(seq) \in ToSet(seq)
  BY <1>1
<1>3. Tail(seq) = RemoveAt(seq, 1)
  <2>1. /\ Tail(seq) \in Seq(Run) /\ Len(Tail(seq)) = Len(seq) - 1
        /\ \A j \in 1..(Len(seq) - 1) : Tail(seq)[j] = seq[j + 1]
    BY HeadTailProperties DEF Line
  <2>2. SubSeq(seq, 1, 1 - 1) = <<>>
    BY SubSeqEmpty
  <2>3. /\ SubSeq(seq, 2, Len(seq)) \in Seq(Run) /\ Len(SubSeq(seq, 2, Len(seq))) = Len(seq) - 1
        /\ \A j \in 1..(Len(seq) - 1) : SubSeq(seq, 2, Len(seq))[j] = seq[j + 1]
    BY <1>1, SubSeqProperties
  <2>4. Tail(seq) = SubSeq(seq, 2, Len(seq))
    BY <1>1, <2>1, <2>3, SeqEqual
  <2>5. RemoveAt(seq, 1) = <<>> \o SubSeq(seq, 2, Len(seq))
    BY <2>2 DEF RemoveAt
  <2>6. QED  BY <2>3, <2>4, <2>5, ConcatEmptySeq
<1>4. \A t \in ToSet(seq) : t # Head(seq) => Precedes(seq, Head(seq), t)
  <2> SUFFICES ASSUME NEW t \in ToSet(seq), t # Head(seq)
               PROVE  Precedes(seq, Head(seq), t)
    OBVIOUS
  <2>1. PICK i \in 1..Len(seq) : seq[i] = t
    BY <1>1
  <2>2. 1 < i
    BY <1>1, <2>1
  <2>3. QED  BY <1>1, <1>2, <2>1, <2>2 DEF Precedes
<1>5. /\ Line(RemoveAt(seq, 1)) /\ ToSet(RemoveAt(seq, 1)) = ToSet(seq) \ {seq[1]}
      /\ \A s, t : Precedes(RemoveAt(seq, 1), s, t) <=>
           Precedes(seq, s, t) /\ s # seq[1] /\ t # seq[1]
  BY <1>2, RemoveAtLine
<1>6. Head(seq) = seq[1]
  BY <1>1
<1>7. QED  BY <1>2, <1>3, <1>4, <1>5, <1>6

-----------------------------------------------------------------------------
(* What enforce_retention lists.                                           *)

(* Those that stand behind one.                                            *)
Behind(seq, r) == {s \in Run : Precedes(seq, r, s)}

LEMMA BehindFinite ==
  ASSUME NEW seq, Line(seq), NEW r
  PROVE  IsFiniteSet(Behind(seq, r)) /\ Cardinality(Behind(seq, r)) \in Nat
<1>1. Behind(seq, r) \in SUBSET ToSet(seq)
  BY LineOrder DEF Behind
<1>2. IsFiniteSet(ToSet(seq))
  BY LineCount
<1>3. IsFiniteSet(Behind(seq, r))
  BY <1>1, <1>2, FS_Subset
<1>4. QED  BY <1>3, FS_CardinalityType

(* The oldest beyond the number to keep stand in front, in their order,    *)
(* and as many as are to be kept stand behind each of them.                *)
LEMMA SurplusIs ==
  ASSUME NEW seq, Line(seq), NEW keep \in Nat
  PROVE  LET old == Surplus(seq, keep) IN
         /\ Line(old) /\ ToSet(old) \subseteq ToSet(seq)
         /\ old # <<>> => Cardinality(ToSet(seq)) >= keep + Cardinality(ToSet(old))
         /\ \A s, t : Precedes(old, s, t) => Precedes(seq, s, t)
         /\ \A s, t : t \in ToSet(old) /\ Precedes(seq, s, t) => Precedes(old, s, t)
         /\ \A t \in ToSet(old) : Cardinality(Behind(seq, t)) >= keep
<1> DEFINE old  == Surplus(seq, keep)
           len  == Len(seq)
           rear == SubSeq(seq, len - keep + 1, len)
<1>1. /\ len \in Nat /\ DOMAIN seq = 1..len
      /\ \A i \in 1..len : seq[i] \in Run
      /\ \A i, j \in 1..len : seq[i] = seq[j] => i = j
      /\ \A q : q \in ToSet(seq) <=> \E i \in 1..len : seq[i] = q
  BY LineIs
<1>2. CASE ~(len > keep)
  <2>1. old = <<>>
    BY <1>2 DEF Surplus
  <2>2. Line(<<>>) /\ ToSet(<<>>) = {} /\ \A s, t : ~Precedes(<<>>, s, t)
    BY EmptySeq DEF Line, IsInjective, ToSet, Precedes
  <2> HIDE DEF old
  <2>3. QED  BY <2>1, <2>2 DEF old
<1>3. CASE len > keep
  <2>1. old = SubSeq(seq, 1, len - keep)
    BY <1>3 DEF Surplus
  <2>2. /\ old \in Seq(Run) /\ Len(old) = len - keep
        /\ \A i \in 1..(len - keep) : old[i] = seq[i]
    <3>1. /\ SubSeq(seq, 1, len - keep) \in Seq(Run)
          /\ Len(SubSeq(seq, 1, len - keep)) =
               IF 1 <= len - keep THEN len - keep - 1 + 1 ELSE 0
          /\ \A i \in 1..(len - keep - 1 + 1) :
               SubSeq(seq, 1, len - keep)[i] = seq[1 + i - 1]
      <4>1. 1 \in Int /\ len - keep \in Int /\ \A i \in 1..(len - keep) : seq[i] \in Run
        BY <1>1, <1>3
      <4> HIDE DEF len
      <4>2. QED  BY <4>1, SubSeqProperties
    <3> HIDE DEF old, len
    <3>2. len - keep - 1 + 1 = len - keep /\ 1 <= len - keep
          /\ \A i \in 1..(len - keep) : 1 + i - 1 = i
      BY <1>1, <1>3
    <3>3. QED  BY <2>1, <3>1, <3>2
  <2>3. /\ rear \in Seq(Run) /\ Len(rear) = keep
        /\ \A i \in 1..keep : rear[i] = seq[len - keep + 1 + i - 1]
    <3>1. \A i \in (len - keep + 1)..len : seq[i] \in Run
      BY <1>1, <1>3
    <3>2. len - keep + 1 \in Int /\ len \in Int
      BY <1>1
    <3>3. /\ rear \in Seq(Run)
          /\ Len(rear) = IF len - keep + 1 <= len THEN len - (len - keep + 1) + 1 ELSE 0
          /\ \A i \in 1..(len - (len - keep + 1) + 1) : rear[i] = seq[len - keep + 1 + i - 1]
      BY <3>1, <3>2, SubSeqProperties
    <3>4. len - (len - keep + 1) + 1 = keep /\ (len - keep + 1 <= len <=> keep # 0)
      BY <1>1
    <3> HIDE DEF rear, len
    <3>5. QED  BY <3>3, <3>4
  <2>4. DOMAIN old = 1..(len - keep) /\ DOMAIN rear = 1..keep
    BY <2>2, <2>3, LenProperties
  <2> HIDE DEF old, rear, len
  <2>5. \A i \in 1..(len - keep) : i \in 1..len
    BY <1>1, <1>3
  <2>6. Line(old)
    BY <1>1, <2>2, <2>4, <2>5 DEF Line, IsInjective
  <2>7. \A q : q \in ToSet(old) <=> \E i \in 1..(len - keep) : seq[i] = q
    BY <2>2, <2>4 DEF ToSet
  <2>8. ToSet(old) \subseteq ToSet(seq)
    BY <1>1, <2>5, <2>7
  <2>9. Cardinality(ToSet(seq)) >= keep + Cardinality(ToSet(old))
    <3>1. Cardinality(ToSet(seq)) = len /\ Cardinality(ToSet(old)) = len - keep
      BY <2>2, <2>6, LineCount DEF len
    <3>2. QED  BY <1>1, <3>1
  <2>10. \A s, t : Precedes(old, s, t) => Precedes(seq, s, t)
    BY <1>1, <2>2, <2>4, <2>5 DEF Precedes
  <2>11. ASSUME NEW s, NEW t, t \in ToSet(old), Precedes(seq, s, t)
         PROVE  Precedes(old, s, t)
    <3>1. PICK i \in 1..len, j \in 1..len : i < j /\ seq[i] = s /\ seq[j] = t
      BY <1>1, <2>11 DEF Precedes
    <3>2. j \in 1..(len - keep)
      BY <1>1, <2>5, <2>7, <2>11, <3>1
    <3>3. i \in 1..(len - keep)
      BY <1>1, <3>1, <3>2
    <3>4. QED  BY <2>2, <2>4, <3>1, <3>2, <3>3 DEF Precedes
  <2>12. ASSUME NEW t \in ToSet(old)
         PROVE  Cardinality(Behind(seq, t)) >= keep
    <3>1. PICK i \in 1..(len - keep) : seq[i] = t
      BY <2>7
    <3>2. \A k \in 1..keep : /\ len - keep + 1 + k - 1 \in 1..len
                             /\ i < len - keep + 1 + k - 1
      BY <1>1, <1>3, <3>1
    <3>3. \A q \in ToSet(rear) : q \in Behind(seq, t)
      <4> SUFFICES ASSUME NEW q \in ToSet(rear)
                   PROVE  q \in Behind(seq, t)
        OBVIOUS
      <4>1. PICK k \in 1..keep : rear[k] = q
        BY <2>4 DEF ToSet
      <4>2. /\ len - keep + 1 + k - 1 \in 1..len /\ i < len - keep + 1 + k - 1
            /\ seq[len - keep + 1 + k - 1] = q
        BY <2>3, <3>2, <4>1
      <4>3. i \in 1..len
        BY <2>5
      <4>4. QED  BY <1>1, <3>1, <4>2, <4>3 DEF Behind, Precedes
    <3>4. Line(rear)
      <4> SUFFICES ASSUME NEW j \in 1..keep, NEW k \in 1..keep, rear[j] = rear[k]
                   PROVE  j = k
        BY <2>3, <2>4 DEF Line, IsInjective
      <4>1. len - keep + 1 + j - 1 = len - keep + 1 + k - 1
        BY <1>1, <2>3, <3>2
      <4>2. QED  BY <1>1, <4>1
    <3>5. Cardinality(ToSet(rear)) = keep
      BY <2>3, <3>4, LineCount
    <3>6. IsFiniteSet(Behind(seq, t)) /\ ToSet(rear) \in SUBSET Behind(seq, t)
      BY <3>3, BehindFinite
    <3>7. Cardinality(ToSet(rear)) <= Cardinality(Behind(seq, t))
      BY <3>6, FS_Subset
    <3>8. Cardinality(Behind(seq, t)) \in Nat
      BY BehindFinite
    <3>9. QED  BY <3>5, <3>7, <3>8
  <2>13. QED  BY <2>6, <2>8, <2>9, <2>10, <2>11, <2>12 DEF old
<1>4. QED  BY <1>2, <1>3

-----------------------------------------------------------------------------
(* The files of the archive.                                               *)

Files ==
  /\ n \in 0..MaxRuns /\ faults \in 0..MaxFaults
  /\ dir \in [Run -> Holds] /\ tar \in [Run -> Holds] /\ archived \subseteq Run
  /\ failures \subseteq Run \X Run \X Wrong /\ IsFiniteSet(failures)
  /\ Line(dirs) /\ Line(tars) /\ Line(todo)
  /\ ToSet(dirs) = {r \in Run : dir[r] # "none"}
  /\ ToSet(tars) = {r \in Run : tar[r] # "none"}
  /\ todo # <<>> => main \in {"retaining", "capping"}

(* No file is of a run to come, and a run has its archive written once.    *)
Numbered ==
  /\ main # "over" => n \in Run
  /\ \A r \in ToSet(dirs) : r <= n
  /\ \A r \in archived : r <= n
  /\ main \in {"created", "polling", "archiving"} => n \in ToSet(dirs) \ archived
  /\ \A r \in archived \ Damaged : dir[r] \in {"whole", "none"}

(* The compressions of a process go wrong while it compresses, and each    *)
(* has a process of its own: they are told apart.                          *)
Counted ==
  \A m, r \in Run, how \in Wrong : <<m, r, how>> \in failures =>
     /\ m <= n
     /\ main \in {"created", "polling", "archiving", "auditing"} => m # n

(* The directories stand in the order of their runs, but for those that    *)
(* were removed in part.                                                   *)
InOrder ==
  \A s, t \in ToSet(dirs) : s < t => Precedes(dirs, s, t) \/ s \in Damaged

(* Runs of which some compression went wrong.                              *)
Troubled == {r \in Run : \E m \in Run, how \in Wrong : <<m, r, how>> \in failures}

(* What is to be compressed has only what went wrong before it, and leaves *)
(* enough directories.                                                     *)
Listing ==
  main = "retaining" =>
    /\ todo # <<>> => Cardinality(ToSet(dirs)) >= KeepLast + Cardinality(ToSet(todo))
    /\ ToSet(todo) \subseteq ToSet(dirs)
    /\ \A t \in ToSet(todo), s \in ToSet(dirs) :
         Precedes(dirs, s, t) => Precedes(todo, s, t) \/ s \in Troubled
    /\ \A t \in ToSet(todo), how \in Wrong : <<n, t, how>> \notin failures

(* What is to be unlinked has enough tarballs behind it.                   *)
Capping ==
  main = "capping" =>
    /\ \A t \in ToSet(todo) : Cardinality(Behind(tars, t)) >= KeepCompressed
    /\ \A s, t \in ToSet(todo) : Precedes(todo, s, t) => Precedes(tars, s, t)

(* The places behind the tarball of a run and those of the directories are *)
(* taken by later runs and by compressions that went wrong, each of which  *)
(* takes one: when the tarball goes, that many have been.                  *)
Kept(r) ==
  \/ dir[r] = "whole"
  \/ /\ dir[r] = "none" /\ tar[r] = "whole"
     /\ Cardinality(ToSet(dirs)) >= KeepLast
     /\ Cardinality(Behind(tars, r)) + Cardinality(ToSet(dirs))
          <= (n - r) + Cardinality(failures)
  \/ (n - r) + Cardinality(failures) >= KeepLast + KeepCompressed

AllKept == \A r \in archived \ Damaged : Kept(r)

Shelves == Files /\ Numbered /\ Counted /\ InOrder /\ Listing /\ Capping /\ AllKept

LEMMA Counts ==
  ASSUME Files
  PROVE  /\ MaxRuns \in Nat /\ Run = 1..MaxRuns /\ n \in Nat
         /\ KeepLast \in Nat \ {0} /\ KeepCompressed \in Nat
         /\ Cardinality(failures) \in Nat
         /\ Cardinality(ToSet(dirs)) \in Nat /\ IsFiniteSet(ToSet(dirs))
         /\ Cardinality(ToSet(todo)) \in Nat
         /\ \A r \in Run : r \in Nat
         /\ \A r : Cardinality(Behind(tars, r)) \in Nat
<1>1. MaxRuns \in Nat /\ Run = 1..MaxRuns /\ KeepLast \in Nat \ {0} /\ KeepCompressed \in Nat
  BY LimitsTyped DEF Run
<1>2. n \in Nat /\ \A r \in Run : r \in Nat
  BY <1>1 DEF Files
<1>3. Cardinality(failures) \in Nat
  BY FS_CardinalityType DEF Files
<1>4. Cardinality(ToSet(dirs)) \in Nat /\ IsFiniteSet(ToSet(dirs)) /\ Cardinality(ToSet(todo)) \in Nat
  <2>1. Line(dirs) /\ Line(todo)
    BY DEF Files
  <2>2. /\ IsFiniteSet(ToSet(dirs)) /\ Cardinality(ToSet(dirs)) = Len(dirs)
        /\ Cardinality(ToSet(todo)) = Len(todo)
    BY <2>1, LineCount
  <2>3. Len(dirs) \in Nat /\ Len(todo) \in Nat
    BY <2>1, LineIs
  <2>4. QED  BY <2>2, <2>3
<1>5. \A r : Cardinality(Behind(tars, r)) \in Nat
  BY BehindFinite DEF Files
<1>6. QED  BY <1>1, <1>2, <1>3, <1>4, <1>5

LEMMA InitShelves ==
  ASSUME Init
  PROVE  Shelves
<1>1. /\ n = 0 /\ main = "over" /\ faults = 0 /\ dirs = <<>> /\ tars = <<>> /\ todo = <<>>
      /\ dir = [r \in Run |-> "none"] /\ tar = [r \in Run |-> "none"]
      /\ archived = {} /\ failures = {}
  BY DEF Init
<1>2. Line(<<>>) /\ ToSet(<<>>) = {}
  BY EmptySeq DEF Line, IsInjective, ToSet
<1>3. 0 \in 0..MaxRuns /\ 0 \in 0..MaxFaults
  BY LimitsTyped
<1>4. Files
  BY <1>1, <1>2, <1>3, FS_EmptySet DEF Files, Holds
<1>5. Numbered /\ Counted /\ InOrder /\ Listing /\ Capping /\ AllKept
  BY <1>1, <1>2 DEF Numbered, Counted, InOrder, Listing, Capping, AllKept
<1>6. QED  BY <1>4, <1>5 DEF Shelves

(* Steps that leave the archive alone.                                     *)
LEMMA ElsewhereKeepsShelves ==
  ASSUME Shelves, UNCHANGED <<n, dirs, dir, tars, tar, archived, failures>>,
         faults' \in 0..MaxFaults,
         \/ todo' = todo /\ main' = main
         \/ todo' = <<>> /\ main' \notin {"retaining", "capping"},
         main' # "over" => main # "over",
         main' \in {"created", "polling", "archiving"} =>
           main \in {"created", "polling", "archiving"},
         main' = "auditing" => main = "auditing"
  PROVE  Shelves'
<1>1. Line(todo')
  <2>1. Line(<<>>)
    BY EmptySeq DEF Line, IsInjective
  <2>2. QED  BY <2>1 DEF Shelves, Files
<1>2. Files'
  BY <1>1 DEF Shelves, Files
<1>3. Numbered'
  BY DEF Shelves, Numbered, Damaged
<1>4. Counted'
  BY DEF Shelves, Counted
<1>5. InOrder'
  BY DEF Shelves, InOrder, Damaged
<1>6. Listing'
  <2>1. CASE main' = "retaining"
    <3>1. main' = main /\ todo' = todo
      BY <2>1
    <3>2. QED  BY <3>1 DEF Shelves, Listing, Troubled
  <2>2. QED  BY <2>1 DEF Listing
<1>7. Capping'
  <2>1. CASE main' = "capping"
    <3>1. main' = main /\ todo' = todo
      BY <2>1
    <3>2. QED  BY <3>1 DEF Shelves, Capping
  <2>2. QED  BY <2>1 DEF Capping
<1>8. AllKept'
  BY DEF Shelves, AllKept, Kept, Damaged
<1>9. QED  BY <1>2, <1>3, <1>4, <1>5, <1>6, <1>7, <1>8 DEF Shelves

LEMMA CreateKeepsShelves ==
  ASSUME Shelves, CreateRun
  PROVE  Shelves'
<1>0. /\ main = "over" /\ main' = "created" /\ n' = n + 1 /\ n < MaxRuns
      /\ dirs' = Append(dirs, n') /\ dir' = [dir EXCEPT ![n'] = "log"]
      /\ UNCHANGED <<tars, tar, todo, archived, failures, faults>>
  BY DEF CreateRun
<1>c. /\ MaxRuns \in Nat /\ Run = 1..MaxRuns /\ n \in Nat
      /\ KeepLast \in Nat \ {0} /\ KeepCompressed \in Nat
      /\ Cardinality(failures) \in Nat
      /\ Cardinality(ToSet(dirs)) \in Nat /\ IsFiniteSet(ToSet(dirs))
      /\ \A r \in Run : r \in Nat
      /\ \A r : Cardinality(Behind(tars, r)) \in Nat
  BY Counts DEF Shelves
<1>1. n' \in Run /\ n' \notin ToSet(dirs) /\ n' \notin archived /\ todo = <<>>
  BY <1>0, <1>c DEF Shelves, Numbered, Files
<1>2. /\ Line(dirs') /\ ToSet(dirs') = ToSet(dirs) \cup {n'}
      /\ \A s, t : Precedes(dirs', s, t) <=>
           Precedes(dirs, s, t) \/ (s \in ToSet(dirs) /\ t = n')
  BY <1>0, <1>1, AppendLine DEF Shelves, Files
<1>3. Cardinality(ToSet(dirs')) = Cardinality(ToSet(dirs)) + 1
  <2>1. Cardinality(ToSet(dirs) \cup {n'}) =
          IF n' \in ToSet(dirs) THEN Cardinality(ToSet(dirs)) ELSE Cardinality(ToSet(dirs)) + 1
    BY <1>c, FS_AddElement
  <2>2. QED  BY <1>1, <1>2, <2>1
<1>4. Files'
  <2>1. n' \in 0..MaxRuns
    BY <1>0, <1>c
  <2>2. dir' \in [Run -> Holds]
    BY <1>0 DEF Shelves, Files, Holds
  <2>3. ToSet(dirs') = {r \in Run : dir'[r] # "none"}
    BY <1>0, <1>1, <1>2 DEF Shelves, Files
  <2>4. QED  BY <1>0, <1>1, <1>2, <2>1, <2>2, <2>3 DEF Shelves, Files
<1>5. Numbered'
  <2>1. \A r \in ToSet(dirs') : r <= n'
    BY <1>0, <1>1, <1>2, <1>c, LineIs DEF Shelves, Numbered, Files
  <2>2. \A r \in archived' : r <= n'
    BY <1>0, <1>c DEF Shelves, Numbered, Files
  <2>3. \A r \in archived' \ Damaged' : dir'[r] \in {"whole", "none"}
    BY <1>0, <1>1 DEF Shelves, Numbered, Files, Damaged
  <2>4. QED  BY <1>0, <1>1, <1>2, <2>1, <2>2, <2>3 DEF Numbered
<1>6. Counted'
  BY <1>0, <1>c DEF Shelves, Counted
<1>7. InOrder'
  <2> SUFFICES ASSUME NEW s \in ToSet(dirs'), NEW t \in ToSet(dirs'), s < t
               PROVE  Precedes(dirs', s, t) \/ s \in Damaged'
    BY DEF InOrder
  <2>1. CASE s = n'
    BY <1>0, <1>1, <1>2, <1>c, <2>1, LineIs DEF Shelves, Numbered, Files
  <2>2. CASE s # n' /\ t = n'
    BY <1>2, <2>2
  <2>3. CASE s # n' /\ t # n'
    BY <1>0, <1>2, <2>3 DEF Shelves, InOrder, Damaged
  <2>4. QED  BY <2>1, <2>2, <2>3
<1>8. Listing' /\ Capping'
  BY <1>0 DEF Listing, Capping
<1>9. AllKept'
  <2> SUFFICES ASSUME NEW r \in archived \ Damaged
               PROVE  Kept(r)'
    BY <1>0 DEF AllKept, Damaged
  <2>1. /\ r \in Run /\ r \in Nat /\ dir'[r] = dir[r] /\ tar'[r] = tar[r] /\ n' - r = (n - r) + 1
        /\ Kept(r)
    BY <1>0, <1>1, <1>c DEF Shelves, AllKept, Files
  <2>2. QED  BY <1>0, <1>3, <1>c, <2>1 DEF Kept
<1>10. QED  BY <1>4, <1>5, <1>6, <1>7, <1>8, <1>9 DEF Shelves

(* The run's own directory is written, in full or not.                     *)
LEMMA OwnKeepsShelves ==
  ASSUME Shelves, main = "archiving", NEW holds \in {"log", "part", "whole"},
         dirs' = Touched(dirs, n), dir' = [dir EXCEPT ![n] = holds],
         UNCHANGED <<n, tars, tar, failures>>, todo' = <<>>, faults' \in 0..MaxFaults,
         \/ archived' = archived
         \/ archived' = archived \cup {n} /\ holds = "whole",
         main' \in {"auditing", "stopping", "over"}
  PROVE  Shelves'
<1>c. /\ MaxRuns \in Nat /\ Run = 1..MaxRuns /\ n \in Nat
      /\ \A r \in Run : r \in Nat
  BY Counts DEF Shelves
<1>1. n \in Run /\ n \in ToSet(dirs) /\ n \notin archived /\ Line(dirs)
  BY DEF Shelves, Numbered, Files
<1>2. /\ Line(dirs') /\ ToSet(dirs') = ToSet(dirs)
      /\ \A s, t : Precedes(dirs', s, t) <=>
           \/ Precedes(dirs, s, t) /\ s # n /\ t # n
           \/ s \in ToSet(dirs) /\ s # n /\ t = n
  <2>1. /\ Line(Touched(dirs, n)) /\ ToSet(Touched(dirs, n)) = ToSet(dirs) \cup {n}
        /\ \A s, t : Precedes(Touched(dirs, n), s, t) <=>
             \/ Precedes(dirs, s, t) /\ s # n /\ t # n
             \/ s \in ToSet(dirs) /\ s # n /\ t = n
    BY <1>1, TouchedLine
  <2>2. QED  BY <1>1, <2>1
<1>3. Files'
  <2>1. dir' \in [Run -> Holds]
    BY DEF Shelves, Files, Holds
  <2>2. ToSet(dirs') = {r \in Run : dir'[r] # "none"}
    BY <1>1, <1>2 DEF Shelves, Files
  <2>3. Line(<<>>)
    BY EmptySeq DEF Line, IsInjective
  <2>4. QED  BY <1>1, <1>2, <2>1, <2>2, <2>3 DEF Shelves, Files
<1>4. Numbered'
  <2>1. \A r \in archived' \ Damaged' : dir'[r] \in {"whole", "none"}
    <3> SUFFICES ASSUME NEW r \in archived' \ Damaged'
                 PROVE  dir'[r] \in {"whole", "none"}
      OBVIOUS
    <3>1. r \in Run /\ (r = n => holds = "whole") /\ (r # n => r \in archived \ Damaged)
      <4>1. Damaged' = Damaged
        BY DEF Damaged
      <4>2. r \in archived' /\ r \notin Damaged
        BY <4>1
      <4>3. CASE archived' = archived
        <5>1. archived \subseteq Run
          BY DEF Shelves, Files
        <5>2. QED  BY <1>1, <4>2, <4>3, <5>1
      <4>4. CASE archived' = archived \cup {n} /\ holds = "whole"
        <5>1. archived \subseteq Run
          BY DEF Shelves, Files
        <5>2. QED  BY <1>1, <4>2, <4>4, <5>1
      <4>5. QED  BY <4>3, <4>4
    <3>2. dir'[r] = IF r = n THEN holds ELSE dir[r]
      BY <3>1 DEF Shelves, Files
    <3>3. QED  BY <3>1, <3>2 DEF Shelves, Numbered
  <2>2. QED  BY <1>1, <1>2, <1>c, <2>1 DEF Shelves, Numbered
<1>5. Counted'
  BY DEF Shelves, Counted
<1>6. InOrder'
  <2> SUFFICES ASSUME NEW s \in ToSet(dirs'), NEW t \in ToSet(dirs'), s < t
               PROVE  Precedes(dirs', s, t) \/ s \in Damaged'
    BY DEF InOrder
  <2>1. CASE s = n
    BY <1>1, <1>2, <1>c, <2>1, LineIs DEF Shelves, Numbered, Files
  <2>2. CASE s # n /\ t = n
    BY <1>2, <2>2
  <2>3. CASE s # n /\ t # n
    BY <1>2, <2>3 DEF Shelves, InOrder, Damaged
  <2>4. QED  BY <2>1, <2>2, <2>3
<1>7. Listing' /\ Capping'
  BY DEF Listing, Capping
<1>8. AllKept'
  <2> SUFFICES ASSUME NEW r \in archived' \ Damaged'
               PROVE  Kept(r)'
    BY DEF AllKept
  <2>1. CASE r = n
    BY <1>1, <2>1 DEF Kept, Shelves, Files
  <2>2. CASE r # n
    <3>1. r \in archived \ Damaged /\ dir'[r] = dir[r] /\ Kept(r)
      BY <1>1, <2>2 DEF Shelves, AllKept, Files, Damaged
    <3>2. QED  BY <1>2, <3>1 DEF Kept
  <2>3. QED  BY <2>1, <2>2
<1>9. QED  BY <1>3, <1>4, <1>5, <1>6, <1>7, <1>8 DEF Shelves

(* The lists are made.                                                     *)
LEMMA ListKeepsShelves ==
  ASSUME Shelves, Retain \/ ListTars
  PROVE  Shelves'
<1>0. UNCHANGED <<n, dirs, dir, tars, tar, archived, failures, faults>>
  BY DEF Retain, ListTars
<1>c. KeepLast \in Nat /\ KeepCompressed \in Nat /\ Line(dirs) /\ Line(tars)
  BY Counts DEF Shelves, Files
<1>1. CASE Retain
  <2>1. /\ main = "auditing" /\ main' = "retaining" /\ todo' = Surplus(dirs, KeepLast)
    BY <1>1 DEF Retain
  <2> DEFINE old == Surplus(dirs, KeepLast)
  <2>2. /\ Line(old) /\ ToSet(old) \subseteq ToSet(dirs)
        /\ old # <<>> => Cardinality(ToSet(dirs)) >= KeepLast + Cardinality(ToSet(old))
        /\ \A s, t : t \in ToSet(old) /\ Precedes(dirs, s, t) => Precedes(old, s, t)
    BY <1>c, SurplusIs
  <2>3. n \in Run /\ \A t \in ToSet(old) : t \in Run
    BY <1>c, <2>1, <2>2, LineIs DEF Shelves, Numbered
  <2> HIDE DEF old
  <2>4. Files'
    BY <1>0, <2>1, <2>2 DEF Shelves, Files, old
  <2>5. Listing'
    <3>1. \A t \in ToSet(old), how \in Wrong : <<n, t, how>> \notin failures
      BY <2>1, <2>3 DEF Shelves, Counted
    <3>2. QED  BY <1>0, <2>1, <2>2, <3>1 DEF Listing, old
  <2>6. Numbered' /\ Counted' /\ InOrder' /\ Capping' /\ AllKept'
    BY <1>0, <2>1 DEF Shelves, Numbered, Counted, InOrder, Capping, AllKept, Kept, Damaged
  <2>7. QED  BY <2>4, <2>5, <2>6 DEF Shelves
<1>2. CASE ListTars
  <2>1. /\ main = "retaining" /\ main' = "capping" /\ todo' = Surplus(tars, KeepCompressed)
    BY <1>2 DEF ListTars
  <2> DEFINE old == Surplus(tars, KeepCompressed)
  <2>2. /\ Line(old)
        /\ \A s, t : Precedes(old, s, t) => Precedes(tars, s, t)
        /\ \A t \in ToSet(old) : Cardinality(Behind(tars, t)) >= KeepCompressed
    BY <1>c, SurplusIs
  <2> HIDE DEF old
  <2>3. Files'
    BY <1>0, <2>1, <2>2 DEF Shelves, Files, old
  <2>4. Capping'
    BY <1>0, <2>1, <2>2 DEF Capping, old
  <2>5. Numbered' /\ Counted' /\ InOrder' /\ Listing' /\ AllKept'
    BY <1>0, <2>1 DEF Shelves, Numbered, Counted, InOrder, Listing, AllKept, Kept, Damaged
  <2>6. QED  BY <2>3, <2>4, <2>5 DEF Shelves
<1>3. QED  BY <1>1, <1>2

(* A tarball goes, when enough others have come.                           *)
LEMMA UnlinkKeepsShelves ==
  ASSUME Shelves, Unlink
  PROVE  Shelves'
<1> DEFINE h == Head(todo)
<1>0. /\ main = "capping" /\ main' = "capping" /\ todo # <<>> /\ todo' = Tail(todo)
      /\ \/ tars' = RemoveFirst(tars, h) /\ tar' = [tar EXCEPT ![h] = "none"]
            /\ faults' = faults
         \/ tars' = tars /\ tar' = tar /\ faults < MaxFaults /\ faults' = faults + 1
      /\ UNCHANGED <<n, dirs, dir, archived, failures>>
  BY DEF Unlink, Fault
<1>c. /\ n \in Nat /\ KeepLast \in Nat \ {0} /\ KeepCompressed \in Nat
      /\ Cardinality(failures) \in Nat /\ Cardinality(ToSet(dirs)) \in Nat
      /\ \A r \in Run : r \in Nat
      /\ \A r : Cardinality(Behind(tars, r)) \in Nat
  BY Counts DEF Shelves
<1>f. faults' \in 0..MaxFaults
  BY <1>0, LimitsTyped DEF Shelves, Files
<1>1. /\ Line(Tail(todo)) /\ h \in ToSet(todo) /\ ToSet(Tail(todo)) = ToSet(todo) \ {h}
      /\ \A s, t : Precedes(Tail(todo), s, t) <=> Precedes(todo, s, t) /\ s # h /\ t # h
      /\ \A t \in ToSet(todo) : t # h => Precedes(todo, h, t)
  BY <1>0, TailLine DEF Shelves, Files
<1>2. h \in Run
  BY <1>1, LineIs DEF Shelves, Files
<1>3. /\ Line(RemoveFirst(tars, h)) /\ ToSet(RemoveFirst(tars, h)) = ToSet(tars) \ {h}
      /\ \A s, t : Precedes(RemoveFirst(tars, h), s, t) <=>
           Precedes(tars, s, t) /\ s # h /\ t # h
  BY RemoveLine DEF Shelves, Files
<1> HIDE DEF h
<1>4. Files'
  <2>1. CASE tars' = tars /\ tar' = tar
    BY <1>0, <1>1, <1>f, <2>1 DEF Shelves, Files
  <2>2. CASE tars' = RemoveFirst(tars, h) /\ tar' = [tar EXCEPT ![h] = "none"]
    <3>1. tar' \in [Run -> Holds] /\ ToSet(tars') = {r \in Run : tar'[r] # "none"}
      BY <1>2, <1>3, <2>2 DEF Shelves, Files, Holds
    <3>2. QED  BY <1>0, <1>1, <1>3, <1>f, <2>2, <3>1 DEF Shelves, Files
  <2>3. QED  BY <1>0, <2>1, <2>2
<1>5. Numbered' /\ Counted' /\ InOrder' /\ Listing'
  BY <1>0 DEF Shelves, Numbered, Counted, InOrder, Listing, Damaged
<1>6. \A r \in Run : Behind(tars', r) \subseteq Behind(tars, r)
  BY <1>0, <1>3 DEF Behind
<1>7. \A r \in Run : Cardinality(Behind(tars', r)) <= Cardinality(Behind(tars, r))
  <2> SUFFICES ASSUME NEW r \in Run
               PROVE  Cardinality(Behind(tars', r)) <= Cardinality(Behind(tars, r))
    OBVIOUS
  <2>1. IsFiniteSet(Behind(tars, r))
    BY BehindFinite DEF Shelves, Files
  <2>2. QED  BY <1>6, <2>1, FS_Subset
<1>8. Capping'
  <2>1. ASSUME NEW t \in ToSet(todo')
        PROVE  Cardinality(Behind(tars', t)) >= KeepCompressed
    <3>1. t \in ToSet(todo) /\ t # h /\ Precedes(tars, h, t) /\ Line(tars)
      BY <1>0, <1>1, <2>1 DEF Shelves, Capping, Files
    <3>2. ~Precedes(tars, t, h)
      BY <3>1, LineOrder
    <3>3. Behind(tars', t) = Behind(tars, t)
      BY <1>0, <1>3, <3>1, <3>2 DEF Behind
    <3>4. QED  BY <1>0, <3>1, <3>3 DEF Shelves, Capping
  <2>2. \A s, t \in ToSet(todo') : Precedes(todo', s, t) => Precedes(tars', s, t)
    BY <1>0, <1>1, <1>3 DEF Shelves, Capping
  <2>3. QED  BY <2>1, <2>2 DEF Capping
<1>9. AllKept'
  <2> SUFFICES ASSUME NEW r \in archived \ Damaged
               PROVE  Kept(r)'
    BY <1>0 DEF AllKept, Damaged
  <2>1. Kept(r) /\ r \in Run /\ r \in Nat
    BY <1>c DEF Shelves, AllKept, Files
  <2>2. CASE r = h
    <3>1. Cardinality(Behind(tars, r)) >= KeepCompressed
      BY <1>0, <1>1, <2>2 DEF Shelves, Capping
    <3>2. dir[r] = "whole" \/ (n - r) + Cardinality(failures) >= KeepLast + KeepCompressed
      BY <1>c, <2>1, <3>1 DEF Kept
    <3>3. QED  BY <1>0, <3>2 DEF Kept
  <2>3. CASE r # h
    <3>1. tar'[r] = tar[r]
      BY <1>0, <2>1, <2>3 DEF Shelves, Files
    <3>2. Cardinality(Behind(tars', r)) <= Cardinality(Behind(tars, r))
          /\ Cardinality(Behind(tars', r)) \in Nat
      BY <1>4, <1>7, <2>1, BehindFinite DEF Files
    <3>3. CASE /\ dir[r] = "none" /\ tar[r] = "whole"
               /\ Cardinality(ToSet(dirs)) >= KeepLast
               /\ Cardinality(Behind(tars, r)) + Cardinality(ToSet(dirs))
                    <= (n - r) + Cardinality(failures)
      <4>1. Cardinality(Behind(tars', r)) + Cardinality(ToSet(dirs))
              <= (n - r) + Cardinality(failures)
        BY <1>c, <2>1, <3>2, <3>3
      <4>2. QED  BY <1>0, <3>1, <3>3, <4>1 DEF Kept
    <3>4. QED  BY <1>0, <2>1, <3>3 DEF Kept
  <2>4. QED  BY <2>2, <2>3
<1>10. QED  BY <1>4, <1>5, <1>8, <1>9 DEF Shelves

(* There are no more runs in trouble than compressions that went wrong.    *)
LEMMA TroubledCount ==
  ASSUME Files
  PROVE  /\ IsFiniteSet(Troubled) /\ Cardinality(Troubled) \in Nat
         /\ Cardinality(Troubled) <= Cardinality(failures)
<1> DEFINE f == [x \in failures |-> x[2]]
<1>1. \A x \in failures : x[2] \in Troubled
  <2> SUFFICES ASSUME NEW x \in failures
               PROVE  x[2] \in Troubled
    OBVIOUS
  <2>1. x \in Run \X Run \X Wrong
    BY DEF Files
  <2>2. x[1] \in Run /\ x[2] \in Run /\ x[3] \in Wrong /\ x = <<x[1], x[2], x[3]>>
    BY <2>1
  <2>3. QED  BY <2>2 DEF Troubled
<1>2. \A r \in Troubled : \E x \in failures : x[2] = r
  <2> SUFFICES ASSUME NEW r \in Troubled
               PROVE  \E x \in failures : x[2] = r
    OBVIOUS
  <2>1. PICK m \in Run, how \in Wrong : <<m, r, how>> \in failures
    BY DEF Troubled
  <2>2. <<m, r, how>>[2] = r
    OBVIOUS
  <2>3. QED  BY <2>1, <2>2
<1>3. f \in Surjection(failures, Troubled)
  BY <1>1, <1>2 DEF Surjection
<1>4. IsFiniteSet(failures)
  BY DEF Files
<1> HIDE DEF f
<1>5. IsFiniteSet(Troubled) /\ Cardinality(Troubled) <= Cardinality(failures)
  BY <1>3, <1>4, FS_Surjection
<1>6. QED  BY <1>5, FS_CardinalityType

(* When a directory goes, those that are left are of later runs, or of     *)
(* runs in trouble.                                                        *)
LEMMA LeftCount ==
  ASSUME Shelves, main = "retaining", todo # <<>>
  PROVE  Cardinality(ToSet(dirs)) - 1 <= (n - Head(todo)) + Cardinality(failures)
<1> DEFINE h == Head(todo)
           rest == ToSet(dirs) \ {h}
           later == (h + 1)..n
<1>c. /\ n \in Nat /\ Cardinality(failures) \in Nat
      /\ Cardinality(ToSet(dirs)) \in Nat /\ IsFiniteSet(ToSet(dirs))
      /\ \A r \in Run : r \in Nat
  BY Counts DEF Shelves
<1>1. /\ h \in ToSet(todo) /\ Line(todo) /\ Line(dirs)
      /\ \A t \in ToSet(todo) : t # h => Precedes(todo, h, t)
  BY TailLine DEF Shelves, Files
<1>2. h \in ToSet(dirs) /\ h \in Run /\ h \in Nat /\ h <= n
  BY <1>1, <1>c, LineIs DEF Shelves, Listing, Numbered
<1>3. \A s : ~Precedes(todo, s, h)
  BY <1>1, LineOrder
<1>4. ASSUME NEW s \in rest
      PROVE  s \in later \cup Troubled
  <2>1. s \in ToSet(dirs) /\ s \in Run /\ s \in Nat /\ s <= n /\ s # h
    BY <1>1, <1>c, LineIs DEF Shelves, Numbered
  <2>2. CASE s > h
    BY <1>2, <1>c, <2>1, <2>2
  <2>3. CASE s < h
    <3>1. Precedes(dirs, s, h) \/ s \in Damaged
      BY <1>2, <2>1, <2>3 DEF Shelves, InOrder
    <3>2. s \in Damaged => s \in Troubled
      BY DEF Damaged, Troubled, Wrong
    <3>3. Precedes(dirs, s, h) => s \in Troubled
      BY <1>1, <1>3, <2>1 DEF Shelves, Listing
    <3>4. QED  BY <3>1, <3>2, <3>3
  <2>4. QED  BY <1>2, <2>1, <2>2, <2>3
<1>5. Cardinality(rest) = Cardinality(ToSet(dirs)) - 1
  <2> HIDE DEF h
  <2>1. Cardinality(ToSet(dirs) \ {h}) =
          IF h \in ToSet(dirs) THEN Cardinality(ToSet(dirs)) - 1 ELSE Cardinality(ToSet(dirs))
    BY <1>c, FS_RemoveElement
  <2>2. QED  BY <1>2, <2>1
<1> HIDE DEF h
<1>6. IsFiniteSet(later) /\ Cardinality(later) = n - h
  <2>1. h + 1 \in Int /\ n \in Int
    BY <1>2, <1>c
  <2>2. IsFiniteSet(later) /\ Cardinality(later) = IF h + 1 > n THEN 0 ELSE n - (h + 1) + 1
    BY <2>1, FS_Interval
  <2>3. QED  BY <1>2, <1>c, <2>2
<1>7. /\ IsFiniteSet(Troubled) /\ Cardinality(Troubled) \in Nat
      /\ Cardinality(Troubled) <= Cardinality(failures)
  BY TroubledCount DEF Shelves
<1> HIDE DEF rest, later
<1>8. /\ IsFiniteSet(later \cup Troubled)
      /\ Cardinality(later \cup Troubled)
           = Cardinality(later) + Cardinality(Troubled) - Cardinality(later \cap Troubled)
  BY <1>6, <1>7, FS_Union
<1>9. Cardinality(later \cap Troubled) \in Nat
  <2>1. IsFiniteSet(later \cap Troubled)
    BY <1>6, FS_Intersection
  <2>2. QED  BY <2>1, FS_CardinalityType
<1>10. Cardinality(rest) <= Cardinality(later \cup Troubled)
  <2>1. rest \in SUBSET (later \cup Troubled)
    BY <1>4
  <2>2. QED  BY <1>8, <2>1, FS_Subset
<1>11. Cardinality(rest) <= (n - h) + Cardinality(failures)
  BY <1>2, <1>5, <1>6, <1>7, <1>8, <1>9, <1>10, <1>c
<1>12. QED  BY <1>5, <1>11 DEF h

(* A directory is compressed, or its compression goes wrong.               *)
LEMMA CompressKeepsShelves ==
  ASSUME Shelves, main = "retaining", todo # <<>>,
         NEW how \in Wrong \cup {"done"}, Compress(Head(todo), how),
         n' = n, faults' \in 0..MaxFaults,
         \/ main' = "retaining" /\ todo' = Tail(todo)
         \/ main' = "over" /\ todo' = <<>>
  PROVE  Shelves'
<1> DEFINE h == Head(todo)
<1>0. /\ tars' = Touched(tars, h)
      /\ tar' = [tar EXCEPT ![h] = IF how = "tar fails" THEN "part" ELSE dir[h]]
      /\ \/ how = "done" /\ dirs' = RemoveFirst(dirs, h) /\ dir' = [dir EXCEPT ![h] = "none"]
         \/ how \in {"tar fails", "kept"} /\ UNCHANGED <<dirs, dir>>
         \/ how = "half removed" /\ dirs' = Touched(dirs, h)
            /\ dir' = [dir EXCEPT ![h] = "part"]
      /\ failures' = IF how = "done" THEN failures ELSE failures \cup {<<n, h, how>>}
      /\ archived' = archived
  BY DEF Compress
<1>c. /\ MaxRuns \in Nat /\ Run = 1..MaxRuns /\ n \in Nat
      /\ KeepLast \in Nat \ {0} /\ KeepCompressed \in Nat
      /\ Cardinality(failures) \in Nat
      /\ Cardinality(ToSet(dirs)) \in Nat /\ IsFiniteSet(ToSet(dirs))
      /\ Cardinality(ToSet(todo)) \in Nat
      /\ \A r \in Run : r \in Nat
      /\ \A r : Cardinality(Behind(tars, r)) \in Nat
  BY Counts DEF Shelves
<1>1. /\ Line(Tail(todo)) /\ h \in ToSet(todo) /\ ToSet(Tail(todo)) = ToSet(todo) \ {h}
      /\ \A s, t : Precedes(Tail(todo), s, t) <=> Precedes(todo, s, t) /\ s # h /\ t # h
      /\ \A t \in ToSet(todo) : t # h => Precedes(todo, h, t)
  BY TailLine DEF Shelves, Files
<1>2. h \in ToSet(dirs) /\ h \in Run /\ h \in Nat /\ h <= n /\ n \in Run
  BY <1>1, <1>c, LineIs DEF Shelves, Listing, Numbered, Files
<1>3. Cardinality(ToSet(dirs)) - 1 <= (n - h) + Cardinality(failures)
  BY LeftCount
<1>d. dir[h] # "none" /\ dir[h] \in Holds
  BY <1>2 DEF Shelves, Files
<1>s. /\ Line(dirs) /\ Line(tars) /\ Line(todo)
      /\ dir \in [Run -> Holds] /\ tar \in [Run -> Holds]
  BY DEF Shelves, Files
<1> HIDE DEF h
<1>4. /\ Line(tars') /\ ToSet(tars') = ToSet(tars) \cup {h}
      /\ \A s, t : Precedes(tars', s, t) <=>
           \/ Precedes(tars, s, t) /\ s # h /\ t # h
           \/ s \in ToSet(tars) /\ s # h /\ t = h
  BY <1>0, <1>2, <1>s, TouchedLine
<1>5. /\ Line(dirs')
      /\ how = "done" => ToSet(dirs') = ToSet(dirs) \ {h}
      /\ how # "done" => ToSet(dirs') = ToSet(dirs)
      /\ \A s, t : Precedes(dirs', s, t) =>
           Precedes(dirs, s, t) \/ (how = "half removed" /\ t = h)
      /\ \A s, t \in ToSet(dirs') : /\ Precedes(dirs, s, t) /\ s # h => Precedes(dirs', s, t)
                                    /\ Precedes(dirs, s, t) /\ how # "half removed" =>
                                         Precedes(dirs', s, t)
                                    /\ how = "half removed" /\ s # h /\ t = h =>
                                         Precedes(dirs', s, t)
  <2>1. CASE how = "done"
    <3>1. /\ Line(RemoveFirst(dirs, h)) /\ ToSet(RemoveFirst(dirs, h)) = ToSet(dirs) \ {h}
          /\ \A s, t : Precedes(RemoveFirst(dirs, h), s, t) <=>
               Precedes(dirs, s, t) /\ s # h /\ t # h
      BY <1>s, RemoveLine
    <3>2. dirs' = RemoveFirst(dirs, h)
      BY <1>0, <2>1
    <3>3. QED  BY <2>1, <3>1, <3>2
  <2>2. CASE how \in {"tar fails", "kept"}
    <3>1. dirs' = dirs
      BY <1>0, <2>2
    <3>2. QED  BY <1>s, <2>2, <3>1
  <2>3. CASE how = "half removed"
    <3>1. /\ Line(Touched(dirs, h)) /\ ToSet(Touched(dirs, h)) = ToSet(dirs) \cup {h}
          /\ \A s, t : Precedes(Touched(dirs, h), s, t) <=>
               \/ Precedes(dirs, s, t) /\ s # h /\ t # h
               \/ s \in ToSet(dirs) /\ s # h /\ t = h
      BY <1>2, <1>s, TouchedLine
    <3>2. dirs' = Touched(dirs, h)
      BY <1>0, <2>3
    <3>3. ToSet(dirs') = ToSet(dirs)
      BY <1>2, <3>1, <3>2
    <3>4. QED  BY <2>3, <3>1, <3>2, <3>3
  <2>4. QED  BY <2>1, <2>2, <2>3 DEF Wrong
<1>6. /\ how = "done" => failures' = failures
      /\ how # "done" => /\ how \in Wrong /\ failures' = failures \cup {<<n, h, how>>}
                         /\ <<n, h, how>> \notin failures
  BY <1>0, <1>1 DEF Shelves, Listing
<1>7. /\ failures \subseteq failures' /\ IsFiniteSet(failures')
      /\ failures' \subseteq Run \X Run \X Wrong
      /\ Cardinality(failures') =
           IF how = "done" THEN Cardinality(failures) ELSE Cardinality(failures) + 1
  <2>0. IsFiniteSet(failures) /\ failures \subseteq Run \X Run \X Wrong
    BY DEF Shelves, Files
  <2>1. CASE how = "done"
    BY <1>6, <2>0, <2>1
  <2>2. CASE how # "done"
    <3> DEFINE x == <<n, h, how>>
    <3>1. x \notin failures /\ failures' = failures \cup {x} /\ x \in Run \X Run \X Wrong
      BY <1>2, <1>6, <2>2
    <3> HIDE DEF x
    <3>2. /\ IsFiniteSet(failures \cup {x})
          /\ Cardinality(failures \cup {x}) =
               IF x \in failures THEN Cardinality(failures) ELSE Cardinality(failures) + 1
      BY <2>0, FS_AddElement
    <3>3. QED  BY <2>0, <2>2, <3>1, <3>2
  <2>3. QED  BY <2>1, <2>2
<1>8. /\ Troubled \subseteq Troubled' /\ Damaged \subseteq Damaged'
      /\ how # "done" => h \in Troubled'
      /\ how = "half removed" => h \in Damaged'
  <2>1. Troubled \subseteq Troubled' /\ Damaged \subseteq Damaged'
    BY <1>7 DEF Troubled, Damaged
  <2>2. how # "done" => <<n, h, how>> \in failures' /\ how \in Wrong
    BY <1>6
  <2>3. QED  BY <1>2, <2>1, <2>2 DEF Troubled, Damaged
<1>9. /\ how = "done" => Cardinality(ToSet(dirs')) = Cardinality(ToSet(dirs)) - 1
      /\ how # "done" => Cardinality(ToSet(dirs')) = Cardinality(ToSet(dirs))
  <2>1. Cardinality(ToSet(dirs) \ {h}) =
          IF h \in ToSet(dirs) THEN Cardinality(ToSet(dirs)) - 1 ELSE Cardinality(ToSet(dirs))
    BY <1>c, FS_RemoveElement
  <2>2. QED  BY <1>2, <1>5, <2>1
<1>10. /\ Cardinality(ToSet(dirs)) >= KeepLast + Cardinality(ToSet(todo))
       /\ Cardinality(ToSet(Tail(todo))) = Cardinality(ToSet(todo)) - 1
       /\ Cardinality(ToSet(Tail(todo))) \in Nat
  <2>1. IsFiniteSet(ToSet(todo))
    BY <1>s, LineCount
  <2>2. Cardinality(ToSet(todo) \ {h}) =
          IF h \in ToSet(todo) THEN Cardinality(ToSet(todo)) - 1 ELSE Cardinality(ToSet(todo))
    BY <2>1, FS_RemoveElement
  <2>3. Cardinality(ToSet(Tail(todo))) \in Nat
    BY <1>1, LineCount, LineIs
  <2>4. QED  BY <1>1, <2>2, <2>3 DEF Shelves, Listing
<1>11. Files'
  <2>1. dir' \in [Run -> Holds] /\ tar' \in [Run -> Holds]
    BY <1>0, <1>2, <1>s, <1>d DEF Holds
  <2>2. ToSet(dirs') = {r \in Run : dir'[r] # "none"}
    <3>1. ToSet(dirs) = {r \in Run : dir[r] # "none"}
      BY DEF Shelves, Files
    <3>2. \A r \in Run : dir'[r] = IF r = h /\ how = "done" THEN "none"
                                   ELSE IF r = h /\ how = "half removed" THEN "part" ELSE dir[r]
      BY <1>0, <1>2, <1>s DEF Wrong
    <3>3. \A r \in Run : dir'[r] # "none" <=> dir[r] # "none" /\ ~(r = h /\ how = "done")
      BY <1>d, <3>2
    <3>4. QED  BY <1>5, <3>1, <3>3
  <2>3. ToSet(tars') = {r \in Run : tar'[r] # "none"}
    <3>1. ToSet(tars) = {r \in Run : tar[r] # "none"}
      BY DEF Shelves, Files
    <3>2. \A r \in Run : tar'[r] # "none" <=> tar[r] # "none" \/ r = h
      BY <1>0, <1>2, <1>s, <1>d
    <3>3. QED  BY <1>2, <1>4, <3>1, <3>2
  <2>4. Line(todo') /\ (todo' # <<>> => main' = "retaining")
    <3>1. Line(<<>>)
      BY EmptySeq DEF Line, IsInjective
    <3>2. QED  BY <1>1, <3>1
  <2>5. n' \in 0..MaxRuns /\ archived' \subseteq Run
    BY <1>0 DEF Shelves, Files
  <2>6. QED  BY <1>4, <1>5, <1>7, <2>1, <2>2, <2>3, <2>4, <2>5 DEF Files
<1>12. Numbered'
  <2>1. \A r \in ToSet(dirs') : r <= n'
    BY <1>5 DEF Shelves, Numbered
  <2>2. \A r \in archived' \ Damaged' : dir'[r] \in {"whole", "none"}
    <3> SUFFICES ASSUME NEW r \in archived', r \notin Damaged'
                 PROVE  dir'[r] \in {"whole", "none"}
      OBVIOUS
    <3>1. r \in archived /\ r \notin Damaged /\ r \in Run
      BY <1>0, <1>8 DEF Shelves, Files
    <3>2. dir[r] \in {"whole", "none"}
      BY <3>1 DEF Shelves, Numbered
    <3>3. ~(r = h /\ how = "half removed")
      BY <1>8
    <3>4. QED  BY <1>0, <1>2, <1>s, <3>1, <3>2, <3>3
  <2>3. QED  BY <1>0, <1>2, <2>1, <2>2 DEF Shelves, Numbered
<1>13. Counted'
  <2> SUFFICES ASSUME NEW m \in Run, NEW r \in Run, NEW w \in Wrong, <<m, r, w>> \in failures'
               PROVE  m <= n
    BY DEF Counted
  <2>1. CASE <<m, r, w>> \in failures
    BY <2>1 DEF Shelves, Counted
  <2>2. CASE <<m, r, w>> \notin failures
    <3>1. <<m, r, w>> = <<n, h, how>>
      BY <1>6, <2>2
    <3>2. m = n
      BY <3>1
    <3>3. QED  BY <1>c, <3>2
  <2>3. QED  BY <2>1, <2>2
<1>14. InOrder'
  <2> SUFFICES ASSUME NEW s \in ToSet(dirs'), NEW t \in ToSet(dirs'), s < t,
                      s \notin Damaged'
               PROVE  Precedes(dirs', s, t)
    BY DEF InOrder
  <2>1. s \in ToSet(dirs) /\ t \in ToSet(dirs) /\ s \notin Damaged
    BY <1>5, <1>8
  <2>2. Precedes(dirs, s, t)
    BY <2>1 DEF Shelves, InOrder
  <2>3. s # h \/ how # "half removed"
    BY <1>8
  <2>4. QED  BY <1>5, <2>2, <2>3
<1>15. Listing'
  <2> SUFFICES ASSUME main' = "retaining"
               PROVE  Listing'
    BY DEF Listing
  <2>0. todo' = Tail(todo) /\ ToSet(todo') \subseteq ToSet(todo) \ {h}
    BY <1>1
  <2>1. Cardinality(ToSet(dirs')) >= KeepLast + Cardinality(ToSet(todo'))
    BY <1>9, <1>10, <1>c, <2>0
  <2>2. ToSet(todo') \subseteq ToSet(dirs')
    BY <1>5, <2>0 DEF Shelves, Listing
  <2>3. ASSUME NEW t \in ToSet(todo'), NEW s \in ToSet(dirs'), Precedes(dirs', s, t),
               s \notin Troubled'
        PROVE  Precedes(todo', s, t)
    <3>1. t \in ToSet(todo) /\ t # h /\ s \in ToSet(dirs) /\ s \notin Troubled
      BY <1>5, <1>8, <2>0, <2>3
    <3>2. Precedes(dirs, s, t)
      BY <1>5, <2>3, <3>1
    <3>3. Precedes(todo, s, t)
      BY <3>1, <3>2 DEF Shelves, Listing
    <3>4. s # h
      BY <1>5, <1>8, <2>3
    <3>5. QED  BY <1>1, <2>0, <3>1, <3>3, <3>4
  <2>4. ASSUME NEW t \in ToSet(todo'), NEW w \in Wrong
        PROVE  <<n, t, w>> \notin failures'
    <3>1. t # h /\ <<n, t, w>> \notin failures
      BY <2>0 DEF Shelves, Listing
    <3>2. <<n, t, w>> # <<n, h, how>>
      BY <3>1
    <3>3. QED  BY <1>6, <3>1, <3>2
  <2>5. QED  BY <2>1, <2>2, <2>3, <2>4 DEF Listing
<1>16. Capping'
  BY DEF Capping
<1>17. AllKept'
  <2> SUFFICES ASSUME NEW r \in archived', r \notin Damaged'
               PROVE  Kept(r)'
    BY DEF AllKept
  <2>1. r \in archived /\ r \notin Damaged /\ r \in Run /\ r \in Nat /\ Kept(r)
    BY <1>0, <1>8, <1>c DEF Shelves, Files, AllKept
  <2>2. Cardinality(ToSet(dirs')) >= KeepLast
    BY <1>9, <1>10, <1>c
  <2>3. CASE r = h
    <3>1. how # "half removed" /\ dir[r] = "whole"
      BY <1>8, <1>d, <2>1, <2>3 DEF Shelves, Numbered
    <3>2. CASE how = "done"
      <4>1. dir'[r] = "none" /\ tar'[r] = "whole"
        BY <1>0, <1>2, <1>s, <2>3, <3>1, <3>2
      <4>2. Behind(tars', r) = {}
        BY <1>4, <2>3 DEF Behind
      <4>3. Cardinality(Behind(tars', r)) = 0
        BY <4>2, FS_EmptySet
      <4>4. Cardinality(Behind(tars', r)) + Cardinality(ToSet(dirs'))
              <= (n' - r) + Cardinality(failures')
        BY <1>3, <1>7, <1>9, <1>c, <2>1, <2>3, <3>2, <4>3
      <4>5. QED  BY <2>2, <4>1, <4>4 DEF Kept
    <3>3. CASE how # "done"
      <4>1. dir'[r] = "whole"
        BY <1>0, <3>1, <3>3 DEF Wrong
      <4>2. QED  BY <4>1 DEF Kept
    <3>4. QED  BY <3>2, <3>3
  <2>4. CASE r # h
    <3>1. dir'[r] = dir[r] /\ tar'[r] = tar[r]
      BY <1>0, <1>s, <2>1, <2>4
    <3>2. /\ Cardinality(Behind(tars', r)) \in Nat
          /\ Cardinality(Behind(tars', r)) <= Cardinality(Behind(tars, r)) + 1
      <4>1. IsFiniteSet(Behind(tars, r))
        BY <1>s, BehindFinite
      <4>2. /\ IsFiniteSet(Behind(tars, r) \cup {h})
            /\ Cardinality(Behind(tars, r) \cup {h}) <= Cardinality(Behind(tars, r)) + 1
        <5>1. /\ IsFiniteSet(Behind(tars, r) \cup {h})
              /\ Cardinality(Behind(tars, r) \cup {h}) =
                   IF h \in Behind(tars, r) THEN Cardinality(Behind(tars, r))
                   ELSE Cardinality(Behind(tars, r)) + 1
          BY <4>1, FS_AddElement
        <5>2. QED  BY <1>c, <5>1
      <4>3. Behind(tars', r) \in SUBSET (Behind(tars, r) \cup {h})
        BY <1>4 DEF Behind
      <4>4. Cardinality(Behind(tars', r)) <= Cardinality(Behind(tars, r) \cup {h})
        BY <4>2, <4>3, FS_Subset
      <4>5. Cardinality(Behind(tars', r)) \in Nat
        BY <1>4, BehindFinite
      <4>6. Cardinality(Behind(tars, r) \cup {h}) \in Nat
        BY <4>2, FS_CardinalityType
      <4>7. QED  BY <1>c, <4>2, <4>4, <4>5, <4>6
    <3>3. CASE /\ dir[r] = "none" /\ tar[r] = "whole"
               /\ Cardinality(ToSet(dirs)) >= KeepLast
               /\ Cardinality(Behind(tars, r)) + Cardinality(ToSet(dirs))
                    <= (n - r) + Cardinality(failures)
      <4>1. Cardinality(Behind(tars', r)) + Cardinality(ToSet(dirs'))
              <= (n' - r) + Cardinality(failures')
        BY <1>7, <1>9, <1>c, <2>1, <3>2, <3>3
      <4>2. QED  BY <2>2, <3>1, <3>3, <4>1 DEF Kept
    <3>4. CASE (n - r) + Cardinality(failures) >= KeepLast + KeepCompressed
      <4>1. (n' - r) + Cardinality(failures') >= KeepLast + KeepCompressed
        BY <1>7, <1>c, <2>1, <3>4
      <4>2. QED  BY <4>1 DEF Kept
    <3>5. CASE dir[r] = "whole"
      BY <3>1, <3>5 DEF Kept
    <3>6. QED  BY <2>1, <3>3, <3>4, <3>5 DEF Kept
  <2>5. QED  BY <2>3, <2>4
<1>18. QED
  BY <1>11, <1>12, <1>13, <1>14, <1>15, <1>16, <1>17 DEF Shelves

LEMMA NextKeepsShelves ==
  ASSUME Shelves, [Next]_vars
  PROVE  Shelves'
<1>f. /\ faults \in 0..MaxFaults
      /\ faults < MaxFaults /\ faults' = faults + 1 => faults' \in 0..MaxFaults
  BY LimitsTyped DEF Shelves, Files
<1>1. CASE CreateRun
  BY <1>1, CreateKeepsShelves
<1>2. CASE WriteArchive
  <2>1. /\ main = "archiving" /\ main' = "auditing"
        /\ dirs' = Touched(dirs, n) /\ dir' = [dir EXCEPT ![n] = "whole"]
        /\ archived' = archived \cup {n}
        /\ UNCHANGED <<n, tars, tar, todo, failures, faults>>
    BY <1>2 DEF WriteArchive
  <2>2. todo' = <<>>
    BY <2>1 DEF Shelves, Files
  <2>3. QED  BY <1>f, <2>1, <2>2, OwnKeepsShelves
<1>3. CASE ArchiveFails
  <2>1. /\ main = "archiving" /\ main' = "stopping" /\ dirs' = Touched(dirs, n)
        /\ faults < MaxFaults /\ faults' = faults + 1
        /\ UNCHANGED <<n, tars, tar, todo, archived, failures>>
        /\ \E holds \in {"log", "part"} : dir' = [dir EXCEPT ![n] = holds]
    BY <1>3 DEF ArchiveFails, Fault
  <2>2. todo' = <<>>
    BY <2>1 DEF Shelves, Files
  <2>3. QED  BY <1>f, <2>1, <2>2, OwnKeepsShelves
<1>4. CASE Retain \/ ListTars
  BY <1>4, ListKeepsShelves
<1>5. CASE CompressNext
  <2>1. /\ main = "retaining" /\ main' = main /\ n' = n /\ todo # <<>> /\ todo' = Tail(todo)
        /\ faults' = faults \/ (faults < MaxFaults /\ faults' = faults + 1)
        /\ \E how \in Wrong \cup {"done"} : Compress(Head(todo), how)
    BY <1>5 DEF CompressNext, Fault
  <2>2. QED  BY <1>f, <2>1, CompressKeepsShelves
<1>6. CASE Unlink
  BY <1>6, UnlinkKeepsShelves
<1>7. CASE Crash
  <2>1. /\ main' = "over" /\ todo' = <<>> /\ main # "over" /\ n' = n
        /\ faults < MaxFaults /\ faults' = faults + 1
    BY <1>7 DEF Crash, Fault
  <2>2. CASE UNCHANGED <<dirs, dir, tars, tar, archived, failures>>
    BY <1>f, <2>1, <2>2, ElsewhereKeepsShelves
  <2>3. CASE /\ main = "archiving"
             /\ dirs' = Touched(dirs, n) /\ dir' = [dir EXCEPT ![n] = "part"]
             /\ UNCHANGED <<tars, tar, archived, failures>>
    BY <1>f, <2>1, <2>3, OwnKeepsShelves
  <2>4. CASE /\ main = "retaining" /\ todo # <<>>
             /\ \E how \in Wrong : Compress(Head(todo), how)
    BY <1>f, <2>1, <2>4, CompressKeepsShelves
  <2>5. QED  BY <1>7, <2>2, <2>3, <2>4 DEF Crash
<1>8. CASE StartRun \/ SeeEnd \/ TimeOut \/ StopRun \/ StopTimesOut \/ Stopped \/ EndRetention
  <2>1. /\ UNCHANGED <<n, dirs, dir, tars, tar, todo, archived, failures, faults>>
        /\ main # "over" /\ main' # "retaining" /\ main' # "capping" /\ main' # "auditing"
        /\ main' \in {"created", "polling", "archiving"} =>
             main \in {"created", "polling", "archiving"}
        /\ main \in {"retaining", "capping"} => todo = <<>>
    BY <1>8 DEF StartRun, SeeEnd, TimeOut, StopRun, StopTimesOut, Stopped, EndRetention, archive
  <2>2. todo = <<>>
    BY <2>1 DEF Shelves, Files
  <2>3. QED  BY <1>f, <2>1, <2>2, ElsewhereKeepsShelves
<1>9. CASE LoopStep \/ CutShort \/ TickFails \/ GuardFails \/ LateAnswer \/ CancelMark
           \/ CancelTear \/ UNCHANGED vars
  <2>1. /\ UNCHANGED <<n, main, dirs, dir, tars, tar, todo, archived, failures>>
        /\ faults' = faults \/ (faults < MaxFaults /\ faults' = faults + 1)
    BY <1>9 DEF LoopStep, LoopBegins, Guard, Work, Count, Declare, Wake, CutShort, TickFails,
       GuardFails, Fault, LateAnswer, CancelMark, CancelTear, archive, vars
  <2>2. faults' \in 0..MaxFaults
    BY <1>f, <2>1
  <2>3. /\ UNCHANGED <<n, dirs, dir, tars, tar, archived, failures>>
        /\ todo' = todo /\ main' = main
        /\ main' # "over" => main # "over"
        /\ main' \in {"created", "polling", "archiving"} =>
             main \in {"created", "polling", "archiving"}
        /\ main' = "auditing" => main = "auditing"
    BY <2>1
  <2>4. QED  BY <2>2, <2>3, ElsewhereKeepsShelves
<1>10. QED
  BY <1>1, <1>2, <1>3, <1>4, <1>5, <1>6, <1>7, <1>8, <1>9 DEF Next, MainStep

LEMMA ShelvesInvariance == Spec => []Shelves
BY InitShelves, NextKeepsShelves, PTL DEF Spec

(* The flags of the process.                                               *)
Flags == late \in BOOLEAN /\ running \in BOOLEAN /\ listed \in BOOLEAN /\ cut \in BOOLEAN

LEMMA FlagsInvariance == Spec => []Flags
<1>1. Init => Flags
  BY DEF Init, Flags
<1>2. ASSUME Flags, [Next]_vars
      PROVE  Flags'
  <2>1. CASE MainStep \/ CreateRun \/ ArchiveFails \/ Crash
    BY <1>2, <2>1 DEF Flags, MainStep, CreateRun, StartRun, SeeEnd, WriteArchive, ArchiveFails,
       Retain, CompressNext, ListTars, Unlink, EndRetention, TimeOut, StopRun, StopTimesOut,
       Stopped, Crash, engine
  <2>2. CASE LoopStep \/ CutShort \/ TickFails \/ GuardFails \/ LateAnswer \/ CancelMark
             \/ UNCHANGED vars
    BY <1>2, <2>2 DEF Flags, LoopStep, LoopBegins, Guard, Work, Count, Declare, Wake, CutShort,
       TickFails, GuardFails, LateAnswer, CancelMark, engine, vars
  <2>3. CASE CancelTear
    BY <1>2, <2>3, Zenon DEF Flags, CancelTear
  <2>4. QED  BY <1>2, <2>1, <2>2, <2>3 DEF Next
<1>3. QED  BY <1>1, <1>2, PTL DEF Spec

(* The state keeps its types, and the two orders of the archive hold just  *)
(* the directories and tarballs there are, for any number of runs, faults  *)
(* and archives to keep.                                                   *)
THEOREM LifecycleTypeCorrect == Spec => []TypeOK
<1>1. Control /\ Flags /\ Shelves => TypeOK
  <2> SUFFICES ASSUME Control, Flags, Shelves
               PROVE  TypeOK
    OBVIOUS
  <2>1. {late, running, listed, cut} \subseteq BOOLEAN
    BY DEF Flags
  <2>2. main \in Main /\ status \in Status /\ loop \in Loop /\ verdict \in Status
        /\ tasks \in {"open", "done", "failed"} /\ cancel \in {"none", "marked", "returned"}
        /\ record \in Ended \cup {"none"}
    BY DEF Control, Typed, Status
  <2>3. /\ {dirs, tars, todo} \subseteq Seq(Run)
        /\ \A seq \in {dirs, tars, todo} : IsInjective(seq)
    BY DEF Shelves, Files, Line
  <2>4. QED  BY <2>1, <2>2, <2>3 DEF TypeOK, Shelves, Files
<1>2. QED  BY <1>1, ControlInvariance, FlagsInvariance, ShelvesInvariance, PTL

(* An archived run can be read until KeepLast + KeepCompressed runs have   *)
(* come after it, less one for each compression that went wrong: whatever  *)
(* fails, and wherever a process dies.                                     *)
THEOREM RecordsAreKept == Spec => []RecordKept
<1>1. Shelves => RecordKept
  BY DEF Shelves, AllKept, Kept, RecordKept
<1>2. QED  BY <1>1, ShelvesInvariance, PTL
=============================================================================
