-------------------------- MODULE InProcessProofs --------------------------
(***************************************************************************)
(* Proofs about InProcess: it implements Engine, every claim is answered,  *)
(* no answer is given twice and none is refused, for every set of coders,  *)
(* every limit and every number of failures.                               *)
(*                                                                         *)
(* The first part is about the queues: what an element added or taken out  *)
(* does to their members and to the number of times a task occurs in them. *)
(***************************************************************************)
EXTENDS InProcess, EngineOrderProofs, SequenceTheorems, FiniteSetTheorems

-----------------------------------------------------------------------------
(* Queues.                                                                 *)

(* An enumeration of a finite set leaves none of its elements out.         *)
LEMMA OrderOf ==
  ASSUME NEW S, IsFiniteSet(S), NEW order \in SetToSeqs(S)
  PROVE  /\ order \in Seq(S)
         /\ \A x \in S : \E i \in DOMAIN order : order[i] = x
         /\ \A i, j \in DOMAIN order : order[i] = order[j] => i = j
<1> DEFINE n == Cardinality(S)
<1>1. n \in Nat /\ IsFiniteSet(1..n) /\ Cardinality(1..n) = n
  BY FS_CardinalityType, FS_Interval
<1>2. order \in [1..n -> S] /\ \A i, j \in 1..n : i # j => order[i] # order[j]
  BY DEF SetToSeqs
<1>3. order \in Seq(S) /\ DOMAIN order = 1..n
  BY <1>1, <1>2
<1>4. order \in Injection(1..n, S)
  BY <1>2 DEF Injection, IsInjective
<1>5. order \in Surjection(1..n, S)
  BY <1>1, <1>4, FS_Injection
<1>6. QED  BY <1>2, <1>3, <1>5 DEF Surjection

LEMMA MembersTyped ==
  ASSUME NEW S, NEW seq \in Seq(S), NEW x \in ToSet(seq)
  PROVE  x \in S
BY ElementOfSeq, LenProperties DEF ToSet

(* What stands behind the one that is taken out moves up.                  *)
LEMMA RemoveAtIs ==
  ASSUME NEW S, NEW seq \in Seq(S), NEW i \in DOMAIN seq
  PROVE  /\ RemoveAt(seq, i) \in Seq(S)
         /\ Len(RemoveAt(seq, i)) = Len(seq) - 1
         /\ \A j \in 1..(Len(seq) - 1) :
              RemoveAt(seq, i)[j] = IF j < i THEN seq[j] ELSE seq[j + 1]
<1> DEFINE front == SubSeq(seq, 1, i - 1)
           rear == SubSeq(seq, i + 1, Len(seq))
           len == Len(seq)
<1>1. len \in Nat /\ i \in 1..len /\ i \in Nat /\ \A j \in 1..len : seq[j] \in S
  BY LenProperties
<1>2. /\ front \in Seq(S) /\ Len(front) = i - 1
      /\ \A j \in 1..(i - 1) : front[j] = seq[j]
  BY <1>1, SubSeqProperties
<1>3. /\ rear \in Seq(S) /\ Len(rear) = len - i
      /\ \A j \in 1..(len - i) : rear[j] = seq[i + j]
  BY <1>1, SubSeqProperties
<1>4. /\ front \o rear \in Seq(S) /\ Len(front \o rear) = len - 1
      /\ \A j \in 1..(len - 1) :
           (front \o rear)[j] = IF j <= i - 1 THEN front[j] ELSE rear[j - (i - 1)]
  <2> HIDE DEF front, rear
  <2>1. /\ front \o rear \in Seq(S) /\ Len(front \o rear) = Len(front) + Len(rear)
        /\ \A j \in 1..(Len(front) + Len(rear)) :
             (front \o rear)[j] = IF j <= Len(front) THEN front[j] ELSE rear[j - Len(front)]
    BY <1>2, <1>3, ConcatProperties
  <2>2. Len(front) + Len(rear) = len - 1
    BY <1>1, <1>2, <1>3
  <2>3. QED  BY <1>2, <2>1, <2>2
<1>5. ASSUME NEW j \in 1..(len - 1)
      PROVE  (front \o rear)[j] = IF j < i THEN seq[j] ELSE seq[j + 1]
  <2>1. CASE j < i
    BY <1>1, <1>2, <1>4, <2>1
  <2>2. CASE ~(j < i)
    <3>1. j - (i - 1) \in 1..(len - i) /\ i + (j - (i - 1)) = j + 1 /\ ~(j <= i - 1)
      BY <1>1, <2>2
    <3>2. QED  BY <1>3, <1>4, <2>2, <3>1
  <2>3. QED  BY <2>1, <2>2
<1>6. QED  BY <1>4, <1>5 DEF RemoveAt

(* The members of a queue, as it grows and shrinks.                        *)
LEMMA RemoveMembers ==
  ASSUME NEW S, NEW seq \in Seq(S), NEW i \in DOMAIN seq
  PROVE  /\ ToSet(RemoveAt(seq, i)) \subseteq ToSet(seq)
         /\ ToSet(seq) \subseteq ToSet(RemoveAt(seq, i)) \cup {seq[i]}
<1> DEFINE rest == RemoveAt(seq, i)
           len == Len(seq)
<1>1. /\ len \in Nat /\ DOMAIN seq = 1..len /\ i \in 1..len
      /\ DOMAIN rest = 1..(len - 1)
      /\ \A j \in 1..(len - 1) : rest[j] = IF j < i THEN seq[j] ELSE seq[j + 1]
  BY RemoveAtIs, LenProperties
<1>2. ASSUME NEW j \in 1..(len - 1)
      PROVE  rest[j] \in ToSet(seq)
  <2>1. j \in 1..len /\ j + 1 \in 1..len
    BY <1>1
  <2>2. QED  BY <1>1, <2>1 DEF ToSet
<1>3. ASSUME NEW j \in 1..len, j # i
      PROVE  seq[j] \in ToSet(rest)
  <2>1. CASE j < i
    <3>1. j \in 1..(len - 1)
      BY <1>1, <2>1
    <3>2. QED  BY <1>1, <2>1, <3>1 DEF ToSet
  <2>2. CASE ~(j < i)
    <3>1. j - 1 \in 1..(len - 1) /\ ~(j - 1 < i) /\ (j - 1) + 1 = j
      BY <1>1, <1>3, <2>2
    <3>2. QED  BY <1>1, <3>1 DEF ToSet
  <2>3. QED  BY <2>1, <2>2
<1> HIDE DEF rest
<1>4. ToSet(rest) \subseteq ToSet(seq)
  BY <1>1, <1>2 DEF ToSet
<1>5. ToSet(seq) \subseteq ToSet(rest) \cup {seq[i]}
  BY <1>1, <1>3 DEF ToSet
<1>6. QED  BY <1>4, <1>5 DEF rest

LEMMA ConcatMembers ==
  ASSUME NEW S, NEW seq \in Seq(S), NEW more \in Seq(S)
  PROVE  ToSet(seq \o more) = ToSet(seq) \cup ToSet(more)
<1> DEFINE both == seq \o more
<1>1. /\ Len(seq) \in Nat /\ Len(more) \in Nat
      /\ DOMAIN seq = 1..Len(seq) /\ DOMAIN more = 1..Len(more)
      /\ DOMAIN both = 1..(Len(seq) + Len(more))
      /\ \A i \in 1..(Len(seq) + Len(more)) :
           both[i] = IF i <= Len(seq) THEN seq[i] ELSE more[i - Len(seq)]
  BY LenProperties, ConcatProperties
<1> HIDE DEF both
<1>2. ToSet(both) \subseteq ToSet(seq) \cup ToSet(more)
  BY <1>1 DEF ToSet
<1>3. ToSet(seq) \subseteq ToSet(both)
  BY <1>1 DEF ToSet
<1>4. ASSUME NEW i \in 1..Len(more)
      PROVE  more[i] \in ToSet(both)
  <2>1. /\ i + Len(seq) \in 1..(Len(seq) + Len(more)) /\ ~(i + Len(seq) <= Len(seq))
        /\ (i + Len(seq)) - Len(seq) = i
    BY <1>1
  <2>2. QED  BY <1>1, <2>1 DEF ToSet
<1>5. ToSet(more) \subseteq ToSet(both)
  BY <1>1, <1>4 DEF ToSet
<1>6. QED  BY <1>2, <1>3, <1>5 DEF both

LEMMA AppendMembers ==
  ASSUME NEW S, NEW seq \in Seq(S), NEW x \in S
  PROVE  ToSet(Append(seq, x)) = ToSet(seq) \cup {x}
<1>1. <<x>> \in Seq(S) /\ ToSet(<<x>>) = {x}
  BY DEF ToSet
<1>2. Append(seq, x) = seq \o <<x>>
  BY AppendIsConcat
<1>3. ToSet(seq \o <<x>>) = ToSet(seq) \cup ToSet(<<x>>)
  BY <1>1, ConcatMembers
<1>4. QED  BY <1>1, <1>2, <1>3

(* The head is what stands first.                                          *)
LEMMA TailIs ==
  ASSUME NEW S, NEW seq \in Seq(S), seq # <<>>
  PROVE  1 \in DOMAIN seq /\ Head(seq) = seq[1] /\ Tail(seq) = RemoveAt(seq, 1)
<1>1. Len(seq) \in Nat \ {0} /\ DOMAIN seq = 1..Len(seq)
  BY EmptySeq, LenProperties
<1>2. 1 \in DOMAIN seq /\ Head(seq) = seq[1]
  BY <1>1
<1>3. /\ Tail(seq) \in Seq(S) /\ Len(Tail(seq)) = Len(seq) - 1
      /\ \A j \in 1..(Len(seq) - 1) : Tail(seq)[j] = seq[j + 1]
  BY HeadTailProperties
<1>4. /\ RemoveAt(seq, 1) \in Seq(S) /\ Len(RemoveAt(seq, 1)) = Len(seq) - 1
      /\ \A j \in 1..(Len(seq) - 1) :
           RemoveAt(seq, 1)[j] = IF j < 1 THEN seq[j] ELSE seq[j + 1]
  BY <1>2, RemoveAtIs
<1>5. \A j \in 1..(Len(seq) - 1) : RemoveAt(seq, 1)[j] = Tail(seq)[j]
  BY <1>1, <1>3, <1>4
<1>6. Tail(seq) = RemoveAt(seq, 1)
  BY <1>1, <1>3, <1>4, <1>5
<1>7. QED  BY <1>2, <1>6

(* How often a task occurs.                                                *)
Places(seq, t) == {i \in DOMAIN seq : seq[i].task = t}

LEMMA OccurrencesTyped ==
  ASSUME NEW S, NEW seq \in Seq(S), NEW t
  PROVE  IsFiniteSet(Places(seq, t)) /\ Occurrences(seq, t) \in Nat
<1>1. IsFiniteSet(1..Len(seq)) /\ Places(seq, t) \in SUBSET (1..Len(seq))
  <2>1. Len(seq) \in Int /\ DOMAIN seq = 1..Len(seq)
    BY LenProperties
  <2>2. IsFiniteSet(1..Len(seq))
    BY <2>1, FS_Interval
  <2>3. QED  BY <2>1, <2>2 DEF Places
<1>2. QED  BY <1>1, FS_Subset, FS_CardinalityType DEF Places, Occurrences

LEMMA RemoveOccurrences ==
  ASSUME NEW S, NEW seq \in Seq(S), NEW i \in DOMAIN seq, NEW t
  PROVE  Occurrences(RemoveAt(seq, i), t) + (IF seq[i].task = t THEN 1 ELSE 0)
           <= Occurrences(seq, t)
<1> DEFINE rest == RemoveAt(seq, i)
           len == Len(seq)
           left == Places(seq, t) \ {i}
           up1 == [j \in Places(rest, t) |-> IF j < i THEN j ELSE j + 1]
<1>1. /\ len \in Nat /\ DOMAIN seq = 1..len /\ i \in 1..len
      /\ rest \in Seq(S) /\ DOMAIN rest = 1..(len - 1)
      /\ \A j \in 1..(len - 1) : rest[j] = IF j < i THEN seq[j] ELSE seq[j + 1]
  BY RemoveAtIs, LenProperties
<1>2. /\ IsFiniteSet(Places(seq, t)) /\ IsFiniteSet(left)
      /\ Cardinality(left) = IF i \in Places(seq, t) THEN Cardinality(Places(seq, t)) - 1
                             ELSE Cardinality(Places(seq, t))
  BY OccurrencesTyped, FS_RemoveElement
<1>3. ASSUME NEW j \in Places(rest, t)
      PROVE  up1[j] \in left
  <2>1. j \in 1..(len - 1) /\ rest[j].task = t
    BY <1>1 DEF Places
  <2>2. CASE j < i
    BY <1>1, <2>1, <2>2 DEF Places
  <2>3. CASE ~(j < i)
    <3>1. j + 1 \in 1..len /\ j + 1 # i
      BY <1>1, <2>1, <2>3
    <3>2. seq[j + 1].task = t
      BY <1>1, <2>1, <2>3
    <3>3. QED  BY <1>1, <2>3, <3>1, <3>2 DEF Places
  <2>4. QED  BY <2>2, <2>3
<1>4. up1 \in Injection(Places(rest, t), left)
  <2>1. Places(rest, t) \subseteq Nat
    BY <1>1 DEF Places
  <2>2. \A j, k \in Places(rest, t) : up1[j] = up1[k] => j = k
    BY <1>1, <2>1
  <2>3. QED  BY <1>3, <2>2 DEF Injection, IsInjective
<1>5. Cardinality(Places(rest, t)) <= Cardinality(left)
  BY <1>2, <1>4, FS_Injection
<1>6. i \in Places(seq, t) <=> seq[i].task = t
  BY DEF Places
<1>7. /\ Occurrences(rest, t) = Cardinality(Places(rest, t))
      /\ Occurrences(seq, t) = Cardinality(Places(seq, t))
      /\ Occurrences(rest, t) \in Nat /\ Occurrences(seq, t) \in Nat
  BY <1>1, OccurrencesTyped DEF Occurrences, Places
<1> HIDE DEF rest, left
<1>8. Occurrences(rest, t) + (IF seq[i].task = t THEN 1 ELSE 0) <= Occurrences(seq, t)
  BY <1>2, <1>5, <1>6, <1>7
<1>9. QED  BY <1>8 DEF rest

LEMMA ConcatOccurrences ==
  ASSUME NEW S, NEW seq \in Seq(S), NEW more \in Seq(S), NEW t
  PROVE  Occurrences(seq \o more, t) <= Occurrences(seq, t) + Occurrences(more, t)
<1> DEFINE both == seq \o more
           rear == Places(both, t) \ Places(seq, t)
           down == [i \in rear |-> i - Len(seq)]
<1>1. /\ Len(seq) \in Nat /\ Len(more) \in Nat
      /\ DOMAIN seq = 1..Len(seq) /\ DOMAIN more = 1..Len(more)
      /\ both \in Seq(S) /\ DOMAIN both = 1..(Len(seq) + Len(more))
      /\ \A i \in 1..(Len(seq) + Len(more)) :
           both[i] = IF i <= Len(seq) THEN seq[i] ELSE more[i - Len(seq)]
  BY LenProperties, ConcatProperties
<1>2. /\ IsFiniteSet(Places(seq, t)) /\ IsFiniteSet(Places(more, t))
      /\ IsFiniteSet(Places(both, t))
      /\ Occurrences(seq, t) = Cardinality(Places(seq, t))
      /\ Occurrences(more, t) = Cardinality(Places(more, t))
      /\ Occurrences(both, t) = Cardinality(Places(both, t))
      /\ Occurrences(seq, t) \in Nat /\ Occurrences(more, t) \in Nat
      /\ Occurrences(both, t) \in Nat
  BY <1>1, OccurrencesTyped DEF Occurrences, Places
<1>3. ASSUME NEW i \in rear
      PROVE  i \in Nat /\ i - Len(seq) \in Places(more, t)
  <2>1. i \in 1..(Len(seq) + Len(more)) /\ both[i].task = t
    BY <1>1 DEF Places
  <2>2. ~(i <= Len(seq))
    BY <1>1, <2>1 DEF Places
  <2>3. i - Len(seq) \in 1..Len(more) /\ more[i - Len(seq)].task = t
    BY <1>1, <2>1, <2>2
  <2>4. QED  BY <1>1, <2>1, <2>3 DEF Places
<1>4. down \in Injection(rear, Places(more, t))
  <2>1. \A i, j \in rear : down[i] = down[j] => i = j
    BY <1>1, <1>3
  <2>2. down \in [rear -> Places(more, t)]
    BY <1>3
  <2>3. QED  BY <2>1, <2>2 DEF Injection, IsInjective
<1>5. IsFiniteSet(rear) /\ Cardinality(rear) <= Cardinality(Places(more, t))
  BY <1>2, <1>4, FS_Injection
<1> HIDE DEF rear, both
<1>6. /\ IsFiniteSet(Places(seq, t) \cup rear)
      /\ Cardinality(Places(seq, t) \cup rear) <= Cardinality(Places(seq, t)) + Cardinality(rear)
  <2>1. /\ Cardinality(Places(seq, t) \cup rear)
             = Cardinality(Places(seq, t)) + Cardinality(rear) - Cardinality(Places(seq, t) \cap rear)
        /\ IsFiniteSet(Places(seq, t) \cup rear)
    BY <1>2, <1>5, FS_Union
  <2>2. IsFiniteSet(Places(seq, t) \cap rear)
    BY <1>2, FS_Subset
  <2>3. /\ Cardinality(Places(seq, t) \cap rear) \in Nat
        /\ Cardinality(Places(seq, t)) \in Nat /\ Cardinality(rear) \in Nat
    BY <1>2, <1>5, <2>2, FS_CardinalityType
  <2>4. QED  BY <2>1, <2>3
<1>7. Places(both, t) \in SUBSET (Places(seq, t) \cup rear)
  BY DEF rear
<1>8. Cardinality(Places(both, t)) <= Cardinality(Places(seq, t) \cup rear)
  BY <1>6, <1>7, FS_Subset
<1>9. Cardinality(rear) \in Nat /\ Cardinality(Places(seq, t) \cup rear) \in Nat
  BY <1>5, <1>6, FS_CardinalityType
<1>10. Occurrences(both, t) <= Occurrences(seq, t) + Occurrences(more, t)
  BY <1>2, <1>5, <1>6, <1>8, <1>9
<1>11. QED  BY <1>10 DEF both

LEMMA OrderOccurrences ==
  ASSUME NEW S, NEW order \in Seq(S), NEW t,
         \A i, j \in DOMAIN order : order[i].task = order[j].task => i = j
  PROVE  /\ Occurrences(order, t) <= 1
         /\ (\A i \in DOMAIN order : order[i].task # t) => Occurrences(order, t) = 0
<1>1. /\ IsFiniteSet(Places(order, t)) /\ Occurrences(order, t) = Cardinality(Places(order, t))
  BY OccurrencesTyped DEF Occurrences, Places
<1>2. CASE Places(order, t) = {}
  BY <1>1, <1>2, FS_EmptySet
<1>3. CASE Places(order, t) # {}
  <2>1. PICK i : i \in Places(order, t)
    BY <1>3
  <2>2. Places(order, t) = {i}
    BY <2>1 DEF Places
  <2>3. Occurrences(order, t) = 1
    BY <1>1, <2>2, FS_Singleton
  <2>4. ~ \A j \in DOMAIN order : order[j].task # t
    BY <2>1 DEF Places
  <2>5. QED  BY <2>3, <2>4
<1>4. QED  BY <1>2, <1>3

LEMMA AppendOccurrences ==
  ASSUME NEW S, NEW seq \in Seq(S), NEW x \in S, NEW t
  PROVE  Occurrences(Append(seq, x), t)
           <= Occurrences(seq, t) + (IF x.task = t THEN 1 ELSE 0)
<1>1. /\ <<x>> \in Seq(S) /\ DOMAIN <<x>> = {1} /\ <<x>>[1] = x
      /\ \A i, j \in DOMAIN <<x>> : <<x>>[i].task = <<x>>[j].task => i = j
  OBVIOUS
<1>2. /\ Occurrences(<<x>>, t) <= 1 /\ (x.task # t => Occurrences(<<x>>, t) = 0)
  BY <1>1, OrderOccurrences
<1>3. Occurrences(Append(seq, x), t) <= Occurrences(seq, t) + Occurrences(<<x>>, t)
  BY <1>1, AppendIsConcat, ConcatOccurrences
<1>4. /\ Occurrences(<<x>>, t) \in Nat /\ Occurrences(seq, t) \in Nat
      /\ Occurrences(Append(seq, x), t) \in Nat
  BY <1>1, AppendProperties, OccurrencesTyped
<1>5. QED  BY <1>2, <1>3, <1>4

-----------------------------------------------------------------------------
(* The steps, as the engine sees them.                                     *)

(* An assignment of t at revision n, or the answer to it, is on its way    *)
(* under the role of its task: as long as the task has not moved past it,  *)
(* it has kept the role.                                                   *)
Addressee(t, n, role) ==
  /\ role \in ServedRole
  /\ <<t, n>> \in dispatched
  /\ n >= row[t].rev => row[t].role = role

Addressed ==
  /\ \A a \in ToSet(queue) : Addressee(a.task, a.rev, a.role)
  /\ work # Idle => Addressee(work.task, work.rev, work.role) /\ work.role # "REVIEWER"
  /\ \A m \in ToSet(inbox) : /\ Addressee(m.task, m.rev, m.answer.sender)
                             /\ m.answer \in Replies(m.answer.sender)

(* A claimed task belongs to the active plan: its answer can be taken in.  *)
ClaimedActive == \A t \in Task : row[t].state = "CLAIMED" => t \in ActiveTasks

Message == [task: Task, rev: Nat, answer: Response]

LEMMA RepliesTyped ==
  ASSUME NEW role \in ServedRole, NEW answer \in Replies(role)
  PROVE  /\ answer.sender = role /\ answer.verdict # "store"
         /\ answer \in Responses[role] /\ answer \in Response
         /\ HasFiles(answer) => /\ Unstored(answer) \in Responses[role]
                                /\ Unstored(answer) \in Response
                                /\ Unstored(answer).sender = role
                                /\ Unstored(answer).event = answer.event
                                /\ Unstored(answer).verdict = "store"
<1>1. /\ answer \in Responses[role]
      /\ HasFiles(answer) => Unstored(answer) \in Responses[role]
  BY EngineCovers
<1>2. Responses[role] \subseteq Response
  BY ResponsesTyped DEF ServedRole, AssignedRole
<1>3. \E event, verdict : /\ answer = [event |-> event, sender |-> role, verdict |-> verdict]
                          /\ verdict # "store"
  BY DEF Replies, Readable, PlanReplies, CodeReplies, BriefReplies, Failure, Approval, Reply,
         ServedRole
<1>4. /\ Unstored(answer).sender = role /\ Unstored(answer).event = answer.event
      /\ Unstored(answer).verdict = "store"
  BY <1>3 DEF Unstored
<1>5. QED  BY <1>1, <1>2, <1>3, <1>4

(* Every role that is given work is one the simulator serves.              *)
LEMMA WorkedRole ==
  ASSUME NEW r, Coherent(r), r.state \in {"READY", "CLAIMED"}
  PROVE  r.role \in ServedRole /\ ~Terminal(r)
BY DEF Coherent, WorkerStages, ServedRole, Terminal, TerminalPhases, FailedPhases

LEMMA BatchesFinite ==
  ASSUME NEW batch \in SUBSET Task
  PROVE  IsFiniteSet({AssignmentOf(t) : t \in batch})
<1>1. IsFiniteSet({Researcher, Planner})
  <2>1. IsFiniteSet({Researcher})
    BY FS_Singleton
  <2>2. {Researcher, Planner} = {Researcher} \cup {Planner}
    OBVIOUS
  <2>3. QED  BY <2>1, <2>2, FS_AddElement
<1>2. IsFiniteSet(Task)
  BY <1>1, CodersFinite, FS_Union DEF Task
<1>3. IsFiniteSet(batch)
  BY <1>2, FS_Subset
<1> DEFINE given == {AssignmentOf(t) : t \in batch}
           f == [t \in batch |-> AssignmentOf(t)]
<1>4. f \in Surjection(batch, given)
  BY DEF Surjection
<1>5. QED  BY <1>3, <1>4, FS_Surjection

LEMMA EnqueuedIs ==
  ASSUME Inv, SimulatorTypeOK, NEW batch \in SUBSET Task, Enqueued(batch)
  PROVE  /\ queue' \in Seq(Assignment)
         /\ ToSet(queue') = ToSet(queue) \cup {AssignmentOf(t) : t \in batch}
         /\ \A u \in Task : Occurrences(queue', u)
                              <= Occurrences(queue, u) + (IF u \in batch THEN 1 ELSE 0)
<1> DEFINE given == {AssignmentOf(t) : t \in batch}
<1>1. PICK order \in SetToSeqs(given) : queue' = queue \o order
  BY DEF Enqueued
<1>2. /\ order \in Seq(given)
      /\ \A x \in given : \E i \in DOMAIN order : order[i] = x
      /\ \A i, j \in DOMAIN order : order[i] = order[j] => i = j
  BY BatchesFinite, OrderOf
<1>3. \A t \in batch : AssignmentOf(t) \in Assignment /\ AssignmentOf(t).task = t
  BY DEF Inv, TypeOK, Row, AssignmentOf, Assignment
<1>4. \A i \in DOMAIN order : order[i] \in given
  BY <1>2, ElementOfSeq, LenProperties
<1>5. order \in Seq(Assignment)
  BY <1>2, <1>3, SeqMonotonic
<1>6. queue \in Seq(Assignment)
  BY DEF SimulatorTypeOK
<1>7. ToSet(order) = given
  BY <1>2, <1>4 DEF ToSet
<1>8. \A i, j \in DOMAIN order : order[i].task = order[j].task => i = j
  <2> SUFFICES ASSUME NEW i \in DOMAIN order, NEW j \in DOMAIN order,
                      order[i].task = order[j].task
               PROVE  i = j
    OBVIOUS
  <2>1. PICK t \in batch : order[i] = AssignmentOf(t)
    BY <1>4
  <2>2. PICK u \in batch : order[j] = AssignmentOf(u)
    BY <1>4
  <2>3. t = u
    BY <1>3, <2>1, <2>2
  <2>4. QED  BY <1>2, <2>1, <2>2, <2>3
<1>9. ASSUME NEW u \in Task
      PROVE  Occurrences(queue', u)
               <= Occurrences(queue, u) + (IF u \in batch THEN 1 ELSE 0)
  <2>1. Occurrences(queue', u) <= Occurrences(queue, u) + Occurrences(order, u)
    BY <1>1, <1>5, <1>6, ConcatOccurrences
  <2>2. /\ Occurrences(order, u) <= 1
        /\ (\A i \in DOMAIN order : order[i].task # u) => Occurrences(order, u) = 0
    BY <1>5, <1>8, OrderOccurrences
  <2>3. u \notin batch => \A i \in DOMAIN order : order[i].task # u
    BY <1>3, <1>4
  <2>4. queue' \in Seq(Assignment)
    BY <1>1, <1>5, <1>6, ConcatProperties
  <2>5. /\ Occurrences(queue', u) \in Nat /\ Occurrences(queue, u) \in Nat
        /\ Occurrences(order, u) \in Nat
    BY <1>5, <1>6, <2>4, OccurrencesTyped
  <2>6. QED  BY <2>1, <2>2, <2>3, <2>5
<1>10. queue' \in Seq(Assignment)
  BY <1>1, <1>5, <1>6, ConcatProperties
<1>11. ToSet(queue') = ToSet(queue) \cup given
  BY <1>1, <1>5, <1>6, <1>7, ConcatMembers
<1>12. QED  BY <1>9, <1>10, <1>11

(* The batch of a tick, read off the rows, is the one the scheduler chose. *)
Given == {t \in Task : row[t].state = "READY" /\ row'[t].state = "CLAIMED"}

LEMMA GivenClaims ==
  ASSUME Inv, Schedule
  PROVE  /\ \A t \in Given : /\ <<t, row[t].rev + 1>> \in dispatched'
                             /\ row'[t] = Claimed(row[t])
         /\ \A t \in Task \ Given : row'[t] = row[t] \/ row'[t] = CascadeFailed(row[t])
         /\ \A t \in Task : row'[t] # row[t] => row[t].state = "READY" /\ t \in ActiveTasks
         /\ Given \subseteq ActiveTasks
         /\ dispatched \subseteq dispatched'
<1>1. PICK batch \in Batches :
        /\ row' = [t \in Task |-> IF t \in batch THEN Claimed(row[t])
                                  ELSE IF t \in Doomed THEN CascadeFailed(row[t])
                                  ELSE row[t]]
        /\ dispatched' = dispatched \cup Assignments(batch)
  BY DEF Schedule
<1>2. \A t \in Task : row[t] \in Row /\ Coherent(row[t])
  BY DEF Inv, TypeOK, StagesCoherent
<1>3. batch \cup Doomed \subseteq {t \in Task : row[t].state = "READY"}
  BY BatchReady
<1>4. batch \cup Doomed \subseteq ActiveTasks
  BY DEF Batches, CodersRunnable, Runnable, Doomed, Ready
<1>5. \A t \in batch : row'[t] = Claimed(row[t]) /\ row'[t].state = "CLAIMED"
  BY <1>1, <1>2, <1>3, ClaimedRow
<1>6. \A t \in Task \ batch : row'[t] = row[t] \/ (row'[t] = CascadeFailed(row[t]) /\ t \in Doomed)
  BY <1>1
<1>7. \A t \in Task \ batch : ~(row[t].state = "READY" /\ row'[t].state = "CLAIMED")
  BY <1>2, <1>6, CascadeRow
<1>8. Given = batch
  BY <1>3, <1>5, <1>7 DEF Given
<1>9. QED  BY <1>1, <1>3, <1>4, <1>5, <1>6, <1>8 DEF Assignments

(* What taking in an answer does to its row.                               *)
LEMMA RoutedNotHeld ==
  ASSUME NEW q \in Row, NEW event, NEW limit, NEW phase, NEW role, NEW lastRole
  PROVE  /\ Routed(q, event, phase, role).state # "PROCESSING"
         /\ ChargedFor(q, event, limit, phase, role, lastRole).state # "PROCESSING"
<1>1. \A p \in Row : \A f, o : Routed(p, event, f, o).state = StateFor(f, o)
  BY DEF Routed, Moved, Row
<1>2. Charged(q) \in Row
  BY ChargedFields
<1>3. QED  BY <1>1, <1>2 DEF ChargedFor, StateFor

LEMMA IntakeLeaves ==
  ASSUME Inv, NEW t \in Task, NEW m \in Response, Intake(t, m)
  PROVE  /\ row[t].state = "CLAIMED" /\ Onward(row[t], row'[t])
         /\ \A u \in Task \ {t} : row'[u] = row[u]
         /\ UNCHANGED dispatched
         /\ row'[t].state = "PROCESSING" =>
              /\ row'[t].rev = row[t].rev + 1
              /\ ~Authorized(row[t], m) \/ m.verdict = "store"
<1>1. /\ row[t] \in Row /\ Coherent(row[t]) /\ row[t].state = "CLAIMED"
      /\ row \in [Task -> Row]
  BY IntakeTouches, ArrivesClaimed DEF Inv, TypeOK
<1>2. \E next : Taken(t, m, next) /\ row'[t] = next /\ \A u \in Task \ {t} : row'[u] = row[u]
  BY TakenRows
<1>3. Onward(row[t], row'[t]) /\ \A u \in Task \ {t} : row'[u] = row[u]
  BY <1>2 DEF Taken
<1>4. UNCHANGED dispatched
  BY IntakeTouches
<1>5. Held(row[t]) \in Row /\ Held(row[t]).rev = row[t].rev + 1
  <2>1. Held(row[t]) = [row[t] EXCEPT !.state = "PROCESSING", !.rev = @ + 1]
    BY <1>1 DEF Held
  <2>2. QED  BY <1>1, <2>1, HeldFields DEF Row
<1>6. Charged(Held(row[t])) \in Row /\ Charged(Held(row[t])).rev = row[t].rev + 1
  BY <1>5, ChargedFields DEF Charged, Row
<1>7. ASSUME NEW next, Put(t, next)
      PROVE  row'[t] = next
  BY <1>1, <1>7 DEF Put
<1>8. CASE Refuse(t, m)
  BY <1>5, <1>7, <1>8, <1>3, <1>1, <1>4 DEF Refuse
<1>9. CASE Unsaved(t, m)
  BY <1>1, <1>3, <1>4, <1>5, <1>6, <1>7, <1>9 DEF Unsaved, Answered
<1>10. CASE ~Refuse(t, m) /\ ~Unsaved(t, m)
  <2> DEFINE routed == \E event, phase, role :
                         \/ Put(t, Routed(Held(row[t]), event, phase, role))
                         \/ Put(t, Routed(Charged(Held(row[t])), event, phase, role))
             charged == \E event, limit, phase, role, lastRole :
                          Put(t, ChargedFor(Held(row[t]), event, limit, phase, role, lastRole))
  <2>1. routed \/ charged
    <3>1. CASE Accept(t, m) \/ AcceptPlan(t, m) \/ Drift(t, m) \/ BreakContract(t, m)
      BY <3>1 DEF Accept, AcceptPlan, Drift, BreakContract
    <3>2. CASE ReportFailure(t, m) \/ LeaveScope(t, m) \/ RejectPlan(t, m)
      BY <3>2 DEF ReportFailure, LeaveScope, RejectPlan
    <3>3. CASE RejectReview(t, m)
      BY <3>3 DEF RejectReview
    <3>4. QED  BY <1>10, <3>1, <3>2, <3>3 DEF Intake
  <2>2. row'[t].state # "PROCESSING"
    <3>1. CASE routed
      BY <1>5, <1>6, <1>7, <3>1, RoutedNotHeld
    <3>2. CASE charged
      BY <1>5, <1>7, <3>2, RoutedNotHeld
    <3>3. QED  BY <2>1, <3>1, <3>2
  <2>3. QED  BY <1>1, <1>3, <1>4, <2>2
<1>11. QED  BY <1>8, <1>9, <1>10

(* The guardian refuses no answer of these workers: its role and its phase *)
(* are those of the row.                                                   *)
LEMMA Allowed ==
  ASSUME NEW r, Coherent(r), r.state = "CLAIMED", NEW answer \in Replies(r.role)
  PROVE  AuthorizeEvent(r.phase, r.role, answer.event)
<1>1. <<r.phase, r.role>> \in WorkerStages
  BY DEF Coherent
<1>2. CASE r.phase = "REVIEWING" /\ r.role = "REVIEWER"
  <2>1. answer.event = "REVIEW_APPROVED"
    BY <1>2 DEF Replies, Approval, Reply
  <2>2. QED  BY <1>2, <2>1 DEF AuthorizeEvent, PhaseAuth, RoleAuth
<1>3. CASE r.phase = "PLANNING" /\ r.role = "PLANNER"
  <2>1. answer.event \in {"PLAN_SUBMITTED", "TASK_FAILED"}
    BY <1>3 DEF Replies, Readable, PlanReplies, Failure, Reply
  <2>2. QED  BY <1>3, <2>1 DEF AuthorizeEvent, PhaseAuth, RoleAuth
<1>4. CASE r.phase = "CODING" /\ r.role = "CODER"
  <2>1. answer.event \in {"CODE_SUBMITTED", "TASK_FAILED"}
    BY <1>4 DEF Replies, Readable, CodeReplies, Failure, Reply
  <2>2. QED  BY <1>4, <2>1 DEF AuthorizeEvent, PhaseAuth, RoleAuth
<1>5. CASE r.phase = "RESEARCHING" /\ r.role = "RESEARCHER"
  <2>1. answer.event \in {"RESEARCH_COMPLETE", "TASK_FAILED"}
    BY <1>5 DEF Replies, Readable, BriefReplies, Failure, Reply
  <2>2. QED  BY <1>5, <2>1 DEF AuthorizeEvent, PhaseAuth, RoleAuth
<1>6. QED  BY <1>1, <1>2, <1>3, <1>4, <1>5 DEF WorkerStages

(* An answer that is current is one its task's role may give; nothing is   *)
(* wrong with it but what the checks of its contents and the store find.   *)
LEMMA TakenIn ==
  ASSUME Inv, SimulatorTypeOK, Addressed, NEW i \in DOMAIN inbox, TakeIn(i)
  PROVE  /\ inbox[i] \in Message /\ inbox[i] \in ToSet(inbox)
         /\ UNCHANGED <<queue, work, up, repeated>> /\ inbox' = RemoveAt(inbox, i)
         /\ lost \subseteq lost'
         /\ \/ UNCHANGED vars /\ ~Current(inbox[i])
            \/ /\ Current(inbox[i])
               /\ \E a \in Responses[row[inbox[i].task].role] :
                    /\ a \in Response /\ Intake(inbox[i].task, a)
                    /\ Authorized(row[inbox[i].task], a)
                    /\ a.verdict = "store" => <<inbox[i].task, inbox[i].rev>> \in lost'
<1> DEFINE m == inbox[i]
           r == row[m.task]
<1>1. m \in Message /\ m \in ToSet(inbox)
  <2>1. m \in ToSet(inbox)
    BY DEF ToSet
  <2>2. inbox \in Seq(Message) /\ i \in 1..Len(inbox)
    BY LenProperties DEF SimulatorTypeOK, Message
  <2>3. QED  BY <2>1, <2>2, ElementOfSeq
<1>2. /\ UNCHANGED <<queue, work, up, repeated>> /\ inbox' = RemoveAt(inbox, i)
      /\ lost \subseteq lost'
  BY DEF TakeIn
<1>3. CASE UNCHANGED vars /\ ~Current(m)
  BY <1>1, <1>2, <1>3
<1>4. CASE /\ Current(m)
           /\ \/ Intake(m.task, m.answer)
              \/ /\ HasFiles(m.answer) /\ Intake(m.task, Unstored(m.answer))
                 /\ lost' = lost \cup {<<m.task, m.rev>>}
  <2>1. m.task \in Task /\ m.rev = r.rev /\ Arrives(m.task) /\ r.rev \in Nat
    BY <1>1, <1>4 DEF Current, Message, Inv, TypeOK, Row
  <2>2. Coherent(r) /\ r.state = "CLAIMED"
    BY <2>1, ArrivesClaimed
  <2>3. m.answer.sender \in ServedRole /\ m.answer.sender = r.role
        /\ m.answer \in Replies(r.role)
    <3>1. /\ Addressee(m.task, m.rev, m.answer.sender)
          /\ m.answer \in Replies(m.answer.sender)
      BY <1>1 DEF Addressed
    <3>2. m.rev >= r.rev
      BY <2>1
    <3>3. QED  BY <3>1, <3>2 DEF Addressee
  <2>4. AuthorizeEvent(r.phase, r.role, m.answer.event)
    BY <2>2, <2>3, Allowed
  <2>5. CASE Intake(m.task, m.answer)
    <3>1. /\ m.answer \in Responses[r.role] /\ m.answer \in Response
          /\ m.answer.verdict # "store"
      BY <2>3, RepliesTyped
    <3>2. Authorized(r, m.answer)
      BY <2>3, <2>4 DEF Authorized
    <3>3. QED  BY <1>1, <1>2, <1>4, <2>5, <3>1, <3>2
  <2>6. CASE /\ HasFiles(m.answer) /\ Intake(m.task, Unstored(m.answer))
             /\ lost' = lost \cup {<<m.task, m.rev>>}
    <3>1. /\ Unstored(m.answer) \in Responses[r.role] /\ Unstored(m.answer) \in Response
          /\ Unstored(m.answer).sender = r.role
          /\ Unstored(m.answer).event = m.answer.event
      BY <2>3, <2>6, RepliesTyped
    <3>2. Authorized(r, Unstored(m.answer))
      BY <2>4, <3>1 DEF Authorized
    <3>3. QED  BY <1>1, <1>2, <1>4, <2>6, <3>1, <3>2
  <2>7. QED  BY <1>4, <2>5, <2>6
<1>5. QED  BY <1>3, <1>4 DEF TakeIn

(* Every step is one of Engine's.                                          *)
LEMMA StepImplements ==
  ASSUME Inv, SimulatorTypeOK, Addressed, [SimulatedNext]_allvars
  PROVE  [Next]_vars
<1>1. CASE Assign
  BY <1>1 DEF Assign, Next
<1>2. CASE AssignRolledBack
  BY <1>2, EngineCovers DEF AssignRolledBack, ScheduleRolledBack, Next
<1>3. CASE VerifySubmitted \/ Conclude
  BY <1>3 DEF VerifySubmitted, Conclude, Next
<1>4. CASE \E i \in DOMAIN inbox : TakeIn(i)
  <2>1. PICK i \in DOMAIN inbox : TakeIn(i)
    BY <1>4
  <2>2. CASE UNCHANGED vars
    BY <2>2
  <2>3. CASE \E a \in Responses[row[inbox[i].task].role] : Intake(inbox[i].task, a)
    <3>1. inbox[i].task \in Task
      BY <2>1, TakenIn DEF Message
    <3>2. QED  BY <2>3, <3>1 DEF Next
  <2>4. QED  BY <2>1, <2>2, <2>3, TakenIn
<1>5. CASE UNCHANGED vars
  BY <1>5
<1>6. QED
  BY <1>1, <1>2, <1>3, <1>4, <1>5
  DEF SimulatedNext, LoseAnswer, Fetch, Respond, GiveUp, Stop, allvars

(* What a step makes of the rows.                                          *)
LEMMA VerifyLeaves ==
  ASSUME Inv, Verify, NEW u \in Task
  PROVE  \/ row'[u] = row[u]
         \/ /\ row[u].state = "SUBMITTED" /\ Onward(row[u], row'[u])
            /\ row'[u].state # "PROCESSING"
<1>1. row[u] \in Row /\ Coherent(row[u])
  BY DEF Inv, TypeOK, StagesCoherent
<1>2. CASE u \in Submitted
  <2>1. row[u].role = "SYSTEM" /\ row[u].phase = "VERIFYING"
    BY <1>2 DEF Submitted
  <2>2. row'[u] \in {Routed(Held(row[u]), "VERIFY_SUCCESS", "REVIEWING", "REVIEWER"),
                     ChargedFor(Held(row[u]), "VERIFY_FAILURE", MaxIterations,
                                "CODING", "CODER", NoRole)}
    BY <1>2 DEF Verify
  <2>3. row[u].state = "SUBMITTED" /\ Onward(row[u], row'[u])
    BY <1>1, <2>1, <2>2, JudgedOnward
  <2>4. Held(row[u]) = row[u]
    BY <2>3 DEF Held
  <2>5. row'[u].state # "PROCESSING"
    BY <1>1, <2>2, <2>4, RoutedNotHeld
  <2>6. QED  BY <2>3, <2>5
<1>3. CASE u \notin Submitted
  BY <1>3 DEF Verify
<1>4. QED  BY <1>2, <1>3

LEMMA RowsMove ==
  ASSUME Inv, SimulatorTypeOK, Addressed, [SimulatedNext]_allvars
  PROVE  /\ dispatched \subseteq dispatched' /\ lost \subseteq lost'
         /\ \A u \in Task :
              /\ \/ row'[u] = row[u]
                 \/ /\ row[u].state = "READY" /\ u \in ActiveTasks
                    /\ row'[u] \in {Claimed(row[u]), CascadeFailed(row[u])}
                 \/ /\ row[u].state \in {"CLAIMED", "SUBMITTED"}
                    /\ Onward(row[u], row'[u])
              /\ row'[u].state = "PROCESSING" =>
                   row'[u] = row[u] \/ <<u, row'[u].rev - 1>> \in lost'
<1> DEFINE Goal == /\ dispatched \subseteq dispatched' /\ lost \subseteq lost'
                   /\ \A u \in Task :
                        /\ \/ row'[u] = row[u]
                           \/ /\ row[u].state = "READY" /\ u \in ActiveTasks
                              /\ row'[u] \in {Claimed(row[u]), CascadeFailed(row[u])}
                           \/ /\ row[u].state \in {"CLAIMED", "SUBMITTED"}
                              /\ Onward(row[u], row'[u])
                        /\ row'[u].state = "PROCESSING" =>
                             row'[u] = row[u] \/ <<u, row'[u].rev - 1>> \in lost'
<1>1. CASE Assign
  <2>1. lost' = lost /\ Schedule
    BY <1>1 DEF Assign, history
  <2>2. \A u \in Task : row[u] \in Row /\ Coherent(row[u])
    BY DEF Inv, TypeOK, StagesCoherent
  <2>3. \A u \in Task : \/ row'[u] = row[u]
                        \/ /\ row[u].state = "READY" /\ u \in ActiveTasks
                           /\ row'[u] \in {Claimed(row[u]), CascadeFailed(row[u])}
    BY <2>1, GivenClaims
  <2>4. \A u \in Task : /\ row[u].state = "READY" => Claimed(row[u]).state = "CLAIMED"
                        /\ CascadeFailed(row[u]).state = "FAILED"
    BY <2>2, ClaimedRow, CascadeRow
  <2>5. QED  BY <2>1, <2>3, <2>4, GivenClaims
<1>2. CASE AssignRolledBack
  BY <1>2 DEF AssignRolledBack, Fault
<1>3. CASE VerifySubmitted
  <2>1. Verify /\ UNCHANGED <<lost, dispatched>>
    BY <1>3 DEF VerifySubmitted, Verify, history
  <2>2. QED  BY <2>1, VerifyLeaves
<1>4. CASE \E i \in DOMAIN inbox : TakeIn(i)
  <2>1. PICK i \in DOMAIN inbox : TakeIn(i)
    BY <1>4
  <2> DEFINE t == inbox[i].task
  <2>2. lost \subseteq lost' /\ t \in Task
    BY <2>1, TakenIn DEF Message
  <2>3. CASE UNCHANGED vars
    BY <2>2, <2>3 DEF vars
  <2>4. CASE Current(inbox[i]) /\
             \E a \in Responses[row[t].role] :
               /\ a \in Response /\ Intake(t, a) /\ Authorized(row[t], a)
               /\ a.verdict = "store" => <<t, inbox[i].rev>> \in lost'
    <3>1. PICK a \in Responses[row[t].role] :
            /\ a \in Response /\ Intake(t, a) /\ Authorized(row[t], a)
            /\ a.verdict = "store" => <<t, inbox[i].rev>> \in lost'
      BY <2>4
    <3>2. /\ row[t].state = "CLAIMED" /\ Onward(row[t], row'[t])
          /\ \A u \in Task \ {t} : row'[u] = row[u]
          /\ UNCHANGED dispatched
          /\ row'[t].state = "PROCESSING" =>
               row'[t].rev = row[t].rev + 1 /\ a.verdict = "store"
      BY <2>2, <3>1, IntakeLeaves
    <3>3. inbox[i].rev = row[t].rev /\ row[t].rev \in Nat
      BY <2>2, <2>4 DEF Current, Inv, TypeOK, Row
    <3>4. row'[t].state = "PROCESSING" => <<t, row'[t].rev - 1>> \in lost'
      BY <3>1, <3>2, <3>3
    <3>5. QED  BY <2>2, <3>2, <3>4
  <2>5. QED  BY <2>1, <2>3, <2>4, TakenIn
<1>5. CASE UNCHANGED <<row, dispatched>> /\ lost \subseteq lost'
  BY <1>5
<1>6. QED
  BY <1>1, <1>2, <1>3, <1>4, <1>5
  DEF SimulatedNext, Conclude, CheckCompletion, LoseAnswer, Fetch, Respond, GiveUp, Stop,
      allvars, vars, history

-----------------------------------------------------------------------------
(* What is on its way, after a step.                                       *)

LEMMA PublishedIs ==
  ASSUME SimulatorTypeOK, NEW a \in Assignment, NEW answer \in Response
  PROVE  LET m == [task |-> a.task, rev |-> a.rev, answer |-> answer] IN
         /\ Published(a, answer) \in Seq(Message)
         /\ ToSet(Published(a, answer)) = ToSet(inbox) \cup {m}
         /\ \A u \in Task : Occurrences(Published(a, answer), u)
                              <= Occurrences(inbox, u) + (IF a.task = u THEN 1 ELSE 0)
<1> DEFINE m == [task |-> a.task, rev |-> a.rev, answer |-> answer]
<1>1. m \in Message /\ m.task = a.task
  BY DEF Assignment, Message
<1>2. inbox \in Seq(Message)
  BY DEF SimulatorTypeOK, Message
<1> HIDE DEF m
<1>3. Append(inbox, m) \in Seq(Message)
  BY <1>1, <1>2, AppendProperties
<1>4. ToSet(Append(inbox, m)) = ToSet(inbox) \cup {m}
  BY <1>1, <1>2, AppendMembers
<1>5. \A u \in Task : Occurrences(Append(inbox, m), u)
                        <= Occurrences(inbox, u) + (IF a.task = u THEN 1 ELSE 0)
  BY <1>1, <1>2, AppendOccurrences
<1>6. QED  BY <1>3, <1>4, <1>5 DEF Published, m

LEMMA FetchIs ==
  ASSUME SimulatorTypeOK, Fetch
  PROVE  LET a == Head(queue) IN
         /\ a \in Assignment /\ a \in ToSet(queue) /\ queue' \in Seq(Assignment)
         /\ ToSet(queue') \subseteq ToSet(queue)
         /\ ToSet(queue) \subseteq ToSet(queue') \cup {a}
         /\ \A u \in Task : Occurrences(queue', u) + (IF a.task = u THEN 1 ELSE 0)
                              <= Occurrences(queue, u)
         /\ work = Idle
         /\ \/ a.role = "REVIEWER" /\ inbox' = Published(a, Approval) /\ work' = Idle
            \/ a.role # "REVIEWER" /\ work' = a /\ inbox' = inbox
<1>1. queue \in Seq(Assignment) /\ queue # <<>> /\ queue' = Tail(queue)
  BY DEF SimulatorTypeOK, Fetch
<1>2. 1 \in DOMAIN queue /\ Head(queue) = queue[1] /\ queue' = RemoveAt(queue, 1)
  BY <1>1, TailIs
<1>3. Head(queue) \in Assignment /\ Head(queue) \in ToSet(queue)
  BY <1>1, <1>2, HeadTailProperties DEF ToSet
<1>4. /\ queue' \in Seq(Assignment) /\ ToSet(queue') \subseteq ToSet(queue)
      /\ ToSet(queue) \subseteq ToSet(queue') \cup {Head(queue)}
  <2>1. RemoveAt(queue, 1) \in Seq(Assignment)
    BY <1>1, <1>2, RemoveAtIs
  <2>2. /\ ToSet(RemoveAt(queue, 1)) \subseteq ToSet(queue)
        /\ ToSet(queue) \subseteq ToSet(RemoveAt(queue, 1)) \cup {queue[1]}
    BY <1>1, <1>2, RemoveMembers
  <2>3. QED  BY <1>2, <2>1, <2>2
<1>5. \A u \in Task : Occurrences(queue', u) + (IF Head(queue).task = u THEN 1 ELSE 0)
                        <= Occurrences(queue, u)
  BY <1>1, <1>2, RemoveOccurrences
<1>6. /\ work = Idle
      /\ \/ Head(queue).role = "REVIEWER" /\ inbox' = Published(Head(queue), Approval)
            /\ work' = Idle
         \/ Head(queue).role # "REVIEWER" /\ work' = Head(queue) /\ inbox' = inbox
  BY DEF Fetch
<1>7. QED  BY <1>3, <1>4, <1>5, <1>6

(* The simulator's answer, whether the worker's or a report of failure.    *)
LEMMA AnswerIs ==
  ASSUME SimulatorTypeOK, Addressed, Respond \/ GiveUp
  PROVE  /\ work # Idle /\ work \in Assignment /\ work' = Idle /\ UNCHANGED queue
         /\ \E answer \in Replies(work.role) :
              /\ answer \in Response /\ answer.sender = work.role
              /\ inbox' = Published(work, answer)
<1>1. work # Idle /\ work \in Assignment /\ work' = Idle /\ UNCHANGED queue
  BY DEF Respond, GiveUp, SimulatorTypeOK
<1>2. work.role \in ServedRole /\ work.role # "REVIEWER"
  BY <1>1 DEF Addressed, Addressee
<1>3. Replies(work.role) = Readable(work.role) \cup {Failure(work.role)}
  BY <1>2 DEF Replies
<1>4. PICK answer \in Replies(work.role) : inbox' = Published(work, answer)
  BY <1>3 DEF Respond, GiveUp
<1>5. QED  BY <1>1, <1>2, <1>4, RepliesTyped

LEMMA ApprovalIs ==
  /\ Approval \in Replies("REVIEWER") /\ Approval \in Response
  /\ Approval.sender = "REVIEWER"
<1>1. Approval \in Replies("REVIEWER") /\ "REVIEWER" \in ServedRole
  BY DEF Replies, ServedRole
<1>2. QED  BY <1>1, RepliesTyped

(* Addressee, after a step.                                                *)
StillAddressee(t, n, role) ==
  /\ role \in ServedRole
  /\ <<t, n>> \in dispatched'
  /\ n >= row'[t].rev => row'[t].role = role

LEMMA AddresseeKept ==
  ASSUME Inv, SimulatorTypeOK, Addressed, [SimulatedNext]_allvars,
         NEW t \in Task, NEW n \in Nat, NEW role, Addressee(t, n, role)
  PROVE  StillAddressee(t, n, role)
<1>1. /\ row[t] \in Row /\ Coherent(row[t]) /\ row[t].rev \in Nat
      /\ role \in ServedRole /\ <<t, n>> \in dispatched'
  BY RowsMove DEF Addressee, Inv, TypeOK, StagesCoherent, Row
<1>2. CASE row'[t] = row[t]
  BY <1>1, <1>2 DEF Addressee, StillAddressee
<1>3. CASE /\ row[t].state = "READY"
           /\ row'[t] \in {Claimed(row[t]), CascadeFailed(row[t])}
  <2>1. row'[t].role = row[t].role /\ row'[t].rev >= row[t].rev
    <3>1. CASE row'[t] = Claimed(row[t])
      BY <1>1, <3>1 DEF Claimed, Row
    <3>2. CASE row'[t] = CascadeFailed(row[t])
      BY <1>1, <3>2 DEF CascadeFailed, Row
    <3>3. QED  BY <1>3, <3>1, <3>2
  <2>2. row'[t].rev \in Nat
    BY <1>1, <1>3, ClaimedRow, CascadeRow DEF Row
  <2>3. n >= row'[t].rev => n >= row[t].rev
    BY <1>1, <2>1, <2>2
  <2>4. QED  BY <1>1, <2>1, <2>3 DEF Addressee, StillAddressee
<1>4. CASE row[t].state \in {"CLAIMED", "SUBMITTED"} /\ Onward(row[t], row'[t])
  <2>1. n <= row[t].rev
    <3>1. \/ n < row[t].rev
          \/ n = row[t].rev
          \/ n = row[t].rev + 1 /\ row[t].state \in {"READY", "FAILED"}
      BY DEF Addressee, Inv, AssignmentsAccounted
    <3>2. QED  BY <1>1, <1>4, <3>1
  <2>2. row'[t].rev \in Nat /\ row'[t].rev > row[t].rev
    BY <1>4 DEF Onward, Row
  <2>3. ~(n >= row'[t].rev)
    BY <1>1, <2>1, <2>2
  <2>4. QED  BY <1>1, <2>3 DEF Addressee, StillAddressee
<1>5. QED  BY <1>2, <1>3, <1>4, RowsMove

(* An assignment is made out to the role of its row.                       *)
LEMMA GivenAddressed ==
  ASSUME Inv, Assign \/ AssignRolledBack
  PROVE  \E batch \in SUBSET Task :
           /\ Enqueued(batch)
           /\ \A t \in batch : row[t].state = "READY"
           /\ \A a \in {AssignmentOf(t) : t \in batch} : StillAddressee(a.task, a.rev, a.role)
<1>1. \A t \in Task : row[t] \in Row /\ Coherent(row[t])
  BY DEF Inv, TypeOK, StagesCoherent
<1>2. \A t \in Task : /\ AssignmentOf(t).task = t /\ AssignmentOf(t).rev = row[t].rev + 1
                      /\ AssignmentOf(t).role = row[t].role
  BY DEF AssignmentOf
<1>3. CASE Assign
  <2>1. Schedule /\ Given \in SUBSET Task
    BY <1>3 DEF Assign, Given
  <2>2. ASSUME NEW a \in {AssignmentOf(t) : t \in Given}
        PROVE  StillAddressee(a.task, a.rev, a.role)
    <3>1. PICK t \in Given : a = AssignmentOf(t)
      OBVIOUS
    <3>2. /\ t \in Task /\ row[t].state = "READY" /\ row'[t] = Claimed(row[t])
          /\ <<t, row[t].rev + 1>> \in dispatched'
      BY <2>1, GivenClaims DEF Given
    <3>3. row'[t].role = row[t].role
      BY <1>1, <3>2 DEF Claimed, Row
    <3>4. row[t].role \in ServedRole
      BY <1>1, <3>2, WorkedRole
    <3>5. a.task = t /\ a.rev = row[t].rev + 1 /\ a.role = row[t].role
      BY <1>2, <3>1, <3>2
    <3>6. QED  BY <3>2, <3>3, <3>4, <3>5 DEF Addressee, StillAddressee
  <2>3. Enqueued(Given)
    BY <1>3 DEF Assign, Given
  <2>4. \A t \in Given : row[t].state = "READY"
    BY DEF Given
  <2>5. QED  BY <2>1, <2>2, <2>3, <2>4
<1>4. CASE AssignRolledBack
  <2>1. PICK batch \in Batches :
          dispatched' = dispatched \cup Assignments(batch) /\ Enqueued(batch)
    BY <1>4 DEF AssignRolledBack
  <2>2. row' = row /\ \A t \in batch : t \in Task /\ row[t].state = "READY"
    BY <1>4, BatchReady DEF AssignRolledBack
  <2>3. ASSUME NEW a \in {AssignmentOf(t) : t \in batch}
        PROVE  StillAddressee(a.task, a.rev, a.role)
    <3>1. PICK t \in batch : a = AssignmentOf(t)
      OBVIOUS
    <3>2. row[t].role \in ServedRole
      BY <1>1, <2>2, WorkedRole
    <3>3. <<t, row[t].rev + 1>> \in dispatched'
      BY <2>1 DEF Assignments
    <3>4. a.task = t /\ a.rev = row[t].rev + 1 /\ a.role = row[t].role
      BY <1>2, <2>2, <3>1
    <3>5. QED  BY <2>2, <3>2, <3>3, <3>4 DEF Addressee, StillAddressee
  <2>4. QED  BY <2>1, <2>2, <2>3
<1>5. QED  BY <1>3, <1>4

LEMMA TypesKept ==
  ASSUME Inv, Inv', SimulatorTypeOK, Addressed, [SimulatedNext]_allvars
  PROVE  SimulatorTypeOK'
<1>t. /\ queue \in Seq(Assignment) /\ work \in Assignment \cup {Idle}
      /\ inbox \in Seq(Message) /\ up \in BOOLEAN
      /\ repeated \in [Task -> Nat] /\ lost \subseteq Task \X Nat
  BY DEF SimulatorTypeOK, Message
<1>1. queue' \in Seq(Assignment)
  <2>1. CASE Assign \/ AssignRolledBack
    BY <2>1, GivenAddressed, EnqueuedIs
  <2>2. CASE Fetch
    BY <2>2, FetchIs
  <2>3. CASE UNCHANGED queue
    BY <1>t, <2>3
  <2>4. QED
    BY <2>1, <2>2, <2>3
    DEF SimulatedNext, VerifySubmitted, Conclude, TakeIn, LoseAnswer, Respond, GiveUp, Stop,
        allvars, simulator
<1>2. work' \in Assignment \cup {Idle}
  <2>1. CASE Fetch
    BY <2>1, FetchIs
  <2>2. CASE UNCHANGED work \/ work' = Idle
    BY <1>t, <2>2
  <2>3. QED
    BY <2>1, <2>2
    DEF SimulatedNext, Assign, AssignRolledBack, VerifySubmitted, Conclude, TakeIn,
        LoseAnswer, Respond, GiveUp, Stop, allvars, simulator
<1>3. inbox' \in Seq(Message)
  <2>1. CASE Fetch
    BY <1>t, <2>1, FetchIs, PublishedIs, ApprovalIs
  <2>2. CASE Respond \/ GiveUp
    BY <2>2, AnswerIs, PublishedIs
  <2>3. CASE \E i \in DOMAIN inbox : inbox' = RemoveAt(inbox, i)
    BY <1>t, <2>3, RemoveAtIs
  <2>4. CASE UNCHANGED inbox
    BY <1>t, <2>4
  <2>5. QED
    BY <2>1, <2>2, <2>3, <2>4
    DEF SimulatedNext, Assign, AssignRolledBack, VerifySubmitted, Conclude, TakeIn,
        LoseAnswer, Stop, allvars, simulator
<1>4. up' \in BOOLEAN
  <2>1. UNCHANGED up \/ up' = FALSE
    BY DEF SimulatedNext, Assign, AssignRolledBack, VerifySubmitted, Conclude, TakeIn,
       LoseAnswer, Fetch, Respond, GiveUp, Stop, allvars, simulator
  <2>2. QED  BY <1>t, <2>1
<1>5. repeated' \in [Task -> Nat]
  <2>1. CASE AssignRolledBack
    <3>1. \E batch : repeated' = [t \in Task |-> IF t \in batch THEN repeated[t] + 1
                                                 ELSE repeated[t]]
      BY <2>1 DEF AssignRolledBack
    <3>2. QED  BY <1>t, <3>1
  <2>2. CASE UNCHANGED repeated
    BY <1>t, <2>2
  <2>3. QED
    BY <2>1, <2>2
    DEF SimulatedNext, Assign, VerifySubmitted, Conclude, TakeIn, LoseAnswer, Fetch,
        Respond, GiveUp, Stop, allvars, history
<1>6. lost' \subseteq Task \X Nat
  <2>1. ASSUME NEW i \in DOMAIN inbox
        PROVE  <<inbox[i].task, inbox[i].rev>> \in Task \X Nat
    <3>1. inbox[i] \in Message
      BY <1>t, LenProperties, ElementOfSeq
    <3>2. QED  BY <3>1 DEF Message
  <2>2. CASE \E i \in DOMAIN inbox : lost' = lost \cup {<<inbox[i].task, inbox[i].rev>>}
    BY <1>t, <2>1, <2>2
  <2>3. CASE UNCHANGED lost
    BY <1>t, <2>3
  <2>4. QED
    BY <2>2, <2>3
    DEF SimulatedNext, Assign, AssignRolledBack, VerifySubmitted, Conclude, TakeIn,
        LoseAnswer, Fetch, Respond, GiveUp, Stop, allvars, history
<1>7. QED  BY <1>1, <1>2, <1>3, <1>4, <1>5, <1>6 DEF SimulatorTypeOK, Message

LEMMA AddressedKept ==
  ASSUME Inv, Inv', SimulatorTypeOK, Addressed, [SimulatedNext]_allvars
  PROVE  Addressed'
<1>t. /\ queue \in Seq(Assignment) /\ inbox \in Seq(Message)
      /\ work \in Assignment \cup {Idle}
  BY DEF SimulatorTypeOK, Message
<1>1. ASSUME NEW a \in ToSet(queue)
      PROVE  a \in Assignment /\ a.task \in Task /\ a.rev \in Nat
  <2>1. a \in Assignment
    BY <1>t, MembersTyped
  <2>2. QED  BY <2>1 DEF Assignment
<1>2. ASSUME NEW m \in ToSet(inbox)
      PROVE  m \in Message /\ m.task \in Task /\ m.rev \in Nat
  <2>1. m \in Message
    BY <1>t, MembersTyped
  <2>2. QED  BY <2>1 DEF Message
<1>3. \A a \in ToSet(queue) : StillAddressee(a.task, a.rev, a.role)
  <2>1. \A a \in ToSet(queue) : Addressee(a.task, a.rev, a.role)
    BY DEF Addressed
  <2>2. QED  BY <1>1, <2>1, AddresseeKept
<1>4. \A m \in ToSet(inbox) : /\ StillAddressee(m.task, m.rev, m.answer.sender)
                              /\ m.answer \in Replies(m.answer.sender)
  <2>1. \A m \in ToSet(inbox) : /\ Addressee(m.task, m.rev, m.answer.sender)
                                /\ m.answer \in Replies(m.answer.sender)
    BY DEF Addressed
  <2>2. QED  BY <1>2, <2>1, AddresseeKept
<1>5. work # Idle =>
        /\ work \in Assignment
        /\ StillAddressee(work.task, work.rev, work.role) /\ work.role # "REVIEWER"
  <2>1. ASSUME work # Idle
        PROVE  /\ work \in Assignment /\ work.task \in Task /\ work.rev \in Nat
               /\ Addressee(work.task, work.rev, work.role) /\ work.role # "REVIEWER"
    BY <1>t, <2>1 DEF Addressed, Assignment
  <2>2. QED  BY <2>1, AddresseeKept
<1>6. \A a \in ToSet(queue') : StillAddressee(a.task, a.rev, a.role)
  <2>1. CASE Assign \/ AssignRolledBack
    <3>1. PICK batch \in SUBSET Task :
            /\ Enqueued(batch)
            /\ \A a \in {AssignmentOf(t) : t \in batch} : StillAddressee(a.task, a.rev, a.role)
      BY <2>1, GivenAddressed
    <3>2. ToSet(queue') = ToSet(queue) \cup {AssignmentOf(t) : t \in batch}
      BY <3>1, EnqueuedIs
    <3>3. QED  BY <1>3, <3>1, <3>2
  <2>2. CASE Fetch
    BY <1>3, <2>2, FetchIs
  <2>3. CASE UNCHANGED queue
    BY <1>3, <2>3
  <2>4. QED
    BY <2>1, <2>2, <2>3
    DEF SimulatedNext, VerifySubmitted, Conclude, TakeIn, LoseAnswer, Respond, GiveUp, Stop,
        allvars, simulator
<1>7. work' # Idle =>
        StillAddressee(work'.task, work'.rev, work'.role) /\ work'.role # "REVIEWER"
  <2>1. CASE Fetch
    BY <1>3, <2>1, FetchIs
  <2>2. CASE UNCHANGED work \/ work' = Idle
    BY <1>5, <2>2
  <2>3. QED
    BY <2>1, <2>2
    DEF SimulatedNext, Assign, AssignRolledBack, VerifySubmitted, Conclude, TakeIn,
        LoseAnswer, Respond, GiveUp, Stop, allvars, simulator
<1>8. \A m \in ToSet(inbox') : /\ StillAddressee(m.task, m.rev, m.answer.sender)
                               /\ m.answer \in Replies(m.answer.sender)
  <2>1. CASE Fetch
    <3> DEFINE a == Head(queue)
               m == [task |-> a.task, rev |-> a.rev, answer |-> Approval]
    <3>1. CASE a.role = "REVIEWER" /\ inbox' = Published(a, Approval)
      <4>1. a \in ToSet(queue) /\ a \in Assignment
        BY <2>1, FetchIs
      <4>2. ToSet(inbox') = ToSet(inbox) \cup {m}
        BY <3>1, <4>1, ApprovalIs, PublishedIs
      <4>3. StillAddressee(m.task, m.rev, m.answer.sender) /\ m.answer \in Replies(m.answer.sender)
        <5>1. StillAddressee(a.task, a.rev, "REVIEWER")
          BY <1>3, <3>1, <4>1
        <5>2. m.task = a.task /\ m.rev = a.rev /\ m.answer = Approval
          OBVIOUS
        <5> HIDE DEF m, a
        <5>3. QED  BY <5>1, <5>2, ApprovalIs
      <4>4. QED  BY <1>4, <4>2, <4>3
    <3>2. CASE inbox' = inbox
      BY <1>4, <3>2
    <3>3. QED  BY <2>1, <3>1, <3>2, FetchIs
  <2>2. CASE Respond \/ GiveUp
    <3>1. /\ work # Idle /\ work \in Assignment
          /\ \E answer \in Replies(work.role) :
               /\ answer \in Response /\ answer.sender = work.role
               /\ inbox' = Published(work, answer)
      BY <2>2, AnswerIs
    <3>2. PICK answer \in Replies(work.role) :
            /\ answer \in Response /\ answer.sender = work.role
            /\ inbox' = Published(work, answer)
      BY <3>1
    <3> DEFINE m == [task |-> work.task, rev |-> work.rev, answer |-> answer]
    <3>3. ToSet(inbox') = ToSet(inbox) \cup {m}
      BY <3>1, <3>2, PublishedIs
    <3>4. /\ m.task = work.task /\ m.rev = work.rev /\ m.answer = answer
          /\ m.answer.sender = work.role
      BY <3>2
    <3> HIDE DEF m
    <3>5. StillAddressee(m.task, m.rev, m.answer.sender) /\ m.answer \in Replies(m.answer.sender)
      BY <1>5, <3>1, <3>2, <3>4
    <3>6. QED  BY <1>4, <3>3, <3>5
  <2>3. CASE \E i \in DOMAIN inbox : inbox' = RemoveAt(inbox, i)
    <3>1. ToSet(inbox') \subseteq ToSet(inbox)
      BY <1>t, <2>3, RemoveMembers
    <3>2. QED  BY <1>4, <3>1
  <2>4. CASE UNCHANGED inbox
    BY <1>4, <2>4
  <2>5. QED
    BY <2>1, <2>2, <2>3, <2>4
    DEF SimulatedNext, Assign, AssignRolledBack, VerifySubmitted, Conclude, TakeIn,
        LoseAnswer, Stop, allvars, simulator
<1>9. QED  BY <1>6, <1>7, <1>8 DEF Addressed, Addressee, StillAddressee

-----------------------------------------------------------------------------
(* The theorems.                                                           *)

LEMMA SimulatedInit1 ==
  ASSUME SimulatedInit
  PROVE  Inv /\ SimulatorTypeOK /\ Addressed
<1>1. Inv
  BY InitInv DEF SimulatedInit
<1>2. ToSet(queue) = {} /\ ToSet(inbox) = {}
  BY DEF SimulatedInit, ToSet
<1>3. Addressed
  BY <1>2 DEF SimulatedInit, Addressed
<1>4. queue \in Seq(Assignment) /\ inbox \in Seq([task: Task, rev: Nat, answer: Response])
  BY DEF SimulatedInit
<1>5. SimulatorTypeOK
  BY <1>4 DEF SimulatedInit, SimulatorTypeOK
<1>6. QED  BY <1>1, <1>3, <1>5

LEMMA SimulatedInvariance == SimulatedSpec => [](Inv /\ SimulatorTypeOK /\ Addressed)
<1>1. ASSUME Inv, SimulatorTypeOK, Addressed, [SimulatedNext]_allvars
      PROVE  Inv' /\ SimulatorTypeOK' /\ Addressed'
  <2>1. Inv'
    BY <1>1, StepImplements, NextInv
  <2>2. QED  BY <1>1, <2>1, TypesKept, AddressedKept
<1>2. QED  BY <1>1, SimulatedInit1, PTL DEF SimulatedSpec

(* What is waiting, worked on and answered has its type, for any number of *)
(* coders and failures.                                                    *)
THEOREM SimulatorTypeCorrect == SimulatedSpec => []SimulatorTypeOK
<1>1. QED  BY SimulatedInvariance, PTL

(* The engine with the workers of its process implements Engine: what it   *)
(* takes in is what Engine lets a worker of the task's role answer,        *)
(* although assignments outlive rolled-back ticks and claims.  Engine's    *)
(* theorems hold of it.                                                    *)
LEMMA BehavesAsEngine == SimulatedSpec => Spec
<1>1. SimulatedInit => Init
  BY DEF SimulatedInit
<1>2. Inv /\ SimulatorTypeOK /\ Addressed /\ [SimulatedNext]_allvars => [Next]_vars
  BY StepImplements
<1>3. QED  BY <1>1, <1>2, SimulatedInvariance, PTL DEF SimulatedSpec, Spec

(* The same, as the run states it: every step of queues, simulator and     *)
(* engine, for every number of faults, is a step of Engine or none.        *)
THEOREM ImplementsEngine == SimulatedSpec => EngineSpec
<1>1. [Next]_vars => [UNCHANGED vars \/ Next]_vars
  OBVIOUS
<1>2. Spec => EngineSpec
  BY <1>1, PTL DEF Spec, EngineSpec
<1>3. QED  BY <1>2, BehavesAsEngine

LEMMA SticksKept ==
  ASSUME Inv, SimulatorTypeOK, Addressed, OnlyStoreSticks, [SimulatedNext]_allvars
  PROVE  OnlyStoreSticks'
<1> SUFFICES ASSUME NEW t \in Task, row'[t].state = "PROCESSING"
             PROVE  <<t, row'[t].rev - 1>> \in lost'
  BY DEF OnlyStoreSticks
<1>1. lost \subseteq lost' /\ (row'[t] = row[t] \/ <<t, row'[t].rev - 1>> \in lost')
  BY RowsMove
<1>2. QED  BY <1>1 DEF OnlyStoreSticks

(* No answer of these workers is refused by the guardian: their roles,     *)
(* events and phases fit, so that only a store that fails leaves a task in *)
(* PROCESSING, where nobody would look for it.                             *)
THEOREM OnlyStoresStick == SimulatedSpec => []OnlyStoreSticks
<1>1. SimulatedInit => OnlyStoreSticks
  BY InitRows DEF SimulatedInit, OnlyStoreSticks
<1>2. QED  BY <1>1, SticksKept, SimulatedInvariance, PTL DEF SimulatedSpec

(* The tasks of the first plan are over when the second comes.             *)
LEMMA ActiveKept ==
  ASSUME Inv, SimulatorTypeOK, Addressed, Ordered, ClaimedActive, [SimulatedNext]_allvars
  PROVE  ClaimedActive'
<1> SUFFICES ASSUME NEW t \in Task, row'[t].state = "CLAIMED"
             PROVE  t \in ActiveTasks'
  BY DEF ClaimedActive
<1>1. t \in ActiveTasks
  <2>1. \/ row'[t] = row[t]
        \/ row[t].state = "READY" /\ t \in ActiveTasks
        \/ Onward(row[t], row'[t])
    BY RowsMove
  <2>2. QED  BY <2>1 DEF ClaimedActive, Onward
<1>2. CASE UNCHANGED plan
  BY <1>1, <1>2 DEF ActiveTasks
<1>3. CASE ~UNCHANGED plan
  <2>1. /\ plan = {} /\ row'[Planner].state = "VERIFIED"
        /\ \A u \in Task \ {Planner} : row'[u] = row[u]
    BY <1>3, StepImplements, PlanStep DEF Ordered
  <2>2. t = Researcher /\ row[t].state = "CLAIMED"
    BY <1>1, <2>1 DEF ActiveTasks
  <2>3. PICK i \in DOMAIN inbox : TakeIn(i)
    BY <1>3
    DEF SimulatedNext, Assign, Schedule, AssignRolledBack, VerifySubmitted, Verify, Conclude,
        CheckCompletion, LoseAnswer, Fetch, Respond, GiveUp, Stop, allvars, vars
  <2> DEFINE u == inbox[i].task
  <2>4. /\ Arrives(u) /\ u \in Task
        /\ \E a \in Response : Intake(u, a) /\ Authorized(row[u], a)
    BY <1>3, <2>3, TakenIn DEF vars, Current, Message
  <2>5. PICK a \in Response : Intake(u, a) /\ Authorized(row[u], a)
    BY <2>4
  <2>6. AcceptPlan(u, a)
    BY <1>3, <2>5
    DEF Intake, Refuse, Unsaved, Accept, ReportFailure, BreakContract, LeaveScope, Drift,
        RejectPlan, RejectReview
  <2>7. row[u].phase = "PLANNING"
    BY <2>5, <2>6
    DEF AcceptPlan, Answered, Authorized, AuthorizeEvent, PhaseAuth
  <2>8. u = Planner /\ <<Planner, row[Planner].rev>> \in dispatched
    BY <2>4, <2>7 DEF Ordered, Homes, Arrives
  <2>9. row[Researcher].phase = "COMPLETE"
    BY <2>8 DEF Ordered, StagesInOrder
  <2>10. Coherent(row[Researcher])
    BY DEF Inv, StagesCoherent, Task
  <2>11. QED  BY <2>2, <2>9, <2>10 DEF Coherent, WorkerStages
<1>4. QED  BY <1>2, <1>3

LEMMA UnderWayMembers ==
  ASSUME NEW t, NEW n
  PROVE  UnderWay(t, n) <=>
           \/ \E a \in ToSet(queue) : a.task = t /\ a.rev = n
           \/ \E m \in ToSet(inbox) : m.task = t /\ m.rev = n
           \/ work # Idle /\ work.task = t /\ work.rev = n
BY DEF UnderWay, ToSet

LEMMA UnderWayMembersNext ==
  ASSUME NEW t, NEW n
  PROVE  (\/ \E i \in DOMAIN queue' : queue'[i].task = t /\ queue'[i].rev = n
          \/ \E i \in DOMAIN inbox' : inbox'[i].task = t /\ inbox'[i].rev = n
          \/ work' # Idle /\ work'.task = t /\ work'.rev = n)
         <=>
           \/ \E a \in ToSet(queue') : a.task = t /\ a.rev = n
           \/ \E m \in ToSet(inbox') : m.task = t /\ m.rev = n
           \/ work' # Idle /\ work'.task = t /\ work'.rev = n
BY DEF ToSet

(* What is under way stays so until its answer is taken in or lost, or the *)
(* simulator is stopped.                                                   *)
Onway(t, n) ==
  \/ \E a \in ToSet(queue') : a.task = t /\ a.rev = n
  \/ \E m \in ToSet(inbox') : m.task = t /\ m.rev = n
  \/ work' # Idle /\ work'.task = t /\ work'.rev = n

LEMMA UnderWayKept ==
  ASSUME Inv, SimulatorTypeOK, Addressed, [SimulatedNext]_allvars, up',
         NEW t, NEW n, UnderWay(t, n)
  PROVE  \/ Onway(t, n)
         \/ \E i \in DOMAIN inbox : /\ TakeIn(i) \/ LoseAnswer(i)
                                    /\ inbox[i].task = t /\ inbox[i].rev = n
<1>1. CASE Assign \/ AssignRolledBack
  <2>1. ToSet(queue) \subseteq ToSet(queue')
    BY <1>1, GivenAddressed, EnqueuedIs
  <2>2. UNCHANGED <<work, inbox>>
    BY <1>1 DEF Assign, AssignRolledBack
  <2>3. QED  BY <2>1, <2>2, UnderWayMembers DEF Onway
<1>2. CASE Fetch
  <2> DEFINE a == Head(queue)
             m == [task |-> a.task, rev |-> a.rev, answer |-> Approval]
  <2>1. /\ a \in Assignment /\ ToSet(queue) \subseteq ToSet(queue') \cup {a} /\ work = Idle
        /\ \/ inbox' = Published(a, Approval)
           \/ work' = a /\ inbox' = inbox
    BY <1>2, FetchIs
  <2>2. a # Idle
    BY <2>1 DEF Assignment, Idle, AssignedRole, NoRole
  <2>3. CASE inbox' = Published(a, Approval)
    <3>1. ToSet(inbox') = ToSet(inbox) \cup {m}
      BY <2>1, <2>3, ApprovalIs, PublishedIs
    <3>2. m.task = a.task /\ m.rev = a.rev
      OBVIOUS
    <3> HIDE DEF m, a
    <3>3. QED  BY <2>1, <3>1, <3>2, UnderWayMembers DEF Onway
  <2>4. CASE work' = a /\ inbox' = inbox
    <3> HIDE DEF a
    <3>1. QED  BY <2>1, <2>2, <2>4, UnderWayMembers DEF Onway
  <2>5. QED  BY <2>1, <2>3, <2>4
<1>3. CASE Respond \/ GiveUp
  <2>1. /\ work \in Assignment /\ UNCHANGED queue
        /\ \E answer \in Response : inbox' = Published(work, answer)
    BY <1>3, AnswerIs
  <2>2. PICK answer \in Response : inbox' = Published(work, answer)
    BY <2>1
  <2> DEFINE m == [task |-> work.task, rev |-> work.rev, answer |-> answer]
  <2>3. ToSet(inbox') = ToSet(inbox) \cup {m}
    BY <2>1, <2>2, PublishedIs
  <2>4. m.task = work.task /\ m.rev = work.rev
    OBVIOUS
  <2> HIDE DEF m
  <2>5. QED  BY <2>1, <2>3, <2>4, UnderWayMembers DEF Onway
<1>4. CASE \E i \in DOMAIN inbox : TakeIn(i) \/ LoseAnswer(i)
  <2>1. PICK i \in DOMAIN inbox : TakeIn(i) \/ LoseAnswer(i)
    BY <1>4
  <2>2. UNCHANGED <<queue, work>> /\ inbox' = RemoveAt(inbox, i)
    BY <2>1 DEF TakeIn, LoseAnswer
  <2>3. ToSet(inbox) \subseteq ToSet(inbox') \cup {inbox[i]}
    BY <2>2, RemoveMembers DEF SimulatorTypeOK
  <2>4. QED  BY <2>1, <2>2, <2>3, UnderWayMembers DEF Onway
<1>5. CASE UNCHANGED <<queue, work, inbox>>
  BY <1>5, UnderWayMembers DEF Onway
<1>6. CASE Stop
  BY <1>6 DEF Stop
<1>7. QED
  BY <1>1, <1>2, <1>3, <1>4, <1>5, <1>6
  DEF SimulatedNext, VerifySubmitted, Conclude, allvars, simulator

LEMMA AnsweredKept ==
  ASSUME Inv, SimulatorTypeOK, Addressed, ClaimedActive, ClaimAnswered,
         [SimulatedNext]_allvars
  PROVE  ClaimAnswered'
<1> SUFFICES ASSUME up', NEW t \in Task, row'[t].state = "CLAIMED"
             PROVE  Onway(t, row'[t].rev) \/ <<t, row'[t].rev>> \in lost'
  BY UnderWayMembersNext DEF ClaimAnswered, UnderWay, Onway
<1>1. /\ lost \subseteq lost'
      /\ \/ row'[t] = row[t]
         \/ /\ row[t].state = "READY"
            /\ row'[t] \in {Claimed(row[t]), CascadeFailed(row[t])}
         \/ Onward(row[t], row'[t])
  BY RowsMove
<1>2. row[t] \in Row /\ Coherent(row[t]) /\ row[t].rev \in Nat
  BY DEF Inv, TypeOK, StagesCoherent, Row
<1>3. up
  BY DEF SimulatedNext, Assign, AssignRolledBack, VerifySubmitted, Conclude, TakeIn,
     LoseAnswer, Fetch, Respond, GiveUp, Stop, allvars, simulator
<1>4. CASE row'[t] = row[t]
  <2>1. UnderWay(t, row[t].rev) \/ <<t, row[t].rev>> \in lost
    BY <1>3, <1>4 DEF ClaimAnswered
  <2>2. ASSUME NEW i \in DOMAIN inbox, TakeIn(i),
               inbox[i].task = t, inbox[i].rev = row[t].rev
        PROVE  FALSE
    <3>1. <<t, row[t].rev>> \in dispatched
      BY <1>4 DEF Inv, AssignmentsAccounted
    <3>2. ~Terminal(row[t]) /\ t \in ActiveTasks
      BY <1>2, <1>4, WorkedRole DEF ClaimedActive
    <3>3. Current(inbox[i])
      BY <2>2, <3>1, <3>2 DEF Current, Arrives
    <3>4. \E a \in Response : Intake(t, a)
      BY <2>2, <3>3, TakenIn
    <3>5. Onward(row[t], row'[t])
      BY <3>4, IntakeLeaves
    <3>6. QED  BY <1>4, <3>5 DEF Onward
  <2>3. ASSUME NEW i \in DOMAIN inbox, LoseAnswer(i),
               inbox[i].task = t, inbox[i].rev = row[t].rev
        PROVE  <<t, row[t].rev>> \in lost'
    BY <2>3 DEF LoseAnswer
  <2>4. UnderWay(t, row[t].rev) => Onway(t, row[t].rev) \/ <<t, row[t].rev>> \in lost'
    BY <2>2, <2>3, UnderWayKept
  <2>5. QED  BY <1>1, <1>4, <2>1, <2>4
<1>5. CASE row[t].state = "READY" /\ row'[t] = Claimed(row[t])
  <2>1. Assign
    <3>1. row'[t] # row[t]
      BY <1>5
    <3>2. CASE \E i \in DOMAIN inbox : TakeIn(i)
      <4>1. PICK i \in DOMAIN inbox : TakeIn(i)
        BY <3>2
      <4>2. PICK a \in Response : Intake(inbox[i].task, a)
        BY <3>1, <4>1, TakenIn DEF vars
      <4>3. inbox[i].task \in Task
        BY <4>1, TakenIn DEF Message
      <4>4. QED  BY <1>5, <3>1, <4>2, <4>3, IntakeLeaves
    <3>3. CASE VerifySubmitted
      BY <1>5, <3>1, <3>3, VerifyLeaves DEF VerifySubmitted
    <3>4. QED
      BY <3>1, <3>2, <3>3
      DEF SimulatedNext, AssignRolledBack, Conclude, CheckCompletion, LoseAnswer, Fetch,
          Respond, GiveUp, Stop, allvars, vars
  <2>2. t \in Given /\ Enqueued(Given) /\ Given \in SUBSET Task
    BY <1>5, <2>1 DEF Given, Assign
  <2>3. AssignmentOf(t) \in ToSet(queue')
    BY <2>2, EnqueuedIs
  <2>4. AssignmentOf(t).task = t /\ AssignmentOf(t).rev = row'[t].rev
    BY <1>2, <1>5, ClaimedRow DEF AssignmentOf
  <2>5. QED  BY <2>3, <2>4 DEF Onway
<1>6. QED  BY <1>1, <1>2, <1>4, <1>5, CascadeRow DEF Onward

(* Nothing but an error on the way leaves a claimed task without an answer *)
(* to come: there is no need of a watchdog as long as the simulator runs.  *)
THEOREM ClaimsAreAnswered == SimulatedSpec => []ClaimAnswered
<1>1. SimulatedInit => ClaimedActive /\ ClaimAnswered
  BY InitRows DEF SimulatedInit, ClaimedActive, ClaimAnswered
<1>2. SimulatedSpec => []Ordered
  BY BehavesAsEngine, OrderedInvariance
<1>3. QED
  BY <1>1, <1>2, ActiveKept, AnsweredKept, SimulatedInvariance, PTL DEF SimulatedSpec

(* The copies of one task, counted.                                        *)
Busy(t) == IF work # Idle /\ work.task = t THEN 1 ELSE 0
BusyNext(t) == IF work' # Idle /\ work'.task = t THEN 1 ELSE 0
Claims(t) == IF row[t].state = "CLAIMED" THEN 1 ELSE 0
ClaimsNext(t) == IF row'[t].state = "CLAIMED" THEN 1 ELSE 0

LEMMA CountsTyped ==
  ASSUME SimulatorTypeOK, SimulatorTypeOK', NEW t \in Task
  PROVE  /\ Occurrences(queue, t) \in Nat /\ Occurrences(inbox, t) \in Nat
         /\ Occurrences(queue', t) \in Nat /\ Occurrences(inbox', t) \in Nat
         /\ Busy(t) \in 0..1 /\ BusyNext(t) \in 0..1
         /\ Claims(t) \in 0..1 /\ ClaimsNext(t) \in 0..1
         /\ repeated[t] \in Nat /\ repeated'[t] \in Nat
<1>1. /\ queue \in Seq(Assignment) /\ queue' \in Seq(Assignment)
      /\ inbox \in Seq(Message) /\ inbox' \in Seq(Message)
      /\ repeated \in [Task -> Nat] /\ repeated' \in [Task -> Nat]
  BY DEF SimulatorTypeOK, Message
<1>2. QED  BY <1>1, OccurrencesTyped DEF Busy, BusyNext, Claims, ClaimsNext

(* A claim ends when its answer is taken in, and not otherwise.            *)
LEMMA ClaimLasts ==
  ASSUME Inv, SimulatorTypeOK, Addressed, [SimulatedNext]_allvars, NEW t \in Task,
         ~ \E i \in DOMAIN inbox : TakeIn(i) /\ inbox[i].task = t
  PROVE  row[t].state = "CLAIMED" => row'[t].state = "CLAIMED"
<1>1. CASE Assign
  <2>1. row'[t] = row[t] \/ row[t].state = "READY"
    BY <1>1, GivenClaims DEF Assign
  <2>2. QED  BY <2>1
<1>2. CASE VerifySubmitted
  BY <1>2, VerifyLeaves DEF VerifySubmitted
<1>3. CASE \E i \in DOMAIN inbox : TakeIn(i)
  <2>1. PICK i \in DOMAIN inbox : TakeIn(i)
    BY <1>3
  <2>2. inbox[i].task \in Task /\ inbox[i].task # t
    BY <2>1, TakenIn DEF Message
  <2>3. UNCHANGED vars \/ \E a \in Response : Intake(inbox[i].task, a)
    BY <2>1, TakenIn
  <2>4. row'[t] = row[t]
    BY <2>2, <2>3, IntakeLeaves DEF vars
  <2>5. QED  BY <2>4
<1>4. CASE UNCHANGED row
  BY <1>4
<1>5. QED
  BY <1>1, <1>2, <1>3, <1>4
  DEF SimulatedNext, AssignRolledBack, Conclude, CheckCompletion, LoseAnswer, Fetch,
      Respond, GiveUp, Stop, allvars, vars

(* Of what a step does to the copies of t, nothing but an assignment adds  *)
(* one, and what is taken in is gone.                                      *)
LEMMA CopiesMove ==
  ASSUME Inv, SimulatorTypeOK, SimulatorTypeOK', Addressed, [SimulatedNext]_allvars,
         ~Assign, ~AssignRolledBack, NEW t \in Task
  PROVE  /\ Occurrences(queue', t) + Occurrences(inbox', t) + BusyNext(t)
              + (IF \E i \in DOMAIN inbox : TakeIn(i) /\ inbox[i].task = t THEN 1 ELSE 0)
              <= Occurrences(queue, t) + Occurrences(inbox, t) + Busy(t)
         /\ repeated' = repeated
<1> DEFINE taken == \E i \in DOMAIN inbox : TakeIn(i) /\ inbox[i].task = t
<1>t. /\ Occurrences(queue, t) \in Nat /\ Occurrences(inbox, t) \in Nat
      /\ Occurrences(queue', t) \in Nat /\ Occurrences(inbox', t) \in Nat
      /\ Busy(t) \in 0..1 /\ BusyNext(t) \in 0..1
  BY CountsTyped
<1>r. repeated' = repeated
  BY DEF SimulatedNext, VerifySubmitted, Conclude, TakeIn, LoseAnswer, Fetch, Respond, GiveUp,
     Stop, allvars, history
<1>1. CASE \E i \in DOMAIN inbox : TakeIn(i) \/ LoseAnswer(i)
  <2>1. CASE taken
    <3>1. PICK i \in DOMAIN inbox : TakeIn(i) /\ inbox[i].task = t
      BY <2>1
    <3>2. UNCHANGED <<queue, work>> /\ inbox' = RemoveAt(inbox, i)
      BY <3>1 DEF TakeIn
    <3>3. Occurrences(inbox', t) + 1 <= Occurrences(inbox, t)
      BY <3>1, <3>2, RemoveOccurrences DEF SimulatorTypeOK
    <3>4. queue' = queue /\ BusyNext(t) = Busy(t)
      BY <3>2 DEF Busy, BusyNext
    <3>5. QED  BY <1>t, <1>r, <2>1, <3>3, <3>4
  <2>2. CASE ~taken
    <3>1. PICK i \in DOMAIN inbox : TakeIn(i) \/ LoseAnswer(i)
      BY <1>1
    <3>2. UNCHANGED <<queue, work>> /\ inbox' = RemoveAt(inbox, i)
      BY <3>1 DEF TakeIn, LoseAnswer
    <3>3. Occurrences(inbox', t) + (IF inbox[i].task = t THEN 1 ELSE 0)
            <= Occurrences(inbox, t)
      BY <3>2, RemoveOccurrences DEF SimulatorTypeOK
    <3>4. queue' = queue /\ BusyNext(t) = Busy(t)
      BY <3>2 DEF Busy, BusyNext
    <3>5. QED  BY <1>t, <1>r, <2>2, <3>3, <3>4
  <2>3. QED  BY <2>1, <2>2
<1>2. CASE Fetch
  <2> DEFINE a == Head(queue)
             one == IF a.task = t THEN 1 ELSE 0
  <2>1. /\ a \in Assignment /\ work = Idle
        /\ Occurrences(queue', t) + one <= Occurrences(queue, t)
        /\ \/ inbox' = Published(a, Approval) /\ work' = Idle
           \/ work' = a /\ inbox' = inbox
    BY <1>2, FetchIs
  <2>2. ~taken
    <3>1. ASSUME NEW i \in DOMAIN inbox, TakeIn(i)
          PROVE  FALSE
      <4>1. queue' = queue /\ inbox' = RemoveAt(inbox, i)
        BY <3>1 DEF TakeIn
      <4>2. Tail(queue) = queue /\ queue # <<>> /\ queue \in Seq(Assignment)
        BY <1>2, <4>1 DEF Fetch, SimulatorTypeOK
      <4>3. Len(Tail(queue)) = Len(queue) - 1 /\ Len(queue) \in Nat
        BY <4>2, HeadTailProperties, LenProperties
      <4>4. QED  BY <4>2, <4>3
    <3>2. QED  BY <3>1
  <2>3. CASE inbox' = Published(a, Approval) /\ work' = Idle
    <3>1. Occurrences(inbox', t) <= Occurrences(inbox, t) + one
      BY <2>1, <2>3, ApprovalIs, PublishedIs
    <3>2. BusyNext(t) = 0 /\ Busy(t) = 0 /\ one \in 0..1
      BY <2>1, <2>3 DEF Busy, BusyNext
    <3> HIDE DEF one
    <3>3. QED  BY <1>t, <1>r, <2>1, <2>2, <3>1, <3>2
  <2>4. CASE work' = a /\ inbox' = inbox
    <3>1. BusyNext(t) <= one /\ Busy(t) = 0 /\ one \in 0..1
      BY <2>1, <2>4 DEF Busy, BusyNext
    <3> HIDE DEF one
    <3>2. QED  BY <1>t, <1>r, <2>1, <2>2, <2>4, <3>1
  <2>5. QED  BY <2>1, <2>3, <2>4
<1>3. CASE Respond \/ GiveUp
  <2>1. /\ work # Idle /\ work \in Assignment /\ work' = Idle /\ UNCHANGED queue
        /\ \E answer \in Response : inbox' = Published(work, answer)
    BY <1>3, AnswerIs
  <2>2. Occurrences(inbox', t) <= Occurrences(inbox, t) + Busy(t)
    BY <2>1, PublishedIs DEF Busy
  <2>3. BusyNext(t) = 0
    BY <2>1 DEF BusyNext
  <2>4. ~taken
    BY <2>1 DEF TakeIn
  <2>5. QED  BY <1>t, <1>r, <2>1, <2>2, <2>3, <2>4
<1>4. CASE /\ UNCHANGED <<queue, inbox>>
           /\ (UNCHANGED work \/ work' = Idle)
           /\ ~ \E i \in DOMAIN inbox : TakeIn(i)
  <2>1. BusyNext(t) <= Busy(t)
    BY <1>4 DEF Busy, BusyNext
  <2>2. ~taken
    BY <1>4
  <2>3. /\ Occurrences(queue', t) = Occurrences(queue, t)
        /\ Occurrences(inbox', t) = Occurrences(inbox, t)
    BY <1>4
  <2>4. /\ Occurrences(queue', t) + Occurrences(inbox', t) + BusyNext(t) + 0
             <= Occurrences(queue, t) + Occurrences(inbox, t) + Busy(t)
    BY <1>t, <2>1, <2>3
  <2>5. (IF taken THEN 1 ELSE 0) = 0
    BY <2>2
  <2>6. QED  BY <1>r, <2>4, <2>5
<1>5. QED
  BY <1>1, <1>2, <1>3, <1>4
  DEF SimulatedNext, VerifySubmitted, Conclude, Stop, allvars, simulator

LEMMA NoSecondKept ==
  ASSUME Inv, SimulatorTypeOK, SimulatorTypeOK', Addressed, NoSecondCopy,
         [SimulatedNext]_allvars
  PROVE  NoSecondCopy'
<1> SUFFICES ASSUME NEW t \in Task
             PROVE  Occurrences(queue', t) + Occurrences(inbox', t) + BusyNext(t)
                      <= repeated'[t] + ClaimsNext(t)
  BY DEF NoSecondCopy, Copies, Occurrences, BusyNext, ClaimsNext
<1>t. /\ Occurrences(queue, t) \in Nat /\ Occurrences(inbox, t) \in Nat
      /\ Occurrences(queue', t) \in Nat /\ Occurrences(inbox', t) \in Nat
      /\ Busy(t) \in 0..1 /\ BusyNext(t) \in 0..1
      /\ Claims(t) \in 0..1 /\ ClaimsNext(t) \in 0..1
      /\ repeated[t] \in Nat /\ repeated'[t] \in Nat
  BY CountsTyped
<1>0. Occurrences(queue, t) + Occurrences(inbox, t) + Busy(t) <= repeated[t] + Claims(t)
  BY DEF NoSecondCopy, Copies, Busy, Claims
<1>1. CASE Assign
  <2>1. Enqueued(Given) /\ Given \in SUBSET Task /\ UNCHANGED <<inbox, work, repeated>>
    BY <1>1 DEF Assign, Given, history
  <2>2. Occurrences(queue', t) <= Occurrences(queue, t) + (IF t \in Given THEN 1 ELSE 0)
    BY <2>1, EnqueuedIs
  <2>3. BusyNext(t) = Busy(t)
    BY <2>1 DEF Busy, BusyNext
  <2>4. CASE t \in Given
    <3>1. Claims(t) = 0 /\ ClaimsNext(t) = 1
      BY <2>4 DEF Given, Claims, ClaimsNext
    <3>2. QED  BY <1>t, <1>0, <2>1, <2>2, <2>3, <2>4, <3>1
  <2>5. CASE t \notin Given
    <3>1. row'[t] = row[t] \/ row[t].state = "READY"
      BY <1>1, GivenClaims DEF Assign
    <3>2. Claims(t) <= ClaimsNext(t)
      BY <3>1, <1>t DEF Claims, ClaimsNext
    <3>3. QED  BY <1>t, <1>0, <2>1, <2>2, <2>3, <2>5, <3>2
  <2>6. QED  BY <2>4, <2>5
<1>2. CASE AssignRolledBack
  <2>1. PICK batch \in Batches :
          /\ Enqueued(batch)
          /\ repeated' = [u \in Task |-> IF u \in batch THEN repeated[u] + 1 ELSE repeated[u]]
    BY <1>2 DEF AssignRolledBack
  <2>2. batch \in SUBSET Task /\ UNCHANGED <<inbox, work, row>>
    BY <1>2, BatchReady DEF AssignRolledBack
  <2>3. Occurrences(queue', t) <= Occurrences(queue, t) + (IF t \in batch THEN 1 ELSE 0)
    BY <2>1, <2>2, EnqueuedIs
  <2>4. BusyNext(t) = Busy(t) /\ Claims(t) = ClaimsNext(t)
    BY <2>2 DEF Busy, BusyNext, Claims, ClaimsNext
  <2>5. repeated'[t] = repeated[t] + (IF t \in batch THEN 1 ELSE 0)
    BY <2>1, <1>t
  <2>6. CASE t \in batch
    BY <1>t, <1>0, <2>2, <2>3, <2>4, <2>5, <2>6
  <2>7. CASE t \notin batch
    BY <1>t, <1>0, <2>2, <2>3, <2>4, <2>5, <2>7
  <2>8. QED  BY <2>6, <2>7
<1>3. CASE ~Assign /\ ~AssignRolledBack
  <2>1. /\ Occurrences(queue', t) + Occurrences(inbox', t) + BusyNext(t)
             + (IF \E i \in DOMAIN inbox : TakeIn(i) /\ inbox[i].task = t THEN 1 ELSE 0)
             <= Occurrences(queue, t) + Occurrences(inbox, t) + Busy(t)
        /\ repeated' = repeated
    BY <1>3, CopiesMove
  <2>2. CASE \E i \in DOMAIN inbox : TakeIn(i) /\ inbox[i].task = t
    BY <1>t, <1>0, <2>1, <2>2
  <2>3. CASE ~ \E i \in DOMAIN inbox : TakeIn(i) /\ inbox[i].task = t
    <3>1. Claims(t) <= ClaimsNext(t)
      BY <1>t, <2>3, ClaimLasts DEF Claims, ClaimsNext
    <3>2. QED  BY <1>t, <1>0, <2>1, <2>3, <3>1
  <2>4. QED  BY <2>2, <2>3
<1>4. QED  BY <1>1, <1>2, <1>3

(* No worker does again what was done: of a claimed task one copy at most  *)
(* is on its way, of any other none, not counting those a rolled-back tick *)
(* has left behind, for every number of coders and rollbacks.              *)
THEOREM NothingTwice == SimulatedSpec => []NoSecondCopy
<1>1. SimulatedInit => NoSecondCopy
  <2>1. ASSUME SimulatedInit, NEW t \in Task
        PROVE  Copies(t) = 0 /\ row[t].state = "READY" /\ repeated[t] = 0
    <3>1. {i \in DOMAIN queue : queue[i].task = t} = {}
          /\ {i \in DOMAIN inbox : inbox[i].task = t} = {}
      BY <2>1 DEF SimulatedInit
    <3>2. Occurrences(queue, t) = 0 /\ Occurrences(inbox, t) = 0
      BY <3>1, FS_EmptySet DEF Occurrences
    <3>3. work = Idle /\ repeated[t] = 0 /\ row[t].state = "READY"
      BY <2>1, InitRows DEF SimulatedInit
    <3>4. QED  BY <3>2, <3>3 DEF Copies
  <2>2. QED  BY <2>1 DEF NoSecondCopy
<1>2. QED
  BY <1>1, NoSecondKept, SimulatedInvariance, PTL DEF SimulatedSpec
=============================================================================
