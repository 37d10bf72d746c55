--------------------------- MODULE IntakeProofs ---------------------------
(***************************************************************************)
(* What Intake commits obeys TaskLease, for any number of tasks, answers   *)
(* and failures.                                                           *)
(***************************************************************************)
EXTENDS Intake, FiniteSetTheorems, TLAPS

(* The rows that a phase reads are in the state it looks for.              *)
Looks == [watching |-> "claimed", verifying |-> "judging", scheduling |-> "ready"]

(* What an open transaction of the tick has written: one step ahead of a   *)
(* row in the state the phase looks for.                                   *)
DraftFits ==
  /\ DOMAIN draft # {} => writer = Tick /\ at \in Open
  /\ \A t \in DOMAIN draft :
       /\ draft[t].rev = row[t].rev + 1
       /\ row[t].state = Looks[at]
       /\ IF at = "scheduling"
          THEN draft[t].state = "claimed" /\ <<t, draft[t].rev>> \in Granted
          ELSE draft[t].state \in {"ready", "ended"}

(* A row that still has the revision a phase has read is still in the      *)
(* state the phase looks for.                                              *)
TodoFits ==
  at \in Open =>
    \A i \in DOMAIN todo :
      LET r == row[todo[i][1]] IN
      /\ r.rev >= todo[i][2]
      /\ r.rev = todo[i][2] => r.state = Looks[at]

(* A row that has the revision of an assignment is claimed for it, and one *)
(* just before it is about to be.                                          *)
MailFits ==
  \A m \in Sent :
    mail[m] # None =>
      LET r == row[mail[m][1]] IN
      /\ r.rev + 1 >= mail[m][2]
      /\ r.rev + 1 = mail[m][2] => r.state = "ready"
      /\ r.rev = mail[m][2] => r.state = "claimed"

(* Nobody else writes while an answer is settled.                          *)
HeldFits ==
  \A h \in Answers :
    /\ pc[h] = "held" <=> writer = h
    /\ pc[h] = "held" => row[TaskOf(h)].rev = RevOf(h)

(* An assignment ahead of its row was rolled back, or its claim is not yet *)
(* committed; no answer to it has been taken in then.                      *)
Uncommitted ==
  \A m \in Sent :
    mail[m] # None /\ m \notin phantom /\ row[mail[m][1]].rev < mail[m][2] =>
      at = "scheduling" /\ mail[m][1] \in DOMAIN draft /\ pc[m] = "out"

(* An answer comes after its assignment, and one that is refused or about  *)
(* to be belongs to a row that has moved on, or to no claim.               *)
PcFits ==
  \A h \in Answers :
    /\ h \in Sent => (pc[h] = "none" <=> mail[h] = None)
    /\ h \in Again => pc[h] # "out"
    /\ pc[h] \notin {"none", "out"} => pc[MessageOf(h)] \notin {"none", "out"}
    /\ pc[h] \in {"stale", "refused"} =>
         row[TaskOf(h)].rev > RevOf(h) \/ MessageOf(h) \in phantom

(* Each task's lock is where TypeOK says, and the tick has no other than   *)
(* that of the row it treats.                                              *)
LocksFit ==
  /\ \A h \in Answers :
       pc[h] = "queued" \/ Busy(h) => lockOf[h] \in {<<t>> : t \in Tasks}
  /\ \A h \in Answers, t \in Tasks :
       owner[t] = h <=> (Busy(h) /\ lockOf[h] = <<t>>)
  /\ \A t \in Tasks :
       owner[t] = Tick =>
         at \in {"watching", "verifying"} /\ todo # <<>> /\ Turn[1] = t

Typed ==
  /\ row \in [Tasks -> Row]
  /\ DOMAIN draft \subseteq Tasks /\ draft \in [DOMAIN draft -> Row]
  /\ writer \in Answers \cup {Tick, Nobody}
  /\ owner \in [Tasks -> Answers \cup {Tick, Nobody}]
  /\ recorded \subseteq Sent
  /\ mail \in [Sent -> Read \cup {None}]
  /\ pc \in [Answers -> Pc]
  /\ lockOf \in [Answers -> {<<t>> : t \in Tasks} \cup {None}]
  /\ phantom \subseteq Sent /\ at \in At
  /\ todo \in Seq(Read)
  /\ faults \in 0..MaxFaults
  /\ writer = Tick => at \in Open

Inv ==
  /\ Typed /\ LocksFit /\ DraftFits /\ TodoFits /\ MailFits /\ HeldFits
  /\ Uncommitted /\ PcFits

LEMMA InvTypeOK == Inv => TypeOK
  BY DEF Inv, Typed, LocksFit, DraftFits, HeldFits, TypeOK, Open

(* The numbers that stand for the deliveries and for the holders of locks. *)
LEMMA Names ==
  /\ Tick \notin Answers /\ Nobody \notin Answers /\ Tick # Nobody
  /\ Sent \subseteq Answers /\ Again \subseteq Answers
  /\ \A h \in Answers : MessageOf(h) \in Sent /\ (h \in Again <=> h \notin Sent)
  /\ \A m \in Sent : MessageOf(m) = m
  BY BoundsTyped DEF Tick, Nobody, Answers, Sent, Again, MessageOf

LEMMA InitInv == Init => Inv
  <1> SUFFICES ASSUME Init PROVE Inv
    OBVIOUS
  <1>1. DOMAIN draft = {}
    BY DEF Init, NoRow
  <1>2. Typed
    <2>1. draft \in [DOMAIN draft -> Row]
      BY <1>1 DEF Init, NoRow
    <2>2. row \in [Tasks -> Row] /\ pc \in [Answers -> Pc] /\ at \in At
      BY DEF Init, Row, State, Pc, At
    <2>3. writer \in {Nobody} /\ owner \in [Tasks -> {Nobody}] /\ todo \in Seq(Read)
      BY DEF Init
    <2>4. /\ mail \in [Sent -> {None}] /\ lockOf \in [Answers -> {None}]
          /\ recorded = {} /\ phantom = {} /\ faults \in 0..MaxFaults
      BY BoundsTyped DEF Init
    <2> QED
      BY <1>1, <2>1, <2>2, <2>3, <2>4, Names DEF Typed
  <1>3. LocksFit
    BY Names DEF Init, LocksFit, Busy
  <1>4. DraftFits /\ TodoFits
    BY <1>1 DEF Init, DraftFits, TodoFits, Open
  <1>5. MailFits /\ Uncommitted
    BY DEF Init, MailFits, Uncommitted
  <1>6. HeldFits /\ PcFits
    BY Names DEF Init, HeldFits, PcFits
  <1> QED
    BY <1>2, <1>3, <1>4, <1>5, <1>6 DEF Inv

-----------------------------------------------------------------------------
(* What a step leaves as it is.                                            *)

LEMMA DraftKept ==
  ASSUME DraftFits, UNCHANGED <<row, draft, writer, mail, at>>
  PROVE  DraftFits'
  BY DEF DraftFits, Granted

(* No claim is open unless the tick holds the write lock.                  *)
LEMMA NoDraft ==
  ASSUME Inv, writer # Tick
  PROVE  DOMAIN draft = {} /\ \A t : t \notin DOMAIN draft
  BY DEF Inv, DraftFits

(* The coroutine of an answer ends.                                        *)
LEMMA EndsKeeps ==
  ASSUME Inv, NEW h \in Answers, NEW how \in Over, Busy(h), Ends(h, how),
         UNCHANGED <<lockOf, at, todo>>
  PROVE  /\ pc' \in [Answers -> Pc]
         /\ owner' \in [Tasks -> Answers \cup {Tick, Nobody}]
         /\ LocksFit'
  <1>1. PICK t \in Tasks : lockOf[h] = <<t>>
    BY DEF Inv, LocksFit
  <1>2. owner[t] = h
    BY <1>1 DEF Inv, LocksFit
  <1>3. /\ pc' = [pc EXCEPT ![h] = how] /\ how \in Pc /\ pc \in [Answers -> Pc]
        /\ owner' = [owner EXCEPT ![t] = Nobody]
        /\ owner \in [Tasks -> Answers \cup {Tick, Nobody}]
    BY <1>1 DEF Ends, Inv, Typed, Over, Pc
  <1>4. how \notin {"queued", "current", "stale", "held"}
    BY DEF Over
  <1>5. \A g \in Answers : pc'[g] = "queued" \/ Busy(g)' => lockOf'[g] \in {<<u>> : u \in Tasks}
    BY <1>3, <1>4 DEF Busy, Inv, LocksFit
  <1>6. ASSUME NEW g \in Answers, NEW u \in Tasks
        PROVE  owner'[u] = g <=> (Busy(g)' /\ lockOf'[g] = <<u>>)
    <2>1. owner[u] = g <=> (Busy(g) /\ lockOf[g] = <<u>>)
      BY DEF Inv, LocksFit
    <2>2. CASE u = t
      <3>1. owner'[u] = Nobody
        BY <1>3, <2>2
      <3>2. CASE g = h
        BY <3>1, <3>2, <1>3, <1>4, Names DEF Busy
      <3>3. CASE g # h
        BY <3>1, <3>3, <1>2, <1>3, <2>1, <2>2, Names DEF Busy
      <3> QED
        BY <3>2, <3>3
    <2>3. CASE u # t
      <3>1. owner'[u] = owner[u]
        BY <1>3, <2>3
      <3>2. CASE g = h
        BY <3>1, <3>2, <1>1, <1>3, <1>4, <2>1, <2>3 DEF Busy
      <3>3. CASE g # h
        BY <3>1, <3>3, <1>3, <2>1 DEF Busy
      <3> QED
        BY <3>2, <3>3
    <2> QED
      BY <2>2, <2>3
  <1>7. \A u \in Tasks : owner'[u] = Tick =>
          at' \in {"watching", "verifying"} /\ todo' # <<>> /\ Turn'[1] = u
    BY <1>3, Names DEF Inv, LocksFit, Turn
  <1> QED
    BY <1>3, <1>5, <1>6, <1>7 DEF LocksFit

(* It changes no row and is not settled: it ends refused or lost.          *)
LEMMA EndsInv ==
  ASSUME Inv, NEW h \in Answers, NEW how \in {"refused", "lost"},
         Busy(h), Ends(h, how),
         how = "refused" => row[TaskOf(h)].rev > RevOf(h) \/ MessageOf(h) \in phantom,
         writer' = IF writer = h THEN Nobody ELSE writer,
         recorded' \subseteq Sent, faults' \in 0..MaxFaults,
         UNCHANGED <<row, draft, posts, lockOf, phase>>
  PROVE  Inv'
  <1>0. /\ UNCHANGED <<row, draft, mail, phantom, lockOf, at, todo>>
        /\ pc' = [pc EXCEPT ![h] = how] /\ pc \in [Answers -> Pc]
    BY DEF posts, phase, Ends, Inv, Typed
  <1>1. /\ pc' \in [Answers -> Pc]
        /\ owner' \in [Tasks -> Answers \cup {Tick, Nobody}]
        /\ LocksFit'
    BY <1>0, EndsKeeps DEF Over
  <1>2. Typed'
    BY <1>0, <1>1, Names DEF Inv, Typed
  <1>3. DraftFits'
    <2>1. CASE writer = h
      BY <2>1, <1>0, NoDraft, Names DEF DraftFits
    <2>2. CASE writer # h
      BY <2>2, <1>0, DraftKept DEF Inv
    <2> QED
      BY <2>1, <2>2
  <1>4. TodoFits' /\ MailFits'
    BY <1>0 DEF Inv, TodoFits, MailFits
  <1>5. HeldFits'
    BY <1>0, Names DEF Inv, HeldFits, TaskOf, RevOf
  <1>6. Uncommitted'
    <2> SUFFICES ASSUME NEW m \in Sent, mail[m] # None, m \notin phantom,
                        row[mail[m][1]].rev < mail[m][2]
                 PROVE  /\ at = "scheduling" /\ mail[m][1] \in DOMAIN draft
                        /\ pc'[m] = "out"
      BY <1>0 DEF Uncommitted
    <2>1. at = "scheduling" /\ mail[m][1] \in DOMAIN draft /\ pc[m] = "out"
      BY DEF Inv, Uncommitted
    <2>2. m # h
      BY <2>1 DEF Busy
    <2> QED
      BY <1>0, <2>1, <2>2
  <1>7. PcFits'
    <2> SUFFICES ASSUME NEW g \in Answers
                 PROVE  /\ g \in Sent => (pc'[g] = "none" <=> mail[g] = None)
                        /\ g \in Again => pc'[g] # "out"
                        /\ pc'[g] \notin {"none", "out"} =>
                             pc'[MessageOf(g)] \notin {"none", "out"}
                        /\ pc'[g] \in {"stale", "refused"} =>
                             row[TaskOf(g)].rev > RevOf(g) \/ MessageOf(g) \in phantom
      BY <1>0 DEF PcFits, TaskOf, RevOf
    <2>1. /\ g \in Sent => (pc[g] = "none" <=> mail[g] = None)
          /\ g \in Again => pc[g] # "out"
          /\ pc[g] \notin {"none", "out"} => pc[MessageOf(g)] \notin {"none", "out"}
          /\ pc[g] \in {"stale", "refused"} =>
               row[TaskOf(g)].rev > RevOf(g) \/ MessageOf(g) \in phantom
      BY DEF Inv, PcFits
    <2>2. pc[h] \notin {"none", "out"} /\ pc[MessageOf(h)] \notin {"none", "out"}
      BY DEF Busy, Inv, PcFits
    <2>3. MessageOf(g) \in Answers /\ MessageOf(h) \in Answers
      BY Names
    <2>4. CASE g = h
      BY <2>2, <2>3, <2>4, <2>1, <1>0
    <2>5. CASE g # h
      BY <2>1, <2>2, <2>3, <2>5, <1>0
    <2> QED
      BY <2>4, <2>5
  <1> QED
    BY <1>1, <1>2, <1>3, <1>4, <1>5, <1>6, <1>7 DEF Inv

LEMMA GivesUpInv ==
  ASSUME Inv, NEW h \in Answers, GivesUp(h)
  PROVE  Inv'
  <1>1. Busy(h) /\ writer # h /\ writer' = writer /\ recorded' = recorded /\ Ends(h, "lost")
    BY Names DEF GivesUp, Busy, OutOfPatience, table
  <1> QED
    BY <1>1, EndsInv DEF GivesUp, table, Inv, Typed

LEMMA FailsInv ==
  ASSUME Inv, NEW h \in Answers, Fails(h)
  PROVE  Inv'
  <1>1. Busy(h) /\ writer = h /\ writer' = Nobody /\ Ends(h, "lost")
    BY DEF Fails, Busy, Inv, HeldFits
  <1>2. faults' \in 0..MaxFaults
    BY BoundsTyped DEF Fails, Fault, Inv, Typed
  <1> QED
    BY <1>1, <1>2, EndsInv DEF Fails, Inv, Typed

(* An answer that is refused, or whose message was recorded before.        *)
LEMMA RefusedInv ==
  ASSUME Inv, NEW h \in Answers, Busy(h), writer # h, Records(h, "refused"),
         row[TaskOf(h)].rev > RevOf(h) \/ MessageOf(h) \in phantom,
         UNCHANGED <<row, draft, writer, posts, lockOf, phase, faults>>
  PROVE  Inv'
  <1>1. recorded' \subseteq Sent
    BY Names DEF Records, Inv, Typed
  <1>2. PICK how \in {"refused", "lost"} : Ends(h, how)
    BY DEF Records
  <1> QED
    BY <1>1, <1>2, EndsInv DEF Inv, Typed

LEMMA RefuseInv ==
  ASSUME Inv, NEW h \in Answers, Refuse(h)
  PROVE  Inv'
  <1>1. Busy(h) /\ writer # h
    BY DEF Refuse, Busy, Inv, HeldFits
  <1>2. row[TaskOf(h)].rev > RevOf(h) \/ MessageOf(h) \in phantom
    BY DEF Refuse, Inv, PcFits
  <1> QED
    BY <1>1, <1>2, RefusedInv DEF Refuse

(* The assignment of an answer that is being processed was committed or    *)
(* rolled back: its row is not behind it unless it was rolled back.        *)
LEMMA NotBehind ==
  ASSUME Inv, NEW h \in Answers, pc[h] \notin {"none", "out"}
  PROVE  /\ MessageOf(h) \in Sent /\ mail[MessageOf(h)] \in Read
         /\ TaskOf(h) \in Tasks /\ RevOf(h) \in Nat
         /\ row[TaskOf(h)].rev \in Nat
         /\ MessageOf(h) \in phantom \/ row[TaskOf(h)].rev >= RevOf(h)
         /\ row[TaskOf(h)].rev = RevOf(h) => row[TaskOf(h)].state = "claimed"
  <1>1. MessageOf(h) \in Sent /\ MessageOf(h) \in Answers
    BY Names
  <1>2. pc[MessageOf(h)] \notin {"none", "out"}
    BY DEF Inv, PcFits
  <1>3. mail[MessageOf(h)] # None
    BY <1>1, <1>2 DEF Inv, PcFits
  <1>4. mail[MessageOf(h)] \in Read
    BY <1>1, <1>3 DEF Inv, Typed
  <1>5. TaskOf(h) \in Tasks /\ RevOf(h) \in Nat /\ row[TaskOf(h)].rev \in Nat
    BY <1>4 DEF TaskOf, RevOf, Read, Inv, Typed, Row
  <1>6. ~(row[TaskOf(h)].rev < RevOf(h)) \/ MessageOf(h) \in phantom
    BY <1>1, <1>2, <1>3 DEF Inv, Uncommitted, TaskOf, RevOf
  <1>7. row[TaskOf(h)].rev = RevOf(h) => row[TaskOf(h)].state = "claimed"
    BY <1>1, <1>3 DEF Inv, MailFits, TaskOf, RevOf
  <1> QED
    BY <1>1, <1>4, <1>5, <1>6, <1>7

LEMMA CheckInv ==
  ASSUME Inv, NEW h \in Answers, Check(h)
  PROVE  Inv'
  <1>0. /\ pc[h] = "queued" /\ UNCHANGED <<table, posts, lockOf, phase, faults>>
        /\ pc \in [Answers -> Pc] /\ lockOf[h] \in {<<u>> : u \in Tasks}
    BY DEF Check, Inv, Typed, LocksFit
  <1>1. PICK t \in Tasks : lockOf[h] = <<t>>
    BY <1>0
  <1>2. /\ owner[t] = Nobody /\ owner' = [owner EXCEPT ![t] = h]
        /\ owner \in [Tasks -> Answers \cup {Tick, Nobody}]
    BY <1>1 DEF Check, Inv, Typed
  <1>3. PICK how \in {"current", "stale"} :
          /\ pc' = [pc EXCEPT ![h] = how]
          /\ how = "stale" => row[TaskOf(h)].state = "ended" \/ row[TaskOf(h)].rev # RevOf(h)
    BY DEF Check
  <1>4. how = "stale" => row[TaskOf(h)].rev > RevOf(h) \/ MessageOf(h) \in phantom
    BY <1>0, <1>3, NotBehind
  <1>5. UNCHANGED <<row, draft, writer, recorded, mail, phantom, at, todo>>
    BY <1>0 DEF table, posts, phase
  <1>6. Typed'
    <2>1. pc' \in [Answers -> Pc]
      BY <1>0, <1>3 DEF Pc
    <2>2. owner' \in [Tasks -> Answers \cup {Tick, Nobody}]
      BY <1>2
    <2> QED
      BY <1>0, <1>5, <2>1, <2>2 DEF Inv, Typed
  <1>7. LocksFit'
    <2>1. \A g \in Answers : pc'[g] = "queued" \/ Busy(g)' => lockOf'[g] \in {<<u>> : u \in Tasks}
      BY <1>0, <1>3 DEF Busy, Inv, LocksFit
    <2>2. ASSUME NEW g \in Answers, NEW u \in Tasks
          PROVE  owner'[u] = g <=> (Busy(g)' /\ lockOf'[g] = <<u>>)
      <3>1. owner[u] = g <=> (Busy(g) /\ lockOf[g] = <<u>>)
        BY DEF Inv, LocksFit
      <3>2. CASE g = h
        <4>1. Busy(h)'
          BY <1>0, <1>3 DEF Busy
        <4>2. owner[u] # h
          BY <1>0, <3>1, <3>2 DEF Busy
        <4> QED
          BY <3>2, <4>1, <4>2, <1>0, <1>1, <1>2
      <3>3. CASE g # h
        <4>1. Busy(g)' <=> Busy(g)
          BY <1>0, <1>3, <3>3 DEF Busy
        <4>2. u = t => owner[u] # g
          BY <1>2, Names
        <4> QED
          BY <3>1, <3>3, <4>1, <4>2, <1>0, <1>2
      <3> QED
        BY <3>2, <3>3
    <2>3. \A u \in Tasks : owner'[u] = Tick =>
            at' \in {"watching", "verifying"} /\ todo' # <<>> /\ Turn'[1] = u
      BY <1>2, <1>5, Names DEF Inv, LocksFit, Turn
    <2> QED
      BY <2>1, <2>2, <2>3 DEF LocksFit
  <1>8. DraftFits'
    BY <1>5, DraftKept DEF Inv
  <1>9. TodoFits' /\ MailFits'
    BY <1>5 DEF Inv, TodoFits, MailFits
  <1>10. HeldFits'
    BY <1>0, <1>3, <1>5, Names DEF Inv, HeldFits, TaskOf, RevOf
  <1>11. Uncommitted'
    BY <1>0, <1>3, <1>5 DEF Inv, Uncommitted
  <1>12. PcFits'
    <2> SUFFICES ASSUME NEW g \in Answers
                 PROVE  /\ g \in Sent => (pc'[g] = "none" <=> mail[g] = None)
                        /\ g \in Again => pc'[g] # "out"
                        /\ pc'[g] \notin {"none", "out"} =>
                             pc'[MessageOf(g)] \notin {"none", "out"}
                        /\ pc'[g] \in {"stale", "refused"} =>
                             row[TaskOf(g)].rev > RevOf(g) \/ MessageOf(g) \in phantom
      BY <1>5 DEF PcFits, TaskOf, RevOf
    <2>1. /\ g \in Sent => (pc[g] = "none" <=> mail[g] = None)
          /\ g \in Again => pc[g] # "out"
          /\ pc[g] \notin {"none", "out"} => pc[MessageOf(g)] \notin {"none", "out"}
          /\ pc[g] \in {"stale", "refused"} =>
               row[TaskOf(g)].rev > RevOf(g) \/ MessageOf(g) \in phantom
      BY DEF Inv, PcFits
    <2>2. MessageOf(g) \in Answers
      BY Names
    <2>3. \A a \in Answers : pc'[a] = IF a = h THEN how ELSE pc[a]
      BY <1>0, <1>3
    <2>4. CASE g = h
      BY <1>0, <1>4, <2>1, <2>2, <2>3, <2>4
    <2>5. CASE g # h
      BY <1>0, <2>1, <2>2, <2>3, <2>5
    <2> QED
      BY <2>4, <2>5
  <1> QED
    BY <1>6, <1>7, <1>8, <1>9, <1>10, <1>11, <1>12 DEF Inv

LEMMA TakeInv ==
  ASSUME Inv, NEW h \in Answers, Take(h)
  PROVE  Inv'
  <1>0. /\ pc[h] = "current" /\ Busy(h) /\ writer # h /\ writer = Nobody
        /\ pc \in [Answers -> Pc]
    BY DEF Take, Busy, MayWrite, Inv, HeldFits, Typed
  <1>1. CASE row[TaskOf(h)].rev = RevOf(h)
    <2>1. /\ writer' = h /\ pc' = [pc EXCEPT ![h] = "held"]
          /\ UNCHANGED <<row, draft, recorded, owner, mail, phantom, lockOf, at, todo, faults>>
      BY <1>1 DEF Take, Matches, posts, phase
    <2>2. DOMAIN draft = {}
      BY <1>0, NoDraft, Names
    <2>3. Typed'
      BY <1>0, <2>1, Names DEF Inv, Typed, Pc
    <2>4. LocksFit'
      BY <1>0, <2>1 DEF Inv, LocksFit, Busy, Turn
    <2>5. DraftFits' /\ TodoFits' /\ MailFits'
      BY <2>1, <2>2 DEF Inv, DraftFits, TodoFits, MailFits
    <2>6. HeldFits'
      BY <1>0, <1>1, <2>1, Names DEF Inv, HeldFits, TaskOf, RevOf
    <2>7. Uncommitted'
      BY <1>0, <2>1 DEF Inv, Uncommitted
    <2>8. PcFits'
      BY <1>0, <2>1, Names DEF Inv, PcFits, TaskOf, RevOf
    <2> QED
      BY <2>3, <2>4, <2>5, <2>6, <2>7, <2>8 DEF Inv
  <1>2. CASE row[TaskOf(h)].rev # RevOf(h)
    <2>1. row[TaskOf(h)].rev > RevOf(h) \/ MessageOf(h) \in phantom
      BY <1>0, <1>2, NotBehind
    <2> QED
      BY <1>0, <1>2, <2>1, RefusedInv DEF Take, Matches
  <1> QED
    BY <1>1, <1>2

(* One row is settled: its revision grows.                                 *)
LEMMA SettleInv ==
  ASSUME Inv, NEW h \in Answers, Settle(h)
  PROVE  Inv'
  <1>0. /\ pc[h] = "held" /\ Busy(h) /\ writer = h /\ writer' = Nobody
        /\ pc \in [Answers -> Pc] /\ row \in [Tasks -> Row]
        /\ UNCHANGED <<draft, mail, phantom, lockOf, at, todo, faults>>
    BY DEF Settle, Busy, Inv, HeldFits, Typed, posts, phase
  <1>1. recorded' \subseteq Sent
    BY Names DEF Settle, Records, Inv, Typed
  <1>2. CASE MessageOf(h) \in recorded
    <2>1. Ends(h, "lost") /\ row' = row
      BY <1>2 DEF Settle, Records
    <2> QED
      BY <1>0, <1>1, <2>1, EndsInv DEF Inv, Typed, posts, phase
  <1>3. CASE MessageOf(h) \notin recorded
    <2> DEFINE t == TaskOf(h)
    <2>1. /\ t \in Tasks /\ RevOf(h) \in Nat /\ row[t].rev = RevOf(h)
          /\ row[t].state = "claimed"
      BY <1>0, NotBehind DEF Inv, HeldFits
    <2>2. PICK s \in {"ready", "judging", "ended", "processing"} :
            row' = [row EXCEPT ![t] =
                      [rev |-> row[t].rev + IF s = "processing" THEN 1 ELSE 2, state |-> s]]
      BY <1>3 DEF Settle
    <2>3. /\ row' \in [Tasks -> Row] /\ row'[t].rev > row[t].rev
          /\ \A u \in Tasks : u # t => row'[u] = row[u]
      BY <1>0, <2>1, <2>2 DEF Row, State
    <2>4. Ends(h, "done")
      BY <1>3 DEF Settle, Records
    <2>5. /\ pc' \in [Answers -> Pc] /\ LocksFit'
          /\ owner' \in [Tasks -> Answers \cup {Tick, Nobody}]
      BY <1>0, <2>4, EndsKeeps DEF Over
    <2>6. pc' = [pc EXCEPT ![h] = "done"]
      BY <2>4 DEF Ends
    <2>7. DOMAIN draft = {}
      BY <1>0, NoDraft, Names
    <2>8. Typed'
      BY <1>0, <1>1, <2>3, <2>5, Names DEF Inv, Typed
    <2>9. DraftFits'
      BY <1>0, <2>7 DEF DraftFits
    <2>10. TodoFits'
      <3> SUFFICES ASSUME at \in Open, NEW i \in DOMAIN todo
                   PROVE  /\ row'[todo[i][1]].rev >= todo[i][2]
                          /\ row'[todo[i][1]].rev = todo[i][2] => row'[todo[i][1]].state = Looks[at]
        BY <1>0 DEF TodoFits
      <3>1. todo[i] \in Read
        BY DEF Inv, Typed
      <3>2. todo[i][1] \in Tasks /\ todo[i][2] \in Nat
        BY <3>1 DEF Read
      <3>3. /\ row[todo[i][1]].rev >= todo[i][2]
            /\ row[todo[i][1]].rev = todo[i][2] => row[todo[i][1]].state = Looks[at]
        BY DEF Inv, TodoFits
      <3>4. row[t].rev \in Nat /\ row'[t].rev \in Nat
        BY <1>0, <2>1, <2>3 DEF Row
      <3> QED
        BY <2>3, <3>2, <3>3, <3>4
    <2>11. ASSUME NEW m \in Sent, mail[m] # None
           PROVE  /\ mail[m][1] \in Tasks /\ mail[m][2] \in Nat
                  /\ row'[mail[m][1]].rev >= row[mail[m][1]].rev
                  /\ row[mail[m][1]].rev \in Nat /\ row'[mail[m][1]].rev \in Nat
                  /\ row'[mail[m][1]].rev + 1 >= mail[m][2]
                  /\ row'[mail[m][1]].rev + 1 = mail[m][2] => row'[mail[m][1]].state = "ready"
                  /\ row'[mail[m][1]].rev = mail[m][2] => row'[mail[m][1]].state = "claimed"
      <3>1. mail[m] \in Read
        BY <2>11 DEF Inv, Typed
      <3>2. mail[m][1] \in Tasks /\ mail[m][2] \in Nat
        BY <3>1 DEF Read
      <3>3. /\ row[mail[m][1]].rev + 1 >= mail[m][2]
            /\ row[mail[m][1]].rev + 1 = mail[m][2] => row[mail[m][1]].state = "ready"
            /\ row[mail[m][1]].rev = mail[m][2] => row[mail[m][1]].state = "claimed"
        BY <2>11 DEF Inv, MailFits
      <3>4. \A u \in Tasks : row[u].rev \in Nat /\ row'[u].rev \in Nat
        BY <1>0, <2>3 DEF Row
      <3>5. CASE mail[m][1] = t
        <4>1. row[t].rev >= mail[m][2]
          BY <2>1, <3>2, <3>3, <3>4, <3>5
        <4> QED
          BY <2>1, <2>3, <3>2, <3>4, <3>5, <4>1
      <3>6. CASE mail[m][1] # t
        BY <2>3, <3>2, <3>3, <3>4, <3>6
      <3> QED
        BY <3>5, <3>6
    <2>12. MailFits'
      BY <1>0, <2>11 DEF MailFits
    <2>13. HeldFits'
      BY <1>0, <2>6, Names DEF Inv, HeldFits
    <2>14. Uncommitted'
      <3> SUFFICES ASSUME NEW m \in Sent, mail[m] # None, m \notin phantom,
                          row'[mail[m][1]].rev < mail[m][2]
                   PROVE  FALSE
        BY <1>0 DEF Uncommitted
      <3>1. row[mail[m][1]].rev < mail[m][2]
        BY <2>11
      <3>2. mail[m][1] \in DOMAIN draft
        BY <3>1 DEF Inv, Uncommitted
      <3> QED
        BY <2>7, <3>2
    <2>15. PcFits'
      <3> SUFFICES ASSUME NEW g \in Answers
                   PROVE  /\ g \in Sent => (pc'[g] = "none" <=> mail[g] = None)
                          /\ g \in Again => pc'[g] # "out"
                          /\ pc'[g] \notin {"none", "out"} =>
                               pc'[MessageOf(g)] \notin {"none", "out"}
                          /\ pc'[g] \in {"stale", "refused"} =>
                               row'[TaskOf(g)].rev > RevOf(g) \/ MessageOf(g) \in phantom
        BY <1>0 DEF PcFits, TaskOf, RevOf
      <3>1. /\ g \in Sent => (pc[g] = "none" <=> mail[g] = None)
            /\ g \in Again => pc[g] # "out"
            /\ pc[g] \notin {"none", "out"} => pc[MessageOf(g)] \notin {"none", "out"}
            /\ pc[g] \in {"stale", "refused"} =>
                 row[TaskOf(g)].rev > RevOf(g) \/ MessageOf(g) \in phantom
        BY DEF Inv, PcFits
      <3>2. MessageOf(g) \in Answers /\ MessageOf(g) \in Sent
        BY Names
      <3>3. \A a \in Answers : pc'[a] = IF a = h THEN "done" ELSE pc[a]
        BY <1>0, <2>6
      <3>4. /\ g \in Sent => (pc'[g] = "none" <=> mail[g] = None)
            /\ g \in Again => pc'[g] # "out"
            /\ pc'[g] \notin {"none", "out"} => pc'[MessageOf(g)] \notin {"none", "out"}
        <4>1. pc[h] \notin {"none", "out"} /\ pc[MessageOf(h)] \notin {"none", "out"}
          BY <1>0 DEF Inv, PcFits
        <4> QED
          BY <3>1, <3>2, <3>3, <4>1
      <3>5. ASSUME pc'[g] \in {"stale", "refused"}, MessageOf(g) \notin phantom
            PROVE  row'[TaskOf(g)].rev > RevOf(g)
        <4>1. g # h /\ pc[g] \in {"stale", "refused"}
          BY <3>3, <3>5
        <4>2. row[TaskOf(g)].rev > RevOf(g)
          BY <3>1, <3>5, <4>1
        <4>3. pc[MessageOf(g)] \notin {"none", "out"}
          BY <3>1, <4>1
        <4>4. mail[MessageOf(g)] # None
          BY <3>2, <4>3 DEF Inv, PcFits
        <4>5. /\ row'[TaskOf(g)].rev >= row[TaskOf(g)].rev /\ RevOf(g) \in Nat
              /\ row[TaskOf(g)].rev \in Nat /\ row'[TaskOf(g)].rev \in Nat
          BY <2>11, <3>2, <4>4 DEF TaskOf, RevOf
        <4> QED
          BY <4>2, <4>5
      <3> QED
        BY <3>4, <3>5
    <2> QED
      BY <2>5, <2>8, <2>9, <2>10, <2>12, <2>13, <2>14, <2>15 DEF Inv
  <1> QED
    BY <1>2, <1>3

-----------------------------------------------------------------------------
(* The tick's own steps.                                                   *)

(* The row at the head of todo, as it was read and as it is now.           *)
LEMMA TurnFits ==
  ASSUME Inv, at \in Open, todo # <<>>
  PROVE  /\ Turn[1] \in Tasks /\ Turn[2] \in Nat
         /\ Tail(todo) \in Seq(Read)
         /\ row[Turn[1]].rev \in Nat
         /\ Matches(Now(Turn[1]), Turn[2]) =>
              /\ Turn[1] \notin DOMAIN draft /\ Now(Turn[1]) = row[Turn[1]]
              /\ row[Turn[1]].rev = Turn[2] /\ row[Turn[1]].state = Looks[at]
  <1>1. todo \in Seq(Read) /\ 1 \in DOMAIN todo /\ Turn = todo[1]
    BY DEF Inv, Typed, Turn
  <1>2. Turn \in Read /\ Tail(todo) \in Seq(Read)
    BY <1>1
  <1>3. Turn[1] \in Tasks /\ Turn[2] \in Nat
    BY <1>2 DEF Read
  <1>4. row[Turn[1]].rev \in Nat
    BY <1>3 DEF Inv, Typed, Row
  <1>5. /\ row[Turn[1]].rev >= Turn[2]
        /\ row[Turn[1]].rev = Turn[2] => row[Turn[1]].state = Looks[at]
    BY <1>1 DEF Inv, TodoFits
  <1>6. Turn[1] \in DOMAIN draft => draft[Turn[1]].rev = row[Turn[1]].rev + 1
    BY DEF Inv, DraftFits
  <1>7. Matches(Now(Turn[1]), Turn[2]) => Turn[1] \notin DOMAIN draft
    BY <1>3, <1>4, <1>5, <1>6 DEF Matches, Now
  <1> QED
    BY <1>2, <1>3, <1>4, <1>5, <1>7 DEF Matches, Now

(* What is left of it has been read before.                                *)
LEMMA TailFits ==
  ASSUME Inv, todo # <<>>, todo' = Tail(todo), UNCHANGED <<row, at>>
  PROVE  TodoFits'
  <1> SUFFICES ASSUME at \in Open, NEW i \in DOMAIN Tail(todo)
               PROVE  /\ row[Tail(todo)[i][1]].rev >= Tail(todo)[i][2]
                      /\ row[Tail(todo)[i][1]].rev = Tail(todo)[i][2] =>
                           row[Tail(todo)[i][1]].state = Looks[at]
    BY DEF TodoFits
  <1>1. todo \in Seq(Read)
    BY DEF Inv, Typed
  <1>2. i + 1 \in DOMAIN todo /\ Tail(todo)[i] = todo[i + 1]
    BY <1>1
  <1> QED
    BY <1>2 DEF Inv, TodoFits

LEMMA TickLocksInv ==
  ASSUME Inv, TickLocks
  PROVE  Inv'
  <1>1. Typed'
    BY Names DEF Inv, Typed, TickLocks, Turn, Row, State, Pc, At, Read, Open, table, posts, phase
  <1>2. LocksFit'
    BY Names DEF Inv, LocksFit, Typed, TickLocks, Turn, Busy, table, posts, phase
  <1>3. DraftFits'
    BY Names DEF Inv, DraftFits, Typed, TickLocks, Turn, Granted, Looks, Open, table, posts, phase
  <1>4. TodoFits'
    BY Names DEF Inv, TodoFits, Typed, TickLocks, Turn, Open, table, posts, phase
  <1>5. MailFits'
    BY Names DEF Inv, MailFits, Typed, TickLocks, Turn, table, posts, phase
  <1>6. HeldFits'
    BY Names DEF Inv, HeldFits, Typed, TickLocks, Turn, TaskOf, RevOf, table, posts, phase
  <1>7. Uncommitted'
    BY Names DEF Inv, Uncommitted, Typed, MailFits, TickLocks, Turn, table, posts, phase
  <1>8. PcFits'
    BY Names DEF Inv, PcFits, Typed, MailFits, Uncommitted, HeldFits, TickLocks, Turn, TaskOf, RevOf, table, posts, phase
  <1> QED
    BY <1>1, <1>2, <1>3, <1>4, <1>5, <1>6, <1>7, <1>8 DEF Inv

LEMMA TickActsInv ==
  ASSUME Inv, TickActs
  PROVE  Inv'
  <1>0. /\ at \in {"watching", "verifying"} /\ at \in Open /\ todo # <<>>
        /\ writer' = Tick /\ todo' = Tail(todo)
        /\ UNCHANGED <<row, recorded, mail, phantom, pc, lockOf, at, faults>>
    BY DEF TickActs, posts, Open
  <1>1. Typed'
    BY Names DEF Inv, Typed, TickActs, Turn, MayWrite, With, Now, Matches, Row, State, Pc, At, Read, Open, table, posts, phase
  <1>2. LocksFit'
    BY Names DEF Inv, LocksFit, Typed, TickActs, Turn, MayWrite, With, Now, Matches, Busy, table, posts, phase
  <1>3. DraftFits'
    <2>1. CASE draft' = draft
      BY <1>0, <2>1, Names DEF Inv, DraftFits
    <2>2. CASE draft' # draft
      <3>1. PICK s \in {"ready", "ended"} :
              draft' = With(Turn[1], [rev |-> Now(Turn[1]).rev + 1, state |-> s])
        BY <2>2 DEF TickActs
      <3>2. Matches(Now(Turn[1]), Turn[2])
        BY <2>2 DEF TickActs
      <3>3. /\ Turn[1] \notin DOMAIN draft /\ Now(Turn[1]) = row[Turn[1]]
            /\ row[Turn[1]].state = Looks[at]
        BY <1>0, <3>2, TurnFits
      <3>4. /\ DOMAIN draft' = DOMAIN draft \cup {Turn[1]}
            /\ \A t \in DOMAIN draft' :
                 draft'[t] = IF t = Turn[1] THEN [rev |-> row[t].rev + 1, state |-> s] ELSE draft[t]
        BY <3>1, <3>3 DEF With
      <3>5. \A t \in DOMAIN draft : /\ draft[t].rev = row[t].rev + 1
                                   /\ row[t].state = Looks[at]
                                   /\ draft[t].state \in {"ready", "ended"}
        BY <1>0 DEF Inv, DraftFits
      <3>6. ASSUME NEW t \in DOMAIN draft'
            PROVE  /\ draft'[t].rev = row[t].rev + 1
                   /\ row[t].state = Looks[at]
                   /\ draft'[t].state \in {"ready", "ended"}
        <4>1. CASE t = Turn[1]
          <5>1. draft'[t] = [rev |-> row[t].rev + 1, state |-> s]
            BY <3>4, <4>1
          <5> QED
            BY <3>3, <4>1, <5>1
        <4>2. CASE t # Turn[1]
          <5>1. t \in DOMAIN draft /\ draft'[t] = draft[t]
            BY <3>4, <4>2
          <5> QED
            BY <3>5, <5>1
        <4> QED
          BY <4>1, <4>2
      <3> QED
        BY <1>0, <3>6 DEF DraftFits
    <2> QED
      BY <2>1, <2>2
  <1>4. TodoFits'
    BY <1>0, TailFits
  <1>5. MailFits'
    BY Names DEF Inv, MailFits, Typed, TickActs, Turn, MayWrite, With, Now, Matches, table, posts, phase
  <1>6. HeldFits'
    BY Names DEF Inv, HeldFits, Typed, TickActs, Turn, MayWrite, With, Now, Matches, TaskOf, RevOf, table, posts, phase
  <1>7. Uncommitted'
    BY Names DEF Inv, Uncommitted, Typed, MailFits, TickActs, Turn, MayWrite, With, Now, Matches, table, posts, phase
  <1>8. PcFits'
    BY Names DEF Inv, PcFits, Typed, MailFits, Uncommitted, HeldFits, TickActs, Turn, MayWrite, With, Now, Matches, TaskOf, RevOf, table, posts, phase
  <1> QED
    BY <1>1, <1>2, <1>3, <1>4, <1>5, <1>6, <1>7, <1>8 DEF Inv

LEMMA ClaimInv ==
  ASSUME Inv, Claim
  PROVE  Inv'
  <1>0. /\ at = "scheduling" /\ at \in Open /\ todo # <<>> /\ writer \in {Nobody, Tick}
        /\ writer' = Tick /\ todo' = Tail(todo)
        /\ UNCHANGED <<row, recorded, owner, phantom, lockOf, at, faults>>
        /\ pc \in [Answers -> Pc] /\ mail \in [Sent -> Read \cup {None}]
    BY DEF Claim, MayWrite, Open, Inv, Typed
  <1>1. /\ Turn[1] \in Tasks /\ Turn[2] \in Nat /\ Tail(todo) \in Seq(Read)
    BY <1>0, TurnFits
  <1>2. \A h \in Answers : pc[h] # "held"
    BY <1>0, Names DEF Inv, HeldFits
  <1>3. TodoFits'
    BY <1>0, TailFits
  <1>4. \A t \in Tasks : owner[t] # Tick
    BY <1>0 DEF Inv, LocksFit
  <1>5. CASE ~Matches(Now(Turn[1]), Turn[2])
    <2>1. UNCHANGED <<pc, mail, draft>>
      BY <1>5 DEF Claim
    <2>2. Typed'
      BY <1>0, <1>1, <2>1 DEF Inv, Typed
    <2>3. LocksFit'
      BY <1>0, <1>4, <2>1 DEF Inv, LocksFit, Busy
    <2>4. DraftFits'
      BY <1>0, <2>1 DEF Inv, DraftFits, Granted
    <2>5. MailFits' /\ Uncommitted' /\ PcFits'
      BY <1>0, <2>1 DEF Inv, MailFits, Uncommitted, PcFits, TaskOf, RevOf
    <2>6. HeldFits'
      BY <1>0, <1>2, <2>1, Names DEF HeldFits
    <2> QED
      BY <1>3, <2>2, <2>3, <2>4, <2>5, <2>6 DEF Inv
  <1>6. CASE Matches(Now(Turn[1]), Turn[2])
    <2> DEFINE t == Turn[1]
               k == Turn[2] + 1
    <2>1. PICK m \in Sent :
            /\ pc[m] = "none"
            /\ pc' = [pc EXCEPT ![m] = "out"] /\ mail' = [mail EXCEPT ![m] = <<t, k>>]
            /\ draft' = With(t, [rev |-> k, state |-> "claimed"])
      BY <1>6 DEF Claim
    <2>2. /\ t \notin DOMAIN draft /\ k \in Nat
          /\ row[t].rev \in Nat /\ row[t].rev + 1 = k /\ row[t].state = "ready"
      BY <1>0, <1>1, <1>6, TurnFits DEF Looks
    <2>3. /\ m \in Answers /\ m \notin Again /\ MessageOf(m) = m /\ mail[m] = None
      BY <2>1, Names DEF Inv, PcFits
    <2>4. /\ mail'[m] = <<t, k>> /\ pc'[m] = "out"
          /\ \A l \in Sent : l # m => mail'[l] = mail[l]
          /\ \A h \in Answers : h # m => pc'[h] = pc[h]
      BY <1>0, <2>1, <2>3
    <2>5. /\ DOMAIN draft' = DOMAIN draft \cup {t}
          /\ draft'[t] = [rev |-> k, state |-> "claimed"]
          /\ \A u \in DOMAIN draft : draft'[u] = draft[u]
      BY <2>1, <2>2 DEF With
    <2>6. <<t, k>> # None
      BY DEF None
    <2>7. Typed'
      <3>1. mail' \in [Sent -> Read \cup {None}] /\ pc' \in [Answers -> Pc]
        <4>1. <<t, k>> \in Read /\ "out" \in Pc
          BY <1>1, <2>2 DEF Read, Pc
        <4> QED
          BY <1>0, <2>1, <4>1
      <3>2. draft' \in [DOMAIN draft' -> Row] /\ DOMAIN draft' \subseteq Tasks
        <4>1. draft \in [DOMAIN draft -> Row] /\ DOMAIN draft \subseteq Tasks
          BY DEF Inv, Typed
        <4>2. [rev |-> k, state |-> "claimed"] \in Row
          BY <2>2 DEF Row, State
        <4> QED
          BY <1>1, <2>1, <4>1, <4>2 DEF With
      <3> QED
        BY <1>0, <1>1, <3>1, <3>2 DEF Inv, Typed
    <2>8. LocksFit'
      BY <1>0, <1>4, <2>1, <2>4 DEF Inv, LocksFit, Busy
    <2>9. DraftFits'
      <3>1. \A g \in Granted : g \in Granted'
        BY <2>3, <2>4 DEF Granted
      <3>2. <<t, k>> \in Granted'
        BY <2>4, <2>6 DEF Granted
      <3>3. \A u \in DOMAIN draft :
              /\ draft[u].rev = row[u].rev + 1 /\ row[u].state = "ready"
              /\ draft[u].state = "claimed" /\ <<u, draft[u].rev>> \in Granted
        BY <1>0 DEF Inv, DraftFits, Looks
      <3>4. ASSUME NEW u \in DOMAIN draft'
            PROVE  /\ draft'[u].rev = row[u].rev + 1 /\ row[u].state = "ready"
                   /\ draft'[u].state = "claimed" /\ <<u, draft'[u].rev>> \in Granted'
        <4>1. CASE u = t
          <5>1. draft'[u].rev = k /\ draft'[u].state = "claimed"
            BY <2>5, <4>1
          <5> QED
            BY <2>2, <3>2, <4>1, <5>1
        <4>2. CASE u # t
          <5>1. u \in DOMAIN draft /\ draft'[u] = draft[u]
            BY <2>5, <4>2
          <5> QED
            BY <3>1, <3>3, <5>1
        <4> QED
          BY <4>1, <4>2
      <3> QED
        BY <1>0, <3>4 DEF DraftFits, Looks
    <2>10. MailFits'
      <3> SUFFICES ASSUME NEW l \in Sent, mail'[l] # None
                   PROVE  LET r == row[mail'[l][1]] IN
                          /\ r.rev + 1 >= mail'[l][2]
                          /\ r.rev + 1 = mail'[l][2] => r.state = "ready"
                          /\ r.rev = mail'[l][2] => r.state = "claimed"
        BY <1>0 DEF MailFits
      <3>1. CASE l = m
        <4>1. mail'[l][1] = t /\ mail'[l][2] = k
          BY <2>4, <3>1
        <4> QED
          BY <2>2, <4>1
      <3>2. CASE l # m
        BY <2>4, <3>2 DEF Inv, MailFits
      <3> QED
        BY <3>1, <3>2
    <2>11. HeldFits'
      <3>1. \A h \in Answers : pc'[h] # "held" /\ writer' # h
        BY <1>0, <1>2, <2>4, Names
      <3> QED
        BY <3>1 DEF HeldFits
    <2>12. Uncommitted'
      <3> SUFFICES ASSUME NEW l \in Sent, mail'[l] # None, l \notin phantom,
                          row[mail'[l][1]].rev < mail'[l][2]
                   PROVE  mail'[l][1] \in DOMAIN draft' /\ pc'[l] = "out"
        BY <1>0 DEF Uncommitted
      <3>1. CASE l = m
        <4>1. mail'[l][1] = t
          BY <2>4, <3>1
        <4> QED
          BY <2>4, <2>5, <3>1, <4>1
      <3>2. CASE l # m
        <4>1. mail'[l] = mail[l] /\ l \in Answers
          BY <2>4, <3>2, Names
        <4>2. mail[l][1] \in DOMAIN draft /\ pc[l] = "out"
          BY <4>1 DEF Inv, Uncommitted
        <4> QED
          BY <2>4, <2>5, <3>2, <4>1, <4>2
      <3> QED
        BY <3>1, <3>2
    <2>13. PcFits'
      <3> SUFFICES ASSUME NEW g \in Answers
                   PROVE  /\ g \in Sent => (pc'[g] = "none" <=> mail'[g] = None)
                          /\ g \in Again => pc'[g] # "out"
                          /\ pc'[g] \notin {"none", "out"} =>
                               pc'[MessageOf(g)] \notin {"none", "out"}
                          /\ pc'[g] \in {"stale", "refused"} =>
                               row[TaskOf(g)'].rev > RevOf(g)' \/ MessageOf(g) \in phantom
        BY <1>0 DEF PcFits, TaskOf, RevOf
      <3>1. /\ g \in Sent => (pc[g] = "none" <=> mail[g] = None)
            /\ g \in Again => pc[g] # "out"
            /\ pc[g] \notin {"none", "out"} => pc[MessageOf(g)] \notin {"none", "out"}
            /\ pc[g] \in {"stale", "refused"} =>
                 row[TaskOf(g)].rev > RevOf(g) \/ MessageOf(g) \in phantom
        BY DEF Inv, PcFits
      <3>2. MessageOf(g) \in Sent /\ MessageOf(g) \in Answers
        BY Names
      <3>3. CASE g = m
        BY <2>3, <2>4, <2>6, <3>3
      <3>4. CASE g # m /\ MessageOf(g) = m
        <4>1. pc[g] \in {"none", "out"} /\ pc'[g] = pc[g]
          BY <2>1, <2>4, <3>1, <3>4
        <4>2. g \notin Sent
          BY <3>4, Names
        <4> QED
          BY <3>1, <4>1, <4>2
      <3>5. CASE g # m /\ MessageOf(g) # m
        <4>1. pc'[g] = pc[g] /\ pc'[MessageOf(g)] = pc[MessageOf(g)]
          BY <2>4, <3>2, <3>5
        <4>2. mail'[MessageOf(g)] = mail[MessageOf(g)]
          BY <2>4, <3>2, <3>5
        <4>3. g \in Sent => mail'[g] = mail[g]
          BY <2>4, <3>5
        <4> QED
          BY <3>1, <4>1, <4>2, <4>3 DEF TaskOf, RevOf
      <3> QED
        BY <3>3, <3>4, <3>5
    <2> QED
      BY <1>3, <2>7, <2>8, <2>9, <2>10, <2>11, <2>12, <2>13 DEF Inv
  <1> QED
    BY <1>5, <1>6

LEMMA CommitInv ==
  ASSUME Inv, Commit
  PROVE  Inv'
  <1>0. /\ at \in Open /\ todo = <<>> /\ todo' = todo /\ at' = After[at]
        /\ row' = [t \in Tasks |-> Now(t)] /\ draft' = NoRow
        /\ writer' = IF writer = Tick THEN Nobody ELSE writer
        /\ UNCHANGED <<recorded, owner, mail, phantom, pc, lockOf, faults>>
        /\ row \in [Tasks -> Row]
    BY DEF Commit, posts, Inv, Typed
  <1>1. at' \in {"verify", "schedule", "poll"}
    BY <1>0 DEF Open, After
  <1>2. DOMAIN draft' = {}
    BY <1>0 DEF NoRow
  <1>3. ASSUME NEW t \in Tasks
        PROVE  /\ row'[t] \in Row /\ row[t] \in Row
               /\ t \notin DOMAIN draft => row'[t] = row[t]
               /\ t \in DOMAIN draft =>
                    /\ row'[t].rev = row[t].rev + 1 /\ row[t].state = Looks[at]
                    /\ at = "scheduling" => row'[t].state = "claimed"
    <2>1. row[t] \in Row /\ row'[t] = IF t \in DOMAIN draft THEN draft[t] ELSE row[t]
      BY <1>0 DEF Now
    <2>2. t \in DOMAIN draft =>
            /\ draft[t] \in Row /\ draft[t].rev = row[t].rev + 1
            /\ row[t].state = Looks[at]
            /\ at = "scheduling" => draft[t].state = "claimed"
      BY DEF Inv, DraftFits, Typed
    <2> QED
      BY <2>1, <2>2
  <1>4. Typed'
    <2>1. row' \in [Tasks -> Row] /\ at' \in At
      BY <1>0, <1>1, <1>3 DEF At
    <2>2. draft' \in [DOMAIN draft' -> Row]
      BY <1>0, <1>2 DEF NoRow
    <2> QED
      BY <1>0, <1>2, <2>1, <2>2, Names DEF Inv, Typed
  <1>5. LocksFit'
    BY <1>0 DEF Inv, LocksFit, Busy
  <1>6. DraftFits' /\ TodoFits'
    BY <1>1, <1>2 DEF DraftFits, TodoFits, Open
  <1>7. ASSUME NEW m \in Sent, mail[m] # None
        PROVE  LET r == row[mail[m][1]]
                   s == row'[mail[m][1]]
               IN /\ mail[m][1] \in Tasks /\ mail[m][2] \in Nat
                  /\ r.rev \in Nat /\ s.rev \in Nat /\ s.rev >= r.rev
                  /\ s.rev + 1 >= mail[m][2]
                  /\ s.rev + 1 = mail[m][2] => s.state = "ready"
                  /\ s.rev = mail[m][2] => s.state = "claimed"
                  /\ s.rev < mail[m][2] => r = s /\ mail[m][1] \notin DOMAIN draft
    <2> DEFINE t == mail[m][1]
    <2>1. mail[m] \in Read
      BY <1>7 DEF Inv, Typed
    <2>2. t \in Tasks /\ mail[m][2] \in Nat
      BY <2>1 DEF Read
    <2>3. row[t].rev \in Nat /\ row'[t].rev \in Nat
      BY <1>3, <2>2 DEF Row
    <2>4. /\ row[t].rev + 1 >= mail[m][2]
          /\ row[t].rev + 1 = mail[m][2] => row[t].state = "ready"
          /\ row[t].rev = mail[m][2] => row[t].state = "claimed"
      BY <1>7 DEF Inv, MailFits
    <2>5. CASE t \notin DOMAIN draft
      BY <1>3, <2>2, <2>3, <2>4, <2>5
    <2>6. CASE t \in DOMAIN draft
      <3>1. row'[t].rev = row[t].rev + 1
        BY <1>3, <2>2, <2>6
      <3>2. row'[t].rev = mail[m][2] => row'[t].state = "claimed"
        <4>1. row'[t].rev = mail[m][2] => Looks[at] = "ready"
          BY <1>3, <2>2, <2>4, <2>6, <3>1
        <4>2. Looks[at] = "ready" => at = "scheduling"
          BY <1>0 DEF Looks, Open
        <4> QED
          BY <1>3, <2>2, <2>6, <4>1, <4>2
      <3> QED
        BY <2>2, <2>3, <2>4, <3>1, <3>2
    <2> QED
      BY <2>5, <2>6
  <1>8. MailFits'
    BY <1>0, <1>7 DEF MailFits
  <1>9. HeldFits'
    <2> SUFFICES ASSUME NEW h \in Answers
                 PROVE  /\ pc[h] = "held" <=> writer' = h
                        /\ pc[h] = "held" => row'[TaskOf(h)].rev = RevOf(h)
      BY <1>0 DEF HeldFits, TaskOf, RevOf
    <2>1. pc[h] = "held" <=> writer = h
      BY DEF Inv, HeldFits
    <2>2. ASSUME pc[h] = "held"
          PROVE  row'[TaskOf(h)].rev = RevOf(h)
      <3>1. DOMAIN draft = {} /\ row[TaskOf(h)].rev = RevOf(h)
        BY <2>1, <2>2, NoDraft, Names DEF Inv, HeldFits
      <3>2. TaskOf(h) \in Tasks
        BY <2>2, NotBehind
      <3> QED
        BY <1>3, <3>1, <3>2
    <2> QED
      BY <1>0, <2>1, <2>2, Names
  <1>10. Uncommitted'
    <2> SUFFICES ASSUME NEW m \in Sent, mail[m] # None, m \notin phantom,
                        row'[mail[m][1]].rev < mail[m][2]
                 PROVE  FALSE
      BY <1>0 DEF Uncommitted
    <2>1. row[mail[m][1]].rev < mail[m][2] /\ mail[m][1] \notin DOMAIN draft
      BY <1>7
    <2> QED
      BY <2>1 DEF Inv, Uncommitted
  <1>11. PcFits'
    <2> SUFFICES ASSUME NEW g \in Answers, pc[g] \in {"stale", "refused"},
                        MessageOf(g) \notin phantom
                 PROVE  row'[TaskOf(g)].rev > RevOf(g)
      BY <1>0 DEF Inv, PcFits, TaskOf, RevOf
    <2>1. row[TaskOf(g)].rev > RevOf(g)
      BY DEF Inv, PcFits
    <2>2. MessageOf(g) \in Sent /\ mail[MessageOf(g)] # None
      <3>1. MessageOf(g) \in Sent /\ mail[MessageOf(g)] \in Read
        BY NotBehind
      <3> QED
        BY <3>1 DEF Read, None
    <2>3. /\ row'[TaskOf(g)].rev >= row[TaskOf(g)].rev /\ RevOf(g) \in Nat
          /\ row[TaskOf(g)].rev \in Nat /\ row'[TaskOf(g)].rev \in Nat
      BY <1>7, <2>2 DEF TaskOf, RevOf
    <2> QED
      BY <2>1, <2>3
  <1> QED
    BY <1>4, <1>5, <1>6, <1>8, <1>9, <1>10, <1>11 DEF Inv

(* The assignments of a phase that is rolled back become phantoms.         *)
LEMMA AbortedInv ==
  ASSUME Inv, Aborted, faults' \in 0..MaxFaults
  PROVE  Inv'
  <1>0. /\ at' = "watch" /\ todo' = <<>> /\ draft' = NoRow
        /\ writer' = IF writer = Tick THEN Nobody ELSE writer
        /\ owner' = [t \in Tasks |-> IF owner[t] = Tick THEN Nobody ELSE owner[t]]
        /\ phantom \subseteq phantom'
        /\ UNCHANGED <<row, recorded, mail, pc, lockOf>>
    BY DEF Aborted
  <1>1. DOMAIN draft' = {}
    BY <1>0 DEF NoRow
  <1>2. Typed'
    <2>1. draft' \in [DOMAIN draft' -> Row]
      BY <1>0, <1>1 DEF NoRow
    <2>2. owner' \in [Tasks -> Answers \cup {Tick, Nobody}]
      BY <1>0 DEF Inv, Typed
    <2>3. phantom' \subseteq Sent /\ at' \in At /\ todo' \in Seq(Read)
      BY DEF Aborted, Inv, Typed, At
    <2> QED
      BY <1>0, <1>1, <2>1, <2>2, <2>3, Names DEF Inv, Typed
  <1>3. LocksFit'
    BY <1>0, Names DEF Inv, Typed, LocksFit, Busy
  <1>4. DraftFits' /\ TodoFits' /\ MailFits'
    BY <1>0, <1>1 DEF Inv, DraftFits, TodoFits, MailFits, Open
  <1>5. HeldFits'
    BY <1>0, Names DEF Inv, HeldFits, TaskOf, RevOf
  <1>6. Uncommitted'
    <2> SUFFICES ASSUME NEW m \in Sent, mail[m] # None, m \notin phantom',
                        row[mail[m][1]].rev < mail[m][2]
                 PROVE  FALSE
      BY <1>0 DEF Uncommitted
    <2>1. m \notin phantom
      BY <1>0
    <2>2. at = "scheduling" /\ mail[m][1] \in DOMAIN draft
      BY <2>1 DEF Inv, Uncommitted
    <2>3. mail[m] \in Read
      BY DEF Inv, Typed
    <2>4. mail[m][1] \in Tasks /\ mail[m][2] \in Nat
      BY <2>3 DEF Read
    <2>5. row[mail[m][1]].rev + 1 >= mail[m][2] /\ row[mail[m][1]].rev \in Nat
      BY <2>4 DEF Inv, MailFits, Typed, Row
    <2>6. draft[mail[m][1]].rev = row[mail[m][1]].rev + 1
      BY <2>2 DEF Inv, DraftFits
    <2>7. draft[mail[m][1]].rev = mail[m][2]
      BY <2>4, <2>5, <2>6
    <2>8. MessageOf(m) = m
      BY Names
    <2> QED
      BY <2>2, <2>7, <2>8 DEF Aborted, TaskOf, RevOf
  <1>7. PcFits'
    BY <1>0 DEF Inv, PcFits, TaskOf, RevOf
  <1> QED
    BY <1>2, <1>3, <1>4, <1>5, <1>6, <1>7 DEF Inv

LEMMA TickGivesUpInv ==
  ASSUME Inv, TickGivesUp
  PROVE  Inv'
  BY AbortedInv DEF TickGivesUp, Inv, Typed

LEMMA TickFailsInv ==
  ASSUME Inv, TickFails
  PROVE  Inv'
  <1>1. faults' \in 0..MaxFaults
    BY BoundsTyped DEF TickFails, Fault, Inv, Typed
  <1> QED
    BY <1>1, AbortedInv DEF TickFails

LEMMA PollInv ==
  ASSUME Inv, Poll
  PROVE  Inv'
  <1>0. /\ at = "poll" /\ at' = "watch"
        /\ UNCHANGED <<row, draft, writer, recorded, owner, mail, phantom, todo, faults>>
        /\ pc \in [Answers -> Pc]
        /\ lockOf \in [Answers -> {<<t>> : t \in Tasks} \cup {None}]
    BY DEF Poll, Polls, table, posts, Inv, Typed
  <1>1. PICK batch \in SUBSET {h \in Answers : pc[h] = "out" \/ (h \in Again /\ pc[h] = "none")} :
          /\ \A h \in batch \cap Again : pc[MessageOf(h)] \notin {"none", "out"} \/ MessageOf(h) \in batch
          /\ pc' = [h \in Answers |-> IF h \in batch THEN "queued" ELSE pc[h]]
          /\ IF batch = {} THEN lockOf' = lockOf
             ELSE \E last \in batch :
                    lockOf' = [h \in Answers |-> IF h \in batch THEN <<TaskOf(last)>> ELSE lockOf[h]]
    BY DEF Poll
  <1>2. ASSUME NEW h \in batch
        PROVE  pc'[MessageOf(h)] \notin {"none", "out"} /\ TaskOf(h) \in Tasks
    <2>1. h \in Answers /\ MessageOf(h) \in Answers /\ MessageOf(h) \in Sent
      BY <1>1, Names
    <2>2. h \in Sent => MessageOf(h) = h /\ pc[h] = "out"
      BY <1>1, Names
    <2>3. pc'[MessageOf(h)] \notin {"none", "out"}
      BY <1>1, <2>1, <2>2, Names
    <2>4. pc[MessageOf(h)] # "none"
      <3>1. CASE MessageOf(h) \in batch
        BY <1>1, <2>1, <3>1, Names
      <3>2. CASE MessageOf(h) \notin batch
        BY <1>1, <2>1, <2>3, <3>2
      <3> QED
        BY <3>1, <3>2
    <2>5. mail[MessageOf(h)] \in Read
      BY <2>1, <2>4 DEF Inv, PcFits, Typed
    <2> QED
      BY <2>3, <2>5 DEF TaskOf, Read
  <1>3. /\ lockOf' \in [Answers -> {<<t>> : t \in Tasks} \cup {None}]
        /\ \A h \in batch : lockOf'[h] \in {<<t>> : t \in Tasks}
        /\ \A h \in Answers : h \notin batch => lockOf'[h] = lockOf[h]
    <2>1. CASE batch = {}
      BY <1>0, <1>1, <2>1
    <2>2. CASE batch # {}
      <3>1. PICK last \in batch :
              lockOf' = [h \in Answers |-> IF h \in batch THEN <<TaskOf(last)>> ELSE lockOf[h]]
        BY <1>1, <2>2
      <3>2. <<TaskOf(last)>> \in {<<t>> : t \in Tasks}
        BY <1>2
      <3> HIDE DEF TaskOf
      <3> QED
        BY <1>0, <1>1, <3>1, <3>2
    <2> QED
      BY <2>1, <2>2
  <1>4. ASSUME NEW h \in Answers
        PROVE  /\ h \in batch => pc[h] \in {"none", "out"} /\ pc'[h] = "queued"
               /\ h \notin batch => pc'[h] = pc[h]
    BY <1>1
  <1>5. Typed'
    <2>1. pc' \in [Answers -> Pc]
      BY <1>0, <1>1 DEF Pc
    <2> QED
      BY <1>0, <1>3, <2>1 DEF Inv, Typed, At, Open
  <1>6. LocksFit'
    <2>1. \A h \in Answers : Busy(h)' <=> Busy(h) /\ h \notin batch
      BY <1>4 DEF Busy
    <2>2. \A h \in Answers : Busy(h) => h \notin batch
      BY <1>4 DEF Busy
    <2>3. \A t \in Tasks : owner[t] # Tick
      BY <1>0 DEF Inv, LocksFit
    <2>4. ASSUME NEW h \in Answers, NEW t \in Tasks
          PROVE  owner'[t] = h <=> (Busy(h)' /\ lockOf'[h] = <<t>>)
      <3>1. owner[t] = h <=> (Busy(h) /\ lockOf[h] = <<t>>)
        BY DEF Inv, LocksFit
      <3> QED
        BY <1>0, <1>3, <2>1, <2>2, <3>1
    <2>5. \A h \in Answers : pc'[h] = "queued" \/ Busy(h)' => lockOf'[h] \in {<<t>> : t \in Tasks}
      BY <1>3, <1>4, <2>1, <2>2 DEF Inv, LocksFit
    <2> QED
      BY <1>0, <2>3, <2>4, <2>5 DEF LocksFit
  <1>7. DraftFits' /\ TodoFits' /\ MailFits'
    BY <1>0 DEF Inv, DraftFits, TodoFits, MailFits, Open
  <1>8. HeldFits'
    BY <1>0, <1>4 DEF Inv, HeldFits, TaskOf, RevOf
  <1>9. Uncommitted'
    BY <1>0 DEF Inv, Uncommitted
  <1>10. PcFits'
    <2> SUFFICES ASSUME NEW g \in Answers
                 PROVE  /\ g \in Sent => (pc'[g] = "none" <=> mail[g] = None)
                        /\ g \in Again => pc'[g] # "out"
                        /\ pc'[g] \notin {"none", "out"} =>
                             pc'[MessageOf(g)] \notin {"none", "out"}
                        /\ pc'[g] \in {"stale", "refused"} =>
                             row[TaskOf(g)].rev > RevOf(g) \/ MessageOf(g) \in phantom
      BY <1>0 DEF PcFits, TaskOf, RevOf
    <2>1. /\ g \in Sent => (pc[g] = "none" <=> mail[g] = None)
          /\ g \in Again => pc[g] # "out"
          /\ pc[g] \notin {"none", "out"} => pc[MessageOf(g)] \notin {"none", "out"}
          /\ pc[g] \in {"stale", "refused"} =>
               row[TaskOf(g)].rev > RevOf(g) \/ MessageOf(g) \in phantom
      BY DEF Inv, PcFits
    <2>2. MessageOf(g) \in Answers
      BY Names
    <2>3. CASE g \in batch
      <3>1. g \in Sent => pc[g] = "out"
        BY <1>1, <2>3, Names
      <3> QED
        BY <1>2, <1>4, <2>1, <2>3, <3>1
    <2>4. CASE g \notin batch
      <3>1. pc[MessageOf(g)] \notin {"none", "out"} => pc'[MessageOf(g)] \notin {"none", "out"}
        BY <1>4, <2>2
      <3> QED
        BY <1>4, <2>1, <2>4, <3>1
    <2> QED
      BY <2>3, <2>4
  <1> QED
    BY <1>5, <1>6, <1>7, <1>8, <1>9, <1>10 DEF Inv

(* A phase begins.                                                         *)
LEMMA ReadsInv ==
  ASSUME Inv, NEW from \in {"watch", "verify", "schedule"}, NEW to \in Open,
         Reads(from, to, {Looks[to]})
  PROVE  Inv'
  <1>0. /\ at = from /\ at \notin Open
        /\ UNCHANGED <<row, draft, writer, recorded, owner, mail, phantom, pc, lockOf, faults>>
        /\ row \in [Tasks -> Row]
    BY DEF Reads, table, posts, Open, Inv, Typed
  <1>1. PICK chosen \in SUBSET {t \in Tasks : row[t].state \in {Looks[to]}} :
          /\ \E order \in SetToSeqs(chosen) :
               todo' = [i \in DOMAIN order |-> <<order[i], row[order[i]].rev>>]
          /\ at' = IF chosen = {} THEN After[from] ELSE to
    BY DEF Reads
  <1>2. PICK order \in SetToSeqs(chosen) :
          todo' = [i \in DOMAIN order |-> <<order[i], row[order[i]].rev>>]
    BY <1>1
  <1>3. Cardinality(chosen) \in Nat
    BY TasksFinite, FS_Subset, FS_CardinalityType
  <1>4. order \in [1..Cardinality(chosen) -> chosen]
    BY DEF SetToSeqs
  <1>5. /\ todo' \in Seq(Read)
        /\ \A i \in DOMAIN todo' :
             /\ row[todo'[i][1]].rev = todo'[i][2] /\ row[todo'[i][1]].rev \in Nat
             /\ row[todo'[i][1]].state = Looks[to]
    <2>1. todo' = [i \in 1..Cardinality(chosen) |-> <<order[i], row[order[i]].rev>>]
      BY <1>2, <1>4
    <2>2. ASSUME NEW i \in 1..Cardinality(chosen)
          PROVE  /\ <<order[i], row[order[i]].rev>> \in Read
                 /\ row[order[i]].rev \in Nat /\ row[order[i]].state = Looks[to]
      <3>1. order[i] \in Tasks /\ row[order[i]].state = Looks[to]
        BY <1>1, <1>4
      <3>2. row[order[i]].rev \in Nat
        BY <1>0, <3>1 DEF Row
      <3> QED
        BY <3>1, <3>2 DEF Read
    <2>3. todo' \in Seq(Read)
      BY <1>3, <2>1, <2>2
    <2> QED
      BY <2>1, <2>2, <2>3
  <1>6. at' \in At /\ (at' \in Open => at' = to)
    BY <1>1 DEF After, At, Open
  <1>7. writer # Tick /\ DOMAIN draft = {}
    BY <1>0 DEF Inv, Typed, DraftFits
  <1>8. Typed'
    BY <1>0, <1>5, <1>6, <1>7 DEF Inv, Typed
  <1>9. LocksFit'
    BY <1>0 DEF Inv, LocksFit, Busy, Open
  <1>10. DraftFits'
    BY <1>0, <1>7 DEF DraftFits
  <1>11. TodoFits'
    BY <1>0, <1>5, <1>6 DEF TodoFits
  <1>12. MailFits' /\ HeldFits' /\ PcFits'
    BY <1>0 DEF Inv, MailFits, HeldFits, PcFits, TaskOf, RevOf
  <1>13. Uncommitted'
    BY <1>0 DEF Inv, Uncommitted, Open
  <1> QED
    BY <1>8, <1>9, <1>10, <1>11, <1>12, <1>13 DEF Inv

LEMMA PhaseInv ==
  ASSUME Inv, Watch \/ Verify \/ Schedule
  PROVE  Inv'
  <1>1. CASE Watch
    BY <1>1, ReadsInv DEF Watch, Looks, Open
  <1>2. CASE Verify
    BY <1>2, ReadsInv DEF Verify, Looks, Open
  <1>3. CASE Schedule
    BY <1>3, ReadsInv DEF Schedule, Looks, Open
  <1> QED
    BY <1>1, <1>2, <1>3

LEMMA NextInv ==
  ASSUME Inv, [Next]_vars
  PROVE  Inv'
  <1>1. CASE UNCHANGED vars
    <2>1. /\ UNCHANGED <<row, draft, writer, recorded, owner, mail, phantom>>
          /\ UNCHANGED <<pc, lockOf, at, todo, faults>>
      BY <1>1 DEF vars, table, posts, phase
    <2>2. Typed' /\ LocksFit'
      BY <2>1 DEF Inv, Typed, LocksFit, Busy, Turn
    <2>3. DraftFits' /\ TodoFits' /\ MailFits'
      BY <2>1 DEF Inv, DraftFits, TodoFits, MailFits, Granted
    <2>4. HeldFits' /\ Uncommitted' /\ PcFits'
      BY <2>1 DEF Inv, HeldFits, Uncommitted, PcFits, TaskOf, RevOf
    <2> QED
      BY <2>2, <2>3, <2>4 DEF Inv
  <1>2. CASE TickStep \/ TickFails
    BY <1>2, PhaseInv, TickLocksInv, TickActsInv, ClaimInv, CommitInv, TickGivesUpInv,
       TickFailsInv, PollInv DEF TickStep
  <1>3. CASE \E h \in Answers : AnswerStep(h) \/ Fails(h)
    BY <1>3, CheckInv, RefuseInv, TakeInv, SettleInv, GivesUpInv, FailsInv DEF AnswerStep
  <1> QED
    BY <1>1, <1>2, <1>3 DEF Next

-----------------------------------------------------------------------------
(* The refinement of TaskLease.                                            *)

LEMMA LeaseTyped ==
  ASSUME Inv, Inv'
  PROVE  /\ Lease!Typed
         /\ \A t \in Tasks : row[t].rev \in Nat /\ row'[t].rev \in Nat
  <1>1. \A t \in Tasks : row[t] \in Row /\ row'[t] \in Row
    BY DEF Inv, Typed
  <1>2. \A t \in Tasks : StageOf(row'[t].state) \in Lease!Stage
    BY <1>1 DEF Row, State, StageOf, Lease!Stage
  <1>3. \A t \in Tasks : row[t].rev \in Nat /\ row'[t].rev \in Nat
    BY <1>1 DEF Row
  <1> QED
    BY <1>2, <1>3 DEF Lease!Typed

LEMMA ClaimOffers ==
  ASSUME Inv, Claim
  PROVE  \/ Lease!Next
         \/ UNCHANGED <<row, mail>>
  <1>0. at = "scheduling" /\ at \in Open /\ todo # <<>> /\ row' = row
    BY DEF Claim, Open
  <1>1. CASE Matches(Now(Turn[1]), Turn[2])
    <2> DEFINE t == Turn[1]
    <2>1. /\ t \in Tasks /\ row[t].rev = Turn[2] /\ row[t].state = "ready"
      BY <1>0, <1>1, TurnFits DEF Looks
    <2>2. PICK m \in Sent :
            /\ pc[m] = "none"
            /\ mail' = [mail EXCEPT ![m] = <<t, row[t].rev + 1>>]
      BY <1>1, <2>1 DEF Claim
    <2>3. mail[m] = None /\ mail \in [Sent -> Read \cup {None}]
      BY <2>2, Names DEF Inv, PcFits, Typed
    <2>4. <<t, row[t].rev + 1>> # None
      BY DEF None
    <2>5. Granted' = Granted \cup {<<t, row[t].rev + 1>>}
      <3>1. /\ mail'[m] = <<t, row[t].rev + 1>>
            /\ \A l \in Sent : l # m => mail'[l] = mail[l]
        BY <2>2, <2>3
      <3>2. ASSUME NEW g \in Granted'
            PROVE  g \in Granted \cup {<<t, row[t].rev + 1>>}
        <4>1. PICK l \in Sent : mail'[l] # None /\ g = mail'[l]
          BY DEF Granted
        <4>2. CASE l = m
          BY <3>1, <4>1, <4>2
        <4>3. CASE l # m
          BY <3>1, <4>1, <4>3 DEF Granted
        <4> QED
          BY <4>2, <4>3
      <3>3. ASSUME NEW g \in Granted
            PROVE  g \in Granted'
        <4>1. PICK l \in Sent : mail[l] # None /\ g = mail[l]
          BY DEF Granted
        <4>2. l # m
          BY <2>3, <4>1
        <4> QED
          BY <3>1, <4>1, <4>2 DEF Granted
      <3>4. <<t, row[t].rev + 1>> \in Granted'
        BY <2>4, <3>1 DEF Granted
      <3> QED
        BY <3>2, <3>3, <3>4
    <2>6. {t} \in SUBSET Lease!At("open")
      BY <2>1 DEF Lease!At, StageOf
    <2>7. Lease!Handed({t}) = {<<t, row[t].rev + 1>>}
      BY <2>1 DEF Lease!Handed
    <2>8. Lease!Offer({t})
      BY <1>0, <2>5, <2>7 DEF Lease!Offer
    <2> QED
      BY <2>6, <2>8 DEF Lease!Next
  <1>2. CASE ~Matches(Now(Turn[1]), Turn[2])
    BY <1>0, <1>2 DEF Claim
  <1> QED
    BY <1>1, <1>2

LEMMA CommitKeeps ==
  ASSUME Inv, Inv', Commit
  PROVE  Lease!Next
  <1>0. /\ at \in Open /\ row' = [t \in Tasks |-> Now(t)] /\ Granted' = Granted
        /\ DOMAIN draft \subseteq Tasks
    BY DEF Commit, posts, Granted, Inv, Typed
  <1>1. /\ Lease!Typed
        /\ \A t \in Tasks : row[t].rev \in Nat /\ row'[t].rev \in Nat
    BY LeaseTyped
  <1>2. ASSUME NEW t \in Tasks
        PROVE  /\ t \notin DOMAIN draft => row'[t] = row[t]
               /\ t \in DOMAIN draft =>
                    /\ row'[t].rev = row[t].rev + 1 /\ row[t].state = Looks[at]
                    /\ IF at = "scheduling"
                       THEN row'[t].state = "claimed" /\ <<t, row[t].rev + 1>> \in Granted
                       ELSE row'[t].state \in {"ready", "ended"}
    <2>1. row'[t] = IF t \in DOMAIN draft THEN draft[t] ELSE row[t]
      BY <1>0 DEF Now
    <2>2. t \in DOMAIN draft =>
            /\ draft[t].rev = row[t].rev + 1 /\ row[t].state = Looks[at]
            /\ IF at = "scheduling"
               THEN draft[t].state = "claimed" /\ <<t, draft[t].rev>> \in Granted
               ELSE draft[t].state \in {"ready", "ended"}
      BY DEF Inv, DraftFits
    <2>3. CASE t \in DOMAIN draft
      <3>1. row'[t] = draft[t]
        BY <2>1, <2>3
      <3> QED
        BY <2>2, <2>3, <3>1
    <2>4. CASE t \notin DOMAIN draft
      BY <2>1, <2>4
    <2> QED
      BY <2>3, <2>4
  <1>3. ASSUME NEW t \in Tasks, t \notin DOMAIN draft
        PROVE  Lease!Same(t)
    BY <1>2, <1>3 DEF Lease!Same
  <1>4. CASE at = "scheduling"
    <2>1. DOMAIN draft \in SUBSET Lease!At("open")
      BY <1>0, <1>2, <1>4 DEF Lease!At, StageOf, Looks
    <2>2. Lease!Handed(DOMAIN draft) \subseteq Granted
      BY <1>0, <1>2, <1>4 DEF Lease!Handed
    <2>3. ASSUME NEW t \in Tasks, t \in DOMAIN draft
          PROVE  row'[t].state = "claimed" /\ row'[t].rev = row[t].rev + 1
      BY <1>2, <1>4, <2>3
    <2>4. PICK given \in SUBSET Lease!At("open") : given = DOMAIN draft
      BY <2>1
    <2>5. Lease!Grant(given)
      BY <1>0, <1>1, <1>3, <2>2, <2>3, <2>4 DEF Lease!Grant, StageOf
    <2> QED
      BY <2>5 DEF Lease!Next
  <1>5. CASE at = "verifying"
    <2>1. ASSUME NEW t \in Tasks, t \in DOMAIN draft
          PROVE  Lease!Goes(t, "parked", {"open", "failed"})
      <3>1. /\ row[t].state = "judging" /\ row'[t].state \in {"ready", "ended"}
            /\ row'[t].rev > row[t].rev
        BY <1>1, <1>2, <1>5, <2>1 DEF Looks
      <3> QED
        BY <3>1 DEF Lease!Goes, StageOf
    <2>2. Lease!Judge
      BY <1>0, <1>1, <1>3, <2>1 DEF Lease!Judge
    <2> QED
      BY <2>2 DEF Lease!Next
  <1>6. CASE at = "watching"
    <2>1. ASSUME NEW t \in Tasks, t \in DOMAIN draft
          PROVE  Lease!Goes(t, "held", {"open", "failed"})
      <3>1. /\ row[t].state = "claimed" /\ row'[t].state \in {"ready", "ended"}
            /\ row'[t].rev > row[t].rev
        BY <1>1, <1>2, <1>6, <2>1 DEF Looks
      <3> QED
        BY <3>1 DEF Lease!Goes, StageOf
    <2>2. Lease!Revoke
      BY <1>0, <1>1, <1>3, <2>1 DEF Lease!Revoke
    <2> QED
      BY <2>2 DEF Lease!Next
  <1> QED
    BY <1>0, <1>4, <1>5, <1>6 DEF Open

LEMMA SettleAnswers ==
  ASSUME Inv, Inv', NEW h \in Answers, Settle(h)
  PROVE  \/ Lease!Next
         \/ UNCHANGED <<row, mail>>
  <1>0. pc[h] = "held" /\ mail' = mail /\ row \in [Tasks -> Row]
    BY DEF Settle, posts, Inv, Typed
  <1>1. CASE MessageOf(h) \in recorded
    BY <1>0, <1>1 DEF Settle
  <1>2. CASE MessageOf(h) \notin recorded
    <2>1. PICK t \in Tasks :
            /\ t = TaskOf(h) /\ row[t].rev = RevOf(h) /\ row[t].state = "claimed"
            /\ MessageOf(h) \in Sent /\ mail[MessageOf(h)] \in Read
      BY <1>0, NotBehind DEF Inv, HeldFits
    <2>2. PICK s \in {"ready", "judging", "ended", "processing"} :
            row' = [row EXCEPT ![t] =
                      [rev |-> row[t].rev + IF s = "processing" THEN 1 ELSE 2, state |-> s]]
      BY <1>2, <2>1 DEF Settle
    <2>3. /\ Lease!Typed
          /\ \A u \in Tasks : row[u].rev \in Nat /\ row'[u].rev \in Nat
      BY LeaseTyped
    <2>4. /\ row'[t].state = s /\ row'[t].rev > row[t].rev
          /\ \A u \in Tasks : u # t => row'[u] = row[u]
      BY <1>0, <2>1, <2>2, <2>3
    <2>5. <<t, row[t].rev>> \in Granted
      <3>1. mail[MessageOf(h)] = <<t, row[t].rev>>
        BY <2>1 DEF TaskOf, RevOf, Read
      <3> QED
        <4>1. mail[MessageOf(h)] # None
          BY <3>1 DEF None
        <4> QED
          BY <2>1, <3>1, <4>1 DEF Granted
    <2>6. Granted' = Granted
      BY <1>0 DEF Granted
    <2>7. Lease!Goes(t, "held", {"open", "stuck", "parked", "done", "failed"})
      BY <2>1, <2>4 DEF Lease!Goes, StageOf
    <2>8. \A u \in Tasks \ {t} : Lease!Same(u)
      BY <2>4 DEF Lease!Same
    <2>9. Lease!Answer(t)
      BY <2>1, <2>3, <2>5, <2>6, <2>7, <2>8 DEF Lease!Answer
    <2>10. t \in Lease!At("held")
      BY <2>1 DEF Lease!At, StageOf
    <2> QED
      BY <2>9, <2>10 DEF Lease!Next
  <1> QED
    BY <1>1, <1>2

LEMMA LeaseStep ==
  ASSUME Inv, Inv', [Next]_vars
  PROVE  [Lease!Next]_(Lease!vars)
  <1>1. CASE Claim \/ Commit \/ \E h \in Answers : Settle(h)
    BY <1>1, ClaimOffers, CommitKeeps, SettleAnswers DEF Lease!vars, Granted
  <1>2. CASE \/ Watch \/ Verify \/ Schedule \/ TickLocks \/ TickActs
             \/ TickGivesUp \/ Poll \/ TickFails
    <2>1. UNCHANGED <<row, mail>>
      BY <1>2 DEF Watch, Verify, Schedule, Reads, TickLocks, TickActs, TickGivesUp,
         TickFails, Aborted, Poll, table, posts
    <2> QED
      BY <2>1 DEF Lease!vars, Granted
  <1>3. CASE \E h \in Answers : Check(h) \/ Refuse(h) \/ Take(h) \/ GivesUp(h) \/ Fails(h)
    <2>1. UNCHANGED <<row, mail>>
      BY <1>3 DEF Check, Refuse, Take, GivesUp, Fails, table, posts
    <2> QED
      BY <2>1 DEF Lease!vars, Granted
  <1>4. CASE UNCHANGED vars
    BY <1>4 DEF vars, table, posts, Lease!vars, Granted
  <1> QED
    BY <1>1, <1>2, <1>3, <1>4 DEF Next, TickStep, AnswerStep

-----------------------------------------------------------------------------
LEMMA Invariance == Spec => []Inv
  <1>1. Inv /\ [Next]_vars => Inv'
    BY NextInv
  <1> QED
    BY InitInv, <1>1, PTL DEF Spec

(* Every lock is held by the coroutine that is at the place in the code    *)
(* where it holds it, for any number of tasks and answers.                 *)
THEOREM IntakeTypeOK == Spec => []TypeOK
  BY InvTypeOK, Invariance, PTL

(* However the tick, the answers and the failures interleave, an answer to *)
(* the assignment that a task is claimed under is not refused as stale.    *)
THEOREM IntakeCurrentNotRefused == Spec => []CurrentNotRefused
  <1>1. Inv => CurrentNotRefused
    BY DEF Inv, PcFits, CurrentNotRefused
  <1> QED
    BY <1>1, Invariance, PTL

(* Rows that were read before they are written, and locks that are the     *)
(* wrong ones, do no harm: the committed rows implement TaskLease.         *)
THEOREM IntakeKeepsLease == Spec => LeaseKept
  <1>1. Init => Lease!Init
    BY DEF Init, Lease!Init, Granted, StageOf
  <1>2. Inv /\ Inv' /\ [Next]_vars => [Lease!Next]_(Lease!vars)
    BY LeaseStep
  <1> QED
    BY <1>1, <1>2, Invariance, PTL DEF Spec, LeaseKept, Lease!Spec
=============================================================================
