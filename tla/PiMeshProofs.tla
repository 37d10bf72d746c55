---------------------------- MODULE PiMeshProofs ----------------------------
(***************************************************************************)
(* Proofs about PiMesh: types, one start per assignment, the order of the  *)
(* task files, the bound of the pool, and the refinement of TaskLease.     *)
(***************************************************************************)
EXTENDS PiMesh, FiniteSetTheorems, TLAPS

(* What has been handed out under a revision is settled or taken back      *)
(* (below the token), at work (at it), or of a rolled-back tick.           *)
Tokens ==
  /\ \A t \in Task, n \in 1..MaxRev :
       <<t, n>> \in granted => \/ n < token[t]
                               \/ n = token[t] /\ stage[t] = "held"
                               \/ n = token[t] + 1 /\ stage[t] = "open"
  /\ \A t \in Task : stage[t] = "held" => <<t, token[t]>> \in granted

(* Callbacks wait in the order of their revisions, none behind its file.   *)
Ordered ==
  /\ \A i \in 1..Len(calls) :
       /\ calls[i] \in granted
       /\ taskfile[calls[i][1]] <= calls[i][2]
  /\ \A i, j \in 1..Len(calls) :
       i < j /\ calls[i][1] = calls[j][1] => calls[i][2] <= calls[j][2]

(* Every revision in a file or a message has been handed out.              *)
Copied ==
  /\ \A t \in Task : taskfile[t] # 0 => <<t, taskfile[t]>> \in granted
  /\ \A t \in Task :
       file[t].kind \notin {"none", "foreign", "shapeless"} => <<t, file[t].rev>> \in granted
  /\ \A m \in inbox :
       m.kind \in {"answer", "broken"} => <<m.task, m.rev>> \in granted

(* What waits for a slot has been seen and not been started.               *)
Waiting ==
  /\ \A i \in 1..Len(queue) : /\ queue[i] \in spawned
                              /\ spec[queue[i]] = 0
                              /\ queue[i][2] <= taskfile[queue[i][1]]
  /\ \A i, j \in 1..Len(queue) : queue[i] = queue[j] => i = j

(* What has been started has been seen, and has read no older task file.   *)
Started ==
  \A k \in Key :
    spec[k] # 0 => /\ k \in spawned
                   /\ k[2] <= spec[k] /\ spec[k] <= taskfile[k[1]]
                   /\ <<k[1], spec[k]>> \in granted

Running ==
  /\ live \subseteq slots
  /\ \A k \in live : spec[k] # 0
  /\ IsFiniteSet(slots)
  /\ Cardinality(slots) <= MaxSpawns

(* The inductive invariant.                                                *)
Inv ==
  TypeOK /\ Tokens /\ Ordered /\ Copied /\ Waiting /\ Started /\ Running


-----------------------------------------------------------------------------
(* Sequences: what a queue holds after its head has left, or another joins.*)

LEMMA TailFacts ==
  ASSUME NEW S, NEW q \in Seq(S), q # <<>>
  PROVE  /\ Tail(q) \in Seq(S)
         /\ Head(q) \in S /\ Head(q) = q[1]
         /\ Len(q) \in Nat /\ Len(q) >= 1
         /\ Len(Tail(q)) = Len(q) - 1
         /\ \A i \in 1..Len(Tail(q)) : Tail(q)[i] = q[i + 1] /\ i + 1 \in 1..Len(q)
  OBVIOUS

LEMMA AppendFacts ==
  ASSUME NEW S, NEW q \in Seq(S), NEW e \in S
  PROVE  /\ Append(q, e) \in Seq(S)
         /\ Len(q) \in Nat
         /\ Len(Append(q, e)) = Len(q) + 1
         /\ Append(q, e)[Len(q) + 1] = e
         /\ \A i \in 1..Len(q) : Append(q, e)[i] = q[i]
  OBVIOUS

-----------------------------------------------------------------------------
(* The initial state.                                                      *)

LEMMA InitInv == Init => Inv
<1> SUFFICES ASSUME Init PROVE Inv
  OBVIOUS
<1> USE BoundsNatural, RolesAreTasks DEF Init, Key, NoFile
<1>1. \A t \in Task : \/ file[t] = NoFile
                      \/ /\ file[t] \in File
                         /\ file[t].kind \in {"foreign", "shapeless"}
  BY DEF File
<1>2. TypeOK
  <2>1. file \in [Task -> File]
    <3>1. file = [t \in Task |-> file[t]]
      OBVIOUS
    <3>2. \A t \in Task : file[t] \in File
      BY <1>1 DEF File
    <3> QED
      BY <3>1, <3>2
  <2> QED
    BY <2>1 DEF TypeOK
<1>3. Tokens /\ Ordered /\ Copied /\ Waiting /\ Started
  BY <1>1 DEF Tokens, Ordered, Copied, Waiting, Started
<1>4. Running
  BY FS_EmptySet DEF Running
<1> QED
  BY <1>2, <1>3, <1>4 DEF Inv

-----------------------------------------------------------------------------
(* The engine hands out: a callback joins the others.                      *)

LEMMA CallJoins ==
  ASSUME Inv, NEW t \in Task,
         stage[t] = "open", token[t] < MaxRev,
         granted' = granted \cup {<<t, token[t] + 1>>},
         calls' = Append(calls, <<t, token[t] + 1>>),
         UNCHANGED taskfile
  PROVE  /\ granted' \subseteq Key
         /\ calls' \in Seq(Key)
         /\ Ordered'
<1> DEFINE k == <<t, token[t] + 1>>
<1>1. /\ calls \in Seq(Key) /\ granted \subseteq Key
      /\ token[t] \in Nat /\ taskfile \in [Task -> Nat]
  BY DEF Inv, TypeOK
<1>2. k \in Key /\ k[1] = t /\ k[2] = token[t] + 1
  BY <1>1, BoundsNatural DEF Key
<1>3. \A n \in 1..MaxRev : <<t, n>> \in granted => n <= token[t] + 1
  <2>1. Tokens
    BY DEF Inv
  <2> QED
    BY <1>1, <2>1, BoundsNatural DEF Tokens
<1>4. \A i \in 1..Len(calls) :
        /\ calls[i] \in granted' /\ calls[i] \in Key
        /\ calls[i][1] = t => calls[i][2] <= k[2]
  BY <1>1, <1>2, <1>3 DEF Inv, Ordered, Key
<1>5. taskfile[t] <= k[2]
  <2>1. taskfile[t] # 0 => <<t, taskfile[t]>> \in granted
    BY DEF Inv, Copied
  <2> QED
    BY <1>1, <1>2, <1>3, <2>1, BoundsNatural DEF Key
<1>6. /\ Len(calls) \in Nat /\ Len(calls') = Len(calls) + 1
      /\ calls'[Len(calls) + 1] = k
      /\ \A i \in 1..Len(calls) : calls'[i] = calls[i]
      /\ calls' \in Seq(Key)
  <2> HIDE DEF k
  <2>1. calls' = Append(calls, k)
    BY DEF k
  <2>2. calls \in Seq(Key) /\ k \in Key
    BY <1>1, <1>2
  <2>3. Append(calls, k) \in Seq(Key)
    BY <2>2, AppendFacts
  <2>4. Len(Append(calls, k)) = Len(calls) + 1 /\ Len(calls) \in Nat
    BY <2>2, AppendFacts
  <2>5. Append(calls, k)[Len(calls) + 1] = k
    BY <2>2, AppendFacts
  <2>6. \A i \in 1..Len(calls) : Append(calls, k)[i] = calls[i]
    BY <2>2, AppendFacts
  <2> QED
    BY <2>1, <2>3, <2>4, <2>5, <2>6
<1>7. \A i \in 1..Len(calls') : i \in 1..Len(calls) \/ i = Len(calls) + 1
  BY <1>6
<1>8. Ordered'
  <2>1. ASSUME NEW i \in 1..Len(calls')
        PROVE  calls'[i] \in granted' /\ taskfile'[calls'[i][1]] <= calls'[i][2]
    BY <1>2, <1>4, <1>5, <1>6, <1>7 DEF Inv, Ordered
  <2>2. ASSUME NEW i \in 1..Len(calls'), NEW j \in 1..Len(calls'),
               i < j, calls'[i][1] = calls'[j][1]
        PROVE  calls'[i][2] <= calls'[j][2]
    <3>1. i \in 1..Len(calls)
      BY <2>2, <1>6
    <3>2. CASE j \in 1..Len(calls)
      BY <2>2, <3>1, <3>2, <1>6 DEF Inv, Ordered
    <3>3. CASE j = Len(calls) + 1
      BY <2>2, <3>1, <3>3, <1>2, <1>4, <1>6
    <3> QED
      BY <3>2, <3>3, <1>7
  <2> QED
    BY <2>1, <2>2 DEF Ordered
<1> QED
  BY <1>1, <1>2, <1>6, <1>8

LEMMA AssignKeepsInv ==
  ASSUME Inv, NEW t \in Task, Assign(t)
  PROVE  Inv'
<1> USE DEF Inv, Assign, engine, pool, receiver
<1>1. /\ stage \in [Task -> {"open", "held", "stuck", "done"}]
      /\ token \in [Task -> 0..MaxRev + 1]
  BY DEF TypeOK
<1>2. MaxRev \in Nat /\ token[t] \in 0..MaxRev + 1
  BY <1>1, BoundsNatural
<1>3. /\ granted' \subseteq Key /\ calls' \in Seq(Key) /\ Ordered'
  BY CallJoins
<1>4. TypeOK'
  <2>1. /\ stage' \in [Task -> {"open", "held", "stuck", "done"}]
        /\ token' \in [Task -> 0..MaxRev + 1]
    BY <1>1, <1>2
  <2> QED
    BY <1>3, <2>1 DEF TypeOK
<1>5. Tokens'
  <2>1. ASSUME NEW u \in Task, NEW n \in 1..MaxRev, <<u, n>> \in granted'
        PROVE  \/ n < token'[u]
               \/ n = token'[u] /\ stage'[u] = "held"
               \/ n = token'[u] + 1 /\ stage'[u] = "open"
    <3>1. CASE u = t
      BY <1>1, <1>2, <2>1, <3>1 DEF Tokens
    <3>2. CASE u # t
      BY <1>1, <1>2, <2>1, <3>2 DEF Tokens
    <3> QED
      BY <3>1, <3>2
  <2>2. ASSUME NEW u \in Task, stage'[u] = "held"
        PROVE  <<u, token'[u]>> \in granted'
    BY <1>1, <1>2, <2>2 DEF Tokens
  <2> QED
    BY <2>1, <2>2 DEF Tokens
<1>6. Ordered'
  BY <1>3
<1>7. Copied' /\ Waiting' /\ Started' /\ Running'
  BY DEF Copied, Waiting, Started, Running
<1> QED
  BY <1>4, <1>5, <1>6, <1>7

LEMMA AssignRolledBackKeepsInv ==
  ASSUME Inv, NEW t \in Task, AssignRolledBack(t)
  PROVE  Inv'
<1> USE DEF Inv, AssignRolledBack, engine, pool, receiver
<1>1. /\ granted' \subseteq Key /\ calls' \in Seq(Key) /\ Ordered'
  BY CallJoins
<1>2. TypeOK'
  BY <1>1 DEF TypeOK
<1>3. Ordered'
  BY <1>1
<1>4. Tokens' /\ Copied' /\ Waiting' /\ Started' /\ Running'
  BY DEF Tokens, Copied, Waiting, Started, Running
<1> QED
  BY <1>2, <1>3, <1>4

-----------------------------------------------------------------------------
(* The engine settles a task or takes it back.                             *)

LEMMA SettleKeepsTokens ==
  ASSUME Inv, NEW t \in Task, stage[t] = "held",
         NEW s \in {"open", "stuck", "done"},
         stage' = [stage EXCEPT ![t] = s],
         token' = [token EXCEPT ![t] = @ + 1],
         UNCHANGED granted
  PROVE  /\ stage' \in [Task -> {"open", "held", "stuck", "done"}]
         /\ token' \in [Task -> 0..MaxRev + 1]
         /\ Tokens'
<1> USE DEF Inv
<1>1. /\ stage \in [Task -> {"open", "held", "stuck", "done"}]
      /\ token \in [Task -> 0..MaxRev + 1]
  BY DEF TypeOK
<1>2. MaxRev \in Nat /\ token[t] \in 0..MaxRev + 1
  BY <1>1, BoundsNatural
<1>3. token[t] <= MaxRev
  <2>1. <<t, token[t]>> \in granted
    BY DEF Tokens
  <2>2. granted \subseteq Key
    BY DEF TypeOK
  <2> QED
    BY <1>2, <2>1, <2>2 DEF Key
<1>4. token' \in [Task -> 0..MaxRev + 1]
  BY <1>1, <1>2, <1>3
<1>5. Tokens'
  <2>1. ASSUME NEW u \in Task, NEW n \in 1..MaxRev, <<u, n>> \in granted'
        PROVE  \/ n < token'[u]
               \/ n = token'[u] /\ stage'[u] = "held"
               \/ n = token'[u] + 1 /\ stage'[u] = "open"
    <3>1. CASE u = t
      BY <1>1, <1>2, <2>1, <3>1 DEF Tokens
    <3>2. CASE u # t
      BY <1>1, <1>2, <2>1, <3>2 DEF Tokens
    <3> QED
      BY <3>1, <3>2
  <2>2. ASSUME NEW u \in Task, stage'[u] = "held"
        PROVE  <<u, token'[u]>> \in granted'
    BY <1>1, <1>2, <2>2 DEF Tokens
  <2> QED
    BY <2>1, <2>2 DEF Tokens
<1> QED
  BY <1>1, <1>4, <1>5

LEMMA TakeBackKeepsInv ==
  ASSUME Inv, NEW t \in Task, TakeBack(t)
  PROVE  Inv'
<1> USE DEF Inv, TakeBack, engine, pool, receiver
<1>1. TypeOK'
  <2>1. /\ stage' \in [Task -> {"open", "held", "stuck", "done"}]
        /\ token' \in [Task -> 0..MaxRev + 1]
    BY SettleKeepsTokens
  <2> QED
    BY <2>1 DEF TypeOK
<1>2. Tokens'
  BY SettleKeepsTokens
<1>3. Ordered' /\ Copied' /\ Waiting' /\ Started' /\ Running'
  BY DEF Ordered, Copied, Waiting, Started, Running
<1> QED
  BY <1>1, <1>2, <1>3

LEMMA DeliverKeepsInv ==
  ASSUME Inv, NEW m \in inbox, Deliver(m)
  PROVE  Inv'
<1> USE DEF Inv, Deliver, engine, pool, receiver
<1>1. ASSUME Fresh(m)
      PROVE  stage[m.task] = "held" /\ m.task \in Task
  <2>1. m.task \in Task /\ token \in [Task -> 0..MaxRev + 1]
    BY DEF TypeOK, Message
  <2>2. <<m.task, token[m.task]>> \in granted
    BY <1>1 DEF Copied, Fresh
  <2>3. granted \subseteq Key
    BY DEF TypeOK
  <2>4. token[m.task] \in 1..MaxRev
    BY <2>2, <2>3 DEF Key
  <2> QED
    BY <2>1, <2>2, <2>4, BoundsNatural DEF Tokens
<1>2. /\ stage' \in [Task -> {"open", "held", "stuck", "done"}]
      /\ token' \in [Task -> 0..MaxRev + 1]
      /\ Tokens'
  <2>1. CASE Fresh(m)
    <3>1. PICK s \in {"open", "stuck", "done"} :
            /\ stage' = [stage EXCEPT ![m.task] = s]
            /\ token' = [token EXCEPT ![m.task] = @ + 1]
      BY <2>1
    <3>2. granted' = granted
      OBVIOUS
    <3> HIDE DEF Deliver
    <3> QED
      BY <1>1, <2>1, <3>1, <3>2, SettleKeepsTokens
  <2>2. CASE ~Fresh(m)
    BY <2>2 DEF TypeOK, Tokens
  <2> QED
    BY <2>1, <2>2
<1>3. lost' \subseteq Task \X (0..MaxRev)
  BY DEF TypeOK, Message, KeysOf
<1>4. TypeOK'
  BY <1>2, <1>3 DEF TypeOK
<1>5. Tokens'
  BY <1>2
<1>6. Ordered' /\ Copied' /\ Waiting' /\ Started' /\ Running'
  BY DEF Ordered, Copied, Waiting, Started, Running
<1> QED
  BY <1>4, <1>5, <1>6

LEMMA DeliveryFailsKeepsInv ==
  ASSUME Inv, NEW m \in inbox, DeliveryFails(m)
  PROVE  Inv'
<1> USE DEF Inv, DeliveryFails, engine, pool
<1>1. lost' \subseteq Task \X (0..MaxRev)
  BY DEF TypeOK, Message, KeysOf, Lose
<1>2. TypeOK'
  BY <1>1 DEF TypeOK
<1>3. Tokens' /\ Ordered' /\ Copied' /\ Waiting' /\ Started' /\ Running'
  BY DEF Tokens, Ordered, Copied, Waiting, Started, Running
<1> QED
  BY <1>2, <1>3

-----------------------------------------------------------------------------
(* The callback goes through what was called.                              *)

LEMMA CallLeaves ==
  ASSUME Inv, NEW k \in Key, Called(k),
         taskfile' \in {taskfile, [taskfile EXCEPT ![k[1]] = k[2]]}
  PROVE  /\ k \in granted
         /\ calls' \in Seq(Key)
         /\ taskfile' \in [Task -> 0..MaxRev]
         /\ \A t \in Task : taskfile[t] <= taskfile'[t]
         /\ Ordered'
<1> USE DEF Inv
<1>1. /\ calls \in Seq(Key) /\ calls # <<>>
      /\ k = Head(calls) /\ calls' = Tail(calls)
      /\ taskfile \in [Task -> 0..MaxRev]
      /\ granted' = granted
  BY DEF TypeOK, Called, engine
<1>2. /\ calls' \in Seq(Key) /\ k = calls[1]
      /\ Len(calls) \in Nat /\ Len(calls) >= 1
      /\ Len(calls') = Len(calls) - 1
      /\ \A i \in 1..Len(calls') : calls'[i] = calls[i + 1] /\ i + 1 \in 1..Len(calls)
  BY <1>1, TailFacts
<1>3. k \in granted /\ taskfile[k[1]] <= k[2]
  BY <1>2 DEF Ordered
<1>4. MaxRev \in Nat /\ k[1] \in Task /\ k[2] \in 1..MaxRev
  BY BoundsNatural DEF Key
<1>5. /\ taskfile' \in [Task -> 0..MaxRev]
      /\ \A t \in Task : taskfile[t] <= taskfile'[t]
      /\ \A t \in Task : taskfile'[t] = taskfile[t] \/ (t = k[1] /\ taskfile'[t] = k[2])
  <2> HIDE DEF Inv
  <2>1. /\ taskfile \in [Task -> 0..MaxRev] /\ taskfile[k[1]] <= k[2]
        /\ \A t \in Task : taskfile[t] \in 0..MaxRev
    BY <1>1, <1>3
  <2>2. CASE taskfile' = taskfile
    BY <1>4, <2>1, <2>2
  <2>3. CASE taskfile' = [taskfile EXCEPT ![k[1]] = k[2]]
    <3>1. \A t \in Task : taskfile'[t] = IF t = k[1] THEN k[2] ELSE taskfile[t]
      BY <2>1, <2>3
    <3>2. \A t \in Task : taskfile'[t] \in 0..MaxRev /\ taskfile[t] <= taskfile'[t]
      BY <1>4, <2>1, <3>1
    <3> QED
      BY <1>4, <2>1, <2>3, <3>1, <3>2
  <2> QED
    BY <2>2, <2>3
<1>6. Ordered'
  <2>1. ASSUME NEW i \in 1..Len(calls')
        PROVE  /\ calls'[i] \in granted' /\ calls'[i] \in Key
               /\ taskfile'[calls'[i][1]] <= calls'[i][2]
    <3>1. /\ calls'[i] = calls[i + 1] /\ i + 1 \in 1..Len(calls)
          /\ 1 \in 1..Len(calls) /\ 1 < i + 1
      BY <1>2
    <3>2. /\ calls[i + 1] \in granted
          /\ taskfile[calls[i + 1][1]] <= calls[i + 1][2]
          /\ calls[i + 1][1] = k[1] => k[2] <= calls[i + 1][2]
      BY <1>2, <3>1 DEF Ordered
    <3>3. calls[i + 1] \in Key
      BY <1>1, <3>1
    <3>4. calls[i + 1][1] \in Task
      BY <3>3 DEF Key
    <3>5. taskfile'[calls[i + 1][1]] <= calls[i + 1][2]
      BY <1>5, <3>2, <3>4
    <3> QED
      BY <1>1, <3>1, <3>2, <3>3, <3>5
  <2>2. ASSUME NEW i \in 1..Len(calls'), NEW j \in 1..Len(calls'),
               i < j, calls'[i][1] = calls'[j][1]
        PROVE  calls'[i][2] <= calls'[j][2]
    BY <1>2, <2>2 DEF Ordered
  <2> QED
    BY <2>1, <2>2 DEF Ordered
<1> QED
  BY <1>2, <1>3, <1>5, <1>6

LEMMA SkipDuplicateKeepsInv ==
  ASSUME Inv, NEW k \in Key, SkipDuplicate(k)
  PROVE  Inv'
<1> USE DEF Inv, SkipDuplicate, engine, pool, receiver
<1>1. /\ k \in granted
      /\ calls' \in Seq(Key) /\ Ordered'
  BY CallLeaves
<1>2. /\ calls' = Tail(calls) /\ spawned' = spawned \cup {k}
      /\ UNCHANGED <<engine, slots, spec, live, brief, limits, consumed, lost>>
  BY DEF Called
<1>3. Ordered'
  BY <1>1
<1>4. TypeOK' /\ Tokens' /\ Copied' /\ Waiting' /\ Started' /\ Running'
  BY <1>1, <1>2 DEF TypeOK, Tokens, Copied, Waiting, Started, Running
<1> QED
  BY <1>3, <1>4

LEMMA ApproveUnseenKeepsInv ==
  ASSUME Inv, NEW k \in Key, ApproveUnseen(k)
  PROVE  Inv'
<1> USE DEF Inv, ApproveUnseen, engine, pool, receiver
<1>1. /\ k \in granted
      /\ calls' \in Seq(Key) /\ Ordered'
  BY CallLeaves
<1>2. /\ calls' = Tail(calls) /\ spawned' = spawned \cup {k}
      /\ UNCHANGED <<engine, slots, spec, live, brief, limits, consumed, lost>>
  BY DEF Called
<1>3. /\ Answer(k) \in Message
      /\ Answer(k).task = k[1] /\ Answer(k).rev = k[2]
      /\ <<k[1], k[2]>> = k
  BY BoundsNatural DEF Answer, Message, Key
<1>4. TypeOK'
  <2>1. inbox' \subseteq Message /\ spawned' \subseteq Key
    BY <1>2, <1>3 DEF TypeOK
  <2> QED
    BY <1>1, <1>2, <2>1 DEF TypeOK
<1>5. Ordered'
  BY <1>1
<1>6. Tokens' /\ Copied' /\ Waiting' /\ Started' /\ Running'
  BY <1>1, <1>2, <1>3 DEF Tokens, Copied, Waiting, Started, Running
<1> QED
  BY <1>4, <1>5, <1>6

LEMMA QueueJoins ==
  ASSUME Inv, NEW k \in Key, k \notin spawned,
         queue' = Append(queue, k), spawned' = spawned \cup {k},
         UNCHANGED spec,
         taskfile' \in [Task -> 0..MaxRev],
         taskfile'[k[1]] = k[2],
         \A t \in Task : taskfile[t] <= taskfile'[t]
  PROVE  queue' \in Seq(Key) /\ Waiting'
<1> USE DEF Inv
<1>1. queue \in Seq(Key) /\ taskfile \in [Task -> 0..MaxRev]
  BY DEF TypeOK
<1>2. /\ queue' \in Seq(Key)
      /\ Len(queue) \in Nat /\ Len(queue') = Len(queue) + 1
      /\ queue'[Len(queue) + 1] = k
      /\ \A i \in 1..Len(queue) : queue'[i] = queue[i]
  BY <1>1, AppendFacts
<1>3. spec[k] = 0
  BY DEF Started
<1>4. \A i \in 1..Len(queue) : /\ queue[i] \in Key /\ queue[i] # k
                               /\ queue[i] \in spawned
                               /\ spec[queue[i]] = 0
                               /\ queue[i][2] <= taskfile[queue[i][1]]
  BY <1>1 DEF Waiting
<1>5. \A i \in 1..Len(queue') : i \in 1..Len(queue) \/ i = Len(queue) + 1
  BY <1>2
<1>6. MaxRev \in Nat
  BY BoundsNatural
<1>7. ASSUME NEW i \in 1..Len(queue')
      PROVE  /\ queue'[i] \in spawned' /\ spec'[queue'[i]] = 0
             /\ queue'[i][2] <= taskfile'[queue'[i][1]]
  <2>1. CASE i \in 1..Len(queue)
    <3>1. queue[i][1] \in Task /\ queue[i][2] \in 1..MaxRev
      BY <1>4, <2>1 DEF Key
    <3> QED
      BY <1>1, <1>2, <1>4, <1>6, <2>1, <3>1
  <2>2. CASE i = Len(queue) + 1
    BY <1>2, <1>3, <1>6, <2>2 DEF Key
  <2> QED
    BY <1>5, <2>1, <2>2
<1>8. ASSUME NEW i \in 1..Len(queue'), NEW j \in 1..Len(queue'), queue'[i] = queue'[j]
      PROVE  i = j
  <2>1. \A a, b \in 1..Len(queue) : queue[a] = queue[b] => a = b
    BY DEF Waiting
  <2> QED
    BY <1>2, <1>4, <1>5, <1>8, <2>1
<1> QED
  BY <1>2, <1>7, <1>8 DEF Waiting

LEMMA DispatchKeepsInv ==
  ASSUME Inv, NEW k \in Key, Dispatch(k)
  PROVE  Inv'
<1> USE DEF Inv, Dispatch, engine, pool, receiver
<1>1. /\ taskfile' \in {taskfile, [taskfile EXCEPT ![k[1]] = k[2]]}
      /\ \/ queue' = queue
         \/ queue' = Append(queue, k) /\ taskfile' = [taskfile EXCEPT ![k[1]] = k[2]]
  <2> DEFINE written == [taskfile EXCEPT ![k[1]] = k[2]]
  <2>1. PICK p \in Prepared(k) : taskfile' = p[1] /\ queue' = p[2]
    OBVIOUS
  <2> HIDE DEF written, Dispatch, Inv
  <2>2. CASE p = <<taskfile, queue>>
    BY <2>1, <2>2
  <2>3. CASE p \in {written} \X {queue, Append(queue, k)}
    <3>1. p[1] = written /\ p[2] \in {queue, Append(queue, k)}
      BY <2>3
    <3> QED
      BY <2>1, <3>1 DEF written
  <2> QED
    BY <2>1, <2>2, <2>3 DEF Prepared, written
<1>2. /\ calls' = Tail(calls) /\ spawned' = spawned \cup {k}
      /\ UNCHANGED <<engine, slots, spec, live, brief, limits, consumed, inbox, lost>>
      /\ k \notin spawned
      /\ file' \in {file, [file EXCEPT ![k[1]] = NoFile]}
  BY DEF Called, Seen
<1>3. /\ k \in granted /\ calls' \in Seq(Key) /\ Ordered'
      /\ taskfile' \in [Task -> 0..MaxRev]
      /\ \A t \in Task : taskfile[t] <= taskfile'[t]
  <2> HIDE DEF Dispatch
  <2>1. Called(k)
    BY DEF Dispatch
  <2> QED
    BY <1>1, <2>1, CallLeaves
<1>4. /\ taskfile \in [Task -> 0..MaxRev] /\ spec \in [Key -> 0..MaxRev]
      /\ queue \in Seq(Key) /\ MaxRev \in Nat
      /\ k[1] \in Task /\ k[2] \in 1..MaxRev /\ k = <<k[1], k[2]>>
      /\ file \in [Task -> File]
  BY BoundsNatural DEF TypeOK, Key
<1>5. queue' \in Seq(Key) /\ Waiting'
  <2>1. CASE queue' = queue
    <3>1. ASSUME NEW i \in 1..Len(queue)
          PROVE  queue[i][2] <= taskfile'[queue[i][1]]
      <4>1. queue[i] \in Key /\ queue[i][2] <= taskfile[queue[i][1]]
        BY <1>4 DEF Waiting
      <4>2. queue[i][1] \in Task /\ queue[i][2] \in 1..MaxRev
        BY <4>1 DEF Key
      <4> QED
        BY <1>3, <1>4, <4>1, <4>2
    <3> QED
      BY <1>2, <1>4, <2>1, <3>1 DEF Waiting
  <2>2. CASE queue' = Append(queue, k) /\ taskfile' = [taskfile EXCEPT ![k[1]] = k[2]]
    <3>1. taskfile'[k[1]] = k[2]
      BY <1>4, <2>2
    <3> HIDE DEF Dispatch, Inv
    <3> QED
      BY <1>2, <1>3, <2>2, <3>1, QueueJoins
  <2> QED
    BY <1>1, <2>1, <2>2
<1>6. TypeOK'
  <2>1. file' \in [Task -> File]
    BY <1>2, <1>4 DEF File
  <2>2. spawned' \subseteq Key
    BY <1>2 DEF TypeOK
  <2> QED
    BY <1>2, <1>3, <1>5, <2>1, <2>2 DEF TypeOK
<1>7. Ordered'
  BY <1>3
<1>8. Copied'
  <2>1. \A t \in Task : taskfile'[t] # 0 => <<t, taskfile'[t]>> \in granted
    BY <1>1, <1>3, <1>4 DEF Copied
  <2>2. \A t \in Task : file'[t].kind \notin {"none", "foreign", "shapeless"}
                          => file'[t] = file[t]
    BY <1>2, <1>4 DEF NoFile
  <2> QED
    BY <1>2, <2>1, <2>2 DEF Copied
<1>9. Waiting'
  BY <1>5
<1>10. Started'
  <2>1. ASSUME NEW l \in Key, spec[l] # 0
        PROVE  spec[l] <= taskfile'[l[1]]
    <3>1. l[1] \in Task /\ spec[l] <= taskfile[l[1]]
      BY <2>1 DEF Started, Key
    <3> QED
      BY <1>3, <1>4, <3>1
  <2> QED
    BY <1>2, <2>1 DEF Started
<1>11. Tokens' /\ Running'
  BY <1>2 DEF Tokens, Running
<1> QED
  BY <1>6, <1>7, <1>8, <1>9, <1>10, <1>11

LEMMA StartKeepsInv ==
  ASSUME Inv, Start
  PROVE  Inv'
<1> USE DEF Inv, Start, engine, pool, receiver
<1>1. /\ queue \in Seq(Key) /\ queue # <<>> /\ MaxRev \in Nat
      /\ taskfile \in [Task -> 0..MaxRev] /\ spec \in [Key -> 0..MaxRev]
  BY BoundsNatural DEF TypeOK
<1> DEFINE k == Head(queue)
<1>2. /\ queue' = Tail(queue)
      /\ spec' = [spec EXCEPT ![k] = taskfile[k[1]]]
      /\ \/ slots' = slots \cup {k} /\ live' = live \cup {k}
         \/ UNCHANGED <<slots, live>>
      /\ UNCHANGED <<engine, calls, spawned, taskfile, file, brief, limits, receiver>>
      /\ Cardinality(slots) < MaxSpawns
  OBVIOUS
<1>3. /\ queue' \in Seq(Key) /\ k \in Key /\ k = queue[1]
      /\ Len(queue) \in Nat /\ Len(queue) >= 1
      /\ Len(queue') = Len(queue) - 1
      /\ \A i \in 1..Len(queue') : queue'[i] = queue[i + 1] /\ i + 1 \in 1..Len(queue)
  BY <1>1, <1>2, TailFacts
<1> HIDE DEF k, Start
<1>4. /\ k[1] \in Task /\ k[2] \in 1..MaxRev
      /\ k \in spawned /\ k[2] <= taskfile[k[1]]
  BY <1>3 DEF Waiting, Key
<1>5. /\ taskfile[k[1]] \in 1..MaxRev /\ <<k[1], taskfile[k[1]]>> \in granted
      /\ spec' \in [Key -> 0..MaxRev] /\ spec'[k] = taskfile[k[1]]
      /\ \A l \in Key : l # k => spec'[l] = spec[l]
  <2>1. taskfile[k[1]] \in 1..MaxRev
    BY <1>1, <1>4
  <2>2. <<k[1], taskfile[k[1]]>> \in granted
    BY <1>4, <2>1 DEF Copied
  <2> QED
    BY <1>1, <1>2, <1>3, <2>1, <2>2
<1>6. TypeOK'
  <2>1. slots' \subseteq Key /\ live' \subseteq Key
    BY <1>2, <1>3 DEF TypeOK
  <2> QED
    BY <1>2, <1>3, <1>5, <2>1 DEF TypeOK
<1>7. Waiting'
  <2>1. ASSUME NEW i \in 1..Len(queue')
        PROVE  /\ queue'[i] = queue[i + 1] /\ i + 1 \in 1..Len(queue)
               /\ queue[i + 1] \in Key /\ queue[i + 1] # k
    <3>1. /\ queue'[i] = queue[i + 1] /\ i + 1 \in 1..Len(queue)
          /\ 1 \in 1..Len(queue) /\ i + 1 # 1
      BY <1>3
    <3> QED
      BY <1>1, <1>3, <3>1 DEF Waiting
  <2>2. \A i \in 1..Len(queue') :
          /\ queue'[i] \in spawned' /\ spec'[queue'[i]] = 0
          /\ queue'[i][2] <= taskfile'[queue'[i][1]]
    BY <1>2, <1>5, <2>1 DEF Waiting
  <2>3. ASSUME NEW i \in 1..Len(queue'), NEW j \in 1..Len(queue'), queue'[i] = queue'[j]
        PROVE  i = j
    <3>1. i + 1 = j + 1
      BY <2>1, <2>3 DEF Waiting
    <3> QED
      BY <1>3, <3>1
  <2> QED
    BY <2>2, <2>3 DEF Waiting
<1>8. Started'
  <2>1. ASSUME NEW l \in Key, spec'[l] # 0
        PROVE  /\ l \in spawned
               /\ l[2] <= spec'[l] /\ spec'[l] <= taskfile[l[1]]
               /\ <<l[1], spec'[l]>> \in granted
    <3>1. CASE l = k
      BY <1>4, <1>5, <3>1
    <3>2. CASE l # k
      BY <1>5, <2>1, <3>2 DEF Started
    <3> QED
      BY <3>1, <3>2
  <2> QED
    BY <1>2, <2>1 DEF Started
<1>9. Running'
  <2>1. live' \subseteq slots' /\ \A l \in live' : spec'[l] # 0
    <3>1. live \subseteq Key
      BY DEF TypeOK
    <3> QED
      BY <1>2, <1>5, <3>1 DEF Running
  <2>2. IsFiniteSet(slots') /\ Cardinality(slots') <= MaxSpawns
    <3>1. IsFiniteSet(slots) /\ Cardinality(slots) < MaxSpawns /\ MaxSpawns \in Nat
      BY <1>2, BoundsNatural DEF Running
    <3>2. /\ IsFiniteSet(slots \cup {k})
          /\ Cardinality(slots \cup {k}) \in {Cardinality(slots), Cardinality(slots) + 1}
          /\ Cardinality(slots) \in Nat
      BY <3>1, FS_AddElement, FS_CardinalityType
    <3>3. slots' \in {slots, slots \cup {k}}
      BY <1>2
    <3> QED
      BY <3>1, <3>2, <3>3
  <2> QED
    BY <2>1, <2>2 DEF Running
<1>10. Tokens' /\ Ordered' /\ Copied'
  BY <1>2 DEF Tokens, Ordered, Copied
<1> QED
  BY <1>6, <1>7, <1>8, <1>9, <1>10

LEMMA ReleaseKeepsInv ==
  ASSUME Inv, NEW k \in Key, Release(k)
  PROVE  Inv'
<1> USE DEF Inv, Release, engine, pool, receiver
<1>1. Running'
  <2>1. IsFiniteSet(slots) /\ Cardinality(slots) <= MaxSpawns /\ MaxSpawns \in Nat
    BY BoundsNatural DEF Running
  <2>2. IsFiniteSet(slots') /\ Cardinality(slots') <= Cardinality(slots)
    BY <2>1, FS_Subset
  <2>3. Cardinality(slots') \in Nat /\ Cardinality(slots) \in Nat
    BY <2>1, <2>2, FS_CardinalityType
  <2>4. live' \subseteq slots' /\ \A l \in live' : spec'[l] # 0
    BY DEF Running
  <2> QED
    BY <2>1, <2>2, <2>3, <2>4 DEF Running
<1>2. TypeOK' /\ Tokens' /\ Ordered' /\ Copied' /\ Waiting' /\ Started'
  BY DEF TypeOK, Tokens, Ordered, Copied, Waiting, Started
<1> QED
  BY <1>1, <1>2

-----------------------------------------------------------------------------
(* The workers.                                                            *)

LEMMA ReadsKeepsInv ==
  ASSUME Inv, NEW k \in Key, Reads(k)
  PROVE  Inv'
<1> USE DEF Inv, Reads, engine, pool, receiver
<1>1. /\ queue \in Seq(Key) /\ MaxRev \in Nat
      /\ taskfile \in [Task -> 0..MaxRev] /\ spec \in [Key -> 0..MaxRev]
      /\ k[1] \in Task /\ k[2] \in 1..MaxRev
  BY BoundsNatural DEF TypeOK, Key
<1>2. k \in spawned /\ spec[k] # 0 /\ k[2] <= taskfile[k[1]]
  <2>1. spec[k] # 0
    BY DEF Running
  <2>2. k \in spawned /\ k[2] <= spec[k] /\ spec[k] <= taskfile[k[1]]
    BY <2>1 DEF Started
  <2> QED
    BY <1>1, <2>1, <2>2
<1>3. taskfile[k[1]] \in 1..MaxRev /\ <<k[1], taskfile[k[1]]>> \in granted
  <2>1. taskfile[k[1]] \in 1..MaxRev
    BY <1>1, <1>2
  <2> QED
    BY <1>1, <2>1 DEF Copied
<1>4. /\ spec' \in [Key -> 0..MaxRev] /\ spec'[k] = taskfile[k[1]]
      /\ \A l \in Key : l # k => spec'[l] = spec[l]
  BY <1>1, <1>3
<1>5. TypeOK'
  BY <1>4 DEF TypeOK
<1>6. Waiting'
  <2>1. \A i \in 1..Len(queue) : queue[i] \in Key /\ queue[i] # k
    BY <1>1, <1>2 DEF Waiting
  <2> QED
    BY <1>4, <2>1 DEF Waiting
<1>7. Started'
  <2>1. ASSUME NEW l \in Key, spec'[l] # 0
        PROVE  /\ l \in spawned
               /\ l[2] <= spec'[l] /\ spec'[l] <= taskfile[l[1]]
               /\ <<l[1], spec'[l]>> \in granted
    <3>1. CASE l = k
      BY <1>1, <1>2, <1>3, <1>4, <3>1
    <3>2. CASE l # k
      BY <1>4, <2>1, <3>2 DEF Started
    <3> QED
      BY <3>1, <3>2
  <2> QED
    BY <2>1 DEF Started
<1>8. Running'
  <2>1. live \subseteq Key
    BY DEF TypeOK
  <2> QED
    BY <1>3, <1>4, <2>1 DEF Running
<1>9. Tokens' /\ Ordered' /\ Copied'
  BY DEF Tokens, Ordered, Copied
<1> QED
  BY <1>5, <1>6, <1>7, <1>8, <1>9

LEMMA WritesKeepsInv ==
  ASSUME Inv, NEW k \in Key, Writes(k)
  PROVE  Inv'
<1> USE DEF Inv, Writes, engine, pool, receiver
<1>1. PICK kind \in Written :
        file' = [file EXCEPT ![k[1]] = [rev |-> spec[k], kind |-> kind]]
  OBVIOUS
<1>2. /\ file \in [Task -> File] /\ MaxRev \in Nat
      /\ spec[k] \in 0..MaxRev /\ k[1] \in Task
  BY BoundsNatural DEF TypeOK, Key
<1>3. spec[k] # 0 /\ <<k[1], spec[k]>> \in granted
  BY DEF Running, Started
<1>4. /\ file' \in [Task -> File]
      /\ \A t \in Task : file'[t] = file[t] \/ t = k[1]
      /\ file'[k[1]].rev = spec[k]
  <2>1. [rev |-> spec[k], kind |-> kind] \in File
    BY <1>2, <1>3, WorkersWrite DEF File
  <2> QED
    BY <1>1, <1>2, <2>1
<1>5. TypeOK'
  BY <1>4 DEF TypeOK
<1>6. Copied'
  <2>1. ASSUME NEW t \in Task, file'[t].kind \notin {"none", "foreign", "shapeless"}
        PROVE  <<t, file'[t].rev>> \in granted
    BY <1>3, <1>4, <2>1 DEF Copied
  <2> QED
    BY <2>1 DEF Copied
<1>7. Tokens' /\ Ordered' /\ Waiting' /\ Started' /\ Running'
  BY DEF Tokens, Ordered, Waiting, Started, Running
<1> QED
  BY <1>5, <1>6, <1>7

LEMMA BriefsKeepsInv ==
  ASSUME Inv, NEW k \in Key, Briefs(k)
  PROVE  Inv'
<1> USE DEF Inv, Briefs, engine, pool, receiver
<1> QED
  BY DEF TypeOK, Tokens, Ordered, Copied, Waiting, Started, Running

LEMMA IsLimitedKeepsInv ==
  ASSUME Inv, NEW k \in Key, IsLimited(k)
  PROVE  Inv'
<1> USE DEF Inv, IsLimited, engine, pool, receiver
<1>1. k[1] \in Task
  BY DEF Key
<1>2. TypeOK'
  BY <1>1 DEF TypeOK
<1>3. Tokens' /\ Ordered' /\ Copied' /\ Waiting' /\ Started' /\ Running'
  BY DEF Tokens, Ordered, Copied, Waiting, Started, Running
<1> QED
  BY <1>2, <1>3

LEMMA EndsKeepsInv ==
  ASSUME Inv, NEW k \in Key, Ends(k)
  PROVE  Inv'
<1> USE DEF Inv, Ends, engine, pool, receiver
<1> QED
  BY DEF TypeOK, Tokens, Ordered, Copied, Waiting, Started, Running

-----------------------------------------------------------------------------
(* The receiver.                                                           *)

LEMMA RecoveredKnown ==
  ASSUME Inv
  PROVE  /\ FilesAfter \in [Task -> File]
         /\ \A t \in Task :
              FilesAfter[t].kind \notin {"none", "foreign", "shapeless"}
                => <<t, FilesAfter[t].rev>> \in granted
<1> USE DEF Inv
<1>1. /\ file \in [Task -> File] /\ MaxRev \in Nat
      /\ taskfile \in [Task -> 0..MaxRev] /\ spec \in [Key -> 0..MaxRev]
  BY BoundsNatural DEF TypeOK
<1>2. ASSUME NEW t \in Task, t \in Recovered
      PROVE  taskfile[t] \in 1..MaxRev /\ <<t, taskfile[t]>> \in granted
  <2>1. PICK k \in Key : k[1] = t /\ spec[k] # 0
    BY <1>2 DEF Recovered
  <2>2. spec[k] <= taskfile[t]
    BY <2>1 DEF Started
  <2>3. taskfile[t] \in 1..MaxRev
    BY <1>1, <2>1, <2>2
  <2> QED
    BY <2>3 DEF Copied
<1>3. ASSUME NEW t \in Task
      PROVE  /\ FilesAfter[t] \in File
             /\ FilesAfter[t].kind \notin {"none", "foreign", "shapeless"}
                  => <<t, FilesAfter[t].rev>> \in granted
  <2>1. CASE t \in Recovered
    <3>1. FilesAfter[t] = [rev |-> taskfile[t], kind |-> "recovered"]
      BY <2>1 DEF FilesAfter
    <3> QED
      BY <1>2, <2>1, <3>1 DEF File
  <2>2. CASE t \notin Recovered
    <3>1. FilesAfter[t] = file[t]
      BY <2>2 DEF FilesAfter
    <3> QED
      BY <1>1, <3>1 DEF Copied
  <2> QED
    BY <2>1, <2>2
<1>4. FilesAfter \in [Task -> File]
  BY <1>3 DEF FilesAfter
<1> QED
  BY <1>3, <1>4

LEMMA FoundKnown ==
  ASSUME Inv, NEW f \in {file, FilesAfter}
  PROVE  /\ f \in [Task -> File]
         /\ \A t \in Task :
              f[t].kind \notin {"none", "foreign", "shapeless"}
                => <<t, f[t].rev>> \in granted
         /\ Found(f) \subseteq Message
         /\ KeysOf(Found(f)) \subseteq Task \X (0..MaxRev)
         /\ \A m \in Found(f) :
              m.kind \in {"answer", "broken"} => <<m.task, m.rev>> \in granted
<1>1. /\ limits \subseteq Task /\ MaxRev \in Nat
      /\ f \in [Task -> File]
      /\ \A t \in Task :
           f[t].kind \notin {"none", "foreign", "shapeless"}
             => <<t, f[t].rev>> \in granted
  BY RecoveredKnown, BoundsNatural DEF Inv, TypeOK, Copied
<1>2. ASSUME NEW m \in Found(f)
      PROVE  /\ m \in Message
             /\ m.kind \in {"answer", "broken"} => <<m.task, m.rev>> \in granted
  <2>1. CASE \E t \in Limited : m = [task |-> t, rev |-> 0, kind |-> "limited"]
    BY <1>1, <2>1 DEF Limited, Message
  <2>2. CASE \E t \in Taken(f) :
               m = [task |-> t, rev |-> f[t].rev, kind |-> Report(f[t].kind)]
    <3>1. PICK t \in Taken(f) :
            m = [task |-> t, rev |-> f[t].rev, kind |-> Report(f[t].kind)]
      BY <2>2
    <3>2. t \in Task /\ f[t].kind \in {"good", "bad", "unfit", "recovered"}
      BY <3>1 DEF Taken
    <3>3. f[t].rev \in 0..MaxRev /\ <<t, f[t].rev>> \in granted
      BY <1>1, <3>2 DEF File, NoFile
    <3>4. Report(f[t].kind) \in {"answer", "broken", "unfit"}
      BY <3>2 DEF Report
    <3> QED
      BY <3>1, <3>2, <3>3, <3>4 DEF Message
  <2> QED
    BY <2>1, <2>2 DEF Found
<1>3. KeysOf(Found(f)) \subseteq Task \X (0..MaxRev)
  BY <1>2 DEF KeysOf, Message
<1> QED
  BY <1>1, <1>2, <1>3

(* What any round of the receiver leaves, whether or not it fails.         *)
LEMMA RoundKeepsInv == Inv /\ Round => Inv'
<1> SUFFICES ASSUME Inv, Round PROVE Inv'
  OBVIOUS
<1>1. PICK f \in {file, FilesAfter} :
        /\ file' = f
        /\ inbox' \subseteq inbox \cup Found(f)
        /\ consumed' \subseteq consumed \cup KeysOf(Found(f))
        /\ lost' \subseteq lost \cup KeysOf(Found(f))
  <2>1. CASE Scan
    BY <2>1 DEF Scan, Published
  <2>2. CASE ScanFails
    BY <2>2 DEF ScanFails, Lose, KeysOf, receiver
  <2>3. CASE PublicationFails
    BY <2>3 DEF PublicationFails, Lose, KeysOf, Published
  <2> QED
    BY <2>1, <2>2, <2>3 DEF Round
<1>2. UNCHANGED <<engine, calls, spawned, taskfile, queue, slots, spec, live,
                  brief, limits>>
  BY DEF Round, Scan, ScanFails, PublicationFails, Signalled, engine, pool
<1>3. /\ f \in [Task -> File]
      /\ \A t \in Task :
           f[t].kind \notin {"none", "foreign", "shapeless"}
             => <<t, f[t].rev>> \in granted
      /\ Found(f) \subseteq Message
      /\ KeysOf(Found(f)) \subseteq Task \X (0..MaxRev)
      /\ \A m \in Found(f) :
           m.kind \in {"answer", "broken"} => <<m.task, m.rev>> \in granted
  BY FoundKnown
<1> USE DEF Inv, engine
<1>4. TypeOK'
  <2>1. /\ file' \in [Task -> File]
        /\ inbox' \subseteq Message
        /\ consumed' \subseteq Task \X (0..MaxRev)
        /\ lost' \subseteq Task \X (0..MaxRev)
    BY <1>1, <1>3 DEF TypeOK
  <2> QED
    BY <1>2, <2>1 DEF TypeOK
<1>5. Copied'
  BY <1>1, <1>2, <1>3 DEF Copied
<1>6. Tokens' /\ Ordered' /\ Waiting' /\ Started' /\ Running'
  BY <1>2 DEF Tokens, Ordered, Waiting, Started, Running
<1> QED
  BY <1>4, <1>5, <1>6

-----------------------------------------------------------------------------
(* Every step.                                                             *)

LEMMA CallbackKeepsInv == Inv /\ Callback => Inv'
  BY SkipDuplicateKeepsInv, ApproveUnseenKeepsInv, DispatchKeepsInv DEF Callback

LEMMA NextKeepsInv == Inv /\ [Next]_vars => Inv'
<1> SUFFICES ASSUME Inv, [Next]_vars PROVE Inv'
  OBVIOUS
<1>1. ASSUME NEW t \in Task, Assign(t) \/ AssignRolledBack(t) \/ TakeBack(t)
      PROVE  Inv'
  BY <1>1, AssignKeepsInv, AssignRolledBackKeepsInv, TakeBackKeepsInv
<1>2. ASSUME NEW m \in inbox, Deliver(m) \/ DeliveryFails(m)
      PROVE  Inv'
  BY <1>2, DeliverKeepsInv, DeliveryFailsKeepsInv
<1>3. CASE Callback
  BY <1>3, CallbackKeepsInv
<1>4. CASE Start
  BY <1>4, StartKeepsInv
<1>5. ASSUME NEW k \in Key, Release(k)
      PROVE  Inv'
  BY <1>5, ReleaseKeepsInv
<1>6. ASSUME NEW k \in Key,
             Reads(k) \/ Writes(k) \/ Briefs(k) \/ IsLimited(k) \/ Ends(k)
      PROVE  Inv'
  BY <1>6, ReadsKeepsInv, WritesKeepsInv, BriefsKeepsInv, IsLimitedKeepsInv,
     EndsKeepsInv
<1>7. CASE Round
  BY <1>7, RoundKeepsInv
<1>8. CASE UNCHANGED vars
  BY <1>8 DEF vars, engine, pool, receiver, Inv, TypeOK, Tokens, Ordered,
     Copied, Waiting, Started, Running
<1> QED
  BY <1>1, <1>2, <1>3, <1>4, <1>5, <1>6, <1>7, <1>8 DEF Next

(* Types, the accounting of revisions, the order of the callbacks and the  *)
(* marks of what was started hold in every behaviour.                      *)
THEOREM MeshInvariance == Spec => []Inv
<1>1. Init => Inv
  BY InitInv
<1>2. Inv /\ [Next]_vars => Inv'
  BY NextKeepsInv
<1> QED
  BY <1>1, <1>2, PTL DEF Spec

(* The state of the mesh keeps its types, whatever the workers write and   *)
(* earlier runs have left.                                                 *)
THEOREM MeshTyped == Spec => []TypeOK
<1>1. Inv => TypeOK
  BY DEF Inv
<1> QED
  BY <1>1, MeshInvariance, PTL

(* wrapper and _spawn_limited start an assignment at most once, also when  *)
(* the tick that handed it out was rolled back.                            *)
THEOREM EachStartedOnce == Spec => []StartedOnce
<1>1. Inv => StartedOnce
  <2> SUFFICES ASSUME Inv PROVE StartedOnce
    OBVIOUS
  <2>1. DOMAIN queue = 1..Len(queue)
    BY DEF Inv, TypeOK
  <2> QED
    BY <2>1 DEF Inv, Waiting, StartedOnce
<1> QED
  BY <1>1, MeshInvariance, PTL

(* The processes never outnumber the slots of spawn_sem.                   *)
THEOREM ProcessesBounded == Spec => []LiveBounded
<1>1. Inv => LiveBounded
  BY DEF Inv, Running, LiveBounded
<1> QED
  BY <1>1, MeshInvariance, PTL

(* No worker finds the task file of an assignment before its own, nor one  *)
(* the engine has not handed out.                                          *)
THEOREM NoOlderTask == Spec => []ReadsNoOlder
<1>1. Inv => ReadsNoOlder
  BY DEF Inv, Started, ReadsNoOlder
<1> QED
  BY <1>1, MeshInvariance, PTL

-----------------------------------------------------------------------------
(* The refinement of TaskLease.                                            *)

LEMMA LeaseTyped ==
  ASSUME Inv, Inv'
  PROVE  /\ stage \in [Task -> {"open", "held", "stuck", "done"}]
         /\ token \in [Task -> Nat]
         /\ Lease!Typed
<1>1. /\ stage \in [Task -> {"open", "held", "stuck", "done"}]
      /\ token \in [Task -> 0..MaxRev + 1]
      /\ stage' \in [Task -> {"open", "held", "stuck", "done"}]
      /\ token' \in [Task -> 0..MaxRev + 1]
  BY DEF Inv, TypeOK
<1>2. 0..MaxRev + 1 \subseteq Nat
  BY BoundsNatural
<1> QED
  BY <1>1, <1>2 DEF Lease!Typed, Lease!Stage

LEMMA LeaseStep ==
  ASSUME Inv, Inv', [Next]_vars
  PROVE  [Lease!Next]_(Lease!vars)
<1>1. /\ stage \in [Task -> {"open", "held", "stuck", "done"}]
      /\ token \in [Task -> Nat]
      /\ Lease!Typed
  BY LeaseTyped
<1>2. ASSUME NEW t \in Task, Assign(t)
      PROVE  Lease!Next
  <2>1. /\ stage[t] = "open" /\ stage' = [stage EXCEPT ![t] = "held"]
        /\ token' = [token EXCEPT ![t] = @ + 1]
        /\ granted' = granted \cup {<<t, token[t] + 1>>}
    BY <1>2 DEF Assign
  <2>2. {t} \in SUBSET Lease!At("open")
    BY <2>1 DEF Lease!At
  <2>3. Lease!Handed({t}) = {<<t, token[t] + 1>>}
    BY DEF Lease!Handed
  <2>4. \A u \in Task : IF u \in {t} THEN stage'[u] = "held" /\ token'[u] = token[u] + 1
                       ELSE Lease!Same(u)
    BY <1>1, <2>1 DEF Lease!Same
  <2>5. Lease!Grant({t})
    BY <1>1, <2>1, <2>3, <2>4 DEF Lease!Grant
  <2> QED
    BY <2>2, <2>5 DEF Lease!Next
<1>3. ASSUME NEW t \in Task, AssignRolledBack(t)
      PROVE  Lease!Next
  <2>1. /\ stage[t] = "open" /\ UNCHANGED <<stage, token>>
        /\ granted' = granted \cup {<<t, token[t] + 1>>}
    BY <1>3 DEF AssignRolledBack
  <2>2. {t} \in SUBSET Lease!At("open")
    BY <2>1 DEF Lease!At
  <2>3. Lease!Handed({t}) = {<<t, token[t] + 1>>}
    BY DEF Lease!Handed
  <2>4. Lease!Offer({t})
    BY <2>1, <2>3 DEF Lease!Offer
  <2> QED
    BY <2>2, <2>4 DEF Lease!Next
<1>4. ASSUME NEW t \in Task, TakeBack(t)
      PROVE  Lease!Next
  <2>1. /\ stage[t] = "held" /\ stage' = [stage EXCEPT ![t] = "open"]
        /\ token' = [token EXCEPT ![t] = @ + 1]
        /\ granted' = granted
    BY <1>4 DEF TakeBack
  <2>2. Lease!Goes(t, "held", {"open", "failed"})
    BY <1>1, <2>1 DEF Lease!Goes
  <2>3. \A u \in Task \ {t} : Lease!Same(u)
    BY <1>1, <2>1 DEF Lease!Same
  <2>4. Lease!Revoke
    BY <1>1, <2>1, <2>2, <2>3 DEF Lease!Revoke
  <2> QED
    BY <2>4 DEF Lease!Next
<1>5. ASSUME NEW m \in inbox, Deliver(m), Fresh(m)
      PROVE  Lease!Next
  <2> DEFINE t == m.task
  <2>1. t \in Task
    BY DEF Inv, TypeOK, Message
  <2>2. <<t, token[t]>> \in granted
    BY <1>5 DEF Inv, Copied, Fresh
  <2>3. stage[t] = "held"
    <3>1. granted \subseteq Key /\ Tokens
      BY DEF Inv, TypeOK
    <3>2. token[t] \in 1..MaxRev
      BY <2>2, <3>1 DEF Key
    <3> QED
      BY <1>1, <2>1, <2>2, <3>1, <3>2 DEF Tokens
  <2>4. PICK s \in {"open", "stuck", "done"} :
          /\ stage' = [stage EXCEPT ![t] = s]
          /\ token' = [token EXCEPT ![t] = @ + 1]
          /\ granted' = granted
    BY <1>5 DEF Deliver
  <2> HIDE DEF t
  <2>5. Lease!Goes(t, "held", {"open", "stuck", "parked", "done", "failed"})
    BY <1>1, <2>1, <2>3, <2>4 DEF Lease!Goes
  <2>6. \A u \in Task \ {t} : Lease!Same(u)
    BY <1>1, <2>1, <2>4 DEF Lease!Same
  <2>7. Lease!Answer(t)
    BY <1>1, <2>2, <2>4, <2>5, <2>6 DEF Lease!Answer
  <2>8. t \in Lease!At("held")
    BY <2>1, <2>3 DEF Lease!At
  <2> QED
    BY <2>7, <2>8 DEF Lease!Next
<1>6. ASSUME NEW m \in inbox, (Deliver(m) /\ ~Fresh(m)) \/ DeliveryFails(m)
      PROVE  UNCHANGED <<stage, token, granted>>
  BY <1>6 DEF Deliver, DeliveryFails, engine
<1>7. ASSUME \/ Callback \/ Start \/ Round
             \/ \E k \in Key : Release(k)
             \/ \E k \in Key : Reads(k) \/ Writes(k) \/ Briefs(k) \/ IsLimited(k) \/ Ends(k)
             \/ UNCHANGED vars
      PROVE  UNCHANGED <<stage, token, granted>>
  BY <1>7 DEF Callback, SkipDuplicate, ApproveUnseen, Dispatch, Called, Start,
     Round, Scan, ScanFails, PublicationFails, Release, Reads, Writes, Briefs, IsLimited, Ends, vars, engine
<1>8. ASSUME UNCHANGED <<stage, token, granted>>
      PROVE  UNCHANGED Lease!vars
  BY <1>8 DEF Lease!vars
<1> QED
  BY <1>2, <1>3, <1>4, <1>5, <1>6, <1>7, <1>8 DEF Next

(* Engine and mesh together implement TaskLease: whoever writes the        *)
(* response file last, and however late, a task is settled at most once    *)
(* under each assignment and only while that is the current one.           *)
THEOREM MeshKeepsLease == Spec => LeaseSpec
<1>1. Init => Lease!Init
  BY DEF Init, Lease!Init
<1>2. Inv /\ Inv' /\ [Next]_vars => [Lease!Next]_(Lease!vars)
  BY LeaseStep
<1> QED
  BY <1>1, <1>2, MeshInvariance, PTL DEF Spec, LeaseSpec, Lease!Spec
=============================================================================
