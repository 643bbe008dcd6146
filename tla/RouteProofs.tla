---------------------------- MODULE RouteProofs ----------------------------
(***************************************************************************)
(* Theorems about RouteWorker, for any jobs, batch limit and bounds: type  *)
(* correctness, the promise of RouteDelivery, and the accounts of copies   *)
(* and tries.                                                              *)
(***************************************************************************)
EXTENDS RouteWorker, SequenceTheorems, TLAPS

USE DEF vars, table, bus, worker, history, budgets

-----------------------------------------------------------------------------
(***************************************************************************)
(* The due list.                                                           *)
(***************************************************************************)

Distinct(s) == \A i, k \in 1..Len(s) : s[i] = s[k] => i = k

\* Removing a job leaves the others, once each, in their order.
LEMMA NotDueFacts ==
  ASSUME due \in Seq(Jobs), Distinct(due), NEW j \in Jobs
  PROVE  /\ NotDue(j) \in Seq(Jobs)
         /\ Distinct(NotDue(j))
         /\ \A i \in 1..Len(NotDue(j)) :
              /\ NotDue(j)[i] # j
              /\ \E k \in 1..Len(due) : NotDue(j)[i] = due[k]
<1>1. CASE ~IsDue(j)
  <2>1. NotDue(j) = due
    BY <1>1 DEF NotDue
  <2> QED
    BY <1>1, <2>1 DEF IsDue
<1>2. CASE IsDue(j)
  <2> DEFINE p == CHOOSE i \in 1..Len(due) : due[i] = j
             a == SubSeq(due, 1, p - 1)
             b == SubSeq(due, p + 1, Len(due))
  <2>1. p \in 1..Len(due) /\ due[p] = j
    BY <1>2 DEF IsDue
  <2>2. NotDue(j) = a \o b
    BY <1>2 DEF NotDue, RemoveAt
  <2> HIDE DEF p
  <2>3. /\ a \in Seq(Jobs) /\ Len(a) = p - 1
        /\ \A i \in 1..(p - 1) : a[i] = due[i]
    BY <2>1, SubSeqProperties
  <2>4. /\ b \in Seq(Jobs) /\ Len(b) = Len(due) - p
        /\ \A i \in 1..(Len(due) - p) : b[i] = due[p + i]
    BY <2>1, SubSeqProperties
  <2> HIDE DEF a, b
  <2> DEFINE r == a \o b
  <2>0. /\ r \in Seq(Jobs) /\ Len(r) = Len(a) + Len(b)
        /\ \A i \in 1..(Len(a) + Len(b)) : r[i] = IF i <= Len(a) THEN a[i] ELSE b[i - Len(a)]
    BY <2>3, <2>4, ConcatProperties
  <2> HIDE DEF r
  <2>5. r \in Seq(Jobs) /\ Len(r) = Len(due) - 1
    BY <2>1, <2>3, <2>4, <2>0
  <2>6. \A i \in 1..Len(r) : r[i] = due[IF i < p THEN i ELSE i + 1]
    <3> TAKE i \in 1..Len(r)
    <3>1. CASE i < p
      BY <2>1, <2>3, <2>4, <2>0, <3>1
    <3>2. CASE ~(i < p)
      <4>1. r[i] = b[i - (p - 1)] /\ i - (p - 1) \in 1..(Len(due) - p)
        BY <2>1, <2>3, <2>4, <2>0, <3>2
      <4>2. p + (i - (p - 1)) = i + 1
        BY <2>1
      <4>3. b[i - (p - 1)] = due[p + (i - (p - 1))]
        BY <2>4, <4>1
      <4> QED
        BY <3>2, <4>1, <4>2, <4>3
    <3> QED
      BY <3>1, <3>2
  <2>7. \A i \in 1..Len(r) : (IF i < p THEN i ELSE i + 1) \in 1..Len(due) \ {p}
    BY <2>1, <2>5
  <2>8. Distinct(r)
    <3> SUFFICES ASSUME NEW i \in 1..Len(r), NEW k \in 1..Len(r), r[i] = r[k] PROVE i = k
      BY DEF Distinct
    <3>1. (IF i < p THEN i ELSE i + 1) = (IF k < p THEN k ELSE k + 1)
      BY <2>6, <2>7 DEF Distinct
    <3> QED
      BY <2>1, <2>5, <3>1
  <2>9. \A i \in 1..Len(r) : r[i] # j /\ \E k \in 1..Len(due) : r[i] = due[k]
    BY <2>1, <2>6, <2>7 DEF Distinct
  <2> QED
    BY <2>2, <2>5, <2>8, <2>9 DEF r
<1> QED
  BY <1>1, <1>2

-----------------------------------------------------------------------------
(***************************************************************************)
(* The inductive invariant.  What the worker holds is true of the table:   *)
(* the jobs of the batch and the one in hand are different, all pending,   *)
(* and their attempts are still those of their rows.                       *)
(***************************************************************************)

DueSound ==
  /\ Distinct(due)
  /\ \A i \in 1..Len(due) : status[due[i]] = "pending"

BatchSound ==
  /\ \A i \in 1..Len(batch) :
       /\ status[batch[i].id] = "pending"
       /\ batch[i].attempts = attempts[batch[i].id]
  /\ \A i, k \in 1..Len(batch) : batch[i].id = batch[k].id => i = k

InHand == pc \in {"log", "mark"}

CurrentSound ==
  InHand =>
    /\ current.id \in Jobs
    /\ status[current.id] = "pending"
    /\ current.attempt = attempts[current.id] + 1
    /\ \A i \in 1..Len(batch) : batch[i].id # current.id
    /\ current.answer = "ok" => taken[current.id] > 0

Inv == TypeOK /\ DueSound /\ BatchSound /\ CurrentSound

LEMMA InitInv == Init => Inv
<1> SUFFICES ASSUME Init PROVE Inv
  OBVIOUS
<1>1. TypeOK
  <2>1. WorkerTypes
    <3>1. batch \in Seq(Snapshot)
      BY DEF Init
    <3> QED
      BY <3>1 DEF Init, WorkerTypes, Deliveries, Idle, Answers
  <2>2. TableTypes /\ BusTypes /\ CountTypes
    <3>1. due \in Seq(Jobs)
      BY DEF Init
    <3> QED
      BY <3>1 DEF Init, TableTypes, BusTypes, CountTypes
  <2>3. BudgetTypes
    BY BoundAssumption DEF Init, BudgetTypes
  <2> QED
    BY <2>1, <2>2, <2>3 DEF TypeOK
<1>2. DueSound /\ BatchSound /\ CurrentSound
  BY DEF Init, DueSound, BatchSound, CurrentSound, InHand, Distinct
<1> QED
  BY <1>1, <1>2 DEF Inv

\* What a poll reads.
LEMMA DueJobsFacts ==
  ASSUME Inv
  PROVE  /\ dueJobs \in Seq(Snapshot)
         /\ \A i \in 1..Len(dueJobs) :
              /\ status[dueJobs[i].id] = "pending"
              /\ dueJobs[i].attempts = attempts[dueJobs[i].id]
         /\ \A i, k \in 1..Len(dueJobs) : dueJobs[i].id = dueJobs[k].id => i = k
<1> DEFINE n == Least(Limit, Len(due))
           d == [i \in 1..n |-> [id |-> due[i], attempts |-> attempts[due[i]]]]
<1>1. n \in Nat /\ n <= Len(due)
  BY AttemptAssumption DEF Least, Inv, TypeOK, TableTypes
<1> HIDE DEF n
<1>2. \A i \in 1..n : i \in 1..Len(due) /\ due[i] \in Jobs
  <2>1. due \in Seq(Jobs) /\ Len(due) \in Nat
    BY DEF Inv, TypeOK, TableTypes
  <2> QED
    BY <1>1, <2>1
<1>3. \A i \in 1..n : d[i] \in Snapshot
  BY <1>2 DEF Snapshot, Inv, TypeOK, TableTypes
<1>4. d \in Seq(Snapshot) /\ Len(d) = n
  <2>1. d \in [1..n -> Snapshot] /\ DOMAIN d = 1..n
    BY <1>3
  <2> HIDE DEF d
  <2>2. d \in Seq(Snapshot)
    BY <1>1, <2>1, SeqDef
  <2> QED
    BY <1>1, <2>1, <2>2, LenProperties
<1>5. \A i \in 1..n : d[i].id = due[i] /\ d[i].attempts = attempts[due[i]]
  OBVIOUS
<1>6. dueJobs = d
  BY DEF dueJobs, n
<1> HIDE DEF d
<1>7. \A i \in 1..n : status[d[i].id] = "pending" /\ d[i].attempts = attempts[d[i].id]
  BY <1>2, <1>5 DEF Inv, DueSound
<1>8. \A i, k \in 1..n : d[i].id = d[k].id => i = k
  BY <1>2, <1>5 DEF Inv, DueSound, Distinct
<1> QED
  BY <1>4, <1>6, <1>7, <1>8

-----------------------------------------------------------------------------
(***************************************************************************)
(* Every step preserves the types, one group of variables at a time.       *)
(***************************************************************************)

USE DEF TypeOK

LEMMA IdleType == Idle \in Deliveries
  BY DEF Idle, Deliveries, Answers

\* The row of a polled job.
LEMMA HeadType ==
  ASSUME Inv, batch # <<>>
  PROVE  /\ Tail(batch) \in Seq(Snapshot)
         /\ Head(batch).id \in Jobs
         /\ Head(batch).attempts \in Nat
<1>1. batch \in Seq(Snapshot) /\ batch # <<>>
  BY DEF Inv, WorkerTypes
<1>2. Head(batch) \in Snapshot /\ Tail(batch) \in Seq(Snapshot)
  BY <1>1, HeadTailProperties
<1> QED
  BY <1>2 DEF Snapshot

LEMMA InHandType ==
  ASSUME Inv, InHand
  PROVE  current.id \in Jobs /\ current.attempt \in Nat
BY DEF Inv, CurrentSound, WorkerTypes, TableTypes

LEMMA PostTypes ==
  ASSUME Inv, Post
  PROVE  TypeOK'
<1>1. batch # <<>>
  BY DEF Post
<1>2. Tail(batch) \in Seq(Snapshot) /\ Head(batch).id \in Jobs /\ Head(batch).attempts \in Nat
  BY <1>1, HeadType
<1> DEFINE j == Head(batch).id
<1>3. PICK a \in AgentAnswers :
       /\ current' = [id |-> j, attempt |-> Head(batch).attempts + 1, answer |-> a.answer]
       /\ taken' = [taken EXCEPT ![j] = @ + (IF a.took THEN 1 ELSE 0)]
       /\ tries' = [tries EXCEPT ![j] = @ + 1]
       /\ limited' = [limited EXCEPT ![j] = @ + (IF a.answer = "limited" THEN 1 ELSE 0)]
       /\ lapses' = [lapses EXCEPT ![j] = @ + (IF a.took /\ a.answer # "ok" THEN 1 ELSE 0)]
       /\ IF a.answer = "limited"
          THEN limitedLeft > 0 /\ limitedLeft' = limitedLeft - 1
          ELSE UNCHANGED limitedLeft
  BY DEF Post
<1>4. a.answer \in Answers
  BY DEF AgentAnswers, Answers
<1>5. WorkerTypes'
  <2>1. current' \in Deliveries
    BY <1>2, <1>3, <1>4 DEF Deliveries
  <2> QED
    BY <1>2, <2>1 DEF Post, WorkerTypes, Inv
<1>6. CountTypes'
  <2> HIDE DEF j
  <2>1. j \in Jobs
    BY <1>2 DEF j
  <2>2. CountTypes
    BY DEF Inv
  <2> DEFINE n == IF a.took THEN 1 ELSE 0
             l == IF a.answer = "limited" THEN 1 ELSE 0
             p == IF a.took /\ a.answer # "ok" THEN 1 ELSE 0
  <2>3. n \in Nat /\ l \in Nat /\ p \in Nat
    OBVIOUS
  <2>4. /\ taken' = [taken EXCEPT ![j] = @ + n]
        /\ limited' = [limited EXCEPT ![j] = @ + l]
        /\ lapses' = [lapses EXCEPT ![j] = @ + p]
        /\ tries' = [tries EXCEPT ![j] = @ + 1]
    BY <1>3
  <2> HIDE DEF n, l, p
  <2> QED
    BY <2>1, <2>2, <2>3, <2>4 DEF CountTypes
<1>7. BudgetTypes'
  BY <1>3 DEF Post, BudgetTypes, Inv
<1>8. TableTypes' /\ BusTypes'
  BY DEF Post, TableTypes, BusTypes, Inv
<1> QED
  BY <1>5, <1>6, <1>7, <1>8

\* Recording an outcome, for the job in hand.
LEMMA MarkTypes ==
  ASSUME Inv, Mark
  PROVE  TypeOK'
<1>1. current.id \in Jobs /\ current.attempt \in Nat
  BY InHandType DEF InHand, Mark
<1>2. NotDue(current.id) \in Seq(Jobs)
  BY <1>1, NotDueFacts DEF TableTypes, DueSound, Inv
<1>3. TableTypes'
  <2>1. CASE markDelivered(current.id) \/ markFailed(current.id)
    BY <1>2, <2>1 DEF markDelivered, markFailed, Finish, TableTypes, Inv, Mark
  <2>2. CASE scheduleRetry(current.id, current.attempt)
    BY <1>1, <1>2, <2>2 DEF scheduleRetry, TableTypes, Inv, Mark
  <2>3. CASE UNCHANGED <<status, attempts, due>>
    BY <2>3 DEF TableTypes, Inv, Mark
  <2> QED
    BY <2>1, <2>2, <2>3 DEF Mark, applyRetry
<1>4. CountTypes'
  BY <1>1 DEF Mark, CountTypes, Inv
<1>5. BudgetTypes'
  BY DEF Mark, Fault, BudgetTypes, Inv
<1>6. BusTypes' /\ WorkerTypes'
  BY IdleType DEF Mark, BusTypes, WorkerTypes, Inv
<1> QED
  BY <1>3, <1>4, <1>5, <1>6

LEMMA TypeStep ==
  ASSUME Inv, Next
  PROVE  TypeOK'
<1> USE DEF Inv
<1>1. ASSUME NEW e \in Events, handle(e) PROVE TypeOK'
  BY <1>1, JobAssumption DEF handle, TableTypes, BusTypes, WorkerTypes, CountTypes, BudgetTypes
<1>2. ASSUME NEW j \in Jobs, enqueue(j) PROVE TypeOK'
  <2>1. Append(due, j) \in Seq(Jobs)
    BY DEF TableTypes
  <2>2. TableTypes' /\ BusTypes'
    BY <1>2, <2>1 DEF enqueue, TableTypes, BusTypes
  <2>3. BudgetTypes'
    BY <1>2 DEF enqueue, Fault, BudgetTypes
  <2>4. WorkerTypes' /\ CountTypes'
    BY <1>2 DEF enqueue, WorkerTypes, CountTypes
  <2> QED
    BY <2>2, <2>3, <2>4
<1>3. ASSUME NEW j \in Jobs, TimePasses(j) PROVE TypeOK'
  <2>1. Append(due, j) \in Seq(Jobs)
    BY DEF TableTypes
  <2> QED
    BY <1>3, <2>1 DEF TimePasses, TableTypes, BusTypes, WorkerTypes, CountTypes, BudgetTypes
<1>4. CASE Poll
  <2>1. dueJobs \in Seq(Snapshot) /\ <<>> \in Seq(Snapshot)
    BY DueJobsFacts
  <2>2. WorkerTypes'
    BY <1>4, <2>1 DEF Poll, WorkerTypes
  <2>3. BudgetTypes'
    BY <1>4 DEF Poll, Fault, BudgetTypes
  <2>4. TableTypes' /\ BusTypes' /\ CountTypes'
    BY <1>4 DEF Poll, Still, TableTypes, BusTypes, CountTypes
  <2> QED
    BY <2>2, <2>3, <2>4
<1>5. CASE logAttempt
  <2>1. current.id \in Jobs
    BY <1>5, InHandType DEF InHand, logAttempt
  <2>2. TableTypes'
    BY <1>5, <2>1 DEF logAttempt, TableTypes
  <2>3. BudgetTypes'
    BY <1>5 DEF logAttempt, Fault, BudgetTypes
  <2>4. WorkerTypes' /\ BusTypes' /\ CountTypes'
    BY <1>5 DEF logAttempt, Still, WorkerTypes, BusTypes, CountTypes
  <2> QED
    BY <2>2, <2>3, <2>4
<1>6. CASE EndBatch \/ Wake \/ Exit \/ stopWorker
  <2>1. WorkerTypes'
    BY <1>6 DEF EndBatch, Wake, Exit, stopWorker, WorkerTypes
  <2>2. BudgetTypes'
    BY <1>6 DEF EndBatch, Wake, Exit, stopWorker, BudgetTypes
  <2>3. TableTypes' /\ BusTypes' /\ CountTypes'
    BY <1>6 DEF EndBatch, Wake, Exit, stopWorker, Still, TableTypes, BusTypes, CountTypes
  <2> QED
    BY <2>1, <2>2, <2>3
<1>7. CASE Restart \/ Crash
  <2>1. AddRoutes
    BY <1>7 DEF Restart, Crash
  <2>2. WorkerTypes'
    <3>1. <<>> \in Seq(Snapshot)
      OBVIOUS
    <3> QED
      BY <2>1, <3>1, IdleType DEF AddRoutes, WorkerTypes
  <2>3. TableTypes' /\ BusTypes'
    BY <2>1 DEF AddRoutes, TableTypes, BusTypes
  <2>4. CountTypes'
    <3>1. UNCHANGED <<taken, tries, limited>>
      BY <2>1 DEF AddRoutes
    <3>2. lapses' \in [Jobs -> Nat]
      <4>1. CASE Restart
        BY <4>1 DEF Restart, CountTypes
      <4>2. CASE Crash
        <5> DEFINE l(j) == IF pc \in {"log", "mark"} /\ current.id = j THEN 1 ELSE 0
        <5>1. lapses' = [j \in Jobs |-> lapses[j] + l(j)]
          BY <4>2 DEF Crash
        <5>2. \A j \in Jobs : l(j) \in Nat
          OBVIOUS
        <5> HIDE DEF l
        <5>3. \A j \in Jobs : lapses[j] + l(j) \in Nat
          BY <5>2 DEF CountTypes
        <5> QED
          BY <5>1, <5>3
      <4> QED
        BY <1>7, <4>1, <4>2
    <3> QED
      BY <3>1, <3>2 DEF CountTypes
  <2>5. BudgetTypes'
    BY <1>7 DEF Restart, Crash, BudgetTypes
  <2> QED
    BY <2>2, <2>3, <2>4, <2>5
<1> QED
  BY <1>1, <1>2, <1>3, <1>4, <1>5, <1>6, <1>7, PostTypes, MarkTypes DEF Next, WorkerStep

-----------------------------------------------------------------------------
\* Only the job in hand can leave the pending state, and only Mark records
\* attempts.
LEMMA OthersUntouched ==
  ASSUME Inv, Next, NEW j \in Jobs, status[j] = "pending",
         ~(pc = "mark" /\ j = current.id)
  PROVE  status'[j] = "pending" /\ attempts'[j] = attempts[j]
<1> USE DEF Inv
<1>1. CASE Mark
  BY <1>1 DEF Mark, markDelivered, markFailed, Finish, scheduleRetry, applyRetry, TableTypes
<1>2. ASSUME NEW k \in Jobs, enqueue(k) PROVE status'[j] = "pending" /\ attempts'[j] = attempts[j]
  BY <1>2 DEF enqueue, TableTypes
<1>3. CASE UNCHANGED <<status, attempts>>
  BY <1>3
<1> QED
  BY <1>1, <1>2, <1>3
  DEF Next, WorkerStep, handle, TimePasses, Poll, Post, logAttempt, EndBatch, Wake, Exit,
      stopWorker, Restart, Crash, AddRoutes

LEMMA AppendDue ==
  ASSUME due \in Seq(Jobs), Distinct(due), NEW j \in Jobs, ~IsDue(j)
  PROVE  /\ Distinct(Append(due, j))
         /\ \A i \in 1..Len(Append(due, j)) :
              Append(due, j)[i] = j \/ \E k \in 1..Len(due) : Append(due, j)[i] = due[k]
<1> DEFINE a == Append(due, j)
<1>1. /\ Len(a) = Len(due) + 1 /\ Len(due) \in Nat
      /\ \A i \in 1..Len(due) : a[i] = due[i]
      /\ a[Len(due) + 1] = j
  BY AppendProperties
<1> HIDE DEF a
<1>2. \A i \in 1..Len(a) : i \in 1..Len(due) \/ i = Len(due) + 1
  BY <1>1
<1>3. Distinct(a)
  BY <1>1, <1>2 DEF Distinct, IsDue
<1>4. \A i \in 1..Len(a) : a[i] = j \/ \E k \in 1..Len(due) : a[i] = due[k]
  BY <1>1, <1>2
<1> QED
  BY <1>3, <1>4 DEF a

LEMMA DueStep ==
  ASSUME Inv, Next
  PROVE  DueSound'
<1> USE DEF Inv
<1>0. due \in Seq(Jobs) /\ Distinct(due) /\ \A i \in 1..Len(due) : due[i] \in Jobs
  <2>1. due \in Seq(Jobs)
    BY DEF TableTypes
  <2> QED
    BY <2>1 DEF DueSound
<1>1. ASSUME NEW j \in Jobs, ~IsDue(j), due' = Append(due, j), status'[j] = "pending",
             \A k \in Jobs : k # j => status'[k] = status[k]
      PROVE  DueSound'
  <2>1. Distinct(due')
    BY <1>0, <1>1, AppendDue
  <2>2. ASSUME NEW i \in 1..Len(due') PROVE status'[due'[i]] = "pending"
    BY <1>0, <1>1, <2>2, AppendDue DEF DueSound
  <2> QED
    BY <2>1, <2>2 DEF DueSound, Distinct
<1>2. ASSUME NEW j \in Jobs, enqueue(j) PROVE DueSound'
  <2>1. CASE status[j] = "absent" /\ due' = Append(due, j)
    <3>1. ~IsDue(j)
      BY <2>1 DEF IsDue, DueSound
    <3>2. status' = [status EXCEPT ![j] = "pending"]
      BY <1>2, <2>1, <1>0 DEF enqueue, DueSound, TableTypes
    <3> QED
      BY <1>1, <2>1, <3>1, <3>2 DEF TableTypes
  <2>2. CASE UNCHANGED <<status, due>>
    BY <2>2 DEF DueSound, Distinct
  <2> QED
    BY <1>2, <2>1, <2>2 DEF enqueue
<1>3. ASSUME NEW j \in Jobs, TimePasses(j) PROVE DueSound'
  BY <1>1, <1>3 DEF TimePasses
<1>4. CASE Mark
  <2> DEFINE j == current.id
  <2>1. j \in Jobs
    BY <1>4, InHandType DEF Mark, InHand
  <2>2. CASE due' = NotDue(j)
    <3>1. \A k \in Jobs : k # j => status'[k] = status[k]
      BY <1>4, <2>1 DEF Mark, markDelivered, markFailed, Finish, scheduleRetry, applyRetry,
                        TableTypes
    <3>2. Distinct(due')
      BY <1>0, <2>1, <2>2, NotDueFacts
    <3>3. ASSUME NEW i \in 1..Len(due') PROVE status'[due'[i]] = "pending"
      <4>1. due'[i] # j /\ \E k \in 1..Len(due) : due'[i] = due[k]
        BY <1>0, <2>1, <2>2, <3>3, NotDueFacts
      <4> QED
        BY <1>0, <3>1, <4>1 DEF DueSound
    <3> QED
      BY <3>2, <3>3 DEF DueSound, Distinct
  <2>3. CASE UNCHANGED <<status, due>>
    BY <2>3 DEF DueSound, Distinct
  <2> QED
    BY <1>4, <2>2, <2>3 DEF Mark, markDelivered, markFailed, Finish, scheduleRetry, applyRetry
<1>5. CASE UNCHANGED <<status, due>>
  BY <1>5 DEF DueSound, Distinct
<1> QED
  BY <1>2, <1>3, <1>4, <1>5
  DEF Next, WorkerStep, handle, Poll, Post, logAttempt, EndBatch, Wake, Exit,
      stopWorker, Restart, Crash, AddRoutes

LEMMA BatchStep ==
  ASSUME Inv, Next
  PROVE  BatchSound'
<1> USE DEF Inv
<1>0. batch \in Seq(Snapshot) /\ \A i \in 1..Len(batch) : batch[i].id \in Jobs
  <2>1. batch \in Seq(Snapshot)
    BY DEF WorkerTypes
  <2>2. \A i \in 1..Len(batch) : batch[i] \in Snapshot
    BY <2>1, ElementOfSeq
  <2>3. \A r \in Snapshot : r.id \in Jobs
    BY DEF Snapshot
  <2> QED
    BY <2>1, <2>2, <2>3
<1>1. CASE batch' = <<>>
  BY <1>1 DEF BatchSound
<1>2. CASE Poll /\ batch' = dueJobs
  BY <1>2, DueJobsFacts DEF BatchSound, Poll
<1>3. CASE Post
  <2>1. batch # <<>> /\ batch' = Tail(batch) /\ UNCHANGED <<status, attempts>>
    BY <1>3 DEF Post
  <2>2. /\ Len(Tail(batch)) = Len(batch) - 1
        /\ \A i \in 1..Len(Tail(batch)) : Tail(batch)[i] = batch[i + 1]
    BY <1>0, <2>1, HeadTailProperties
  <2>3. \A i \in 1..Len(Tail(batch)) : i + 1 \in 1..Len(batch)
    BY <1>0, <2>2
  <2>4. ASSUME NEW i \in 1..Len(Tail(batch)), NEW k \in 1..Len(Tail(batch)),
               Tail(batch)[i].id = Tail(batch)[k].id
        PROVE  i = k
    <3>1. i + 1 = k + 1
      BY <2>2, <2>3, <2>4 DEF BatchSound
    <3> QED
      BY <3>1
  <2> QED
    BY <2>1, <2>2, <2>3, <2>4 DEF BatchSound
<1>4. CASE batch' = batch
  <2>1. ASSUME NEW i \in 1..Len(batch)
        PROVE  status'[batch[i].id] = "pending" /\ attempts'[batch[i].id] = attempts[batch[i].id]
    <3>1. status[batch[i].id] = "pending" /\ ~(pc = "mark" /\ batch[i].id = current.id)
      BY DEF BatchSound, CurrentSound, InHand
    <3> QED
      BY <1>0, <3>1, OthersUntouched
  <2> QED
    BY <1>4, <2>1 DEF BatchSound
<1> QED
  BY <1>1, <1>2, <1>3, <1>4
  DEF Next, WorkerStep, handle, enqueue, TimePasses, Poll, logAttempt, Mark, EndBatch,
      Wake, Exit, stopWorker, Restart, Crash, AddRoutes

LEMMA CurrentStep ==
  ASSUME Inv, Next
  PROVE  CurrentSound'
<1> USE DEF Inv
<1>1. CASE ~InHand'
  BY <1>1 DEF CurrentSound
<1>2. CASE Post
  <2>0. batch \in Seq(Snapshot) /\ batch # <<>>
    BY <1>2 DEF Post, WorkerTypes
  <2>1. /\ Len(batch) \in Nat \ {0} /\ Head(batch) = batch[1]
        /\ Len(Tail(batch)) = Len(batch) - 1
        /\ \A i \in 1..Len(Tail(batch)) : Tail(batch)[i] = batch[i + 1]
    BY <2>0, HeadTailProperties
  <2>2. /\ current'.id = Head(batch).id
        /\ current'.attempt = Head(batch).attempts + 1
        /\ batch' = Tail(batch)
        /\ UNCHANGED <<status, attempts>>
    BY <1>2 DEF Post
  <2>3. current'.id \in Jobs
    BY <2>0, <2>2, HeadType
  <2>4. status'[current'.id] = "pending" /\ current'.attempt = attempts'[current'.id] + 1
    BY <2>1, <2>2 DEF BatchSound
  <2>5. ASSUME NEW i \in 1..Len(batch') PROVE batch'[i].id # current'.id
    <3>1. i + 1 \in 1..Len(batch) /\ i + 1 # 1 /\ 1 \in 1..Len(batch)
      BY <2>1, <2>2
    <3>2. batch[i + 1].id # batch[1].id
      BY <3>1 DEF BatchSound
    <3> QED
      BY <2>1, <2>2, <3>2
  <2>6. current'.answer = "ok" => taken'[current'.id] > 0
    <3>1. PICK a \in AgentAnswers :
            /\ current' = [id |-> Head(batch).id, attempt |-> Head(batch).attempts + 1,
                           answer |-> a.answer]
            /\ taken' = [taken EXCEPT ![Head(batch).id] = @ + (IF a.took THEN 1 ELSE 0)]
      BY <1>2 DEF Post
    <3>2. a.answer = "ok" => a.took
      <4>1. CASE a = [took |-> TRUE, answer |-> "transient"]
        BY <4>1
      <4>2. ASSUME NEW x \in Answers, a = [took |-> x = "ok", answer |-> x]
            PROVE  a.answer = "ok" => a.took
        BY <4>2
      <4> QED
        BY <4>1, <4>2 DEF AgentAnswers
    <3>3. taken \in [Jobs -> Nat]
      BY DEF CountTypes
    <3> QED
      BY <2>2, <2>3, <3>1, <3>2, <3>3
  <2> QED
    BY <2>3, <2>4, <2>5, <2>6 DEF CurrentSound
<1>3. CASE InHand /\ UNCHANGED <<current, taken, batch>> /\ ~Mark
  <2>1. /\ current.id \in Jobs /\ status[current.id] = "pending"
        /\ current.attempt = attempts[current.id] + 1
        /\ \A i \in 1..Len(batch) : batch[i].id # current.id
        /\ current.answer = "ok" => taken[current.id] > 0
    BY <1>3 DEF CurrentSound
  <2>2. status'[current.id] = "pending" /\ attempts'[current.id] = attempts[current.id]
    <3> DEFINE c == current.id
    <3>0. c \in Jobs /\ status[c] = "pending"
      BY <2>1
    <3> HIDE DEF c
    <3>1. ASSUME NEW k \in Jobs, enqueue(k)
          PROVE  status'[c] = "pending" /\ attempts'[c] = attempts[c]
      BY <3>0, <3>1 DEF enqueue, TableTypes
    <3>2. ASSUME UNCHANGED <<status, attempts>>
          PROVE  status'[c] = "pending" /\ attempts'[c] = attempts[c]
      BY <3>0, <3>2
    <3>3. (\E k \in Jobs : enqueue(k)) \/ UNCHANGED <<status, attempts>>
      BY <1>3
      DEF Next, WorkerStep, handle, TimePasses, Poll, Post, logAttempt, EndBatch, Wake,
          Exit, stopWorker, Restart, Crash, AddRoutes
    <3> QED
      BY <3>1, <3>2, <3>3 DEF c
  <2> QED
    BY <1>3, <2>1, <2>2 DEF CurrentSound
<1> QED
  BY <1>1, <1>2, <1>3
  DEF Next, WorkerStep, handle, enqueue, TimePasses, Poll, logAttempt, Mark, EndBatch,
      Wake, Exit, stopWorker, Restart, Crash, AddRoutes, Still, InHand

LEMMA InvStutter == Inv /\ UNCHANGED vars => Inv'
BY ZenonT(40)
   DEF Inv, TableTypes, BusTypes, WorkerTypes, CountTypes, BudgetTypes, DueSound, Distinct,
       BatchSound, CurrentSound, InHand

THEOREM InvInvariant == Spec => []Inv
<1>1. Inv /\ [Next]_vars => Inv'
  BY TypeStep, DueStep, BatchStep, CurrentStep, InvStutter DEF Inv
<1> QED
  BY InitInv, <1>1, PTL DEF Spec

\* Every variable keeps its type, whatever the jobs, limits and faults.
THEOREM TypeCorrect == Spec => []TypeOK
BY InvInvariant, PTL DEF Inv

-----------------------------------------------------------------------------
(***************************************************************************)
(* The refinement: only the POST of a pending job reaches the agent, only  *)
(* the job in hand changes state, and it is called delivered after its     *)
(* agent answered 2xx.                                                     *)
(***************************************************************************)

LEMMA PromiseStep ==
  ASSUME Inv, Next
  PROVE  Promise!Next \/ UNCHANGED <<status, taken>>
<1> USE DEF Inv
<1>1. ASSUME NEW j \in Jobs, enqueue(j) PROVE Promise!Next \/ UNCHANGED <<status, taken>>
  BY <1>1 DEF enqueue, Promise!Next, Promise!Accept, Promise!Move
<1>2. CASE Post
  <2> DEFINE j == Head(batch).id
  <2>1. batch \in Seq(Snapshot) /\ batch # <<>>
    BY <1>2 DEF Post, WorkerTypes
  <2>2. Head(batch) = batch[1] /\ 1 \in 1..Len(batch)
    BY <2>1, HeadTailProperties
  <2>3. j \in Jobs /\ status[j] = "pending"
    BY <2>1, <2>2, HeadType DEF BatchSound
  <2>4. PICK a \in AgentAnswers :
          taken' = [taken EXCEPT ![Head(batch).id] = @ + (IF a.took THEN 1 ELSE 0)]
    BY <1>2 DEF Post
  <2>5. taken \in [Jobs -> Nat] /\ UNCHANGED status
    BY <1>2 DEF CountTypes, Post
  <2> HIDE DEF j
  <2>6. taken' = [taken EXCEPT ![j] = @ + (IF a.took THEN 1 ELSE 0)]
    BY <2>4 DEF j
  <2>7. CASE a.took
    BY <2>3, <2>5, <2>6, <2>7 DEF Promise!Next, Promise!Take
  <2>8. CASE ~a.took
    BY <2>3, <2>5, <2>6, <2>8
  <2> QED
    BY <2>7, <2>8
<1>3. CASE Mark
  <2> DEFINE j == current.id
  <2>1. /\ j \in Jobs /\ status[j] = "pending"
        /\ current.answer = "ok" => taken[j] > 0
        /\ UNCHANGED taken
    BY <1>3 DEF Mark, CurrentSound, InHand
  <2> HIDE DEF j
  <2>2. CASE current.answer = "ok" /\ status' = [status EXCEPT ![j] = "delivered"]
    BY <2>1, <2>2 DEF Promise!Next, Promise!Deliver, Promise!Move
  <2>3. CASE status' = [status EXCEPT ![j] = "failed"]
    BY <2>1, <2>3 DEF Promise!Next, Promise!Fail, Promise!Move
  <2>4. CASE UNCHANGED status
    BY <2>1, <2>4
  <2> QED
    BY <1>3, <2>2, <2>3, <2>4
    DEF Mark, markDelivered, markFailed, Finish, scheduleRetry, applyRetry, j
<1>4. CASE UNCHANGED <<status, taken>>
  BY <1>4
<1> QED
  BY <1>1, <1>2, <1>3, <1>4
  DEF Next, WorkerStep, handle, TimePasses, Poll, logAttempt, EndBatch, Wake, Exit,
      stopWorker, Restart, Crash, AddRoutes, Still

\* The router implements RouteDelivery: a job that was delivered or failed is
\* never posted again and never changes, across lost answers, failed
\* statements, stops and crashes.
THEOREM RouterKeepsPromise == Spec => KeepsPromise
<1>1. Init => Promise!Init
  BY DEF Init, Promise!Init
<1>2. Inv /\ [Next]_vars => [Promise!Next]_<<status, taken>>
  BY PromiseStep
<1> QED
  BY <1>1, <1>2, InvInvariant, PTL DEF Spec, KeepsPromise, Promise!Spec

-----------------------------------------------------------------------------
(***************************************************************************)
(* The accounts of a job.  In hand, its POST was counted and its outcome   *)
(* was not recorded yet.                                                   *)
(***************************************************************************)

Holds(j) == InHand /\ current.id = j

Spent(j) == IF Holds(j) \/ status[j] \in {"delivered", "failed"} THEN 1 ELSE 0

Got(j) == IF (Holds(j) /\ current.answer = "ok") \/ status[j] = "delivered" THEN 1 ELSE 0

Throttled(j) == IF Holds(j) /\ current.answer = "limited" THEN 1 ELSE 0

Account(j) ==
  /\ taken[j] <= lapses[j] + Got(j)
  /\ tries[j] <= attempts[j] + lapses[j] + Spent(j)
  /\ attempts[j] + Throttled(j) <= MaxAttempts - 1 + limited[j]

Accounts == \A j \in Jobs : Account(j)

LEMMA AccountStep ==
  ASSUME Inv, Accounts, Next, NEW j \in Jobs
  PROVE  Account(j)'
<1> USE DEF Inv
<1>0. /\ taken[j] \in Nat /\ tries[j] \in Nat /\ limited[j] \in Nat /\ lapses[j] \in Nat
      /\ attempts[j] \in Nat /\ MaxAttempts \in Nat \ {0}
      /\ Account(j)
  BY AttemptAssumption DEF CountTypes, TableTypes, Accounts
<1>1. CASE /\ UNCHANGED <<attempts, taken, tries, limited, lapses>>
           /\ Spent(j)' = Spent(j) /\ Got(j)' = Got(j) /\ Throttled(j)' = Throttled(j)
  BY <1>1 DEF Account, Accounts
<1>2. ASSUME NEW k \in Jobs, enqueue(k) PROVE Account(j)'
  <2>1. /\ \/ status'[j] = status[j]
           \/ status[j] = "absent" /\ status'[j] = "pending"
        /\ UNCHANGED <<attempts, taken, tries, limited, lapses, pc, current>>
    BY <1>2 DEF enqueue, TableTypes
  <2>2. Spent(j)' = Spent(j) /\ Got(j)' = Got(j) /\ Throttled(j)' = Throttled(j)
    BY <2>1 DEF Spent, Got, Throttled, Holds, InHand
  <2> QED
    BY <1>1, <2>1, <2>2
<1>3. CASE Post
  <2> DEFINE h == Head(batch).id
  <2>1. batch \in Seq(Snapshot) /\ batch # <<>>
    BY <1>3 DEF Post, WorkerTypes
  <2>2. Head(batch) = batch[1] /\ 1 \in 1..Len(batch)
    BY <2>1, HeadTailProperties
  <2>3. h \in Jobs /\ status[h] = "pending"
    BY <2>1, <2>2, HeadType DEF BatchSound
  <2>4. PICK a \in AgentAnswers :
       /\ current' = [id |-> h, attempt |-> Head(batch).attempts + 1, answer |-> a.answer]
       /\ taken' = [taken EXCEPT ![h] = @ + (IF a.took THEN 1 ELSE 0)]
       /\ tries' = [tries EXCEPT ![h] = @ + 1]
       /\ limited' = [limited EXCEPT ![h] = @ + (IF a.answer = "limited" THEN 1 ELSE 0)]
       /\ lapses' = [lapses EXCEPT ![h] = @ + (IF a.took /\ a.answer # "ok" THEN 1 ELSE 0)]
    BY <1>3 DEF Post
  <2>5. pc = "deliver" /\ pc' = "log" /\ UNCHANGED <<status, attempts>> /\ CountTypes
    BY <1>3 DEF Post
  <2> HIDE DEF h
  <2>6. current'.id = h /\ current'.answer = a.answer
    BY <2>4
  <2>7. ~Holds(j) /\ (Holds(j)' <=> j = h)
    BY <2>5, <2>6 DEF Holds, InHand
  <2>8. CASE j = h
    <3>1. Spent(j) = 0 /\ Got(j) = 0 /\ Throttled(j) = 0
      BY <2>3, <2>7, <2>8 DEF Spent, Got, Throttled
    <3>2. /\ Spent(j)' = 1
          /\ Got(j)' = IF a.answer = "ok" THEN 1 ELSE 0
          /\ Throttled(j)' = IF a.answer = "limited" THEN 1 ELSE 0
      BY <2>3, <2>5, <2>6, <2>7, <2>8 DEF Spent, Got, Throttled
    <3>3. /\ taken'[j] = taken[j] + (IF a.took THEN 1 ELSE 0)
          /\ tries'[j] = tries[j] + 1
          /\ limited'[j] = limited[j] + (IF a.answer = "limited" THEN 1 ELSE 0)
          /\ lapses'[j] = lapses[j] + (IF a.took /\ a.answer # "ok" THEN 1 ELSE 0)
          /\ attempts'[j] = attempts[j]
      BY <2>4, <2>5, <2>8 DEF CountTypes
    <3>4. taken'[j] <= lapses'[j] + Got(j)'
      BY <1>0, <3>1, <3>2, <3>3 DEF Account
    <3>5. tries'[j] <= attempts'[j] + lapses'[j] + Spent(j)'
      BY <1>0, <3>1, <3>2, <3>3 DEF Account
    <3>6. attempts'[j] + Throttled(j)' <= MaxAttempts - 1 + limited'[j]
      BY <1>0, <3>1, <3>2, <3>3 DEF Account
    <3> QED
      BY <3>4, <3>5, <3>6 DEF Account
  <2>9. CASE j # h
    <3>1. /\ taken'[j] = taken[j] /\ tries'[j] = tries[j] /\ limited'[j] = limited[j]
          /\ lapses'[j] = lapses[j] /\ attempts'[j] = attempts[j]
      BY <2>3, <2>4, <2>5, <2>9 DEF CountTypes
    <3>2. Spent(j)' = Spent(j) /\ Got(j)' = Got(j) /\ Throttled(j)' = Throttled(j)
      BY <2>5, <2>7, <2>9 DEF Spent, Got, Throttled
    <3> QED
      BY <1>0, <3>1, <3>2 DEF Account
  <2> QED
    BY <2>8, <2>9
<1>4. CASE Mark
  <2> DEFINE h == current.id
  <2>1. h \in Jobs /\ status[h] = "pending" /\ current.attempt = attempts[h] + 1
    BY <1>4 DEF Mark, CurrentSound, InHand
  <2>2. pc = "mark" /\ pc' = "deliver" /\ UNCHANGED <<taken, tries, limited>>
    BY <1>4 DEF Mark
  <2>3. ~Holds(j)' /\ (Holds(j) <=> j = h)
    BY <2>2 DEF Holds, InHand
  <2> HIDE DEF h
  <2>4. CASE j # h
    <3>1. status'[j] = status[j] /\ attempts'[j] = attempts[j] /\ lapses'[j] = lapses[j]
      BY <1>4, <2>1, <2>4 DEF Mark, markDelivered, markFailed, Finish, scheduleRetry,
                              applyRetry, TableTypes, CountTypes, h
    <3>2. Spent(j)' = Spent(j) /\ Got(j)' = Got(j) /\ Throttled(j)' = Throttled(j)
      BY <2>3, <2>4, <3>1 DEF Spent, Got, Throttled
    <3> QED
      BY <1>0, <2>2, <3>1, <3>2 DEF Account
  <2>5. CASE j = h
    <3>1. /\ Spent(j) = 1
          /\ Got(j) = IF current.answer = "ok" THEN 1 ELSE 0
          /\ Throttled(j) = IF current.answer = "limited" THEN 1 ELSE 0
          /\ Throttled(j)' = 0
      BY <2>1, <2>3, <2>5 DEF Spent, Got, Throttled
    <3>2. CASE status'[j] = "delivered" /\ UNCHANGED <<attempts, lapses>>
      <4>1. Spent(j)' = 1 /\ Got(j)' = 1
        BY <3>2 DEF Spent, Got
      <4> QED
        BY <1>0, <2>2, <3>1, <3>2, <4>1 DEF Account
    <3>3. CASE current.answer # "ok" /\ status'[j] = "failed" /\ UNCHANGED <<attempts, lapses>>
      <4>1. Spent(j)' = 1 /\ Got(j)' \in {0, 1}
        BY <3>3 DEF Spent, Got
      <4> QED
        BY <1>0, <2>2, <3>1, <3>3, <4>1 DEF Account
    <3>4. CASE /\ current.answer # "ok" /\ attempts'[j] = attempts[j] + 1 /\ UNCHANGED lapses
               /\ current.answer = "limited" \/ attempts[j] + 1 <= MaxAttempts - 1
      <4>1. Spent(j)' \in {0, 1} /\ Got(j)' \in {0, 1}
        BY DEF Spent, Got
      <4> QED
        BY <1>0, <2>2, <3>1, <3>4, <4>1 DEF Account
    <3>5. CASE lapses'[j] = lapses[j] + 1 /\ UNCHANGED attempts
      <4>1. Spent(j)' \in {0, 1} /\ Got(j)' \in {0, 1}
        BY DEF Spent, Got
      <4> QED
        BY <1>0, <2>2, <3>1, <3>5, <4>1 DEF Account
    <3> QED
      BY <1>0, <1>4, <2>1, <2>5, <3>2, <3>3, <3>4, <3>5
      DEF Mark, markDelivered, markFailed, Finish, scheduleRetry, applyRetry, TableTypes,
          CountTypes, h
  <2> QED
    BY <2>4, <2>5
<1>5. CASE Crash
  <2>1. /\ lapses'[j] = lapses[j] + (IF Holds(j) THEN 1 ELSE 0)
        /\ UNCHANGED <<status, attempts, taken, tries, limited>>
        /\ ~Holds(j)'
    BY <1>5 DEF Crash, AddRoutes, Holds, InHand
  <2>2. CASE Holds(j)
    <3>1. Spent(j) = 1 /\ Got(j) \in {0, 1} /\ Throttled(j) \in {0, 1}
      BY <2>2 DEF Spent, Got, Throttled
    <3>2. Spent(j)' \in {0, 1} /\ Got(j)' \in {0, 1} /\ Throttled(j)' = 0
      BY <2>1 DEF Spent, Got, Throttled
    <3> QED
      BY <1>0, <2>1, <2>2, <3>1, <3>2 DEF Account
  <2>3. CASE ~Holds(j)
    <3>1. Spent(j)' = Spent(j) /\ Got(j)' = Got(j) /\ Throttled(j)' = Throttled(j)
      BY <2>1, <2>3 DEF Spent, Got, Throttled
    <3> QED
      BY <1>0, <2>1, <2>3, <3>1 DEF Account
  <2> QED
    BY <2>2, <2>3
<1>6. CASE /\ UNCHANGED <<status, attempts, taken, tries, limited, lapses>>
           /\ (InHand /\ InHand' /\ UNCHANGED current) \/ (~InHand /\ ~InHand')
  <2>1. Spent(j)' = Spent(j) /\ Got(j)' = Got(j) /\ Throttled(j)' = Throttled(j)
    BY <1>6 DEF Spent, Got, Throttled, Holds
  <2> QED
    BY <1>1, <1>6, <2>1
<1> QED
  BY <1>2, <1>3, <1>4, <1>5, <1>6
  DEF Next, WorkerStep, handle, TimePasses, Poll, logAttempt, EndBatch, Wake, Exit,
      stopWorker, Restart, AddRoutes, Still, InHand

LEMMA InitAccounts == Init => Accounts
<1> SUFFICES ASSUME Init, NEW j \in Jobs PROVE Account(j)
  BY DEF Accounts
<1>1. /\ taken[j] = 0 /\ tries[j] = 0 /\ limited[j] = 0 /\ lapses[j] = 0 /\ attempts[j] = 0
      /\ ~Holds(j) /\ status[j] = "absent"
  BY DEF Init, Holds, InHand
<1>2. Spent(j) = 0 /\ Got(j) = 0 /\ Throttled(j) = 0
  BY <1>1 DEF Spent, Got, Throttled
<1> QED
  BY <1>1, <1>2, AttemptAssumption DEF Account

LEMMA AccountsInvariant == Spec => [](Inv /\ Accounts)
<1>1. Inv /\ Accounts /\ Next => Accounts'
  BY AccountStep DEF Accounts
<1>2. Accounts /\ UNCHANGED vars => Accounts'
  BY DEF Accounts, Account, Spent, Got, Throttled, Holds, InHand
<1> QED
  BY <1>1, <1>2, InitAccounts, InvInvariant, PTL DEF Spec

\* An agent takes a job more than once only if an outcome was lost.
THEOREM CopiesAreAccounted == Spec => []CopiesAccounted
<1>1. Inv /\ Accounts => CopiesAccounted
  <2> SUFFICES ASSUME Inv, Accounts, NEW j \in Jobs PROVE taken[j] <= 1 + lapses[j]
    BY DEF CopiesAccounted
  <2>1. taken[j] \in Nat /\ lapses[j] \in Nat /\ Got(j) \in {0, 1} /\ Account(j)
    BY DEF Inv, CountTypes, Got, Accounts
  <2> QED
    BY <2>1 DEF Account
<1> QED
  BY <1>1, AccountsInvariant, PTL

\* The POSTs of a job are bounded by routeRetryDelays, 429 answers and lost
\* outcomes, whatever the interleaving of polls, stops and crashes.
THEOREM TriesAreAccounted == Spec => []TriesAccounted
<1>1. Inv /\ Accounts => TriesAccounted
  <2> SUFFICES ASSUME Inv, Accounts, NEW j \in Jobs
               PROVE  tries[j] <= MaxAttempts + limited[j] + lapses[j]
    BY DEF TriesAccounted
  <2>1. /\ tries[j] \in Nat /\ attempts[j] \in Nat /\ limited[j] \in Nat /\ lapses[j] \in Nat
        /\ Spent(j) \in {0, 1} /\ Throttled(j) \in {0, 1} /\ Account(j)
        /\ MaxAttempts \in Nat \ {0}
    BY AttemptAssumption DEF Inv, CountTypes, TableTypes, Spent, Throttled, Accounts
  <2> QED
    BY <2>1 DEF Account
<1> QED
  BY <1>1, AccountsInvariant, PTL

=============================================================================
