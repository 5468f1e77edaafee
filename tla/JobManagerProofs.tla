-------------------------- MODULE JobManagerProofs --------------------------
(***************************************************************************)
(* Proofs about JobManager, for every number of jobs, any assignment of    *)
(* IDs and queues, and every MaxJobs.                                      *)
(***************************************************************************)
EXTENDS JobManager, FiniteSetTheorems, SequenceTheorems, TLAPS

\* The places of a job that has its named queue to itself.
HeadPlace == OnChannel \cup Started \cup {"deleted"}

\* A lock has the owner its holder's place says, and is free after Close.
LocksInv ==
  /\ \A j \in Job : pc[j] \in {"locked", "offered"} <=> jobsM = j
  /\ \A j \in Job : pc[j] \in {"offered", "notifying"} <=> qLock = j
  /\ \A j \in Job : pc[j] = "handed" =>
       /\ qLock # Nil
       /\ pc[qLock] = "notifying"
       /\ Queue[j] = Queue[qLock]
       /\ Queue[j] # NoQueue
  /\ closed => qLock = Nil

\* The job a named queue is busy with is at the head of its list.
HeadInv ==
  \A j \in Job : pc[j] \in HeadPlace /\ Queue[j] # NoQueue =>
    queues[Queue[j]] # <<>> /\ queues[Queue[j]][1] = j

\* Until Close, everything behind the head of a list waits for its turn.
LineInv ==
  ~closed => \A q \in QueueName : \A i \in 1..Len(queues[q]) :
    /\ Queue[queues[q][i]] = q
    /\ i = 1 => pc[queues[q][i]] \in HeadPlace
    /\ i > 1 => pc[queues[q][i]] = "queued"
    /\ \A m \in 1..Len(queues[q]) : queues[q][m] = queues[q][i] => m = i

\* Once loop() has passed its test, a slot is free until it receives.
SlotInv ==
  /\ ConcurrencyBound
  /\ loop = "recv" => Cardinality(Active) < MaxJobs

IInv == TypeOK /\ LocksInv /\ MapAccurate /\ HeadInv /\ LineInv /\ SlotInv

\* What Tail and Append do to a list, element by element.
LEMMA TailElements ==
  ASSUME NEW S, NEW s \in Seq(S), Len(s) >= 1
  PROVE  /\ Tail(s) \in Seq(S)
         /\ Len(Tail(s)) = Len(s) - 1
         /\ \A i \in 1..Len(s) - 1 : Tail(s)[i] = s[i + 1]
  OBVIOUS

LEMMA AppendElements ==
  ASSUME NEW S, NEW s \in Seq(S), NEW e \in S
  PROVE  /\ Append(s, e) \in Seq(S)
         /\ Len(Append(s, e)) = Len(s) + 1
         /\ Append(s, e)[Len(s) + 1] = e
         /\ \A i \in 1..Len(s) : Append(s, e)[i] = s[i]
  OBVIOUS

\* Types are right in every state.
LEMMA TypeInit == Init => TypeOK
<1> SUFFICES ASSUME Init PROVE TypeOK
  OBVIOUS
<1>1. <<>> \in Seq(Job)
  BY EmptySeq
<1>2. queues \in [QueueName -> Seq(Job)]
  BY <1>1, Zenon DEF Init
<1> QED BY <1>2 DEF Init, TypeOK, Place

LEMMA TypeStep ==
  TypeOK /\ [Next]_vars => TypeOK'
<1> SUFFICES ASSUME TypeOK, [Next]_vars PROVE TypeOK'
  OBVIOUS
<1> USE JobAssumption DEF JobAssumption, TypeOK, Place, Goto, OnChannel
<1>1. CASE LoopCheck \/ LoopWait \/ LoopStop
  BY <1>1 DEF LoopCheck, LoopWait, LoopStop
<1>2. CASE Shutdown
  BY <1>2 DEF Shutdown, ShutdownClose, ShutdownTerm, ShutdownKill, TerminateAll
<1>3. ASSUME NEW j \in Job, RunFactory(j) PROVE TypeOK'
  BY <1>3 DEF RunFactory
<1>4. ASSUME NEW j \in Job, Push(j) PROVE TypeOK'
  <2>1. CASE PushRefused(j)
    BY <1>4, <2>1 DEF Push, PushRefused
  <2>2. CASE PushSend(j)
    <3>1. <<j>> \in Seq(Job)
      OBVIOUS
    <3>2. queues' \in [QueueName -> Seq(Job)]
      BY <2>2, <3>1 DEF PushSend
    <3> QED BY <1>4, <2>2, <3>2 DEF Push, PushSend
  <2>3. CASE PushBehind(j)
    BY <1>4, <2>3 DEF Push, PushBehind
  <2> QED BY <1>4, <2>1, <2>2, <2>3 DEF Push
<1>5. ASSUME NEW j \in Job, LoopReceive(j) PROVE TypeOK'
  BY <1>5 DEF LoopReceive
<1>6. ASSUME NEW j \in Job, Start(j) \/ Exit(j) \/ CleanUpDelete(j) PROVE TypeOK'
  BY <1>6 DEF Start, Exit, CleanUpDelete
<1>7. ASSUME NEW j \in Job, Notify(j) PROVE TypeOK'
  <2>1. CASE NotifyNothing(j)
    BY <1>7, <2>1 DEF Notify, NotifyNothing
  <2>2. CASE NotifyLast(j)
    <3>1. queues' \in [QueueName -> Seq(Job)]
      BY <2>2, EmptySeq DEF NotifyLast
    <3> QED BY <1>7, <2>2, <3>1 DEF Notify, NotifyLast
  <2>3. CASE NotifyNext(j)
    <3> DEFINE s == queues[Queue[j]]
    <3>1. s \in Seq(Job) /\ Len(s) > 1
      BY <2>3 DEF NotifyNext
    <3>2. Tail(s) \in Seq(Job) /\ s[2] \in Job
      BY <3>1, TailElements
    <3>3. queues' \in [QueueName -> Seq(Job)]
      BY <2>3, <3>2 DEF NotifyNext
    <3>4. pc' \in [Job -> Place]
      BY <2>3, <3>2 DEF NotifyNext
    <3> QED BY <1>7, <2>3, <3>3, <3>4 DEF Notify, NotifyNext
  <2> QED BY <1>7, <2>1, <2>2, <2>3 DEF Notify
<1>8. ASSUME NEW j \in Job, Broadcast(j) \/ Kill(j) PROVE TypeOK'
  BY <1>8 DEF Broadcast, Kill
<1>9. CASE UNCHANGED vars
  BY <1>9 DEF vars
<1> QED BY <1>1, <1>2, <1>3, <1>4, <1>5, <1>6, <1>7, <1>8, <1>9 DEF Next, Loop

\* Every variable of the process manager keeps its type: pm.go, queue.go.
THEOREM TypeCorrect == Spec => []TypeOK
  BY TypeInit, TypeStep, PTL DEF Spec

\* The job Notify hands over to is another one, and was waiting in the list.
LEMMA NextWaits ==
  ASSUME TypeOK, LineInv, NEW j \in Job, Notify(j), NotifyNext(j)
  PROVE  LET next == queues[Queue[j]][2] IN
         /\ Queue[j] \in QueueName
         /\ queues[Queue[j]] \in Seq(Job)
         /\ Len(queues[Queue[j]]) > 1
         /\ next \in Job
         /\ pc[next] = "queued"
         /\ Queue[next] = Queue[j]
         /\ next # j
         /\ \A k \in Job : pc'[k] = IF k = next THEN "handed"
                                    ELSE IF k = j THEN "notifying" ELSE pc[k]
<1> DEFINE s == queues[Queue[j]]
<1>1. Queue[j] \in QueueName /\ s \in Seq(Job) /\ Len(s) > 1
  BY JobAssumption DEF JobAssumption, NotifyNext, TypeOK
<1>2. 2 \in 1..Len(s) /\ s[2] \in Job
  BY <1>1
<1>3. pc[s[2]] = "queued" /\ Queue[s[2]] = Queue[j]
  BY <1>1, <1>2 DEF LineInv, NotifyNext
<1>4. s[2] # j
  BY <1>3 DEF Notify
<1>5. \A k \in Job : pc'[k] = IF k = s[2] THEN "handed"
                              ELSE IF k = j THEN "notifying" ELSE pc[k]
  BY <1>2, <1>4 DEF NotifyNext, TypeOK
<1> QED BY <1>1, <1>2, <1>3, <1>4, <1>5

\* The rendezvous on q.ch moves the job and, in a Notify, its sender.
LEMMA ReceiveMoves ==
  ASSUME TypeOK, LocksInv, NEW j \in Job, LoopReceive(j)
  PROVE  /\ pc[j] = "handed" => qLock \in Job /\ qLock # j /\ pc[qLock] = "notifying"
         /\ \A k \in Job : pc'[k] = IF k = j THEN "spawned"
                                    ELSE IF pc[j] = "handed" /\ k = qLock THEN "waking"
                                    ELSE pc[k]
<1>1. CASE pc[j] = "offered"
  BY <1>1 DEF LoopReceive, TypeOK, Goto
<1>2. CASE pc[j] = "handed"
  <2>1. qLock \in Job /\ qLock # j /\ pc[qLock] = "notifying"
    BY <1>2 DEF TypeOK, LocksInv
  <2> QED BY <1>2, <2>1 DEF LoopReceive, TypeOK
<1> QED BY <1>1, <1>2 DEF LoopReceive

\* Every step keeps the two locks with the job whose place says it has them.
LEMMA LocksStep ==
  TypeOK /\ LocksInv /\ HeadInv /\ LineInv /\ [Next]_vars => LocksInv'
<1> SUFFICES ASSUME TypeOK, LocksInv, HeadInv, LineInv, [Next]_vars
             PROVE  LocksInv'
  OBVIOUS
<1> USE JobAssumption DEF JobAssumption, TypeOK, LocksInv, Goto
<1>1. CASE LoopCheck \/ LoopWait \/ LoopStop
  BY <1>1 DEF LoopCheck, LoopWait, LoopStop
<1>2. CASE Shutdown
  BY <1>2 DEF Shutdown, ShutdownClose, ShutdownTerm, ShutdownKill, TerminateAll
<1>3. ASSUME NEW j \in Job, RunFactory(j) PROVE LocksInv'
  BY <1>3 DEF RunFactory
<1>4. ASSUME NEW j \in Job, Push(j) PROVE LocksInv'
  <2>1. CASE PushRefused(j)
    BY <1>4, <2>1 DEF Push, PushRefused
  <2>2. CASE PushSend(j)
    BY <1>4, <2>2 DEF Push, PushSend
  <2>3. CASE PushBehind(j)
    BY <1>4, <2>3 DEF Push, PushBehind
  <2> QED BY <1>4, <2>1, <2>2, <2>3 DEF Push
<1>5. ASSUME NEW j \in Job, LoopReceive(j) PROVE LocksInv'
  <2>1. CASE pc[j] = "offered"
    BY <1>5, <2>1 DEF LoopReceive
  <2>2. CASE pc[j] = "handed"
    <3>1. \A k \in Job : pc[k] = "handed" => k = j
      BY <2>2 DEF HeadInv, HeadPlace, OnChannel
    <3> QED BY <1>5, <2>2, <3>1, ReceiveMoves DEF LoopReceive
  <2> QED BY <1>5, <2>1, <2>2 DEF LoopReceive
<1>6. ASSUME NEW j \in Job, Start(j) \/ Exit(j) \/ CleanUpDelete(j) PROVE LocksInv'
  BY <1>6 DEF Start, Exit, CleanUpDelete
<1>7. ASSUME NEW j \in Job, Notify(j) PROVE LocksInv'
  <2>1. CASE NotifyNothing(j)
    BY <1>7, <2>1 DEF Notify, NotifyNothing
  <2>2. CASE NotifyLast(j)
    BY <1>7, <2>2 DEF Notify, NotifyLast
  <2>3. CASE NotifyNext(j)
    <3> DEFINE next == queues[Queue[j]][2]
    <3>1. /\ next \in Job /\ next # j /\ pc[next] = "queued"
          /\ Queue[next] = Queue[j] /\ Queue[j] # NoQueue
      BY <1>7, <2>3, NextWaits DEF NotifyNext
    <3>2. \A k \in Job : pc'[k] = IF k = next THEN "handed"
                                  ELSE IF k = j THEN "notifying" ELSE pc[k]
      BY <1>7, <2>3, NextWaits
    <3> QED BY <1>7, <2>3, <3>1, <3>2 DEF Notify, NotifyNext
  <2> QED BY <1>7, <2>1, <2>2, <2>3 DEF Notify
<1>8. ASSUME NEW j \in Job, Broadcast(j) \/ Kill(j) PROVE LocksInv'
  BY <1>8 DEF Broadcast, Kill
<1>9. CASE UNCHANGED vars
  BY <1>9 DEF vars
<1> QED BY <1>1, <1>2, <1>3, <1>4, <1>5, <1>6, <1>7, <1>8, <1>9 DEF Next, Loop

\* Every step keeps the map in line with the places of the jobs.
LEMMA MapStep ==
  TypeOK /\ LocksInv /\ LineInv /\ MapAccurate /\ [Next]_vars => MapAccurate'
<1> SUFFICES ASSUME TypeOK, LocksInv, LineInv, MapAccurate, [Next]_vars
             PROVE  MapAccurate'
  OBVIOUS
<1> USE DEF MapAccurate, Pending, OnChannel, Started, Goto
<1>1. CASE LoopCheck \/ LoopWait \/ LoopStop
  BY <1>1 DEF LoopCheck, LoopWait, LoopStop
<1>2. CASE Shutdown
  BY <1>2 DEF Shutdown, ShutdownClose, ShutdownTerm, ShutdownKill, TerminateAll
<1>3. ASSUME NEW j \in Job, RunFactory(j) PROVE MapAccurate'
  BY <1>3 DEF RunFactory, Duplicate, TypeOK
<1>4. ASSUME NEW j \in Job, Push(j) PROVE MapAccurate'
  <2>1. CASE PushRefused(j)
    BY <1>4, <2>1 DEF Push, PushRefused, TypeOK
  <2>2. CASE PushSend(j)
    BY <1>4, <2>2 DEF Push, PushSend, TypeOK
  <2>3. CASE PushBehind(j)
    BY <1>4, <2>3 DEF Push, PushBehind, TypeOK
  <2> QED BY <1>4, <2>1, <2>2, <2>3 DEF Push
<1>5. ASSUME NEW j \in Job, LoopReceive(j) PROVE MapAccurate'
  <2>1. jobs' = jobs /\ closed' = closed /\ pc[j] \in OnChannel
    BY <1>5 DEF LoopReceive
  <2> QED BY <1>5, <2>1, ReceiveMoves DEF TypeOK
<1>6. ASSUME NEW j \in Job, Start(j) \/ Exit(j) PROVE MapAccurate'
  BY <1>6 DEF Start, Exit, TypeOK
<1>7. ASSUME NEW j \in Job, CleanUpDelete(j) PROVE MapAccurate'
  <2>1. jobs' = jobs \ {j}
    BY <1>7 DEF CleanUpDelete, TypeOK
  <2> QED BY <1>7, <2>1 DEF CleanUpDelete, TypeOK
<1>8. ASSUME NEW j \in Job, Notify(j) PROVE MapAccurate'
  <2>1. CASE NotifyNothing(j)
    BY <1>8, <2>1 DEF Notify, NotifyNothing, TypeOK
  <2>2. CASE NotifyLast(j)
    BY <1>8, <2>2 DEF Notify, NotifyLast, TypeOK
  <2>3. CASE NotifyNext(j)
    BY <1>8, <2>3, NextWaits DEF Notify, TypeOK
  <2> QED BY <1>8, <2>1, <2>2, <2>3 DEF Notify
<1>9. ASSUME NEW j \in Job, Broadcast(j) \/ Kill(j) PROVE MapAccurate'
  BY <1>9 DEF Broadcast, Kill, TypeOK
<1>10. CASE UNCHANGED vars
  BY <1>10 DEF vars
<1> QED
  BY <1>1, <1>2, <1>3, <1>4, <1>5, <1>6, <1>7, <1>8, <1>9, <1>10 DEF Next, Loop

\* Every step keeps a busy queue's job at the head of its list.
LEMMA HeadStep ==
  TypeOK /\ LocksInv /\ HeadInv /\ LineInv /\ [Next]_vars => HeadInv'
<1> SUFFICES ASSUME TypeOK, LocksInv, HeadInv, LineInv, [Next]_vars
             PROVE  HeadInv'
  OBVIOUS
<1> USE DEF HeadInv, HeadPlace, OnChannel, Started, Goto
<1>1. CASE LoopCheck \/ LoopWait \/ LoopStop
  BY <1>1 DEF LoopCheck, LoopWait, LoopStop
<1>2. CASE Shutdown
  BY <1>2 DEF Shutdown, ShutdownClose, ShutdownTerm, ShutdownKill, TerminateAll
<1>3. ASSUME NEW j \in Job, RunFactory(j) PROVE HeadInv'
  BY <1>3 DEF RunFactory, TypeOK
<1>4. ASSUME NEW j \in Job, Push(j) PROVE HeadInv'
  <2>1. CASE PushRefused(j)
    BY <1>4, <2>1 DEF Push, PushRefused, TypeOK
  <2>2. CASE PushSend(j)
    <3>1. CASE Queue[j] = NoQueue
      BY <1>4, <2>2, <3>1 DEF Push, PushSend, TypeOK
    <3>2. CASE Queue[j] # NoQueue
      <4>1. Queue[j] \in QueueName
        BY <3>2, JobAssumption DEF JobAssumption
      <4>2. queues' = [queues EXCEPT ![Queue[j]] = <<j>>] /\ queues[Queue[j]] = <<>>
        BY <2>2, <3>2 DEF PushSend
      <4>3. \A k \in Job : pc'[k] = IF k = j THEN "offered" ELSE pc[k]
        BY <2>2 DEF PushSend, TypeOK
      <4>4. queues'[Queue[j]] = <<j>> /\ <<j>>[1] = j /\ <<j>> # <<>>
        BY <4>1, <4>2 DEF TypeOK
      <4>5. \A q \in QueueName : q # Queue[j] => queues'[q] = queues[q]
        BY <4>2 DEF TypeOK
      <4> QED BY <4>1, <4>2, <4>3, <4>4, <4>5, JobAssumption DEF JobAssumption
    <3> QED BY <3>1, <3>2
  <2>3. CASE PushBehind(j)
    <3> DEFINE s == queues[Queue[j]]
    <3>1. Queue[j] \in QueueName /\ s \in Seq(Job) /\ s # <<>>
      BY <2>3, JobAssumption DEF JobAssumption, PushBehind, TypeOK
    <3>2. 1 \in 1..Len(s)
      BY <3>1
    <3>3. Append(s, j) # <<>> /\ Append(s, j)[1] = s[1]
      BY <3>1, <3>2, AppendElements
    <3>4. \A k \in Job : pc'[k] = IF k = j THEN "queued" ELSE pc[k]
      BY <2>3 DEF PushBehind, TypeOK
    <3>5. \A q \in QueueName :
            queues'[q] = IF q = Queue[j] THEN Append(s, j) ELSE queues[q]
      BY <2>3, <3>1 DEF PushBehind, TypeOK
    <3>6. ASSUME NEW k \in Job, pc'[k] \in HeadPlace, Queue[k] # NoQueue
          PROVE  queues'[Queue[k]] # <<>> /\ queues'[Queue[k]][1] = k
      <4>1. Queue[k] \in QueueName /\ pc[k] \in HeadPlace
        BY <3>4, <3>6, JobAssumption DEF JobAssumption
      <4>2. queues[Queue[k]] # <<>> /\ queues[Queue[k]][1] = k
        BY <3>6, <4>1
      <4> QED BY <3>3, <3>5, <4>1, <4>2
    <3> QED BY <3>6
  <2> QED BY <1>4, <2>1, <2>2, <2>3 DEF Push
<1>5. ASSUME NEW j \in Job, LoopReceive(j) PROVE HeadInv'
  <2>1. queues' = queues /\ pc[j] \in OnChannel
    BY <1>5 DEF LoopReceive
  <2> QED BY <1>5, <2>1, ReceiveMoves DEF TypeOK
<1>6. ASSUME NEW j \in Job, Start(j) \/ Exit(j) \/ CleanUpDelete(j) PROVE HeadInv'
  BY <1>6 DEF Start, Exit, CleanUpDelete, TypeOK
<1>7. ASSUME NEW j \in Job, Notify(j) PROVE HeadInv'
  <2>1. CASE NotifyNothing(j)
    BY <1>7, <2>1 DEF Notify, NotifyNothing, TypeOK
  <2>2. CASE NotifyLast(j)
    <3>1. Queue[j] \in QueueName
      BY <2>2, JobAssumption DEF JobAssumption, NotifyLast
    <3>2. \A k \in Job : pc'[k] = IF k = j THEN "waking" ELSE pc[k]
      BY <2>2 DEF NotifyLast, TypeOK
    <3>3. \A q \in QueueName : q # Queue[j] => queues'[q] = queues[q]
      BY <2>2 DEF NotifyLast, TypeOK
    <3>4. \A k \in Job : pc'[k] \in HeadPlace /\ Queue[k] # NoQueue => Queue[k] # Queue[j]
      BY <1>7, <3>2 DEF Notify
    <3> QED BY <3>1, <3>2, <3>3, <3>4, JobAssumption DEF JobAssumption
  <2>3. CASE NotifyNext(j)
    <3> DEFINE s == queues[Queue[j]]
               next == s[2]
    <3>1. /\ Queue[j] \in QueueName /\ s \in Seq(Job) /\ Len(s) > 1
          /\ next \in Job /\ next # j /\ Queue[next] = Queue[j]
      BY <1>7, <2>3, NextWaits
    <3>2. \A k \in Job : pc'[k] = IF k = next THEN "handed"
                                  ELSE IF k = j THEN "notifying" ELSE pc[k]
      BY <1>7, <2>3, NextWaits
    <3>3. \A q \in QueueName :
            queues'[q] = IF q = Queue[j] THEN Tail(s) ELSE queues[q]
      BY <2>3, <3>1 DEF NotifyNext, TypeOK
    <3>4. Tail(s) # <<>> /\ Tail(s)[1] = next
      <4>1. Len(Tail(s)) >= 1 /\ 1 \in 1..Len(s) - 1
        BY <3>1, TailElements
      <4>2. Tail(s)[1] = s[1 + 1]
        BY <3>1, <4>1, TailElements
      <4> QED BY <4>1, <4>2
    <3>5. \A k \in Job : pc[k] \in HeadPlace /\ Queue[k] = Queue[j] => k = j
      BY <1>7, <2>3 DEF Notify, NotifyNext
    <3>6. ASSUME NEW k \in Job, pc'[k] \in HeadPlace, Queue[k] # NoQueue
          PROVE  queues'[Queue[k]] # <<>> /\ queues'[Queue[k]][1] = k
      <4>1. Queue[k] \in QueueName
        BY <3>6, JobAssumption DEF JobAssumption
      <4>2. CASE k = next
        BY <3>1, <3>3, <3>4, <4>2
      <4>3. CASE k # next
        <5>1. pc[k] \in HeadPlace /\ k # j
          BY <3>2, <3>6, <4>3
        <5>2. Queue[k] # Queue[j]
          BY <3>5, <5>1
        <5> QED BY <3>3, <3>6, <4>1, <5>1, <5>2
      <4> QED BY <4>2, <4>3
    <3> QED BY <3>6
  <2> QED BY <1>7, <2>1, <2>2, <2>3 DEF Notify
<1>8. ASSUME NEW j \in Job, Broadcast(j) \/ Kill(j) PROVE HeadInv'
  BY <1>8 DEF Broadcast, Kill, TypeOK
<1>9. CASE UNCHANGED vars
  BY <1>9 DEF vars
<1> QED BY <1>1, <1>2, <1>3, <1>4, <1>5, <1>6, <1>7, <1>8, <1>9 DEF Next, Loop

\* A step that leaves the lists and Close alone, and moves no listed job but
\* from one place at the head to another, keeps LineInv.
LEMMA LineKept ==
  ASSUME TypeOK, LineInv, UNCHANGED <<queues, closed>>,
         \A k \in Job : pc[k] = "queued" => pc'[k] = "queued",
         \A k \in Job : pc[k] \in HeadPlace /\ Queue[k] # NoQueue
                          => pc'[k] \in HeadPlace
  PROVE  LineInv'
<1> SUFFICES ASSUME ~closed, NEW q \in QueueName, NEW i \in 1..Len(queues[q])
             PROVE  /\ Queue[queues[q][i]] = q
                    /\ i = 1 => pc'[queues[q][i]] \in HeadPlace
                    /\ i > 1 => pc'[queues[q][i]] = "queued"
                    /\ \A m \in 1..Len(queues[q]) : queues[q][m] = queues[q][i] => m = i
  BY DEF LineInv, HeadPlace
<1>1. queues[q][i] \in Job
  BY DEF TypeOK
<1>2. /\ Queue[queues[q][i]] = q
      /\ i = 1 => pc[queues[q][i]] \in HeadPlace
      /\ i > 1 => pc[queues[q][i]] = "queued"
      /\ \A m \in 1..Len(queues[q]) : queues[q][m] = queues[q][i] => m = i
  BY DEF LineInv
<1>3. q # NoQueue
  BY JobAssumption DEF JobAssumption
<1>4. i = 1 => pc'[queues[q][i]] \in HeadPlace
  BY <1>1, <1>2, <1>3
<1>5. i > 1 => pc'[queues[q][i]] = "queued"
  BY <1>1, <1>2
<1> QED BY <1>2, <1>4, <1>5

\* Every step keeps the jobs behind a head waiting, each one once.
LEMMA LineStep ==
  TypeOK /\ LocksInv /\ HeadInv /\ LineInv /\ [Next]_vars => LineInv'
<1> SUFFICES ASSUME TypeOK, LocksInv, HeadInv, LineInv, [Next]_vars
             PROVE  LineInv'
  OBVIOUS
<1> USE DEF HeadPlace, OnChannel, Started, Goto
<1>1. CASE LoopCheck \/ LoopWait \/ LoopStop
  BY <1>1, LineKept DEF LoopCheck, LoopWait, LoopStop
<1>2. CASE Shutdown
  <2>1. CASE ShutdownClose
    BY <2>1 DEF ShutdownClose, LineInv
  <2>2. CASE ShutdownTerm \/ ShutdownKill
    BY <2>2, LineKept DEF ShutdownTerm, ShutdownKill, TerminateAll
  <2> QED BY <1>2, <2>1, <2>2 DEF Shutdown
<1>3. ASSUME NEW j \in Job, RunFactory(j) PROVE LineInv'
  BY <1>3, LineKept DEF RunFactory, TypeOK
<1>4. ASSUME NEW j \in Job, Push(j) PROVE LineInv'
  <2>1. CASE PushRefused(j)
    BY <1>4, <2>1, LineKept DEF Push, PushRefused, TypeOK
  <2>2. CASE PushSend(j)
    <3>1. CASE Queue[j] = NoQueue
      <4>1. UNCHANGED <<queues, closed>>
        BY <1>4, <2>2, <3>1 DEF Push, PushSend
      <4> QED BY <1>4, <2>2, <4>1, LineKept DEF Push, PushSend, TypeOK
    <3>2. CASE Queue[j] # NoQueue
      <4>1. /\ Queue[j] \in QueueName
            /\ \A q \in QueueName :
                 queues'[q] = IF q = Queue[j] THEN <<j>> ELSE queues[q]
        BY <2>2, <3>2, JobAssumption DEF JobAssumption, PushSend, TypeOK
      <4>2. \A k \in Job : pc'[k] = IF k = j THEN "offered" ELSE pc[k]
        BY <2>2 DEF PushSend, TypeOK
      <4> SUFFICES ASSUME NEW q \in QueueName, NEW i \in 1..Len(queues'[q])
                   PROVE  /\ Queue[queues'[q][i]] = q
                          /\ i = 1 => pc'[queues'[q][i]] \in HeadPlace
                          /\ i > 1 => pc'[queues'[q][i]] = "queued"
                          /\ \A m \in 1..Len(queues'[q]) :
                               queues'[q][m] = queues'[q][i] => m = i
        BY DEF LineInv
      <4>3. CASE q = Queue[j]
        BY <4>1, <4>2, <4>3
      <4>4. CASE q # Queue[j]
        <5>1. queues'[q] = queues[q] /\ queues[q][i] \in Job
          BY <4>1, <4>4 DEF TypeOK
        <5>2. Queue[queues[q][i]] = q /\ queues[q][i] # j /\ ~closed
          BY <2>2, <4>4, <5>1 DEF LineInv, PushSend
        <5> QED BY <4>2, <5>1, <5>2 DEF LineInv
      <4> QED BY <4>3, <4>4
    <3> QED BY <3>1, <3>2
  <2>3. CASE PushBehind(j)
    <3> DEFINE s == queues[Queue[j]]
    <3>1. Queue[j] \in QueueName /\ s \in Seq(Job) /\ Len(s) >= 1 /\ ~closed
      <4>1. Queue[j] \in QueueName /\ s \in Seq(Job) /\ s # <<>> /\ ~closed
        BY <2>3, JobAssumption DEF JobAssumption, PushBehind, TypeOK
      <4> QED BY <4>1
    <3>2. \A k \in Job : pc'[k] = IF k = j THEN "queued" ELSE pc[k]
      BY <2>3 DEF PushBehind, TypeOK
    <3>3. \A q \in QueueName :
            queues'[q] = IF q = Queue[j] THEN Append(s, j) ELSE queues[q]
      BY <2>3, <3>1 DEF PushBehind, TypeOK
    <3>4. \A q \in QueueName : \A i \in 1..Len(queues[q]) :
            queues[q][i] \in Job /\ queues[q][i] # j
      <4> SUFFICES ASSUME NEW q \in QueueName, NEW i \in 1..Len(queues[q])
                   PROVE  queues[q][i] \in Job /\ queues[q][i] # j
        OBVIOUS
      <4>1. i = 1 \/ i > 1
        OBVIOUS
      <4> QED BY <1>4, <3>1, <4>1 DEF LineInv, Push, TypeOK
    <3> SUFFICES ASSUME NEW q \in QueueName, NEW i \in 1..Len(queues'[q])
                 PROVE  /\ Queue[queues'[q][i]] = q
                        /\ i = 1 => pc'[queues'[q][i]] \in HeadPlace
                        /\ i > 1 => pc'[queues'[q][i]] = "queued"
                        /\ \A m \in 1..Len(queues'[q]) :
                             queues'[q][m] = queues'[q][i] => m = i
      BY DEF LineInv
    <3>5. CASE q # Queue[j]
      BY <3>1, <3>2, <3>3, <3>4, <3>5 DEF LineInv
    <3>6. CASE q = Queue[j]
      <4>1. /\ queues'[q] = Append(s, j)
            /\ Len(queues'[q]) = Len(s) + 1
            /\ queues'[q][Len(s) + 1] = j
            /\ \A m \in 1..Len(s) : queues'[q][m] = s[m]
        <5>1. queues'[q] = Append(s, j)
          BY <3>1, <3>3, <3>6
        <5> QED BY <3>1, <5>1, AppendElements
      <4>2. CASE i = Len(s) + 1
        BY <3>1, <3>2, <3>4, <3>6, <4>1, <4>2
      <4>3. CASE i # Len(s) + 1
        <5>1. i \in 1..Len(s) /\ queues'[q][i] = s[i]
          BY <3>1, <4>1, <4>3
        <5>2. \A m \in 1..Len(queues'[q]) : queues'[q][m] = s[i] => m = i
          BY <3>1, <3>4, <3>6, <4>1, <5>1 DEF LineInv
        <5> QED BY <3>1, <3>2, <3>4, <3>6, <5>1, <5>2 DEF LineInv
      <4> QED BY <4>2, <4>3
    <3> QED BY <3>5, <3>6
  <2> QED BY <1>4, <2>1, <2>2, <2>3 DEF Push
<1>5. ASSUME NEW j \in Job, LoopReceive(j) PROVE LineInv'
  <2>1. UNCHANGED <<queues, closed>> /\ pc[j] \in OnChannel
    BY <1>5 DEF LoopReceive
  <2> QED BY <1>5, <2>1, ReceiveMoves, LineKept
<1>6. ASSUME NEW j \in Job, Start(j) \/ Exit(j) \/ CleanUpDelete(j) PROVE LineInv'
  BY <1>6, LineKept DEF Start, Exit, CleanUpDelete, TypeOK
<1>7. ASSUME NEW j \in Job, Notify(j) PROVE LineInv'
  <2>1. CASE NotifyNothing(j)
    <3>1. CASE closed
      BY <1>7, <3>1 DEF Notify, LineInv
    <3>2. CASE Queue[j] = NoQueue
      BY <1>7, <2>1, <3>2, LineKept DEF Notify, NotifyNothing, TypeOK
    <3> QED BY <2>1, <3>1, <3>2 DEF NotifyNothing
  <2>2. CASE NotifyLast(j)
    <3>1. /\ Queue[j] \in QueueName /\ ~closed
          /\ \A q \in QueueName :
               queues'[q] = IF q = Queue[j] THEN <<>> ELSE queues[q]
      BY <2>2, JobAssumption DEF JobAssumption, NotifyLast, TypeOK
    <3>2. \A k \in Job : pc'[k] = IF k = j THEN "waking" ELSE pc[k]
      BY <2>2 DEF NotifyLast, TypeOK
    <3> SUFFICES ASSUME NEW q \in QueueName, NEW i \in 1..Len(queues'[q])
                 PROVE  /\ Queue[queues'[q][i]] = q
                        /\ i = 1 => pc'[queues'[q][i]] \in HeadPlace
                        /\ i > 1 => pc'[queues'[q][i]] = "queued"
                        /\ \A m \in 1..Len(queues'[q]) :
                             queues'[q][m] = queues'[q][i] => m = i
      BY DEF LineInv
    <3>3. q # Queue[j]
      BY <3>1
    <3>4. queues'[q] = queues[q] /\ queues[q][i] \in Job
      BY <3>1, <3>3 DEF TypeOK
    <3>5. queues[q][i] # j
      BY <3>1, <3>3, <3>4 DEF LineInv
    <3> QED BY <3>1, <3>2, <3>4, <3>5 DEF LineInv
  <2>3. CASE NotifyNext(j)
    <3> DEFINE s == queues[Queue[j]]
               next == s[2]
    <3>1. /\ Queue[j] \in QueueName /\ s \in Seq(Job) /\ Len(s) > 1
          /\ next \in Job /\ next # j /\ Queue[next] = Queue[j]
          /\ ~closed /\ pc[j] = "deleted"
      BY <1>7, <2>3, NextWaits DEF Notify, NotifyNext
    <3>2. \A k \in Job : pc'[k] = IF k = next THEN "handed"
                                  ELSE IF k = j THEN "notifying" ELSE pc[k]
      BY <1>7, <2>3, NextWaits
    <3>3. \A q \in QueueName :
            queues'[q] = IF q = Queue[j] THEN Tail(s) ELSE queues[q]
      BY <2>3, <3>1 DEF NotifyNext, TypeOK
    <3> SUFFICES ASSUME NEW q \in QueueName, NEW i \in 1..Len(queues'[q])
                 PROVE  /\ Queue[queues'[q][i]] = q
                        /\ i = 1 => pc'[queues'[q][i]] \in HeadPlace
                        /\ i > 1 => pc'[queues'[q][i]] = "queued"
                        /\ \A m \in 1..Len(queues'[q]) :
                             queues'[q][m] = queues'[q][i] => m = i
      BY DEF LineInv
    <3>4. CASE q # Queue[j]
      <4>1. queues'[q] = queues[q] /\ queues[q][i] \in Job
        BY <3>3, <3>4 DEF TypeOK
      <4>2. queues[q][i] # j /\ queues[q][i] # next
        BY <3>1, <3>4, <4>1 DEF LineInv
      <4> QED BY <3>1, <3>2, <4>1, <4>2 DEF LineInv
    <3>5. CASE q = Queue[j]
      <4>1. /\ queues'[q] = Tail(s)
            /\ Len(queues'[q]) = Len(s) - 1
            /\ \A m \in 1..Len(s) - 1 : queues'[q][m] = s[m + 1]
        <5>1. queues'[q] = Tail(s)
          BY <3>1, <3>3, <3>5
        <5> QED BY <3>1, <5>1, TailElements
      <4>2. /\ i + 1 \in 1..Len(s) /\ i + 1 > 1 /\ 2 \in 1..Len(s)
            /\ queues'[q][i] = s[i + 1] /\ s[i + 1] \in Job
        BY <3>1, <4>1
      <4>3. /\ Queue[s[i + 1]] = q /\ pc[s[i + 1]] = "queued"
            /\ s[i + 1] = next => i + 1 = 2
        BY <3>1, <3>5, <4>2 DEF LineInv
      <4>4. \A m \in 1..Len(queues'[q]) : queues'[q][m] = queues'[q][i] => m = i
        <5> SUFFICES ASSUME NEW m \in 1..Len(queues'[q]), queues'[q][m] = queues'[q][i]
                     PROVE  m = i
          OBVIOUS
        <5>1. m + 1 \in 1..Len(s) /\ s[m + 1] = s[i + 1]
          BY <3>1, <4>1, <4>2
        <5>2. m + 1 = i + 1
          BY <3>1, <4>2, <5>1 DEF LineInv
        <5> QED BY <4>1, <5>2
      <4>5. i = 1 => pc'[s[i + 1]] = "handed"
        BY <3>1, <3>2, <4>2
      <4>6. i > 1 => pc'[s[i + 1]] = "queued"
        BY <3>1, <3>2, <4>2, <4>3
      <4> QED BY <4>2, <4>3, <4>4, <4>5, <4>6
    <3> QED BY <3>4, <3>5
  <2> QED BY <1>7, <2>1, <2>2, <2>3 DEF Notify
<1>8. ASSUME NEW j \in Job, Broadcast(j) \/ Kill(j) PROVE LineInv'
  BY <1>8, LineKept DEF Broadcast, Kill, TypeOK
<1>9. CASE UNCHANGED vars
  BY <1>9, LineKept DEF vars
<1> QED BY <1>1, <1>2, <1>3, <1>4, <1>5, <1>6, <1>7, <1>8, <1>9 DEF Next, Loop

\* A slot is free from loop()'s test to its next receive: only a receive makes
\* a job active, and what loop() counts includes every active job.
LEMMA SlotStep ==
  TypeOK /\ LocksInv /\ LineInv /\ MapAccurate /\ SlotInv /\ [Next]_vars => SlotInv'
<1> SUFFICES ASSUME TypeOK, LocksInv, LineInv, MapAccurate, SlotInv, [Next]_vars
             PROVE  SlotInv'
  OBVIOUS
<1> USE DEF Active, Started, Goto
<1>1. IsFiniteSet(Active) /\ Cardinality(Active) \in Nat
  BY JobAssumption, FS_Subset, FS_CardinalityType DEF JobAssumption
<1>2. MaxJobs \in Nat
  BY JobAssumption DEF JobAssumption
<1>3. ASSUME Active' \subseteq Active, loop' = "recv" => loop = "recv"
      PROVE  SlotInv'
  <2>1. Cardinality(Active') \in Nat /\ Cardinality(Active') <= Cardinality(Active)
    BY <1>1, <1>3, FS_Subset, FS_CardinalityType
  <2> HIDE DEF Active
  <2> QED BY <1>1, <1>2, <1>3, <2>1 DEF SlotInv, ConcurrencyBound
<1>4. CASE LoopCheck
  <2>1. Active \subseteq jobs /\ IsFiniteSet(jobs) /\ jobs \subseteq Job
    BY JobAssumption, FS_Subset DEF JobAssumption, MapAccurate, TypeOK
  <2>2. Cardinality(Active) <= Cardinality(jobs) /\ Cardinality(jobs) \in Nat
    BY <2>1, FS_Subset, FS_CardinalityType
  <2>3. Active' = Active
    BY <1>4 DEF LoopCheck
  <2> HIDE DEF Active
  <2>4. loop' = "recv" => Cardinality(Active) < MaxJobs
    BY <1>1, <1>2, <1>4, <2>2 DEF LoopCheck
  <2> QED BY <2>3, <2>4 DEF SlotInv, ConcurrencyBound
<1>5. CASE LoopWait \/ LoopStop
  BY <1>3, <1>5 DEF LoopWait, LoopStop
<1>6. CASE Shutdown
  BY <1>3, <1>6 DEF Shutdown, ShutdownClose, ShutdownTerm, ShutdownKill, TerminateAll
<1>7. ASSUME NEW j \in Job, RunFactory(j) PROVE SlotInv'
  BY <1>3, <1>7 DEF RunFactory, TypeOK
<1>8. ASSUME NEW j \in Job, Push(j) PROVE SlotInv'
  BY <1>3, <1>8 DEF Push, PushRefused, PushSend, PushBehind, TypeOK
<1>9. ASSUME NEW j \in Job, LoopReceive(j) PROVE SlotInv'
  <2>1. loop = "recv" /\ loop' = "check"
    BY <1>9 DEF LoopReceive
  <2>2. Active' = Active \cup {j}
    BY <1>9, ReceiveMoves
  <2> HIDE DEF Active
  <2>3. /\ IsFiniteSet(Active \cup {j})
        /\ \/ Cardinality(Active \cup {j}) = Cardinality(Active)
           \/ Cardinality(Active \cup {j}) = Cardinality(Active) + 1
    BY <1>1, FS_AddElement
  <2>4. Cardinality(Active') <= MaxJobs
    BY <1>1, <1>2, <2>1, <2>2, <2>3 DEF SlotInv
  <2> QED BY <2>1, <2>4 DEF SlotInv, ConcurrencyBound
<1>10. ASSUME NEW j \in Job, Start(j) \/ Exit(j) \/ CleanUpDelete(j) PROVE SlotInv'
  BY <1>3, <1>10 DEF Start, Exit, CleanUpDelete, TypeOK
<1>11. ASSUME NEW j \in Job, Notify(j) PROVE SlotInv'
  <2>1. loop' = loop
    BY <1>11 DEF Notify
  <2>2. CASE NotifyNothing(j) \/ NotifyLast(j)
    BY <1>3, <2>1, <2>2 DEF NotifyNothing, NotifyLast, TypeOK
  <2>3. CASE NotifyNext(j)
    BY <1>3, <1>11, <2>1, <2>3, NextWaits
  <2> QED BY <1>11, <2>2, <2>3 DEF Notify
<1>12. ASSUME NEW j \in Job, Broadcast(j) \/ Kill(j) PROVE SlotInv'
  BY <1>3, <1>12 DEF Broadcast, Kill, TypeOK
<1>13. CASE UNCHANGED vars
  BY <1>3, <1>13 DEF vars
<1> QED
  BY <1>4, <1>5, <1>6, <1>7, <1>8, <1>9, <1>10, <1>11, <1>12, <1>13 DEF Next, Loop

\* The inductive invariant holds at the start.
LEMMA InvInit == Init => IInv
<1> SUFFICES ASSUME Init PROVE IInv
  OBVIOUS
<1>1. TypeOK
  BY TypeInit
<1>2. LocksInv /\ MapAccurate /\ HeadInv
  BY JobAssumption DEF Init, LocksInv, MapAccurate, HeadInv, HeadPlace, Pending,
     OnChannel, Started, JobAssumption
<1>3. LineInv
  BY DEF Init, LineInv
<1>4. SlotInv
  <2>1. Active = {}
    BY DEF Init, Active, Started
  <2> QED BY <2>1, FS_EmptySet, JobAssumption DEF Init, SlotInv, ConcurrencyBound, JobAssumption
<1> QED BY <1>1, <1>2, <1>3, <1>4 DEF IInv

LEMMA InvStep == IInv /\ [Next]_vars => IInv'
  BY TypeStep, LocksStep, MapStep, HeadStep, LineStep, SlotStep DEF IInv

\* The process manager keeps its inductive invariant: locks, map, lists, slots.
THEOREM Invariant == Spec => []IInv
  BY InvInit, InvStep, PTL DEF Spec

\* loop() never lets more than MaxJobs jobs live at once (pm.go, loop).
THEOREM BoundHolds == Spec => []ConcurrencyBound
<1>1. IInv => ConcurrencyBound
  BY DEF IInv, SlotInv
<1> QED BY <1>1, Invariant, PTL

\* Two jobs of one named queue are never started together (queue.go).
THEOREM ExclusionHolds == Spec => []QueueExclusion
<1>1. IInv => QueueExclusion
  <2> SUFFICES ASSUME HeadInv PROVE QueueExclusion
    BY DEF IInv
  <2> QED BY DEF HeadInv, QueueExclusion, HeadPlace
<1> QED BY <1>1, Invariant, PTL

\* The jobs map is accurate in every state (pm.go, RunFactory and cleanUp).
THEOREM MapHolds == Spec => []MapAccurate
<1>1. IInv => MapAccurate
  BY DEF IInv
<1> QED BY <1>1, Invariant, PTL

\* How far Shutdown has come, and whom it has reached.
ShutdownInv ==
  /\ shutdown = "none" <=> ~closed
  /\ shutdown = "done" => \A j \in Job :
       /\ pc[j] # "spawned"
       /\ pc[j] = "running" => j \in signaled \/ Id[j] \in Except

LEMMA ShutdownStep == IInv /\ ShutdownInv /\ [Next]_vars => ShutdownInv'
<1> SUFFICES ASSUME TypeOK, LocksInv, LineInv, MapAccurate, ShutdownInv, [Next]_vars
             PROVE  ShutdownInv'
  BY DEF IInv
<1> USE DEF ShutdownInv, Goto
<1>1. CASE LoopCheck \/ LoopWait \/ LoopStop
  BY <1>1 DEF LoopCheck, LoopWait, LoopStop
<1>2. CASE Shutdown
  BY <1>2 DEF Shutdown, ShutdownClose, ShutdownTerm, ShutdownKill, TerminateAll,
     MapAccurate, Started, TypeOK
<1>3. ASSUME NEW j \in Job, RunFactory(j) PROVE ShutdownInv'
  BY <1>3 DEF RunFactory, TypeOK
<1>4. ASSUME NEW j \in Job, Push(j) PROVE ShutdownInv'
  BY <1>4 DEF Push, PushRefused, PushSend, PushBehind, TypeOK
<1>5. ASSUME NEW j \in Job, LoopReceive(j) PROVE ShutdownInv'
  <2>1. ~closed /\ closed' = closed /\ shutdown' = shutdown
    BY <1>5, JobAssumption DEF LoopReceive, OnChannel, LocksInv, JobAssumption
  <2> QED BY <2>1 DEF TypeOK
<1>6. ASSUME NEW j \in Job, Start(j) \/ Exit(j) \/ CleanUpDelete(j) PROVE ShutdownInv'
  BY <1>6 DEF Start, Exit, CleanUpDelete, TypeOK
<1>7. ASSUME NEW j \in Job, Notify(j) PROVE ShutdownInv'
  <2>1. UNCHANGED <<closed, shutdown, signaled>>
    BY <1>7 DEF Notify
  <2>2. CASE NotifyNothing(j) \/ NotifyLast(j)
    BY <2>1, <2>2 DEF NotifyNothing, NotifyLast, TypeOK
  <2>3. CASE NotifyNext(j)
    BY <1>7, <2>1, <2>3, NextWaits
  <2> QED BY <1>7, <2>2, <2>3 DEF Notify
<1>8. ASSUME NEW j \in Job, Broadcast(j) \/ Kill(j) PROVE ShutdownInv'
  BY <1>8 DEF Broadcast, Kill, TypeOK
<1>9. CASE UNCHANGED vars
  BY <1>9 DEF vars
<1> QED BY <1>1, <1>2, <1>3, <1>4, <1>5, <1>6, <1>7, <1>8, <1>9 DEF Next, Loop

\* Shutdown leaves no job behind that it was not told to leave (pm.go).
THEOREM ShutdownHolds == Spec => []ShutdownReaches
<1>1. Init => ShutdownInv
  BY DEF Init, ShutdownInv
<1>2. IInv /\ ShutdownInv => ShutdownReaches
  BY JobAssumption DEF IInv, ShutdownInv, ShutdownReaches, LocksInv, OnChannel, JobAssumption
<1> QED BY <1>1, <1>2, Invariant, ShutdownStep, PTL DEF Spec

-----------------------------------------------------------------------------
(***************************************************************************)
(* JobManager implements JobSchedule.                                      *)
(***************************************************************************)

\* The abstract status of every place.
LEMMA StatusOf ==
  /\ StatusAt("new") = "new" /\ StatusAt("locked") = "new"
  /\ StatusAt("refused") = "refused"
  /\ \A p \in OnChannel \cup {"queued"} : StatusAt(p) = "waiting"
  /\ \A p \in Started : StatusAt(p) = "active"
  /\ \A p \in Place : StatusAt(p) = "active" => p \in Started
  /\ \A p \in Place : StatusAt(p) = "waiting" => p \in OnChannel \cup {"queued"}
  /\ StatusAt("deleted") = "finished"
  /\ \A p \in {"notifying", "waking", "done"} : StatusAt(p) = "gone"
  BY DEF StatusAt, Started, OnChannel, Place

\* When one job's status is all that changes, the schedule sees it move.
LEMMA Moves ==
  ASSUME NEW j \in Job, NEW s,
         \A k \in Job : StatusAt(pc'[k]) = IF k = j THEN s ELSE StatusAt(pc[k])
  PROVE  Schedule!Become(j, s)
  BY DEF Schedule!Become

\* A step in which no status changes is one the schedule does not see.
LEMMA Stutters ==
  ASSUME \A k \in Job : StatusAt(pc'[k]) = StatusAt(pc[k]),
         UNCHANGED <<queues, closed>>
  PROVE  UNCHANGED Schedule!vars
  BY DEF Schedule!vars

LEMMA SubmitRefines ==
  ASSUME IInv, NEW j \in Job, Push(j), PushSend(j) \/ PushBehind(j)
  PROVE  Schedule!Submit(j)
<1> USE DEF IInv
<1>1. pc[j] = "locked" /\ ~closed /\ closed' = closed
  BY DEF Push, PushSend, PushBehind
<1>2. \A k \in Job : pc'[k] = IF k = j THEN pc'[j] ELSE pc[k]
  BY DEF PushSend, PushBehind, Goto, TypeOK
<1>3. pc'[j] \in OnChannel \cup {"queued"}
  BY DEF PushSend, PushBehind, Goto, TypeOK, OnChannel
<1>4. Schedule!Become(j, "waiting")
  BY <1>2, <1>3, StatusOf, Moves
<1>5. ~Schedule!IdInUse(j)
  <2> SUFFICES ASSUME NEW k \in Job, Id[k] = Id[j],
                      StatusAt(pc[k]) \in {"waiting", "active"}
               PROVE  FALSE
    BY DEF Schedule!IdInUse
  <2>1. pc[k] \in OnChannel \cup {"queued"} \cup Started
    BY StatusOf DEF TypeOK
  <2>2. k \in jobs /\ j \in jobs
    BY <1>1, <2>1 DEF MapAccurate, Pending
  <2>3. k = j
    BY <2>2 DEF MapAccurate
  <2> QED BY <1>1, <2>1, <2>3 DEF OnChannel, Started
<1>6. queues' = IF Queue[j] = NoQueue THEN queues
                ELSE [queues EXCEPT ![Queue[j]] = Append(@, j)]
  <2>1. CASE PushSend(j)
    <3>1. Append(<<>>, j) = <<j>>
      OBVIOUS
    <3>2. CASE Queue[j] = NoQueue
      BY <2>1, <3>2 DEF PushSend
    <3>3. CASE Queue[j] # NoQueue
      BY <2>1, <3>1, <3>3 DEF PushSend
    <3> QED BY <3>2, <3>3
  <2>2. CASE PushBehind(j)
    BY <2>2 DEF PushBehind
  <2> QED BY <2>1, <2>2
<1> QED BY <1>1, <1>4, <1>5, <1>6, StatusOf DEF Schedule!Submit

LEMMA StartRefines ==
  ASSUME IInv, NEW j \in Job, LoopReceive(j)
  PROVE  Schedule!Start(j)
<1> USE DEF IInv
<1>1. /\ ~closed /\ UNCHANGED <<queues, closed>>
      /\ pc[j] \in OnChannel /\ loop = "recv"
  BY JobAssumption DEF LoopReceive, OnChannel, LocksInv, JobAssumption
<1>2. \A k \in Job : StatusAt(pc'[k]) = IF k = j THEN "active" ELSE StatusAt(pc[k])
  BY ReceiveMoves, StatusOf DEF Started
<1>3. Schedule!Become(j, "active")
  BY <1>2, Moves
<1>4. Schedule!Cardinality(Schedule!ActiveJobs) < MaxJobs
  <2>1. Schedule!ActiveJobs = Active
    BY StatusOf DEF Schedule!ActiveJobs, Active, TypeOK
  <2>2. Schedule!Cardinality(Active) = Cardinality(Active)
    BY DEF Cardinality, Schedule!Cardinality
  <2> QED BY <1>1, <2>1, <2>2 DEF SlotInv
<1>5. Queue[j] # NoQueue => queues[Queue[j]] # <<>> /\ Head(queues[Queue[j]]) = j
  <2> SUFFICES ASSUME Queue[j] # NoQueue
               PROVE  queues[Queue[j]] # <<>> /\ Head(queues[Queue[j]]) = j
    OBVIOUS
  <2>1. queues[Queue[j]] # <<>> /\ queues[Queue[j]][1] = j
    BY <1>1 DEF HeadInv, HeadPlace
  <2>2. queues[Queue[j]] \in Seq(Job)
    BY JobAssumption DEF JobAssumption, TypeOK
  <2> QED BY <2>1, <2>2
<1>6. StatusAt(pc[j]) = "waiting"
  BY <1>1, StatusOf
<1> QED BY <1>1, <1>3, <1>4, <1>5, <1>6 DEF Schedule!Start

LEMMA LeaveRefines ==
  ASSUME IInv, NEW j \in Job, Notify(j)
  PROVE  Schedule!Leave(j)
<1> USE DEF IInv
<1>1. pc[j] = "deleted" /\ closed' = closed
  BY DEF Notify
<1>2. \A k \in Job : StatusAt(pc'[k]) = IF k = j THEN "gone" ELSE StatusAt(pc[k])
  <2>1. CASE NotifyNothing(j) \/ NotifyLast(j)
    BY <2>1, StatusOf DEF NotifyNothing, NotifyLast, Goto, TypeOK
  <2>2. CASE NotifyNext(j)
    <3>1. /\ \A k \in Job : pc'[k] = IF k = queues[Queue[j]][2] THEN "handed"
                                     ELSE IF k = j THEN "notifying" ELSE pc[k]
          /\ pc[queues[Queue[j]][2]] = "queued" /\ queues[Queue[j]][2] # j
      BY <2>2, NextWaits
    <3> QED BY <3>1, StatusOf DEF OnChannel
  <2> QED BY <2>1, <2>2 DEF Notify
<1>3. Schedule!Become(j, "gone")
  BY <1>2, Moves
<1>4. queues' = IF ~closed /\ Queue[j] # NoQueue
                THEN [queues EXCEPT ![Queue[j]] = Tail(@)] ELSE queues
  <2>1. CASE NotifyNothing(j)
    BY <2>1 DEF NotifyNothing
  <2>2. CASE NotifyLast(j)
    <3>1. queues[Queue[j]] \in Seq(Job) /\ Len(queues[Queue[j]]) = 1
      BY <2>2, JobAssumption DEF NotifyLast, JobAssumption, TypeOK
    <3>2. Tail(queues[Queue[j]]) \in Seq(Job) /\ Len(Tail(queues[Queue[j]])) = 0
      BY <3>1, TailElements
    <3>3. Tail(queues[Queue[j]]) = <<>>
      BY <3>2, EmptySeq
    <3> QED BY <2>2, <3>3 DEF NotifyLast
  <2>3. CASE NotifyNext(j)
    BY <2>3 DEF NotifyNext
  <2> QED BY <2>1, <2>2, <2>3 DEF Notify
<1> QED BY <1>1, <1>3, <1>4, StatusOf DEF Schedule!Leave

\* Every step of the manager is a step of the schedule, or none.
LEMMA StepRefines ==
  IInv /\ [Next]_vars => [Schedule!Next]_(Schedule!vars)
<1> SUFFICES ASSUME IInv, [Next]_vars
             PROVE  Schedule!Next \/ UNCHANGED Schedule!vars
  OBVIOUS
<1> USE DEF Goto
<1>1. CASE LoopCheck \/ LoopWait \/ LoopStop
  BY <1>1, Stutters DEF LoopCheck, LoopWait, LoopStop
<1>2. CASE ShutdownClose
  BY <1>2 DEF ShutdownClose, Schedule!Next, Schedule!Close
<1>3. CASE ShutdownTerm \/ ShutdownKill
  BY <1>3, Stutters DEF ShutdownTerm, ShutdownKill, TerminateAll
<1>4. ASSUME NEW j \in Job, RunFactory(j)
      PROVE  Schedule!Next \/ UNCHANGED Schedule!vars
  <2>1. pc[j] = "new" /\ UNCHANGED <<queues, closed>>
    BY <1>4 DEF RunFactory
  <2>2. CASE pc' = [pc EXCEPT ![j] = "refused"]
    <3>1. Schedule!Become(j, "refused")
      BY <2>2, StatusOf, Moves DEF IInv, TypeOK
    <3>2. Schedule!Refuse(j)
      BY <2>1, <3>1, StatusOf DEF Schedule!Refuse
    <3> QED BY <3>2 DEF Schedule!Next
  <2>3. CASE pc' = [pc EXCEPT ![j] = "locked"]
    BY <2>1, <2>3, StatusOf, Stutters DEF IInv, TypeOK
  <2> QED BY <1>4, <2>2, <2>3 DEF RunFactory
<1>5. ASSUME NEW j \in Job, Push(j)
      PROVE  Schedule!Next
  <2>1. CASE PushRefused(j)
    <3>1. pc[j] = "locked" /\ UNCHANGED <<queues, closed>>
      BY <1>5, <2>1 DEF Push, PushRefused
    <3>2. Schedule!Become(j, "refused")
      BY <2>1, <3>1, StatusOf, Moves DEF PushRefused, IInv, TypeOK
    <3>3. Schedule!Refuse(j)
      BY <3>1, <3>2, StatusOf DEF Schedule!Refuse
    <3> QED BY <3>3 DEF Schedule!Next
  <2>2. CASE PushSend(j) \/ PushBehind(j)
    BY <1>5, <2>2, SubmitRefines DEF Schedule!Next
  <2> QED BY <1>5, <2>1, <2>2 DEF Push
<1>6. ASSUME NEW j \in Job, LoopReceive(j) PROVE Schedule!Next
  BY <1>6, StartRefines DEF Schedule!Next
<1>7. ASSUME NEW j \in Job, Start(j) \/ Exit(j)
      PROVE  UNCHANGED Schedule!vars
  BY <1>7, StatusOf, Stutters DEF Start, Exit, Started, IInv, TypeOK
<1>8. ASSUME NEW j \in Job, CleanUpDelete(j) PROVE Schedule!Next
  <2>1. pc[j] = "exited" /\ UNCHANGED <<queues, closed>>
    BY <1>8 DEF CleanUpDelete
  <2>2. Schedule!Become(j, "finished")
    BY <1>8, StatusOf, Moves DEF CleanUpDelete, IInv, TypeOK
  <2>3. Schedule!Finish(j)
    BY <2>1, <2>2, StatusOf DEF Schedule!Finish, Started
  <2> QED BY <2>3 DEF Schedule!Next
<1>9. ASSUME NEW j \in Job, Notify(j) PROVE Schedule!Next
  BY <1>9, LeaveRefines DEF Schedule!Next
<1>10. ASSUME NEW j \in Job, Broadcast(j)
       PROVE  UNCHANGED Schedule!vars
  BY <1>10, StatusOf, Stutters DEF Broadcast, IInv, TypeOK
<1>11. ASSUME NEW j \in Job, Kill(j)
       PROVE  UNCHANGED Schedule!vars
  BY <1>11, Stutters DEF Kill
<1>12. CASE UNCHANGED vars
  BY <1>12, Stutters DEF vars
<1> QED
  BY <1>1, <1>2, <1>3, <1>4, <1>5, <1>6, <1>7, <1>8, <1>9, <1>10, <1>11, <1>12
  DEF Next, Loop, Shutdown

\* pm.go and queue.go together do what JobSchedule promises.
THEOREM Implements == Spec => ImplementsSchedule
<1>1. Init => Schedule!Init
  BY StatusOf DEF Init, Schedule!Init
<1> QED BY <1>1, Invariant, StepRefines, PTL DEF Spec, ImplementsSchedule, Schedule!Spec
=============================================================================
