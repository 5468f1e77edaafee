----------------------------- MODULE ServiceProofs --------------------------
(***************************************************************************)
(* What holds of services as they are started, for any services and any    *)
(* configurations (Startup), and of the job that one of them is, for any   *)
(* command, any number of callers and any signal channel (Job).            *)
(***************************************************************************)
EXTENDS Startup, Job, SequenceTheorems, TLAPS

-----------------------------------------------------------------------------
(* The start of services *)

\* A service whose goroutine still waits has neither been reported nor run ...
Quiet ==
  \A s \in Service :
    place[s] \in {"out", "waiting"} =>
      /\ ~closed[s] /\ job[s] = "none" /\ ~tick[s]
      /\ place[s] = "out" => next[s] = 1

\* ... so that its slice is not over.
Here ==
  \A s \in Service : place[s] = "waiting" => stage # Booted /\ s \in SliceOf(stage)

Sure == \A s \in Service : verdict[s] => ran[s]

\* What the goroutine has read is true of every dependency it has passed.
Passed(s, i) ==
  \A k \in 1..(next[s] - 1) :
    conf.after[s][k] \in SliceOf(i) => ran[conf.after[s][k]]

Read ==
  \A s \in Service : place[s] = "waiting" /\ ok[s] => Passed(s, stage)

\* And when it has passed them all and submitted, it is so for good.
Started ==
  \A s \in Service : place[s] = "submitted" =>
    /\ next[s] > Len(conf.after[s])
    /\ \A i \in Stages : s \in SliceOf(i) => Passed(s, i)

WaitInv == Quiet /\ Here /\ Sure /\ Read /\ Started

\* The slices before the current one are reported, those after it untouched.
StageInv ==
  /\ \A i \in Stages : i < stage => \A s \in SliceOf(i) : closed[s]
  /\ \A j \in Stages : stage < j => \A s \in SliceOf(j) : place[s] = "out"

LEMMA TreeType == Sound(conf.after) \subseteq Service
  BY DEF Sound

LEMMA AfterType ==
  ASSUME conf \in Confs, NEW s \in Service
  PROVE  conf.after[s] \in Seq(Name) /\ Len(conf.after[s]) \in Nat
<1>1. conf.after[s] \in Seq(Name)
  BY StartupAssumption DEF StartupAssumption
<1> QED BY <1>1

LEMMA TypeInit == Init => TypeOK
<1> SUFFICES ASSUME Init PROVE TypeOK
  OBVIOUS
<1>1. conf \in Confs
  BY DEF Init
<1>2. tree \subseteq Service
  BY TreeType DEF Init
<1>3. \A s \in Service : next[s] \in 1..(Len(conf.after[s]) + 1)
  BY <1>1, AfterType DEF Init
<1>4. next \in [Service -> Nat]
  BY DEF Init
<1>5. stage \in 1..Booted /\ weight = Weight(conf.after)
  BY DEF Init, Booted
<1> QED BY <1>1, <1>2, <1>3, <1>4, <1>5 DEF Init, TypeOK

LEMMA ReleaseType ==
  ASSUME TypeOK, NEW s \in Service, NEW b \in BOOLEAN, Release(s, b)
  PROVE  /\ closed' \in [Service -> BOOLEAN]
         /\ verdict' \in [Service -> BOOLEAN]
         /\ ran' \in [Service -> BOOLEAN]
  BY DEF TypeOK, Release

LEMMA RunSliceType ==
  ASSUME TypeOK, NEW s \in Service, RunSlice(s)
  PROVE  TypeOK'
<1>1. CASE Launch(s)
  BY <1>1 DEF Launch, Move, TypeOK, boot, machine, jobs
<1>2. CASE Skip(s) \/ GiveUp(s) \/ Refuse(s)
  <2>1. Release(s, FALSE)
    BY <1>2 DEF Skip, GiveUp, Refuse
  <2>2. /\ closed' \in [Service -> BOOLEAN]
        /\ verdict' \in [Service -> BOOLEAN]
        /\ ran' \in [Service -> BOOLEAN]
    BY <2>1, ReleaseType
  <2> QED BY <1>2, <2>2 DEF Skip, GiveUp, Refuse, Move, TypeOK, boot, jobs
<1>3. CASE Wait(s)
  <2>1. conf \in Confs /\ Len(conf.after[s]) \in Nat
    BY AfterType DEF TypeOK
  <2>2. next[s] \in Nat /\ next[s] >= 1 /\ next[s] <= Len(conf.after[s])
    BY <1>3, <2>1 DEF Wait, Waiting, TypeOK
  <2>3. next' = [next EXCEPT ![s] = next[s] + 1]
    BY <1>3 DEF Wait
  <2>4. next' \in [Service -> Nat]
    BY <2>2, <2>3 DEF TypeOK
  <2>5. conf' = conf
    BY <1>3 DEF Wait, boot
  <2>6. \A t \in Service : next'[t] \in 1..(Len(conf'.after[t]) + 1)
    <3>1. next'[s] \in 1..(Len(conf.after[s]) + 1)
      BY <2>1, <2>2, <2>3 DEF TypeOK
    <3>2. \A t \in Service : t # s => next'[t] = next[t]
      BY <2>3 DEF TypeOK
    <3> QED BY <2>5, <3>1, <3>2 DEF TypeOK
  <2>7. ok' \in [Service -> BOOLEAN]
    <3>1. PICK b : ok' = [ok EXCEPT ![s] = ok[s] /\ b]
      BY <1>3 DEF Wait
    <3> QED BY <3>1, Zenon DEF TypeOK
  <2> QED BY <1>3, <2>4, <2>6, <2>7 DEF Wait, TypeOK, boot, machine, jobs
<1>4. CASE Submit(s)
  BY <1>4 DEF Submit, Move, TypeOK, boot, machine
<1> QED BY <1>1, <1>2, <1>3, <1>4 DEF RunSlice

LEMMA JobType ==
  ASSUME TypeOK, NEW s \in Service, Job(s)
  PROVE  TypeOK'
<1>1. CASE Match(s) \/ TickRelease(s)
  <2>1. Release(s, TRUE)
    BY <1>1 DEF Match, TickRelease
  <2>2. /\ closed' \in [Service -> BOOLEAN]
        /\ verdict' \in [Service -> BOOLEAN]
        /\ ran' \in [Service -> BOOLEAN]
    BY <2>1, ReleaseType
  <2> QED BY <1>1, <2>2 DEF Match, TickRelease, TypeOK, boot, runslice
<1>2. CASE Tick(s) \/ RunAgain(s)
  BY <1>2 DEF Tick, RunAgain, TypeOK, boot, runslice, machine
<1>3. CASE RunEnds(s)
  BY <1>3 DEF RunEnds, TypeOK, boot, runslice, machine
<1>4. CASE ExitHook(s)
  <2>1. /\ closed' \in [Service -> BOOLEAN]
        /\ verdict' \in [Service -> BOOLEAN]
        /\ ran' \in [Service -> BOOLEAN]
    <3>1. CASE told[s]
      BY <1>4, <3>1 DEF ExitHook, machine, TypeOK
    <3>2. CASE ~told[s]
      <4>1. Release(s, success[s]) /\ success[s] \in BOOLEAN
        BY <1>4, <3>2 DEF ExitHook, TypeOK
      <4> QED BY <4>1, ReleaseType
    <3> QED BY <3>1, <3>2
  <2> QED BY <1>4, <2>1 DEF ExitHook, TypeOK, boot, runslice
<1> QED BY <1>1, <1>2, <1>3, <1>4 DEF Job

LEMMA TypeStep == TypeOK /\ [Next]_vars => TypeOK'
<1> SUFFICES ASSUME TypeOK, [Next]_vars PROVE TypeOK'
  OBVIOUS
<1>1. CASE SliceOver
  <2>1. stage' \in 1..Booted
    BY <1>1 DEF SliceOver, TypeOK, Booted
  <2> QED BY <1>1, <2>1 DEF SliceOver, TypeOK, runslice, machine, jobs
<1>2. CASE UNCHANGED vars
  BY <1>2 DEF vars, boot, runslice, machine, jobs, TypeOK
<1> QED BY <1>1, <1>2, RunSliceType, JobType DEF Next

\* Every variable of the boot keeps its type.
THEOREM TypeCorrect == Spec => []TypeOK
  BY TypeInit, TypeStep, PTL DEF Spec

LEMMA SlicesDisjoint ==
  ASSUME TypeOK, NEW i \in Stages, NEW j \in Stages,
         NEW s \in SliceOf(i), s \in SliceOf(j)
  PROVE  i = j
<1>1. weight[s] \in Int
  BY WeightAssumption DEF WeightAssumption, TypeOK, SliceOf
<1>2. Bound = <<1, 1000, 1000000, -1>>
  BY DEF Bound, Priority, ToTheEnd
<1>3. \/ i = 1 /\ weight[s] >= 1 /\ weight[s] < 1000
      \/ i = 2 /\ weight[s] >= 1000 /\ weight[s] < 1000000
      \/ i = 3 /\ weight[s] >= 1000000
  BY <1>1, <1>2 DEF SliceOf, Stages, ToTheEnd
<1>4. \/ j = 1 /\ weight[s] >= 1 /\ weight[s] < 1000
      \/ j = 2 /\ weight[s] >= 1000 /\ weight[s] < 1000000
      \/ j = 3 /\ weight[s] >= 1000000
  BY <1>1, <1>2 DEF SliceOf, Stages, ToTheEnd
<1> QED BY <1>1, <1>3, <1>4

LEMMA SliceInService ==
  ASSUME TypeOK, NEW i PROVE SliceOf(i) \subseteq Service
  BY DEF TypeOK, SliceOf

LEMMA SliceOfSame ==
  ASSUME UNCHANGED boot PROVE \A i : SliceOf(i)' = SliceOf(i)
  BY DEF boot, SliceOf

LEMMA RanStays == TypeOK /\ [Next]_vars => \A s \in Service : ran[s] => ran'[s]
<1> SUFFICES ASSUME TypeOK, [Next]_vars PROVE \A s \in Service : ran[s] => ran'[s]
  OBVIOUS
<1>1. ASSUME NEW t \in Service, NEW b, Release(t, b)
      PROVE  \A s \in Service : ran[s] => ran'[s]
  BY <1>1 DEF Release, TypeOK
<1>2. CASE UNCHANGED ran
  BY <1>2
<1>3. ASSUME NEW t \in Service, RunSlice(t)
      PROVE  UNCHANGED ran \/ \E b : Release(t, b)
  BY <1>3 DEF RunSlice, Launch, Skip, Wait, GiveUp, Submit, Refuse, machine
<1>4. ASSUME NEW t \in Service, Job(t)
      PROVE  UNCHANGED ran \/ \E b : Release(t, b)
  BY <1>4 DEF Job, Match, Tick, TickRelease, RunEnds, ExitHook, RunAgain, machine
<1>5. CASE SliceOver \/ UNCHANGED vars
  BY <1>2, <1>5 DEF SliceOver, vars, machine
<1> QED BY <1>1, <1>2, <1>3, <1>4, <1>5 DEF Next

LEMMA RunSliceStep ==
  ASSUME TypeOK, WaitInv, NEW s \in Service, RunSlice(s)
  PROVE  WaitInv'
<1>1. UNCHANGED <<conf, tree, weight, stage>> /\ \A i : SliceOf(i)' = SliceOf(i)
  BY SliceOfSame
  DEF RunSlice, Launch, Skip, Wait, GiveUp, Submit, Refuse, boot
<1>2. \A t \in Service : ran[t] => ran'[t]
  BY RanStays DEF Next
<1>3. \A i : SliceOf(i) \subseteq Service
  BY SliceInService
<1>4. CASE Launch(s)
  <2>1. /\ place[s] = "out" /\ place' = [place EXCEPT ![s] = "waiting"]
        /\ stage # Booted /\ s \in SliceOf(stage)
        /\ UNCHANGED <<next, ok, closed, verdict, ran, job, tick>>
    BY <1>4 DEF Launch, Turn, Current, Move, machine, jobs
  <2>2. next[s] = 1
    BY <2>1 DEF WaitInv, Quiet
  <2>3. Quiet' /\ Here' /\ Sure'
    BY <1>1, <2>1 DEF WaitInv, Quiet, Here, Sure, TypeOK
  <2>4. \A t \in Service, i \in 1..3 : Passed(t, i) => Passed(t, i)'
    BY <1>1, <2>1 DEF Passed
  <2>5. Passed(s, stage)'
    BY <1>1, <2>1, <2>2 DEF Passed
  <2>6. stage \in 1..3 /\ Stages = 1..3
    BY <2>1 DEF TypeOK, Booted, Stages
  <2>7. Read'
    BY <1>1, <2>1, <2>4, <2>5, <2>6, SliceInService
    DEF WaitInv, Read, TypeOK, Here, Booted
  <2>8. Started'
    BY <1>1, <2>1, <2>4, <2>6 DEF WaitInv, Started, TypeOK
  <2> QED BY <2>3, <2>7, <2>8 DEF WaitInv
<1>5. CASE Skip(s) \/ GiveUp(s) \/ Refuse(s)
  <2>1. /\ \A t \in Service : t # s => /\ place'[t] = place[t]
                                       /\ closed'[t] = closed[t]
                                       /\ verdict'[t] = verdict[t]
        /\ place'[s] \in {"skipped", "blocked", "refused"}
        /\ ~verdict'[s]
        /\ UNCHANGED <<next, ok, job, tick>>
    BY <1>5 DEF Skip, GiveUp, Refuse, Move, Release, jobs, TypeOK
  <2>2. Quiet' /\ Here' /\ Sure'
    BY <1>1, <1>2, <2>1 DEF WaitInv, Quiet, Here, Sure, TypeOK
  <2>3. \A t \in Service : \A i : Passed(t, i) => Passed(t, i)'
    BY <1>1, <1>2, <1>3, <2>1 DEF Passed
  <2>4. Read' /\ Started'
    BY <1>1, <2>1, <2>3 DEF WaitInv, Read, Started
  <2> QED BY <2>2, <2>4 DEF WaitInv
<1>6. CASE Wait(s)
  <2>1. UNCHANGED <<place, closed, verdict, ran, job, tick>> /\ place[s] = "waiting"
    BY <1>6 DEF Wait, Waiting, machine, jobs
  <2>2. \A t \in Service : t # s => next'[t] = next[t] /\ ok'[t] = ok[t]
    BY <1>6 DEF Wait, TypeOK
  <2>3. next'[s] = next[s] + 1 /\ next[s] \in Nat
    BY <1>6 DEF Wait, TypeOK
  <2>4. stage # Booted /\ Current = SliceOf(stage)
    BY <2>1 DEF WaitInv, Here, Current
  <2>5. ok'[s] => ok[s] /\ (Dependency(s) \in SliceOf(stage) => verdict[Dependency(s)])
    BY <1>6, <2>4, Zenon DEF Wait, TypeOK
  <2>6. ok'[s] => Passed(s, stage)'
    <3> SUFFICES ASSUME ok'[s], NEW k \in 1..next[s],
                        conf.after[s][k] \in SliceOf(stage)
                 PROVE  ran[conf.after[s][k]]
      BY <1>1, <2>1, <2>3 DEF Passed
    <3>1. CASE k = next[s]
      BY <1>3, <2>5, <3>1 DEF Dependency, WaitInv, Sure
    <3>2. CASE k # next[s]
      BY <2>1, <2>3, <2>5, <3>2 DEF WaitInv, Read, Passed
    <3> QED BY <3>1, <3>2
  <2>7. Quiet' /\ Here' /\ Sure'
    BY <1>1, <2>1, <2>2 DEF WaitInv, Quiet, Here, Sure
  <2>8. \A t \in Service : \A i : t # s /\ Passed(t, i) => Passed(t, i)'
    BY <1>1, <2>1, <2>2 DEF Passed
  <2>9. Read'
    BY <1>1, <2>1, <2>2, <2>6, <2>8 DEF WaitInv, Read
  <2>10. Started'
    BY <1>1, <2>1, <2>2, <2>8 DEF WaitInv, Started
  <2> QED BY <2>7, <2>9, <2>10 DEF WaitInv
<1>7. CASE Submit(s)
  <2>1. /\ place[s] = "waiting" /\ ok[s] /\ next[s] > Len(conf.after[s])
        /\ place' = [place EXCEPT ![s] = "submitted"]
        /\ job' = [job EXCEPT ![s] = "alive"]
        /\ UNCHANGED <<next, ok, closed, verdict, ran, tick>>
    BY <1>7 DEF Submit, Waited, Move, machine
  <2>2. Quiet' /\ Here' /\ Sure'
    BY <1>1, <2>1 DEF WaitInv, Quiet, Here, Sure, TypeOK
  <2>3. \A t \in Service : \A i : Passed(t, i) => Passed(t, i)'
    BY <1>1, <2>1 DEF Passed
  <2>4. \A i \in Stages : s \in SliceOf(i) => i = stage
    <3>1. stage \in Stages /\ s \in SliceOf(stage)
      BY <2>1 DEF WaitInv, Here, TypeOK, Stages, Booted
    <3> QED BY <3>1, SlicesDisjoint
  <2>5. Passed(s, stage)
    BY <2>1 DEF WaitInv, Read
  <2>6. Read'
    BY <1>1, <2>1, <2>3 DEF WaitInv, Read, TypeOK
  <2>7. Started'
    BY <1>1, <2>1, <2>3, <2>4, <2>5 DEF WaitInv, Started, TypeOK
  <2> QED BY <2>2, <2>6, <2>7 DEF WaitInv
<1> QED BY <1>4, <1>5, <1>6, <1>7 DEF RunSlice

LEMMA JobStep ==
  ASSUME TypeOK, WaitInv, NEW s \in Service, Job(s)
  PROVE  WaitInv'
<1>1. UNCHANGED <<conf, tree, weight, stage, place, next, ok>>
  BY DEF Job, Match, Tick, TickRelease, RunEnds, ExitHook, RunAgain, boot, runslice
<1>2. \A i : SliceOf(i)' = SliceOf(i) /\ SliceOf(i) \subseteq Service
  BY <1>1, SliceInService DEF SliceOf
<1>3. \A t \in Service : ran[t] => ran'[t]
  BY RanStays DEF Next
<1>4. \A t \in Service : \A i : Passed(t, i) => Passed(t, i)'
  BY <1>1, <1>2, <1>3 DEF Passed
<1>5. Here' /\ Read' /\ Started'
  BY <1>1, <1>2, <1>4 DEF WaitInv, Here, Read, Started
<1>6. place[s] \notin {"out", "waiting"}
  BY DEF Job, Match, Tick, TickRelease, RunEnds, ExitHook, RunAgain, WaitInv, Quiet
<1>7. \A t \in Service : t # s =>
        closed'[t] = closed[t] /\ job'[t] = job[t] /\ tick'[t] = tick[t]
  BY DEF Job, Match, Tick, TickRelease, RunEnds, ExitHook, RunAgain, Release,
         machine, TypeOK
<1>8. Quiet'
  BY <1>1, <1>6, <1>7 DEF WaitInv, Quiet
<1>9. ASSUME NEW b \in BOOLEAN, Release(s, b) PROVE Sure'
  <2>1. \A t \in Service : t # s => verdict'[t] = verdict[t] /\ ran'[t] = ran[t]
    BY <1>9 DEF Release, TypeOK
  <2>2. verdict'[s] = b
    BY <1>9 DEF Release, TypeOK
  <2>3. ran'[s] = (ran[s] \/ b)
    BY <1>9 DEF Release, TypeOK
  <2> QED BY <2>1, <2>2, <2>3 DEF WaitInv, Sure
<1>10. ASSUME UNCHANGED <<verdict, ran>> PROVE Sure'
  BY <1>10 DEF WaitInv, Sure
<1>11. UNCHANGED <<verdict, ran>> \/ Release(s, TRUE) \/ Release(s, success[s])
  BY DEF Job, Match, Tick, TickRelease, RunEnds, ExitHook, RunAgain, machine
<1>12. success[s] \in BOOLEAN
  BY DEF TypeOK
<1>13. Sure'
  BY <1>9, <1>10, <1>11, <1>12
<1> QED BY <1>5, <1>8, <1>13 DEF WaitInv

LEMMA SliceOverStep ==
  ASSUME TypeOK, WaitInv, SliceOver
  PROVE  WaitInv'
<1>1. /\ UNCHANGED <<conf, tree, weight, place, next, ok, closed, verdict, ran,
                     job, tick>>
      /\ stage # Booted /\ Current = SliceOf(stage)
      /\ \A s \in SliceOf(stage) : closed[s]
  BY DEF SliceOver, Current, runslice, machine, jobs
<1>2. \A i : SliceOf(i)' = SliceOf(i)
  BY <1>1 DEF SliceOf
<1>3. \A s \in Service : place[s] # "waiting"
  BY <1>1 DEF WaitInv, Quiet, Here
<1>4. Quiet' /\ Here' /\ Sure' /\ Read'
  BY <1>1, <1>3 DEF WaitInv, Quiet, Here, Sure, Read
<1>5. \A t \in Service : \A i : Passed(t, i) => Passed(t, i)'
  BY <1>1, <1>2 DEF Passed
<1>6. Started'
  BY <1>1, <1>2, <1>5 DEF WaitInv, Started
<1> QED BY <1>4, <1>6 DEF WaitInv

LEMMA WaitStep == TypeOK /\ WaitInv /\ [Next]_vars => WaitInv'
<1> SUFFICES ASSUME TypeOK, WaitInv, [Next]_vars PROVE WaitInv'
  OBVIOUS
<1>1. CASE UNCHANGED vars
  <2>1. UNCHANGED <<conf, tree, weight, stage, place, next, ok, closed, verdict,
                    ran, job, tick>>
    BY <1>1 DEF vars, boot, runslice, machine, jobs
  <2>2. \A i : SliceOf(i)' = SliceOf(i)
    BY <2>1 DEF SliceOf
  <2>3. \A t \in Service : \A i : Passed(t, i) => Passed(t, i)'
    BY <2>1, <2>2 DEF Passed
  <2> QED
    BY <2>1, <2>2, <2>3 DEF WaitInv, Quiet, Here, Sure, Read, Started
<1> QED BY <1>1, RunSliceStep, JobStep, SliceOverStep DEF Next

LEMMA WaitInit == Init => WaitInv
  BY DEF Init, WaitInv, Quiet, Here, Sure, Read, Started

LEMMA StageInit == Init => StageInv
<1> SUFFICES ASSUME Init PROVE StageInv
  OBVIOUS
<1>1. stage = 1 /\ \A s \in Service : place[s] = "out"
  BY DEF Init
<1>2. \A j \in Stages : SliceOf(j) \subseteq Service
  BY TypeInit, SliceInService
<1>3. \A i \in Stages : ~(i < 1)
  BY DEF Stages
<1> QED BY <1>1, <1>2, <1>3 DEF StageInv

LEMMA StageStep == TypeOK /\ WaitInv /\ StageInv /\ [Next]_vars => StageInv'
<1> SUFFICES ASSUME TypeOK, WaitInv, StageInv, [Next]_vars PROVE StageInv'
  OBVIOUS
<1>0. \A i : SliceOf(i) \subseteq Service
  BY SliceInService
<1>1. ASSUME NEW s \in Service, RunSlice(s) PROVE StageInv'
  <2>1. UNCHANGED stage /\ \A i : SliceOf(i)' = SliceOf(i)
    BY <1>1, SliceOfSame
    DEF RunSlice, Launch, Skip, Wait, GiveUp, Submit, Refuse, boot
  <2>2. \A t \in Service : closed[t] => closed'[t]
    BY <1>1
    DEF RunSlice, Launch, Skip, Wait, GiveUp, Submit, Refuse, Release, machine,
        TypeOK
  <2>3. \A t \in Service : t # s => place'[t] = place[t]
    BY <1>1
    DEF RunSlice, Launch, Skip, Wait, GiveUp, Submit, Refuse, Move, TypeOK
  <2>4. stage \in Stages /\ s \in SliceOf(stage)
    <3>1. CASE Launch(s) \/ Skip(s)
      <4>1. s \in Current
        BY <3>1 DEF Launch, Skip, Turn
      <4>2. stage # Booted /\ s \in SliceOf(stage)
        BY <4>1 DEF Current
      <4> QED BY <4>2 DEF TypeOK, Booted, Stages
    <3>2. CASE Wait(s) \/ GiveUp(s) \/ Submit(s) \/ Refuse(s)
      <4>1. place[s] = "waiting"
        BY <3>2 DEF Wait, GiveUp, Submit, Refuse, Waiting, Waited
      <4>2. stage # Booted /\ s \in SliceOf(stage)
        BY <4>1 DEF WaitInv, Here
      <4> QED BY <4>2 DEF TypeOK, Booted, Stages
    <3> QED BY <1>1, <3>1, <3>2 DEF RunSlice
  <2>5. \A j \in Stages : stage < j => s \notin SliceOf(j)
    <3> SUFFICES ASSUME NEW j \in Stages, stage < j, s \in SliceOf(j) PROVE FALSE
      OBVIOUS
    <3>1. stage = j
      BY <2>4, SlicesDisjoint
    <3> QED BY <3>1, <2>4 DEF Stages
  <2> QED BY <1>0, <2>1, <2>2, <2>3, <2>5 DEF StageInv
<1>2. ASSUME NEW s \in Service, Job(s) PROVE StageInv'
  <2>1. UNCHANGED <<tree, weight, stage, place>>
    BY <1>2
    DEF Job, Match, Tick, TickRelease, RunEnds, ExitHook, RunAgain, boot, runslice
  <2>2. \A i : SliceOf(i)' = SliceOf(i)
    BY <2>1 DEF SliceOf
  <2>3. \A t \in Service : closed[t] => closed'[t]
    BY <1>2
    DEF Job, Match, Tick, TickRelease, RunEnds, ExitHook, RunAgain, Release,
        machine, TypeOK
  <2> QED BY <1>0, <2>1, <2>2, <2>3 DEF StageInv
<1>3. CASE SliceOver
  <2>1. /\ UNCHANGED <<tree, weight, place, closed>>
        /\ stage' = stage + 1 /\ stage \in Stages
        /\ \A s \in SliceOf(stage) : closed[s]
    BY <1>3 DEF SliceOver, Current, runslice, machine, TypeOK, Booted, Stages
  <2>2. \A i : SliceOf(i)' = SliceOf(i)
    BY <2>1 DEF SliceOf
  <2>3. \A i \in Stages : i < stage' => i < stage \/ i = stage
    BY <2>1 DEF Stages
  <2>4. \A j \in Stages : stage' < j => stage < j
    BY <2>1 DEF Stages
  <2> QED BY <2>1, <2>2, <2>3, <2>4 DEF StageInv
<1>4. CASE UNCHANGED vars
  <2>1. UNCHANGED <<tree, weight, stage, place, closed>>
    BY <1>4 DEF vars, boot, runslice, machine
  <2>2. \A i : SliceOf(i)' = SliceOf(i)
    BY <2>1 DEF SliceOf
  <2> QED BY <2>1, <2>2 DEF StageInv
<1> QED BY <1>1, <1>2, <1>3, <1>4 DEF Next

\* The invariant of the boot: what the goroutines have read and where they are,
\* and which slices are done.
THEOREM Invariant == Spec => [](TypeOK /\ WaitInv /\ StageInv)
  BY TypeInit, WaitInit, StageInit, TypeStep, WaitStep, StageStep, PTL DEF Spec

\* A service is not submitted before every service of its slice that it comes
\* after has been reported running (RunSlice, waitMachineImpl.Wait).
THEOREM DependenciesHold == Spec => []DependenciesRan
<1>1. TypeOK /\ WaitInv => DependenciesRan
  <2> SUFFICES ASSUME TypeOK, WaitInv,
                      NEW s \in Service, place[s] = "submitted",
                      NEW d \in DependenciesOf(s),
                      NEW i \in Stages, {s, d} \subseteq SliceOf(i)
               PROVE  ran[d]
    BY DEF DependenciesRan
  <2>1. PICK k \in DOMAIN conf.after[s] : d = conf.after[s][k]
    BY DEF DependenciesOf
  <2>2. conf.after[s] \in Seq(Name) /\ Len(conf.after[s]) \in Nat
    BY AfterType DEF TypeOK
  <2>3. k \in 1..Len(conf.after[s])
    BY <2>1, <2>2
  <2>4. Passed(s, i) /\ next[s] > Len(conf.after[s]) /\ next[s] \in Nat
    BY DEF WaitInv, Started, TypeOK
  <2>5. k \in 1..(next[s] - 1)
    BY <2>2, <2>3, <2>4
  <2> QED BY <2>1, <2>4, <2>5 DEF Passed
<1> QED BY <1>1, Invariant, PTL

\* A service is not handled before every service of an earlier slice has been
\* reported (waitMachineImpl.WaitAll, Bootstrap.Second).
THEOREM SlicesHold == Spec => []SlicesInOrder
<1>1. TypeOK /\ StageInv => SlicesInOrder
  <2> SUFFICES ASSUME TypeOK, StageInv, NEW i \in Stages, NEW j \in Stages, i < j,
                      NEW s \in SliceOf(i), NEW t \in SliceOf(j), place[t] # "out"
               PROVE  closed[s]
    BY DEF SlicesInOrder
  <2>1. stage \in Int /\ ~(stage < j)
    BY DEF StageInv, TypeOK, Booted
  <2>2. i < stage
    BY <2>1 DEF Stages
  <2> QED BY <2>2 DEF StageInv
<1> QED BY <1>1, Invariant, PTL

-----------------------------------------------------------------------------
(* A job *)

\* Once the late run has begun, the job can no longer be on its way to another:
\* it is neither waiting to start nor to restart, and what sends it there, the
\* protected flag or an open unschedule channel, is gone for good.
LateInv ==
  /\ late <= 1
  /\ late = 1 => /\ unscheduled
                 /\ ~cmd.protected
                 /\ pc \notin {"created", "backoff", "pausing"}

LEMMA CmdType ==
  ASSUME JobTypeOK
  PROVE  /\ cmd.max_restart \in Nat
         /\ cmd.recurring \in BOOLEAN /\ cmd.max_time \in BOOLEAN
         /\ cmd.protected \in BOOLEAN
  BY JobCfgAssumption DEF JobCfgAssumption, JobTypeOK

LEMMA AppendElements ==
  ASSUME NEW S, NEW s \in Seq(S), NEW e \in S
  PROVE  Append(s, e) \in Seq(S) /\ Len(Append(s, e)) = Len(s) + 1
  OBVIOUS

LEMMA TailElements ==
  ASSUME NEW S, NEW s \in Seq(S), s # <<>>
  PROVE  Tail(s) \in Seq(S) /\ Len(Tail(s)) = Len(s) - 1 /\ Len(s) \in Nat
  OBVIOUS

LEMMA JobTypeInit == JobInit => JobTypeOK
<1> SUFFICES ASSUME JobInit PROVE JobTypeOK
  OBVIOUS
<1>1. cmd \in [max_restart : Restarts, recurring : BOOLEAN,
               max_time : BOOLEAN, protected : BOOLEAN]
  BY DEF JobInit
<1>2. cmd.max_restart \in Nat /\ SigCap \in Nat /\ MaxBegun \in Nat
  BY <1>1, JobCfgAssumption DEF JobCfgAssumption
<1>3. sigs \in Seq({"TERM", "KILL"}) /\ Len(sigs) <= SigCap
  <2>1. sigs = <<>>
    BY DEF JobInit
  <2>2. sigs \in Seq({"TERM", "KILL"}) /\ Len(sigs) = 0
    BY <2>1
  <2> QED BY <1>2, <2>2
<1>4. fails \in 0..cmd.max_restart /\ begun \in 0..MaxBegun /\ late \in 0..MaxBegun
  BY <1>2 DEF JobInit
<1>5. at \in [Caller -> CallerPlace]
  BY DEF JobInit, CallerPlace
<1>6. /\ pc \in Place /\ proc \in Process /\ timer \in BOOLEAN
      /\ state \in Results /\ running \in BOOLEAN /\ sigsClosed \in BOOLEAN
      /\ unscheduled \in BOOLEAN /\ result \in Results \cup {"none"}
  BY DEF JobInit, Place, Process, Results
<1> QED BY <1>1, <1>3, <1>4, <1>5, <1>6 DEF JobTypeOK

LEMMA CappedType ==
  ASSUME NEW n \in Nat, NEW bound \in Nat
  PROVE  Capped(n, bound) \in 0..bound
  BY DEF Capped

LEMMA BeginRunType ==
  ASSUME JobTypeOK, BeginRun
  PROVE  /\ proc' \in Process /\ pc' \in Place /\ timer' \in BOOLEAN
         /\ state' \in Results
         /\ begun' \in 0..MaxBegun /\ late' \in 0..MaxBegun
<1>1. begun \in 0..MaxBegun /\ late \in 0..MaxBegun /\ MaxBegun \in Nat
  BY JobCfgAssumption DEF JobCfgAssumption, JobTypeOK
<1>2. begun' = Capped(begun + 1, MaxBegun)
  BY DEF BeginRun
<1>3. late' = Capped(late + 1, MaxBegun) \/ late' = late
  BY DEF BeginRun
<1>4. begun + 1 \in Nat /\ late + 1 \in Nat
  BY <1>1
<1>5. begun' \in 0..MaxBegun /\ late' \in 0..MaxBegun
  BY <1>1, <1>2, <1>3, <1>4, CappedType
<1>6. cmd.max_time \in BOOLEAN
  BY CmdType
<1>7. timer' \in BOOLEAN
  BY <1>6 DEF BeginRun
<1>8. proc' \in Process /\ pc' \in Place /\ state' \in Results
  BY DEF BeginRun, Process, Place, Results
<1> QED BY <1>5, <1>7, <1>8

LEMMA JobTypeStep == JobTypeOK /\ [JobNext]_jobvars => JobTypeOK'
<1> SUFFICES ASSUME JobTypeOK, [JobNext]_jobvars PROVE JobTypeOK'
  OBVIOUS
<1>1. CASE Start \/ WaitOver
  BY <1>1, BeginRunType DEF Start, WaitOver, JobTypeOK, shared
<1>2. CASE TakeSignal
  <2>1. sigs' \in Seq({"TERM", "KILL"}) /\ Len(sigs') <= SigCap
    BY <1>2, TailElements, JobCfgAssumption
    DEF TakeSignal, JobTypeOK, JobCfgAssumption
  <2>2. proc' \in Process
    BY <1>2 DEF TakeSignal, Signaled, Process, JobTypeOK
  <2> QED BY <1>2, <2>1, <2>2 DEF TakeSignal, JobTypeOK
<1>3. CASE Timeout
  <2>1. proc' \in Process /\ state' \in Results /\ timer' \in BOOLEAN
    BY <1>3 DEF Timeout, Signaled, Process, Results, JobTypeOK
  <2> QED BY <1>3, <2>1 DEF Timeout, JobTypeOK, shared
<1>4. CASE TakeExit
  <2>1. /\ proc' \in Process /\ state' \in Results /\ timer' \in BOOLEAN
        /\ pc' \in Place
    BY <1>4 DEF TakeExit, Process, Results, Place, JobTypeOK
  <2> QED BY <1>4, <2>1 DEF TakeExit, JobTypeOK, shared
<1>5. CASE Respawn \/ PauseCut
  <2>1. pc' \in Place
    BY <1>5 DEF Respawn, PauseCut, Place
  <2> QED BY <1>5, <2>1 DEF Respawn, PauseCut, JobTypeOK, shared
<1>6. CASE Decide
  <2>1. fails \in Nat /\ cmd.max_restart \in Nat /\ fails <= cmd.max_restart
    BY CmdType DEF JobTypeOK
  <2>2. fails' = Capped(fails + 1, cmd.max_restart) \/ fails' = fails
    BY <1>6 DEF Decide
  <2>3. fails' \in 0..cmd.max_restart
    BY <2>1, <2>2 DEF Capped
  <2>4. pc' \in Place
    BY <1>6 DEF Decide, Place
  <2> QED BY <1>6, <2>3, <2>4 DEF Decide, JobTypeOK, shared
<1>7. CASE ClearRunning \/ CloseSignal \/ SetResult
  <2>1. pc' \in Place
    BY <1>7 DEF ClearRunning, CloseSignal, SetResult, Place
  <2> QED BY <1>7, <2>1 DEF ClearRunning, CloseSignal, SetResult, JobTypeOK
<1>8. CASE ProcessExit
  <2>1. proc' \in Process
    BY <1>8 DEF ProcessExit, Process
  <2> QED BY <1>8, <2>1 DEF ProcessExit, JobTypeOK, shared
<1>9. ASSUME NEW c \in Caller,
             Unschedule(c) \/ Unprotect(c) \/ LoadRunning(c) \/ Send(c)
      PROVE  JobTypeOK'
  <2>1. at' \in [Caller -> CallerPlace]
    BY <1>9 DEF Unschedule, Unprotect, LoadRunning, Send, MoveCaller, CallerPlace,
                JobTypeOK
  <2>2. CASE Unschedule(c) \/ LoadRunning(c)
    BY <2>1, <2>2 DEF Unschedule, LoadRunning, JobTypeOK, goroutine, shared
  <2>3. CASE Unprotect(c)
    <3>1. /\ cmd' \in [max_restart : Restarts, recurring : BOOLEAN,
                       max_time : BOOLEAN, protected : BOOLEAN]
          /\ cmd'.max_restart = cmd.max_restart
      BY <2>3 DEF Unprotect, JobTypeOK
    <3> QED BY <2>1, <2>3, <3>1 DEF Unprotect, JobTypeOK, goroutine, shared
  <2>4. CASE Send(c)
    <3>1. sigs \in Seq({"TERM", "KILL"}) /\ Len(sigs) <= SigCap /\ SigCap \in Nat
      BY JobCfgAssumption DEF JobCfgAssumption, JobTypeOK
    <3>2. Sig[c] \in {"TERM", "KILL"}
      BY JobCfgAssumption DEF JobCfgAssumption
    <3>3. sigs' = sigs \/ (Len(sigs) < SigCap /\ sigs' = Append(sigs, Sig[c]))
      BY <2>4 DEF Send
    <3>4. sigs' \in Seq({"TERM", "KILL"}) /\ Len(sigs') <= SigCap
      <4>1. CASE sigs' = sigs
        BY <3>1, <4>1
      <4>2. CASE Len(sigs) < SigCap /\ sigs' = Append(sigs, Sig[c])
        <5>1. sigs' \in Seq({"TERM", "KILL"}) /\ Len(sigs') = Len(sigs) + 1
          BY <3>1, <3>2, <4>2, AppendElements
        <5>2. Len(sigs) \in Nat
          BY <3>1
        <5> QED BY <3>1, <4>2, <5>1, <5>2
      <4> QED BY <3>3, <4>1, <4>2
    <3> QED BY <2>1, <2>4, <3>4 DEF Send, JobTypeOK, goroutine
  <2> QED BY <1>9, <2>2, <2>3, <2>4
<1>10. CASE UNCHANGED jobvars
  BY <1>10 DEF jobvars, goroutine, shared, JobTypeOK
<1> QED BY <1>1, <1>2, <1>3, <1>4, <1>5, <1>6, <1>7, <1>8, <1>9, <1>10
        DEF JobNext, Goroutine

\* Every variable of a job keeps its type: the signal channel never holds more
\* than its capacity, and the restarts counted never pass max_restart.
THEOREM JobTypeCorrect == JobSpec => []JobTypeOK
  BY JobTypeInit, JobTypeStep, PTL DEF JobSpec

LEMMA LateStep == JobTypeOK /\ LateInv /\ [JobNext]_jobvars => LateInv'
<1> SUFFICES ASSUME JobTypeOK, LateInv, [JobNext]_jobvars PROVE LateInv'
  OBVIOUS
<1> USE DEF LateInv, goroutine, shared
<1>1. CASE Start \/ WaitOver
  BY <1>1, JobCfgAssumption
  DEF Start, WaitOver, BeginRun, Capped, JobCfgAssumption, JobTypeOK
<1>2. CASE TakeSignal \/ Timeout \/ TakeExit
  BY <1>2 DEF TakeSignal, Timeout, TakeExit
<1>3. CASE Respawn \/ PauseCut
  BY <1>3 DEF Respawn, PauseCut, JobTypeOK
<1>4. CASE Decide
  BY <1>4 DEF Decide
<1>5. CASE ClearRunning \/ CloseSignal \/ SetResult \/ ProcessExit
  BY <1>5 DEF ClearRunning, CloseSignal, SetResult, ProcessExit
<1>6. ASSUME NEW c \in Caller,
             Unschedule(c) \/ Unprotect(c) \/ LoadRunning(c) \/ Send(c)
      PROVE  LateInv'
  BY <1>6 DEF Unschedule, Unprotect, LoadRunning, Send, JobTypeOK
<1>7. CASE UNCHANGED jobvars
  BY <1>7 DEF jobvars
<1> QED BY <1>1, <1>2, <1>3, <1>4, <1>5, <1>6, <1>7 DEF JobNext, Goroutine

\* Terminate and Unschedule stop the restarts of any command (job.go).
THEOREM OneMoreRunAtMost == JobSpec => []AtMostOneMoreRun
<1>1. JobInit => LateInv
  BY DEF JobInit, LateInv
<1>2. LateInv => AtMostOneMoreRun
  BY DEF LateInv, AtMostOneMoreRun
<1> QED BY <1>1, <1>2, LateStep, JobTypeCorrect, PTL DEF JobSpec

\* The trials a command is given when it fails every time.
Trials == IF cmd.max_restart = 0 THEN 1 ELSE cmd.max_restart

\* Nobody has used the job from outside.
Untouched == \A c \in Caller : at[c] = "idle"

Ending == {"closing", "stopped", "closed", "over"}

\* Of a command that is left alone, fails counts the runs that are over, up to
\* the last one, which leaves it as it is when it succeeds or is the only one.
\* So the runs begun are those counted, and the one that runs.
TrialsInv ==
  Untouched =>
    /\ unscheduled => pc = "over"
    /\ pc \in Ending => ~cmd.protected /\ ~cmd.recurring
    /\ ~cmd.protected /\ ~cmd.recurring =>
         /\ pc # "backoff"
         /\ pc = "created" => fails = 0 /\ begun = 0
         /\ pc \in {"running", "returned"} => begun = fails + 1 /\ begun <= Trials
         /\ pc = "pausing" => begun = fails /\ begun < Trials
         /\ pc \in Ending => /\ begun \in 1..Trials
                             /\ state # "SUCCESS" => begun = Trials
    /\ pc = "over" => result = state

LEMMA TrialsBegin ==
  ASSUME JobTypeOK, TrialsInv, Start \/ WaitOver
  PROVE  TrialsInv'
<1>1. /\ cmd' = cmd /\ at' = at /\ fails' = fails /\ unscheduled' = unscheduled
      /\ pc' \in {"running", "returned"} /\ begun' = Capped(begun + 1, MaxBegun)
      /\ pc \in {"created", "backoff", "pausing"}
  BY DEF Start, WaitOver, BeginRun, shared
<1>2. /\ begun \in Nat /\ fails \in Nat /\ MaxBegun \in Nat
      /\ cmd.max_restart \in Nat /\ cmd.max_restart < MaxBegun /\ MaxBegun > 1
  <2>1. cmd.max_restart \in Restarts
    BY DEF JobTypeOK
  <2> QED BY <2>1, JobCfgAssumption, CmdType DEF JobCfgAssumption, JobTypeOK
<1> SUFFICES ASSUME Untouched'
             PROVE  /\ ~unscheduled
                    /\ ~cmd.protected /\ ~cmd.recurring =>
                         begun' = fails' + 1 /\ begun' <= Trials
  BY <1>1 DEF TrialsInv, Trials, Ending
<1>3. Untouched
  BY <1>1 DEF Untouched
<1>4. ~unscheduled
  BY <1>1, <1>3 DEF TrialsInv
<1>5. ASSUME ~cmd.protected, ~cmd.recurring
      PROVE  begun' = fails' + 1 /\ begun' <= Trials
  <2>1. begun = fails /\ begun < Trials
    BY <1>1, <1>2, <1>3, <1>5 DEF TrialsInv, Trials
  <2>2. begun' = begun + 1
    BY <1>1, <1>2, <2>1 DEF Capped, Trials
  <2> QED BY <1>1, <1>2, <2>1, <2>2 DEF Trials
<1> QED BY <1>4, <1>5

LEMMA TrialsDecide ==
  ASSUME JobTypeOK, TrialsInv, Decide
  PROVE  TrialsInv'
<1>1. /\ cmd' = cmd /\ at' = at /\ begun' = begun /\ unscheduled' = unscheduled
      /\ state' = state /\ result' = result /\ pc = "returned" /\ ~cmd.protected
  BY DEF Decide, shared
<1>2. begun \in Nat /\ fails \in Nat /\ cmd.max_restart \in Nat
  BY JobCfgAssumption, CmdType DEF JobCfgAssumption, JobTypeOK
<1> DEFINE counts == state # "SUCCESS" /\ cmd.max_restart > 0
           again  == counts /\ fails + 1 < cmd.max_restart
<1>3. /\ fails' = IF counts THEN Capped(fails + 1, cmd.max_restart) ELSE fails
      /\ pc' = IF (again \/ cmd.recurring) /\ ~unscheduled
               THEN "pausing" ELSE "closing"
  BY DEF Decide
<1> SUFFICES ASSUME Untouched' PROVE TrialsInv'
  BY DEF TrialsInv
<1>4. Untouched /\ ~unscheduled
  BY <1>1 DEF Untouched, TrialsInv
<1>5. CASE cmd.recurring
  <2>1. pc' = "pausing"
    BY <1>3, <1>4, <1>5
  <2> QED BY <1>1, <1>4, <1>5, <2>1 DEF TrialsInv, Ending
<1>6. CASE ~cmd.recurring
  <2>1. begun = fails + 1 /\ begun <= Trials
    BY <1>1, <1>4, <1>6 DEF TrialsInv
  <2>2. CASE again
    <3>1. pc' = "pausing" /\ fails' = fails + 1 /\ fails + 1 < cmd.max_restart
      BY <1>2, <1>3, <1>4, <2>2 DEF Capped
    <3> QED BY <1>1, <1>2, <1>4, <2>1, <3>1 DEF TrialsInv, Ending, Trials
  <2>3. CASE ~again
    <3>1. pc' = "closing"
      BY <1>3, <1>6, <2>3
    <3>2. state # "SUCCESS" => begun = Trials
      BY <1>2, <2>1, <2>3 DEF Trials
    <3> QED BY <1>1, <1>2, <1>4, <1>6, <2>1, <3>1, <3>2 DEF TrialsInv, Ending, Trials
  <2> QED BY <2>2, <2>3
<1> QED BY <1>5, <1>6

LEMMA TrialsStep == JobTypeOK /\ TrialsInv /\ [JobNext]_jobvars => TrialsInv'
<1> SUFFICES ASSUME JobTypeOK, TrialsInv, [JobNext]_jobvars PROVE TrialsInv'
  OBVIOUS
<1>1. CASE Start \/ WaitOver
  BY <1>1, TrialsBegin
<1>2. CASE TakeSignal \/ Timeout \/ TakeExit \/ ProcessExit
  <2>1. /\ cmd' = cmd /\ at' = at /\ begun' = begun /\ fails' = fails
        /\ unscheduled' = unscheduled /\ result' = result
        /\ \/ pc' = pc /\ state' = state
           \/ pc = "running" /\ pc' \in {"running", "returned"}
    BY <1>2 DEF TakeSignal, Timeout, TakeExit, ProcessExit, shared
  <2> QED BY <2>1 DEF TrialsInv, Untouched, Trials, Ending
<1>3. CASE Respawn
  <2>1. /\ cmd' = cmd /\ at' = at /\ unscheduled' = unscheduled
        /\ cmd.protected /\ pc = "returned" /\ pc' = "backoff"
    BY <1>3 DEF Respawn, shared
  <2> QED BY <2>1 DEF TrialsInv, Untouched, Ending
<1>4. CASE Decide
  BY <1>4, TrialsDecide
<1>5. CASE PauseCut
  <2>1. at' = at /\ unscheduled /\ pc = "pausing"
    BY <1>5 DEF PauseCut, shared
  <2> QED BY <2>1 DEF TrialsInv, Untouched
<1>6. CASE ClearRunning \/ CloseSignal \/ SetResult
  <2>1. /\ cmd' = cmd /\ at' = at /\ begun' = begun /\ fails' = fails
        /\ state' = state /\ pc \in Ending \ {"over"} /\ pc' \in Ending
        /\ \/ unscheduled' = unscheduled /\ pc' # "over"
           \/ pc' = "over" /\ result' = state
    BY <1>6 DEF ClearRunning, CloseSignal, SetResult, Ending
  <2> QED BY <2>1 DEF TrialsInv, Untouched, Trials, Ending
<1>7. ASSUME NEW c \in Caller,
             Unschedule(c) \/ Unprotect(c) \/ LoadRunning(c) \/ Send(c)
      PROVE  TrialsInv'
  <2>1. at'[c] # "idle"
    BY <1>7 DEF Unschedule, Unprotect, LoadRunning, Send, MoveCaller, JobTypeOK
  <2> QED BY <2>1 DEF TrialsInv, Untouched
<1>8. CASE UNCHANGED jobvars
  BY <1>8 DEF jobvars, goroutine, shared, TrialsInv, Untouched, Trials, Ending
<1> QED BY <1>1, <1>2, <1>3, <1>4, <1>5, <1>6, <1>7, <1>8 DEF JobNext, Goroutine

\* A command that nobody touches is run as often as max_restart says, and once
\* when it says nothing (start, job.go).
THEOREM RunsRight == JobSpec => []RunsAsAsked
<1>1. JobInit => TrialsInv
  BY DEF JobInit, TrialsInv, Ending
<1>2. JobTypeOK /\ TrialsInv => RunsAsAsked
  BY DEF TrialsInv, RunsAsAsked, Untouched, Trials, Ending
<1> QED BY <1>1, <1>2, TrialsStep, JobTypeCorrect, PTL DEF JobSpec
=============================================================================
