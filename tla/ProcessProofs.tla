--------------------------- MODULE ProcessProofs ---------------------------
(***************************************************************************)
(* Proofs about the processes of jobs: the table of their pids (PidTable), *)
(* for any processes, orphans and pids, and what comes out of them (Flow), *)
(* for any jobs, subscribers, backlog, channel and failures of Redis, any  *)
(* values, clocks, keys and lengths of periods, and any text and reads.    *)
(***************************************************************************)
EXTENDS PidTable, Flow, FiniteSetTheorems, SequenceTheorems, WellFoundedInduction, TLAPS

-----------------------------------------------------------------------------
(* The pids                                                                  *)


\* What the goroutines index the table with is a pid.
PidInv ==
  /\ \A p \in Proc : os[p] # "none" => pid[p] \in Pid
  /\ \A p \in Proc : mux = p \/ waiter[p] # "none" => os[p] # "none"
  /\ \A p \in Proc : sender[p] # "none" => os[p] = "reaped" /\ to[p] \in Proc
  /\ reaper = "lookup" => reaped \in Proc /\ os[reaped] = "reaped"

LEMMA TypeInit == Init => TypeOK /\ PidInv
  BY PidAssumption DEF PidAssumption, Init, TypeOK, PidInv, Status

LEMMA ForkType ==
  ASSUME TypeOK, NEW p \in Proc, Fork(p)
  PROVE  /\ os' \in [Proc -> {"none", "alive", "zombie", "reaped"}]
         /\ pid' \in [Proc -> Pid \cup {NoPid}]
         /\ pid'[p] \in Pid /\ os[p] = "none" /\ os'[p] = "alive"
         /\ \A q \in Proc : q # p => pid'[q] = pid[q] /\ os'[q] = os[q]
         /\ UNCHANGED status
  BY DEF TypeOK, Fork

LEMMA TypeStep == TypeOK /\ PidInv /\ [Next]_vars => TypeOK' /\ PidInv'
<1> SUFFICES ASSUME TypeOK, PidInv, [Next]_vars PROVE TypeOK' /\ PidInv'
  OBVIOUS
<1> USE DEF kernel, signal, delivery, waiting
<1>1. ASSUME NEW p \in Proc, Inherit(p)
      PROVE  TypeOK' /\ PidInv'
  <2>1. TypeOK'
    BY <1>1, ForkType DEF Inherit, TypeOK
  <2>2. PidInv'
    BY <1>1, ForkType DEF Inherit, PidInv, TypeOK
  <2> QED BY <2>1, <2>2
<1>2. ASSUME NEW p \in Proc, Spawn(p)
      PROVE  TypeOK' /\ PidInv'
  <2>1. TypeOK'
    BY <1>2, ForkType DEF Spawn, TypeOK
  <2>2. PidInv'
    BY <1>2, ForkType DEF Spawn, PidInv, TypeOK
  <2> QED BY <2>1, <2>2
<1>3. ASSUME NEW p \in Proc, Die(p)
      PROVE  TypeOK' /\ PidInv'
  <2>1. sigs' \in 0..SigCap
    BY <1>3, PidAssumption DEF Die, TypeOK, PidAssumption
  <2>2. TypeOK'
    BY <1>3, <2>1 DEF Die, TypeOK
  <2>3. PidInv'
    BY <1>3 DEF Die, PidInv, TypeOK
  <2> QED BY <2>2, <2>3
<1>4. ASSUME NEW p \in Proc, Register(p)
      PROVE  TypeOK' /\ PidInv'
  <2>1. p \in Proc \ Orphan /\ mux' \notin Proc
    BY <1>4, PidAssumption DEF Register, TypeOK, PidAssumption
  <2>2. TypeOK'
    BY <1>4, <2>1 DEF Register, TypeOK
  <2>3. PidInv'
    BY <1>4, <2>1 DEF Register, PidInv, TypeOK
  <2> QED BY <2>2, <2>3
<1>5. ASSUME NEW p \in Proc, Waiter(p)
      PROVE  TypeOK' /\ PidInv'
  <2>1. CASE AskNothing(p) \/ ReceiveClosed(p)
    BY <2>1 DEF AskNothing, ReceiveClosed, TypeOK, PidInv, Status
  <2>2. CASE Ask(p)
    <3>1. table[pid[p]] \in Proc
      BY <2>2 DEF Ask, TypeOK, PidInv
    <3>2. TypeOK'
      BY <2>2, <3>1 DEF Ask, TypeOK
    <3>3. PidInv'
      BY <2>2 DEF Ask, TypeOK, PidInv
    <3> QED BY <3>2, <3>3
  <2> QED BY <1>5, <2>1, <2>2 DEF Waiter
<1>6. ASSUME TakeSignal \/ NoChildren
      PROVE  TypeOK' /\ PidInv'
  <2>1. sigs' \in 0..SigCap
    BY <1>6, PidAssumption DEF TakeSignal, NoChildren, TypeOK, PidAssumption
  <2>2. TypeOK'
    BY <1>6, <2>1 DEF TakeSignal, NoChildren, TypeOK
  <2>3. PidInv'
    BY <1>6 DEF TakeSignal, NoChildren, PidInv
  <2> QED BY <2>2, <2>3
<1>7. ASSUME NEW p \in Proc, Reap(p)
      PROVE  TypeOK' /\ PidInv'
  BY <1>7 DEF Reap, TypeOK, PidInv
<1>8. ASSUME Lookup
      PROVE  TypeOK' /\ PidInv'
  <2>1. reaped \in Proc /\ pid[reaped] \in Pid /\ os[reaped] = "reaped"
    BY <1>8 DEF Lookup, PidInv
  <2>2. table[pid[reaped]] \in Proc \cup {NoProc}
    BY <2>1 DEF TypeOK
  <2>3. CASE table[pid[reaped]] = NoProc
    BY <1>8, <2>3 DEF Lookup, TypeOK, PidInv
  <2>4. CASE table[pid[reaped]] # NoProc
    <3>1. /\ sender' = [sender EXCEPT ![reaped] = "sending"]
          /\ to' = [to EXCEPT ![reaped] = table[pid[reaped]]]
          /\ UNCHANGED <<kernel, mux, table, sigs, closed, waiting>>
          /\ reaper' = "wait" /\ reaped' = NoProc
      BY <1>8, <2>4 DEF Lookup
    <3>2. TypeOK'
      BY <2>1, <2>2, <2>4, <3>1 DEF TypeOK
    <3>3. PidInv'
      BY <2>1, <2>2, <2>4, <3>1 DEF TypeOK, PidInv
    <3> QED BY <3>2, <3>3
  <2> QED BY <2>3, <2>4
<1>9. ASSUME NEW p \in Proc, Close(p) \/ Panic(p)
      PROVE  TypeOK' /\ PidInv'
  <2>1. TypeOK'
    BY <1>9 DEF Close, Panic, TypeOK, PidInv
  <2>2. PidInv'
    BY <1>9 DEF Close, Panic, TypeOK, PidInv
  <2> QED BY <2>1, <2>2
<1>10. ASSUME NEW p \in Proc, Delete(p)
      PROVE  TypeOK' /\ PidInv'
  <2>1. TypeOK'
    BY <1>10 DEF Delete, TypeOK, PidInv
  <2>2. PidInv'
    BY <1>10 DEF Delete, TypeOK, PidInv
  <2> QED BY <2>1, <2>2
<1>11. ASSUME NEW p \in Proc, NEW w \in Proc, Deliver(p, w)
      PROVE  TypeOK' /\ PidInv'
  <2>1. TypeOK'
    BY <1>11 DEF Deliver, TypeOK, Status
  <2>2. PidInv'
    BY <1>11 DEF Deliver, TypeOK, PidInv
  <2> QED BY <2>1, <2>2
<1>12. ASSUME UNCHANGED vars
      PROVE  TypeOK' /\ PidInv'
  BY <1>12 DEF vars, TypeOK, PidInv
<1> QED
  BY <1>1, <1>2, <1>3, <1>4, <1>5, <1>6, <1>7, <1>8, <1>9, <1>10, <1>11, <1>12
  DEF Next, Reaper, Sender

\* Every variable of the pid table keeps its type.
THEOREM TypeCorrect == Spec => []TypeOK
  BY TypeInit, TypeStep, PTL DEF Spec

(***************************************************************************)
(* Whatever the operating system does with the pids: everything a pid      *)
(* leads to, its entry, the channel that is waited on and the one that is  *)
(* delivered to, belongs to a process that had the pid.                    *)
(***************************************************************************)
Exited(n) == \E q \in Proc : pid[q] = n /\ os[q] = "reaped"

SamePid ==
  /\ \A n \in Pid : table[n] # NoProc => pid[table[n]] = n /\ os[table[n]] # "none"
  /\ \A p \in Proc : waiter[p] = "receiving" =>
       from[p] \in Proc /\ pid[from[p]] = pid[p] /\ os[from[p]] # "none"
  /\ \A p \in Proc : sender[p] # "none" =>
       pid[to[p]] = pid[p] /\ os[to[p]] # "none"

SomeInv ==
  /\ SamePid
  /\ \A p \in Proc : waiter[p] = "started" =>
       table[pid[p]] # NoProc \/ Exited(pid[p])
  /\ \A p \in closed : os[p] # "none" /\ Exited(pid[p])
  /\ \A p \in Proc : result[p] # "none" => os[p] # "none" /\ Exited(pid[p])

LEMMA SomeInit == Init => SomeInv
  BY PidAssumption DEF PidAssumption, Init, SomeInv, SamePid

\* A process keeps its pid, and stays reaped.
LEMMA PidsStay ==
  ASSUME TypeOK, [Next]_vars
  PROVE  /\ \A p \in Proc : os[p] # "none" => pid'[p] = pid[p] /\ os'[p] # "none"
         /\ \A p \in Proc : os[p] = "reaped" => os'[p] = "reaped"
<1> USE DEF kernel, signal, delivery, waiting
<1>1. CASE \E p \in Proc : Inherit(p) \/ Spawn(p)
  BY <1>1 DEF Inherit, Spawn, Fork, TypeOK
<1>2. CASE \E p \in Proc : Die(p) \/ Reap(p)
  BY <1>2 DEF Die, Reap, TypeOK
<1>3. CASE UNCHANGED <<os, pid>>
  BY <1>3
<1>4. CASE UNCHANGED vars
  BY <1>3, <1>4 DEF vars
<1>5. CASE TakeSignal \/ NoChildren \/ Lookup
  BY <1>3, <1>5 DEF TakeSignal, NoChildren, Lookup
<1>6. CASE \E p \in Proc : Register(p) \/ Waiter(p) \/ Sender(p)
  BY <1>3, <1>6
  DEF Register, Waiter, Sender, AskNothing, Ask, ReceiveClosed, Panic, Close,
      Delete, Deliver
<1> QED BY <1>1, <1>2, <1>4, <1>5, <1>6 DEF Next, Reaper

LEMMA SomeStep ==
  ASSUME TypeOK, PidInv, SomeInv, [Next]_vars
  PROVE  SomeInv'
<1> USE PidAssumption DEF kernel, signal, delivery, waiting, PidAssumption
<1>a. /\ \A p \in Proc : os[p] # "none" => pid'[p] = pid[p] /\ os'[p] # "none"
      /\ \A p \in Proc : os[p] = "reaped" => os'[p] = "reaped"
  BY PidsStay
<1>b. \A n : Exited(n) /\ n \in Pid => Exited(n)'
  BY <1>a DEF Exited
<1>1. ASSUME NEW p \in Proc, Inherit(p)
      PROVE  SomeInv'
  <2>1. SamePid'
    BY <1>a, <1>b, <1>1 DEF Inherit, Fork, SomeInv, SamePid, TypeOK, PidInv
  <2>2. (\A q \in Proc : waiter[q] = "started" => table[pid[q]] # NoProc \/ Exited(pid[q]))'
    BY <1>a, <1>b, <1>1 DEF Inherit, Fork, SomeInv, SamePid, TypeOK, PidInv
  <2>3. (\A q \in closed : os[q] # "none" /\ Exited(pid[q]))'
    BY <1>a, <1>b, <1>1 DEF Inherit, Fork, SomeInv, SamePid, TypeOK, PidInv
  <2>4. (\A q \in Proc : result[q] # "none" => os[q] # "none" /\ Exited(pid[q]))'
    BY <1>a, <1>b, <1>1 DEF Inherit, Fork, SomeInv, SamePid, TypeOK, PidInv
  <2> QED BY <2>1, <2>2, <2>3, <2>4 DEF SomeInv
<1>2. ASSUME NEW p \in Proc, Spawn(p)
      PROVE  SomeInv'
  <2>1. SamePid'
    BY <1>a, <1>b, <1>2 DEF Spawn, Fork, SomeInv, SamePid, TypeOK, PidInv
  <2>2. (\A q \in Proc : waiter[q] = "started" => table[pid[q]] # NoProc \/ Exited(pid[q]))'
    BY <1>a, <1>b, <1>2 DEF Spawn, Fork, SomeInv, SamePid, TypeOK, PidInv
  <2>3. (\A q \in closed : os[q] # "none" /\ Exited(pid[q]))'
    BY <1>a, <1>b, <1>2 DEF Spawn, Fork, SomeInv, SamePid, TypeOK, PidInv
  <2>4. (\A q \in Proc : result[q] # "none" => os[q] # "none" /\ Exited(pid[q]))'
    BY <1>a, <1>b, <1>2 DEF Spawn, Fork, SomeInv, SamePid, TypeOK, PidInv
  <2> QED BY <2>1, <2>2, <2>3, <2>4 DEF SomeInv
<1>3. ASSUME NEW p \in Proc, Die(p)
      PROVE  SomeInv'
  <2>1. SamePid'
    BY <1>a, <1>b, <1>3 DEF Die, SomeInv, SamePid, TypeOK, PidInv
  <2>2. (\A q \in Proc : waiter[q] = "started" => table[pid[q]] # NoProc \/ Exited(pid[q]))'
    BY <1>a, <1>b, <1>3 DEF Die, SomeInv, SamePid, TypeOK, PidInv
  <2>3. (\A q \in closed : os[q] # "none" /\ Exited(pid[q]))'
    BY <1>a, <1>b, <1>3 DEF Die, SomeInv, SamePid, TypeOK, PidInv
  <2>4. (\A q \in Proc : result[q] # "none" => os[q] # "none" /\ Exited(pid[q]))'
    BY <1>a, <1>b, <1>3 DEF Die, SomeInv, SamePid, TypeOK, PidInv
  <2> QED BY <2>1, <2>2, <2>3, <2>4 DEF SomeInv
<1>4. ASSUME NEW p \in Proc, Register(p)
      PROVE  SomeInv'
  <2>1. SamePid'
    BY <1>a, <1>b, <1>4 DEF Register, SomeInv, SamePid, TypeOK, PidInv
  <2>2. (\A q \in Proc : waiter[q] = "started" => table[pid[q]] # NoProc \/ Exited(pid[q]))'
    BY <1>a, <1>b, <1>4 DEF Register, SomeInv, SamePid, TypeOK, PidInv
  <2>3. (\A q \in closed : os[q] # "none" /\ Exited(pid[q]))'
    BY <1>a, <1>b, <1>4 DEF Register, SomeInv, SamePid, TypeOK, PidInv
  <2>4. (\A q \in Proc : result[q] # "none" => os[q] # "none" /\ Exited(pid[q]))'
    BY <1>a, <1>b, <1>4 DEF Register, SomeInv, SamePid, TypeOK, PidInv
  <2> QED BY <2>1, <2>2, <2>3, <2>4 DEF SomeInv
<1>5. ASSUME NEW p \in Proc, AskNothing(p)
      PROVE  SomeInv'
  <2>1. SamePid'
    BY <1>a, <1>b, <1>5 DEF AskNothing, SomeInv, SamePid, TypeOK, PidInv
  <2>2. (\A q \in Proc : waiter[q] = "started" => table[pid[q]] # NoProc \/ Exited(pid[q]))'
    BY <1>a, <1>b, <1>5 DEF AskNothing, SomeInv, SamePid, TypeOK, PidInv
  <2>3. (\A q \in closed : os[q] # "none" /\ Exited(pid[q]))'
    BY <1>a, <1>b, <1>5 DEF AskNothing, SomeInv, SamePid, TypeOK, PidInv
  <2>4. (\A q \in Proc : result[q] # "none" => os[q] # "none" /\ Exited(pid[q]))'
    BY <1>a, <1>b, <1>5 DEF AskNothing, SomeInv, SamePid, TypeOK, PidInv
  <2> QED BY <2>1, <2>2, <2>3, <2>4 DEF SomeInv
<1>6. ASSUME NEW p \in Proc, Ask(p)
      PROVE  SomeInv'
  <2>1. SamePid'
    BY <1>a, <1>b, <1>6 DEF Ask, SomeInv, SamePid, TypeOK, PidInv
  <2>2. (\A q \in Proc : waiter[q] = "started" => table[pid[q]] # NoProc \/ Exited(pid[q]))'
    BY <1>a, <1>b, <1>6 DEF Ask, SomeInv, SamePid, TypeOK, PidInv
  <2>3. (\A q \in closed : os[q] # "none" /\ Exited(pid[q]))'
    BY <1>a, <1>b, <1>6 DEF Ask, SomeInv, SamePid, TypeOK, PidInv
  <2>4. (\A q \in Proc : result[q] # "none" => os[q] # "none" /\ Exited(pid[q]))'
    BY <1>a, <1>b, <1>6 DEF Ask, SomeInv, SamePid, TypeOK, PidInv
  <2> QED BY <2>1, <2>2, <2>3, <2>4 DEF SomeInv
<1>7. ASSUME NEW p \in Proc, ReceiveClosed(p)
      PROVE  SomeInv'
  <2>1. SamePid'
    BY <1>a, <1>b, <1>7 DEF ReceiveClosed, SomeInv, SamePid, TypeOK, PidInv
  <2>2. (\A q \in Proc : waiter[q] = "started" => table[pid[q]] # NoProc \/ Exited(pid[q]))'
    BY <1>a, <1>b, <1>7 DEF ReceiveClosed, SomeInv, SamePid, TypeOK, PidInv
  <2>3. (\A q \in closed : os[q] # "none" /\ Exited(pid[q]))'
    BY <1>a, <1>b, <1>7 DEF ReceiveClosed, SomeInv, SamePid, TypeOK, PidInv
  <2>4. (\A q \in Proc : result[q] # "none" => os[q] # "none" /\ Exited(pid[q]))'
    BY <1>a, <1>b, <1>7 DEF ReceiveClosed, SomeInv, SamePid, TypeOK, PidInv
  <2> QED BY <2>1, <2>2, <2>3, <2>4 DEF SomeInv
<1>8. ASSUME TakeSignal
      PROVE  SomeInv'
  <2>1. SamePid'
    BY <1>a, <1>b, <1>8 DEF TakeSignal, SomeInv, SamePid, TypeOK, PidInv
  <2>2. (\A q \in Proc : waiter[q] = "started" => table[pid[q]] # NoProc \/ Exited(pid[q]))'
    BY <1>a, <1>b, <1>8 DEF TakeSignal, SomeInv, SamePid, TypeOK, PidInv
  <2>3. (\A q \in closed : os[q] # "none" /\ Exited(pid[q]))'
    BY <1>a, <1>b, <1>8 DEF TakeSignal, SomeInv, SamePid, TypeOK, PidInv
  <2>4. (\A q \in Proc : result[q] # "none" => os[q] # "none" /\ Exited(pid[q]))'
    BY <1>a, <1>b, <1>8 DEF TakeSignal, SomeInv, SamePid, TypeOK, PidInv
  <2> QED BY <2>1, <2>2, <2>3, <2>4 DEF SomeInv
<1>9. ASSUME NoChildren
      PROVE  SomeInv'
  <2>1. SamePid'
    BY <1>a, <1>b, <1>9 DEF NoChildren, SomeInv, SamePid, TypeOK, PidInv
  <2>2. (\A q \in Proc : waiter[q] = "started" => table[pid[q]] # NoProc \/ Exited(pid[q]))'
    BY <1>a, <1>b, <1>9 DEF NoChildren, SomeInv, SamePid, TypeOK, PidInv
  <2>3. (\A q \in closed : os[q] # "none" /\ Exited(pid[q]))'
    BY <1>a, <1>b, <1>9 DEF NoChildren, SomeInv, SamePid, TypeOK, PidInv
  <2>4. (\A q \in Proc : result[q] # "none" => os[q] # "none" /\ Exited(pid[q]))'
    BY <1>a, <1>b, <1>9 DEF NoChildren, SomeInv, SamePid, TypeOK, PidInv
  <2> QED BY <2>1, <2>2, <2>3, <2>4 DEF SomeInv
<1>10. ASSUME NEW p \in Proc, Reap(p)
      PROVE  SomeInv'
  <2>1. SamePid'
    BY <1>a, <1>b, <1>10 DEF Reap, SomeInv, SamePid, TypeOK, PidInv
  <2>2. (\A q \in Proc : waiter[q] = "started" => table[pid[q]] # NoProc \/ Exited(pid[q]))'
    BY <1>a, <1>b, <1>10 DEF Reap, SomeInv, SamePid, TypeOK, PidInv
  <2>3. (\A q \in closed : os[q] # "none" /\ Exited(pid[q]))'
    BY <1>a, <1>b, <1>10 DEF Reap, SomeInv, SamePid, TypeOK, PidInv
  <2>4. (\A q \in Proc : result[q] # "none" => os[q] # "none" /\ Exited(pid[q]))'
    BY <1>a, <1>b, <1>10 DEF Reap, SomeInv, SamePid, TypeOK, PidInv
  <2> QED BY <2>1, <2>2, <2>3, <2>4 DEF SomeInv
<1>11. ASSUME Lookup
      PROVE  SomeInv'
  <2>1. SamePid'
    BY <1>a, <1>b, <1>11 DEF Lookup, SomeInv, SamePid, TypeOK, PidInv
  <2>2. (\A q \in Proc : waiter[q] = "started" => table[pid[q]] # NoProc \/ Exited(pid[q]))'
    BY <1>a, <1>b, <1>11 DEF Lookup, SomeInv, SamePid, TypeOK, PidInv
  <2>3. (\A q \in closed : os[q] # "none" /\ Exited(pid[q]))'
    BY <1>a, <1>b, <1>11 DEF Lookup, SomeInv, SamePid, TypeOK, PidInv
  <2>4. (\A q \in Proc : result[q] # "none" => os[q] # "none" /\ Exited(pid[q]))'
    BY <1>a, <1>b, <1>11 DEF Lookup, SomeInv, SamePid, TypeOK, PidInv
  <2> QED BY <2>1, <2>2, <2>3, <2>4 DEF SomeInv
<1>12. ASSUME NEW p \in Proc, Panic(p)
      PROVE  SomeInv'
  <2>1. SamePid'
    BY <1>a, <1>b, <1>12 DEF Panic, SomeInv, SamePid, TypeOK, PidInv
  <2>2. (\A q \in Proc : waiter[q] = "started" => table[pid[q]] # NoProc \/ Exited(pid[q]))'
    BY <1>a, <1>b, <1>12 DEF Panic, SomeInv, SamePid, TypeOK, PidInv
  <2>3. (\A q \in closed : os[q] # "none" /\ Exited(pid[q]))'
    BY <1>a, <1>b, <1>12 DEF Panic, SomeInv, SamePid, TypeOK, PidInv
  <2>4. (\A q \in Proc : result[q] # "none" => os[q] # "none" /\ Exited(pid[q]))'
    BY <1>a, <1>b, <1>12 DEF Panic, SomeInv, SamePid, TypeOK, PidInv
  <2> QED BY <2>1, <2>2, <2>3, <2>4 DEF SomeInv
<1>13. ASSUME NEW p \in Proc, Close(p)
      PROVE  SomeInv'
  <2>1. SamePid'
    BY <1>a, <1>b, <1>13 DEF Close, SomeInv, SamePid, TypeOK, PidInv, Exited
  <2>2. (\A q \in Proc : waiter[q] = "started" => table[pid[q]] # NoProc \/ Exited(pid[q]))'
    BY <1>a, <1>b, <1>13 DEF Close, SomeInv, SamePid, TypeOK, PidInv, Exited
  <2>3. (\A q \in closed : os[q] # "none" /\ Exited(pid[q]))'
    BY <1>a, <1>b, <1>13 DEF Close, SomeInv, SamePid, TypeOK, PidInv, Exited
  <2>4. (\A q \in Proc : result[q] # "none" => os[q] # "none" /\ Exited(pid[q]))'
    BY <1>a, <1>b, <1>13 DEF Close, SomeInv, SamePid, TypeOK, PidInv, Exited
  <2> QED BY <2>1, <2>2, <2>3, <2>4 DEF SomeInv
<1>14. ASSUME NEW p \in Proc, Delete(p)
      PROVE  SomeInv'
  <2>1. SamePid'
    BY <1>a, <1>b, <1>14 DEF Delete, SomeInv, SamePid, TypeOK, PidInv, Exited
  <2>2. (\A q \in Proc : waiter[q] = "started" => table[pid[q]] # NoProc \/ Exited(pid[q]))'
    BY <1>a, <1>b, <1>14 DEF Delete, SomeInv, SamePid, TypeOK, PidInv, Exited
  <2>3. (\A q \in closed : os[q] # "none" /\ Exited(pid[q]))'
    BY <1>a, <1>b, <1>14 DEF Delete, SomeInv, SamePid, TypeOK, PidInv, Exited
  <2>4. (\A q \in Proc : result[q] # "none" => os[q] # "none" /\ Exited(pid[q]))'
    BY <1>a, <1>b, <1>14 DEF Delete, SomeInv, SamePid, TypeOK, PidInv, Exited
  <2> QED BY <2>1, <2>2, <2>3, <2>4 DEF SomeInv
<1>15. ASSUME NEW p \in Proc, NEW w \in Proc, Deliver(p, w)
      PROVE  SomeInv'
  <2>1. SamePid'
    BY <1>a, <1>b, <1>15 DEF Deliver, SomeInv, SamePid, TypeOK, PidInv, Exited
  <2>2. (\A q \in Proc : waiter[q] = "started" => table[pid[q]] # NoProc \/ Exited(pid[q]))'
    BY <1>a, <1>b, <1>15 DEF Deliver, SomeInv, SamePid, TypeOK, PidInv, Exited
  <2>3. (\A q \in closed : os[q] # "none" /\ Exited(pid[q]))'
    BY <1>a, <1>b, <1>15 DEF Deliver, SomeInv, SamePid, TypeOK, PidInv, Exited
  <2>4. (\A q \in Proc : result[q] # "none" => os[q] # "none" /\ Exited(pid[q]))'
    BY <1>a, <1>b, <1>15 DEF Deliver, SomeInv, SamePid, TypeOK, PidInv, Exited
  <2> QED BY <2>1, <2>2, <2>3, <2>4 DEF SomeInv
<1>16. ASSUME UNCHANGED vars
      PROVE  SomeInv'
  <2>1. SamePid'
    BY <1>a, <1>b, <1>16 DEF vars, SomeInv, SamePid, TypeOK, PidInv
  <2>2. (\A q \in Proc : waiter[q] = "started" => table[pid[q]] # NoProc \/ Exited(pid[q]))'
    BY <1>a, <1>b, <1>16 DEF vars, SomeInv, SamePid, TypeOK, PidInv
  <2>3. (\A q \in closed : os[q] # "none" /\ Exited(pid[q]))'
    BY <1>a, <1>b, <1>16 DEF vars, SomeInv, SamePid, TypeOK, PidInv
  <2>4. (\A q \in Proc : result[q] # "none" => os[q] # "none" /\ Exited(pid[q]))'
    BY <1>a, <1>b, <1>16 DEF vars, SomeInv, SamePid, TypeOK, PidInv
  <2> QED BY <2>1, <2>2, <2>3, <2>4 DEF SomeInv
<1> QED
  BY <1>1, <1>2, <1>3, <1>4, <1>5, <1>6, <1>7, <1>8, <1>9, <1>10, <1>11, <1>12, <1>13, <1>14, <1>15, <1>16
  DEF Next, Reaper, Sender, Waiter

\* Even with pids that are given again, WaitPID returns only after a process that
\* had this pid has exited (waitPID, pm.go).
THEOREM SomeExitHolds == Spec => []SomeExit
<1>1. SomeInv => SomeExit
  BY DEF SomeInv, SomeExit, Exited
<1>2. TypeOK /\ PidInv /\ SomeInv /\ [Next]_vars => SomeInv'
  BY SomeStep
<1> QED BY <1>1, <1>2, TypeInit, TypeStep, SomeInit, PTL DEF Spec
(***************************************************************************)
(* A process whose pid was given to no other: by SamePid the entry of its  *)
(* pid can only be its own channel, and its status goes through its own    *)
(* channel to its own waiter. Together says how far its delivery and the   *)
(* goroutine that waits for it are. It is stated of every process with     *)
(* such a pid, for the pids of the others may be given again at any time.  *)
(***************************************************************************)
Entered ==
  /\ \A n \in Pid : table[n] # NoProc => waiter[table[n]] # "none"
  /\ \A p \in Proc : mux = p => waiter[p] = "none"
  /\ \A p \in Proc : os[p] = "none" => pid[p] = NoPid
  /\ \A p \in Proc : result[p] # "none" => waiter[p] = "done"

Together(p) ==
  /\ waiter[p] = "none" => sender[p] = "none"
  /\ waiter[p] = "started" => table[pid[p]] = p /\ sender[p] \in {"none", "sending"}
  /\ waiter[p] = "receiving" => from[p] = p /\ sender[p] \in {"none", "sending"}
  /\ waiter[p] = "done" =>
       sender[p] \in {"sent", "closed", "done"} /\ result[p] = status[p]
  /\ sender[p] # "none" => to[p] = p
  /\ p \in closed => sender[p] \in {"closed", "done"}
  /\ reaper = "lookup" /\ reaped = p => sender[p] = "none"

OwnInv == Entered /\ \A p \in Proc : os[p] # "none" /\ Alone(p) => Together(p)

LEMMA OwnInit == Init => OwnInv
  BY PidAssumption DEF PidAssumption, Init, OwnInv, Entered

LEMMA EnteredStep ==
  ASSUME TypeOK, PidInv, SomeInv, Entered, [Next]_vars
  PROVE  Entered'
<1> USE PidAssumption DEF kernel, signal, delivery, waiting, PidAssumption
<1>1. ASSUME NEW p \in Proc, Inherit(p)
      PROVE  Entered'
  BY <1>1 DEF Inherit, Fork, Entered, TypeOK, PidInv
<1>2. ASSUME NEW p \in Proc, Spawn(p)
      PROVE  Entered'
  BY <1>2 DEF Spawn, Fork, Entered, TypeOK, PidInv
<1>3. ASSUME NEW p \in Proc, Die(p)
      PROVE  Entered'
  BY <1>3 DEF Die, Entered, TypeOK, PidInv
<1>4. ASSUME NEW p \in Proc, Register(p)
      PROVE  Entered'
  BY <1>4 DEF Register, Entered, TypeOK, PidInv
<1>5. ASSUME NEW p \in Proc, AskNothing(p)
      PROVE  Entered'
  BY <1>5 DEF AskNothing, Entered, TypeOK, PidInv
<1>6. ASSUME NEW p \in Proc, Ask(p)
      PROVE  Entered'
  BY <1>6 DEF Ask, Entered, TypeOK, PidInv
<1>7. ASSUME NEW p \in Proc, ReceiveClosed(p)
      PROVE  Entered'
  BY <1>7 DEF ReceiveClosed, Entered, TypeOK, PidInv
<1>8. ASSUME TakeSignal
      PROVE  Entered'
  BY <1>8 DEF TakeSignal, Entered, TypeOK, PidInv
<1>9. ASSUME NoChildren
      PROVE  Entered'
  BY <1>9 DEF NoChildren, Entered, TypeOK, PidInv
<1>10. ASSUME NEW p \in Proc, Reap(p)
      PROVE  Entered'
  BY <1>10 DEF Reap, Entered, TypeOK, PidInv
<1>11. ASSUME Lookup
      PROVE  Entered'
  BY <1>11 DEF Lookup, Entered, TypeOK, PidInv
<1>12. ASSUME NEW p \in Proc, Panic(p)
      PROVE  Entered'
  BY <1>12 DEF Panic, Entered, TypeOK, PidInv
<1>13. ASSUME NEW p \in Proc, Close(p)
      PROVE  Entered'
  BY <1>13 DEF Close, Entered, TypeOK, PidInv
<1>14. ASSUME NEW p \in Proc, Delete(p)
      PROVE  Entered'
  BY <1>14 DEF Delete, Entered, TypeOK, PidInv
<1>15. ASSUME NEW p \in Proc, NEW w \in Proc, Deliver(p, w)
      PROVE  Entered'
  BY <1>15 DEF Deliver, Entered, TypeOK, PidInv
<1>16. ASSUME UNCHANGED vars
      PROVE  Entered'
  BY <1>16 DEF vars, Entered, TypeOK, PidInv
<1> QED
  BY <1>1, <1>2, <1>3, <1>4, <1>5, <1>6, <1>7, <1>8, <1>9, <1>10, <1>11, <1>12, <1>13, <1>14, <1>15, <1>16
  DEF Next, Reaper, Sender, Waiter

LEMMA OwnStep ==
  ASSUME TypeOK, PidInv, SomeInv, OwnInv, [Next]_vars
  PROVE  OwnInv'
<1> USE PidAssumption DEF kernel, signal, delivery, waiting, PidAssumption
<1>a. Entered'
  BY EnteredStep DEF OwnInv
<1> SUFFICES ASSUME NEW o \in Proc, os'[o] # "none", Alone(o)'
             PROVE  Together(o)'
  BY <1>a DEF OwnInv
<1>1. ASSUME NEW p \in Proc, Inherit(p)
      PROVE  Together(o)'
  BY <1>1 DEF Inherit, Fork, Together, Alone, TypeOK, PidInv, SomeInv, SamePid, Entered, OwnInv
<1>2. ASSUME NEW p \in Proc, Spawn(p)
      PROVE  Together(o)'
  BY <1>2 DEF Spawn, Fork, Together, Alone, TypeOK, PidInv, SomeInv, SamePid, Entered, OwnInv
<1>3. ASSUME NEW p \in Proc, Die(p)
      PROVE  Together(o)'
  BY <1>3 DEF Die, Together, Alone, TypeOK, PidInv, SomeInv, SamePid, Entered, OwnInv
<1>4. ASSUME NEW p \in Proc, Register(p)
      PROVE  Together(o)'
  BY <1>4 DEF Register, Together, Alone, TypeOK, PidInv, SomeInv, SamePid, Entered, OwnInv
<1>5. ASSUME NEW p \in Proc, AskNothing(p)
      PROVE  Together(o)'
  BY <1>5 DEF AskNothing, Together, Alone, TypeOK, PidInv, SomeInv, SamePid, Entered, OwnInv
<1>6. ASSUME NEW p \in Proc, Ask(p)
      PROVE  Together(o)'
  BY <1>6 DEF Ask, Together, Alone, TypeOK, PidInv, SomeInv, SamePid, Entered, OwnInv
<1>7. ASSUME NEW p \in Proc, ReceiveClosed(p)
      PROVE  Together(o)'
  BY <1>7 DEF ReceiveClosed, Together, Alone, TypeOK, PidInv, SomeInv, SamePid, Entered, OwnInv
<1>8. ASSUME TakeSignal
      PROVE  Together(o)'
  BY <1>8 DEF TakeSignal, Together, Alone, TypeOK, PidInv, SomeInv, SamePid, Entered, OwnInv
<1>9. ASSUME NoChildren
      PROVE  Together(o)'
  BY <1>9 DEF NoChildren, Together, Alone, TypeOK, PidInv, SomeInv, SamePid, Entered, OwnInv
<1>10. ASSUME NEW p \in Proc, Reap(p)
      PROVE  Together(o)'
  BY <1>10 DEF Reap, Together, Alone, TypeOK, PidInv, SomeInv, SamePid, Entered, OwnInv
<1>11. ASSUME Lookup
      PROVE  Together(o)'
  BY <1>11 DEF Lookup, Together, Alone, TypeOK, PidInv, SomeInv, SamePid, Entered, OwnInv
<1>12. ASSUME NEW p \in Proc, Panic(p)
      PROVE  Together(o)'
  BY <1>12 DEF Panic, Together, Alone, TypeOK, PidInv, SomeInv, SamePid, Entered, OwnInv
<1>13. ASSUME NEW p \in Proc, Close(p)
      PROVE  Together(o)'
  BY <1>13 DEF Close, Together, Alone, TypeOK, PidInv, SomeInv, SamePid, Entered, OwnInv
<1>14. ASSUME NEW p \in Proc, Delete(p)
      PROVE  Together(o)'
  BY <1>14 DEF Delete, Together, Alone, TypeOK, PidInv, SomeInv, SamePid, Entered, OwnInv
<1>15. ASSUME NEW p \in Proc, NEW w \in Proc, Deliver(p, w)
      PROVE  Together(o)'
  BY <1>15 DEF Deliver, Together, Alone, TypeOK, PidInv, SomeInv, SamePid, Entered, OwnInv
<1>16. ASSUME UNCHANGED vars
      PROVE  Together(o)'
  BY <1>16 DEF vars, Together, Alone, TypeOK, PidInv, SomeInv, SamePid, Entered, OwnInv
<1> QED
  BY <1>1, <1>2, <1>3, <1>4, <1>5, <1>6, <1>7, <1>8, <1>9, <1>10, <1>11, <1>12, <1>13, <1>14, <1>15, <1>16
  DEF Next, Reaper, Sender, Waiter

\* As long as its pid is given to no other process, WaitPID returns the status of
\* the process it was called for, after that process has exited (waitPID, pm.go).
THEOREM OwnStatusHolds == Spec => []OwnStatus
<1>1. PidInv /\ OwnInv => OwnStatus
  BY DEF PidInv, OwnInv, Entered, Together, OwnStatus
<1>2. TypeOK /\ PidInv /\ SomeInv /\ OwnInv /\ [Next]_vars => OwnInv'
  BY OwnStep
<1>3. TypeOK /\ PidInv /\ SomeInv /\ [Next]_vars => SomeInv'
  BY SomeStep
<1> QED
  BY <1>1, <1>2, <1>3, TypeInit, TypeStep, SomeInit, OwnInit, PTL DEF Spec

-----------------------------------------------------------------------------
(* What comes out: jobs, subscribers and the stream logger                   *)


\* The type of each variable of Output.
Message0 == [exit : BOOLEAN, bad : BOOLEAN, flag : BOOLEAN]
LoopStates == {"idle", "received", "calling", "drain", "done", "ended"}
Enrolled == {"waiting", "result", "closed"}
Unenrolled == {"new", "sending", "enrolling"}

OutputTypes ==
  /\ Here \subseteq Jobs /\ \A j \in Here : Target(j) \in Here \cup {"none"}
  /\ msgs \in Seq(Message0)
  /\ loop \in [Here -> LoopStates]
  /\ hand \in [Here -> Nat]
  /\ emitted \in [Here -> Seq(Nat)]
  /\ subscribers \in [Here -> Seq(Here)]
  /\ calling \in [Here -> Seq(Here)]
  /\ copy \in [Here -> Seq(Here)]
  /\ proc \in [Here -> Unenrolled \cup Enrolled]
  /\ ptr \in [Here -> Nat]
  /\ channel \in Seq(Here \X Nat)
  /\ pushed \in [Here -> Seq(Nat)]
  /\ failures \in Nat
  /\ replayed \in [Here -> [first : Nat, last : Nat, since : Nat, kept : BOOLEAN]]

\* What a loop has received is a message.
Known == \A j \in Here : \A i \in DOMAIN emitted[j] : emitted[j][i] \in 1..Len(msgs)

\* What a loop has in hand is the last it received, and it calls only for a message it can read.
InHand(j) ==
  /\ loop[j] \in {"received", "calling"} =>
       emitted[j] # <<>> /\ hand[j] = emitted[j][Len(emitted[j])]
  /\ calling[j] # <<>> => loop[j] = "calling" /\ ~msgs[hand[j]].bad

\* A slice of subscribers of j.
Slice(j, q) ==
  /\ \A i \in DOMAIN q : Target(q[i]) = j /\ proc[q[i]] \in Enrolled
  /\ \A i, k \in DOMAIN q : q[i] = q[k] => i = k
Slices ==
  \A j \in Here :
    /\ Slice(j, subscribers[j]) /\ Slice(j, calling[j])
    /\ proc[j] = "enrolling" => Slice(Target(j), copy[j])

\* How far a subscription is, in what its target has received.
Position(s) ==
  LET t == Target(s)
      r == replayed[s] IN
  /\ 1 <= r.first /\ r.first <= r.last + 1 /\ r.last <= Len(emitted[t])
  /\ r.since <= Called(t)
  /\ s \in Range(calling[t]) => r.since < Called(t)
  /\ proc[s] = "new" => r.first = 1 /\ r.last = 0
  /\ proc[s] = "sending" /\ ptr[s] # 0 => ptr[s] = r.last + 1 /\ ptr[s] <= Len(emitted[t])
  /\ r.kept => s \in Range(subscribers[t]) /\ proc[s] \in Enrolled

\* A subscriber ends after its target, or after a message that ends a run.
Ending(s) ==
  LET t == Target(s)
      q == emitted[s] IN
  /\ proc[s] \in {"result", "closed"} => loop[t] \in {"done", "ended"}
  /\ q # <<>> /\ q[Len(q)] \notin Range(emitted[t]) => proc[s] = "closed" /\ msgs[q[Len(q)]].exit
  /\ Over(s) => loop[s] # "idle"
  /\ loop[s] = "drain" /\ proc[s] # "closed" => Over(s)
  /\ t = s => q = <<>> /\ loop[s] = "idle" /\ proc[s] \notin {"result", "closed"}

Own ==
  \A s \in Here :
    IF Subscribes(s) THEN Position(s) /\ Ending(s)
    ELSE proc[s] = "new" /\ ~replayed[s].kept

OutputInv ==
  /\ OutputTypes /\ Known /\ Slices /\ Own
  /\ \A j \in Here : InHand(j)

-----------------------------------------------------------------------------
LEMMA Appended ==
  ASSUME NEW S, NEW q \in Seq(S), NEW x \in S
  PROVE  /\ Append(q, x) \in Seq(S) /\ Len(Append(q, x)) = Len(q) + 1 /\ Append(q, x) # <<>>
         /\ Len(q) \in Nat /\ DOMAIN q = 1..Len(q) /\ DOMAIN Append(q, x) = 1..(Len(q) + 1)
         /\ \A i \in 1..Len(q) : Append(q, x)[i] = q[i]
         /\ Append(q, x)[Len(q) + 1] = x
  OBVIOUS

LEMMA ExceptLen ==
  ASSUME NEW S, NEW q \in Seq(S), NEW i \in 1..Len(q), NEW x \in S
  PROVE  [q EXCEPT ![i] = x] \in Seq(S) /\ Len([q EXCEPT ![i] = x]) = Len(q)
  OBVIOUS

LEMMA FrontOfAppend ==
  ASSUME NEW S, NEW q \in Seq(S), NEW x \in S
  PROVE  SubSeq(Append(q, x), 1, Len(Append(q, x)) - 1) = q
  OBVIOUS

LEMMA Tailed ==
  ASSUME NEW S, NEW q \in Seq(S), q # <<>>
  PROVE  /\ Tail(q) \in Seq(S) /\ Len(q) \in Nat \ {0} /\ Len(Tail(q)) = Len(q) - 1
         /\ DOMAIN q = 1..Len(q) /\ DOMAIN Tail(q) = 1..(Len(q) - 1)
         /\ \A i \in DOMAIN Tail(q) : Tail(q)[i] = q[i + 1]
         /\ Head(q) = q[1] /\ q[1] \in S
  OBVIOUS

LEMMA Listed ==
  ASSUME NEW S, NEW q \in Seq(S)
  PROVE  /\ Len(q) \in Nat /\ DOMAIN q = 1..Len(q) /\ (q = <<>> <=> Len(q) = 0)
         /\ \A i \in 1..Len(q) : q[i] \in S
         /\ Range(q) = {q[i] : i \in 1..Len(q)}
  BY DEF Range

LEMMA DoesTypes ==
  ASSUME NEW j \in Jobs
  PROVE  Does[j].stream \in BOOLEAN /\ Does[j].bad \in BOOLEAN
  BY OutputAssumption

LEMMA OutputInit == FlowInit => OutputTypes /\ Known
<1> SUFFICES ASSUME FlowInit PROVE OutputTypes /\ Known
  OBVIOUS
<1>1. PICK s \in Scenes : InitOutput(s.jobs)
  BY DEF FlowInit
<1>2. PICK G \in s.jobs : loop = [j \in G |-> "idle"]
  BY <1>1 DEF InitOutput
<1>3. Here = G /\ G \subseteq Jobs /\ \A j \in G : Target(j) \in G \cup {"none"}
  BY <1>2, ScenesAssumption DEF Here
<1>4. OutputTypes
  BY <1>1, <1>2, <1>3 DEF InitOutput, OutputTypes, LoopStates, Unenrolled, Enrolled, Message0
<1>5. Known
  BY <1>1, <1>3 DEF InitOutput, Known
<1> QED
  BY <1>4, <1>5

\* What a loop that receives a message changes.
LEMMA ReceivesFacts ==
  ASSUME OutputTypes, NEW s \in Here, NEW m \in Nat, Receives(s, m, loop)
  PROVE  /\ loop' \in [Here -> LoopStates] /\ hand' \in [Here -> Nat]
         /\ emitted' \in [Here -> Seq(Nat)]
         /\ loop[s] = "idle" /\ loop'[s] = "received" /\ hand'[s] = m
         /\ emitted'[s] = Append(emitted[s], m)
         /\ \A j \in Here \ {s} : loop'[j] = loop[j] /\ hand'[j] = hand[j] /\ emitted'[j] = emitted[j]
<1>1. emitted[s] \in Seq(Nat) /\ Append(emitted[s], m) \in Seq(Nat)
  BY DEF OutputTypes
<1> QED
  BY <1>1 DEF OutputTypes, Receives, LoopStates

LEMMA NewFacts ==
  ASSUME OutputTypes, NEW exit \in BOOLEAN, NEW bad \in BOOLEAN, New(exit, bad)
  PROVE  /\ msgs' \in Seq(Message0) /\ Len(msgs') = Len(msgs) + 1 /\ Len(msgs) \in Nat
         /\ \A i \in 1..Len(msgs) : msgs'[i] = msgs[i]
         /\ msgs'[Len(msgs) + 1].exit = exit /\ msgs'[Len(msgs) + 1].bad = bad
<1> DEFINE m == [exit |-> exit, bad |-> bad, flag |-> FALSE]
<1>1. m \in Message0
  BY DEF Message0
<1>2. msgs' = Append(msgs, m) /\ msgs \in Seq(Message0)
  BY DEF New, OutputTypes
<1>3. m.exit = exit /\ m.bad = bad
  OBVIOUS
<1> HIDE DEF m
<1>4. Append(msgs, m) \in Seq(Message0) /\ Len(Append(msgs, m)) = Len(msgs) + 1
  BY <1>1, <1>2, Appended
<1>5. Append(msgs, m)[Len(msgs) + 1] = m /\ \A i \in 1..Len(msgs) : Append(msgs, m)[i] = msgs[i]
  BY <1>1, <1>2, Appended
<1> QED
  BY <1>2, <1>3, <1>4, <1>5, Listed

\* What stays when a message is received by s.
LEMMA ReceivesTypes ==
  ASSUME OutputTypes, Known, NEW s \in Here, NEW m \in 1..Len(msgs'), Receives(s, m, loop),
         Len(msgs') \in Nat, Len(msgs') >= Len(msgs)
  PROVE  /\ Here' = Here /\ Known'
         /\ loop' \in [Here -> LoopStates] /\ hand' \in [Here -> Nat] /\ emitted' \in [Here -> Seq(Nat)]
<1>1. /\ loop' \in [Here -> LoopStates] /\ hand' \in [Here -> Nat] /\ emitted' \in [Here -> Seq(Nat)]
      /\ emitted'[s] = Append(emitted[s], m)
      /\ \A j \in Here \ {s} : emitted'[j] = emitted[j]
  BY ReceivesFacts
<1>2. Here' = Here
  BY <1>1 DEF Here
<1>3. ASSUME NEW j \in Here, NEW i \in DOMAIN emitted'[j] PROVE emitted'[j][i] \in 1..Len(msgs')
  <2>1. emitted[j] \in Seq(Nat) /\ Len(msgs) \in Nat
    BY DEF OutputTypes
  <2>2. CASE j = s
    <3>1. DOMAIN emitted'[s] = 1..(Len(emitted[s]) + 1) /\ DOMAIN emitted[s] = 1..Len(emitted[s])
      BY <1>1, <2>1, <2>2, Appended
    <3>2. CASE i = Len(emitted[s]) + 1
      BY <1>1, <2>1, <2>2, <3>2, Appended
    <3>3. CASE i # Len(emitted[s]) + 1
      <4>1. i \in 1..Len(emitted[s]) /\ emitted'[s][i] = emitted[s][i]
        BY <1>1, <1>3, <2>1, <2>2, <3>1, <3>3, Appended
      <4> QED
        BY <2>1, <2>2, <3>1, <4>1 DEF Known
    <3> QED
      BY <3>2, <3>3
  <2>3. CASE j # s
    BY <1>1, <1>3, <2>1, <2>3 DEF Known
  <2> QED
    BY <2>2, <2>3
<1> QED
  BY <1>1, <1>2, <1>3 DEF Known

LEMMA HandKnown ==
  ASSUME OutputTypes, Known, NEW j \in Here, InHand(j), loop[j] \in {"received", "calling"}
  PROVE  /\ Len(emitted[j]) \in Nat \ {0} /\ hand[j] = emitted[j][Len(emitted[j])]
         /\ hand[j] \in 1..Len(msgs) /\ hand[j] \in Range(emitted[j])
<1>1. emitted[j] \in Seq(Nat)
  BY DEF OutputTypes
<1> QED
  BY <1>1, Listed DEF InHand, Known

LEMMA HeadOfCalling ==
  ASSUME OutputTypes, Slices, NEW j \in Here, calling[j] # <<>>
  PROVE  /\ Head(calling[j]) \in Here /\ Target(Head(calling[j])) = j
         /\ proc[Head(calling[j])] \in Enrolled
         /\ Subscribes(Head(calling[j]))
<1>1. calling[j] \in Seq(Here)
  BY DEF OutputTypes
<1>2. Head(calling[j]) = calling[j][1] /\ 1 \in DOMAIN calling[j] /\ calling[j][1] \in Here
  BY <1>1, Tailed
<1>3. Here \subseteq Jobs
  BY DEF OutputTypes
<1> QED
  BY <1>2, <1>3, OutputAssumption DEF Slices, Slice, Subscribes

LEMMA RestTypes ==
  ASSUME OutputTypes, Known, Here' = Here,
         msgs' \in Seq(Message0), Len(msgs') >= Len(msgs),
         loop' \in [Here -> LoopStates], hand' \in [Here -> Nat],
         emitted' \in [Here -> Seq(Nat)], Known',
         subscribers' \in [Here -> Seq(Here)], calling' \in [Here -> Seq(Here)],
         copy' \in [Here -> Seq(Here)], proc' \in [Here -> Unenrolled \cup Enrolled],
         ptr' \in [Here -> Nat], channel' \in Seq(Here \X Nat), pushed' \in [Here -> Seq(Nat)],
         failures' \in Nat,
         replayed' \in [Here -> [first : Nat, last : Nat, since : Nat, kept : BOOLEAN]]
  PROVE  OutputTypes' /\ Known'
  BY DEF OutputTypes, Target

\* The step of one goroutine.
OneStep(j) == Handles(j) \/ OfProcess(j) \/ Subscribe(j)

LEMMA TypesStep ==
  ASSUME OutputInv, NEW j \in Here, OneStep(j)
  PROVE  OutputTypes' /\ Known'
<1> USE DEF OutputInv
<1>T. /\ msgs \in Seq(Message0) /\ Len(msgs) \in Nat /\ j \in Jobs
      /\ Len(msgs) >= Len(msgs)
      /\ emitted[j] \in Seq(Nat) /\ calling[j] \in Seq(Here) /\ subscribers[j] \in Seq(Here)
      /\ Target(j) \in Here \cup {"none"} /\ replayed[j].last \in Nat
  BY DEF OutputTypes
<1>S. Subscribes(j) => Target(j) \in Here
  BY <1>T DEF Subscribes
<1>1. CASE Callback(j)
  <2>1. hand[j] \in 1..Len(msgs)
    BY <1>1, HandKnown DEF Callback
  <2>2. msgs' \in Seq(Message0) /\ Len(msgs') = Len(msgs)
    <3>1. msgs[hand[j]] \in Message0
      BY <1>T, <2>1, Listed
    <3>2. (msgs[hand[j]].flag \/ Does[j].stream) \in BOOLEAN
      OBVIOUS
    <3> DEFINE m == [msgs[hand[j]] EXCEPT !.flag = msgs[hand[j]].flag \/ Does[j].stream]
    <3>3. m \in Message0
      BY <3>1 DEF Message0
    <3>4. msgs' = msgs \/ msgs' = [msgs EXCEPT ![hand[j]] = m]
      BY <1>1 DEF Callback
    <3> HIDE DEF m
    <3>5. [msgs EXCEPT ![hand[j]] = m] \in Seq(Message0) /\ Len([msgs EXCEPT ![hand[j]] = m]) = Len(msgs)
      BY <1>T, <2>1, <3>3, ExceptLen
    <3> QED
      BY <3>4, <3>5, <1>T
  <2>3. channel' \in Seq(Here \X Nat)
    <3>1. <<j, hand[j]>> \in Here \X Nat
      BY <2>1, <1>T
    <3>2. channel' = channel \/ channel' = Append(channel, <<j, hand[j]>>)
      BY <1>1 DEF Callback, LogRecord
    <3>3. channel \in Seq(Here \X Nat)
      BY DEF OutputTypes
    <3>4. Append(channel, <<j, hand[j]>>) \in Seq(Here \X Nat)
      BY <3>1, <3>3, Appended
    <3> QED
      BY <3>2, <3>3, <3>4
  <2>4. /\ loop' \in [Here -> LoopStates] /\ Here' = Here /\ calling' \in [Here -> Seq(Here)]
        /\ hand' = hand /\ subscribers' = subscribers /\ emitted' = emitted /\ proc' = proc /\ ptr' = ptr
        /\ copy' = copy /\ replayed' = replayed /\ failures' = failures /\ pushed' = pushed
    BY <1>1 DEF Callback, OutputTypes, LoopStates, Here, subvars
  <2>5. Known'
    BY <2>2, <2>4 DEF Known
  <2> QED
    BY <1>T, <2>2, <2>3, <2>4, <2>5, RestTypes DEF OutputTypes
<1>2. CASE Call(j)
  <2> DEFINE s == Head(calling[j])
  <2>1. s \in Here /\ loop[j] = "calling" /\ calling[j] # <<>>
    BY <1>2, HeadOfCalling DEF Call
  <2>2. hand[j] \in 1..Len(msgs)
    BY <2>1, HandKnown
  <2>3. /\ msgs' = msgs /\ subscribers' = subscribers /\ proc' = proc /\ ptr' = ptr /\ copy' = copy
        /\ replayed' = replayed /\ channel' = channel /\ failures' = failures /\ pushed' = pushed
        /\ calling' = [calling EXCEPT ![j] = Tail(@)]
    BY <1>2 DEF Call, subvars, logvars
  <2>4. calling' \in [Here -> Seq(Here)]
    BY <1>T, <2>1, <2>3, Tailed DEF OutputTypes
  <2>5. CASE Receives(s, hand[j], loop)
    <3> HIDE DEF s
    <3> QED
      BY <1>T, <2>1, <2>2, <2>3, <2>4, <2>5, ReceivesTypes, RestTypes DEF OutputTypes
  <2>6. CASE UNCHANGED <<loop, hand, emitted>>
    BY <1>T, <2>3, <2>4, <2>6, RestTypes DEF OutputTypes, Here, Known
  <2> QED
    BY <1>2, <2>5, <2>6 DEF Call
<1>3. CASE CallEnd(j) \/ RunEnd(j) \/ CleanUp(j)
  <2>1. /\ loop' \in [Here -> LoopStates] /\ Here' = Here
        /\ UNCHANGED <<msgs, hand, subscribers, calling, emitted, subvars, logvars>>
    BY <1>3 DEF CallEnd, RunEnd, CleanUp, OutputTypes, LoopStates, Here
  <2> QED
    BY <1>T, <2>1, RestTypes DEF OutputTypes, Known, subvars, logvars
<1>4. CASE OfProcess(j)
  <2>1. PICK exit, bad \in BOOLEAN : New(exit, bad) /\ Receives(j, Len(msgs) + 1, loop)
    <3>1. Does[j].bad \in BOOLEAN
      BY <1>T, DoesTypes
    <3> QED
      BY <1>4, <3>1 DEF OfProcess, Writes, Exits
  <2>2. UNCHANGED <<subscribers, calling, subvars, logvars>>
    BY <1>4 DEF OfProcess, Writes, Exits
  <2>3. msgs' \in Seq(Message0) /\ Len(msgs') = Len(msgs) + 1
    BY <2>1, NewFacts
  <2>4. Len(msgs) + 1 \in 1..Len(msgs') /\ Len(msgs') \in Nat /\ Len(msgs') >= Len(msgs)
    BY <2>3, <1>T
  <2>5. /\ Here' = Here /\ Known'
        /\ loop' \in [Here -> LoopStates] /\ hand' \in [Here -> Nat] /\ emitted' \in [Here -> Seq(Nat)]
    BY <2>1, <2>4, ReceivesTypes
  <2> QED
    BY <2>2, <2>3, <2>4, <2>5, RestTypes DEF OutputTypes, subvars, logvars
<1>5. CASE Look(j) \/ EnrolRead(j) \/ Enrol(j) \/ Awaits(j)
  <2>1. UNCHANGED <<msgs, loop, hand, emitted, calling, logvars>> /\ Here' = Here
    BY <1>5 DEF Look, EnrolRead, Enrol, Awaits, jobvars, Here
  <2>2. Target(j) \in Here \cup {"none"} /\ (Look(j) => Target(j) \in Here)
    BY <1>T, <1>S DEF Look
  <2>3. proc' \in [Here -> Unenrolled \cup Enrolled]
    BY <1>5 DEF Look, EnrolRead, Enrol, Awaits, OutputTypes, Unenrolled, Enrolled
  <2>4. ptr' \in [Here -> Nat]
    <3>1. ASSUME Look(j) PROVE FirstKept(Target(j)) \in Nat
      <4>1. emitted[Target(j)] \in Seq(Nat)
        BY <2>2, <3>1 DEF OutputTypes
      <4> QED
        BY <4>1, OutputAssumption, Listed DEF FirstKept
    <3>2. CASE Look(j)
      <4> DEFINE n == IF emitted[Target(j)] = <<>> THEN 0 ELSE FirstKept(Target(j))
      <4>1. ptr' = ptr \/ ptr' = [ptr EXCEPT ![j] = n]
        BY <3>2 DEF Look
      <4>2. n \in Nat
        BY <3>1, <3>2
      <4> HIDE DEF n
      <4> QED
        BY <4>1, <4>2 DEF OutputTypes
    <3>3. CASE EnrolRead(j) \/ Enrol(j) \/ Awaits(j)
      BY <3>3 DEF EnrolRead, Enrol, Awaits, OutputTypes
    <3> QED
      BY <1>5, <3>2, <3>3
  <2>5. PICK t : t = Target(j)
    OBVIOUS
  <2>6. proc[j] # "new" => t \in Here
    <3>1. ~Subscribes(j) => proc[j] = "new"
      BY DEF Own
    <3> QED
      BY <1>S, <2>5, <3>1
  <2>7. copy' \in [Here -> Seq(Here)] /\ subscribers' \in [Here -> Seq(Here)]
    <3>1. CASE EnrolRead(j)
      BY <1>T, <3>1, <2>5, <2>6 DEF EnrolRead, OutputTypes, jobvars
    <3>2. CASE Enrol(j)
      <4>1. Append(copy[j], j) \in Seq(Here)
        BY Appended DEF OutputTypes
      <4> QED
        BY <4>1, <3>2 DEF Enrol, OutputTypes
    <3>3. CASE Look(j) \/ Awaits(j)
      BY <3>3 DEF Look, Awaits, jobvars, OutputTypes
    <3> QED
      BY <1>5, <3>1, <3>2, <3>3
  <2>8. replayed' \in [Here -> [first : Nat, last : Nat, since : Nat, kept : BOOLEAN]]
    <3>1. CASE EnrolRead(j) \/ Awaits(j)
      BY <3>1 DEF EnrolRead, Awaits, OutputTypes
    <3>2. CASE Look(j)
      <4>1. emitted[t] \in Seq(Nat)
        BY <2>2, <2>5, <3>2 DEF OutputTypes
      <4>2. FirstKept(t) \in Nat /\ FirstKept(t) - 1 \in Nat
        BY <4>1, OutputAssumption, Listed DEF FirstKept
      <4> DEFINE r == [replayed[j] EXCEPT !.first = FirstKept(t), !.last = FirstKept(t) - 1]
      <4>3. r \in [first : Nat, last : Nat, since : Nat, kept : BOOLEAN]
        BY <4>2 DEF OutputTypes
      <4>4. replayed' = replayed \/ replayed' = [replayed EXCEPT ![j] = r]
        BY <3>2, <2>5 DEF Look
      <4> HIDE DEF r
      <4> QED
        BY <4>3, <4>4 DEF OutputTypes
    <3>3. CASE Enrol(j)
      <4>1. t \in Here
        BY <2>6, <3>3 DEF Enrol
      <4>2. emitted[t] \in Seq(Nat) /\ loop[t] \in LoopStates
        BY <4>1 DEF OutputTypes
      <4>3. Called(t) \in Nat
        BY <4>1, <4>2, HandKnown, Listed DEF Called
      <4> QED
        BY <3>3, <4>3, <2>5 DEF Enrol, OutputTypes
    <3> QED
      BY <1>5, <3>1, <3>2, <3>3
  <2> QED
    BY <1>T, <2>1, <2>3, <2>4, <2>7, <2>8, RestTypes DEF OutputTypes, Known, logvars
<1>6. CASE Replay(j)
  <2>1. Subscribes(j)
    BY <1>6 DEF Replay, Own
  <2>2. PICK t \in Here : t = Target(j)
    BY <2>1, <1>S
  <2>3. ptr[j] \in 1..Len(emitted[t])
    <3>1. Position(j) /\ proc[j] = "sending" /\ ptr[j] # 0
      BY <1>6, <2>1 DEF Own, Replay
    <3>2. ptr[j] \in Nat /\ ptr[j] <= Len(emitted[t])
      BY <3>1, <2>2 DEF OutputTypes, Position
    <3>3. emitted[t] \in Seq(Nat)
      BY <2>2 DEF OutputTypes
    <3> QED
      BY <3>1, <3>2, <3>3, Listed
  <2>4. emitted[t][ptr[j]] \in 1..Len(msgs) /\ Len(emitted[t]) \in Nat
    BY <2>2, <2>3, Listed DEF Known, OutputTypes
  <2>5. After(t, ptr[j]) \in Nat
    BY <2>3, <2>4 DEF After
  <2>6. UNCHANGED <<msgs, subscribers, calling, proc, copy, logvars>>
    BY <1>6 DEF Replay
  <2>7. ptr' \in [Here -> Nat]
        /\ replayed' \in [Here -> [first : Nat, last : Nat, since : Nat, kept : BOOLEAN]]
    <3> DEFINE r == [replayed[j] EXCEPT !.last = @ + 1]
    <3>0. replayed[j] \in [first : Nat, last : Nat, since : Nat, kept : BOOLEAN]
      BY DEF OutputTypes
    <3>1. r \in [first : Nat, last : Nat, since : Nat, kept : BOOLEAN]
      BY <3>0
    <3>2. replayed' = [replayed EXCEPT ![j] = r]
      BY <1>6 DEF Replay
    <3>3. ptr' = [ptr EXCEPT ![j] = After(t, ptr[j])]
      BY <1>6, <2>2 DEF Replay
    <3> HIDE DEF r
    <3> QED
      BY <3>1, <3>2, <3>3, <2>5 DEF OutputTypes
  <2>8. CASE Receives(j, emitted[t][ptr[j]], loop)
    BY <1>T, <2>4, <2>6, <2>7, <2>8, ReceivesTypes, RestTypes DEF OutputTypes, logvars
  <2>9. CASE UNCHANGED <<loop, hand, emitted>>
    BY <1>T, <2>6, <2>7, <2>9, RestTypes DEF OutputTypes, logvars, Here, Known
  <2> QED
    BY <1>6, <2>2, <2>8, <2>9 DEF Replay
<1>7. CASE Result(j)
  <2>1. UNCHANGED <<subscribers, calling, ptr, copy, replayed, logvars>>
        /\ proc' \in [Here -> Unenrolled \cup Enrolled]
    BY <1>7 DEF Result, OutputTypes, Unenrolled, Enrolled
  <2>2. CASE New(TRUE, FALSE) /\ Receives(j, Len(msgs) + 1, loop)
    <3>1. msgs' \in Seq(Message0) /\ Len(msgs') = Len(msgs) + 1
      BY <2>2, NewFacts
    <3>2. Len(msgs) + 1 \in 1..Len(msgs') /\ Len(msgs') \in Nat /\ Len(msgs') >= Len(msgs)
      BY <3>1, <1>T
    <3>3. /\ Here' = Here /\ Known'
          /\ loop' \in [Here -> LoopStates] /\ hand' \in [Here -> Nat] /\ emitted' \in [Here -> Seq(Nat)]
      BY <2>2, <3>2, ReceivesTypes
    <3> QED
      BY <2>1, <3>1, <3>2, <3>3, RestTypes DEF OutputTypes, logvars
  <2>3. CASE UNCHANGED <<msgs, loop, hand, emitted>>
    BY <1>T, <2>1, <2>3, RestTypes DEF OutputTypes, logvars, Here, Known
  <2> QED
    BY <1>7, <2>2, <2>3 DEF Result
<1> QED
  BY <1>1, <1>2, <1>3, <1>4, <1>5, <1>6, <1>7 DEF OneStep, Handles, OfProcess, Subscribe

LEMMA PushTypes ==
  ASSUME OutputInv, Push
  PROVE  OutputTypes' /\ Known'
<1> USE DEF OutputInv
<1>1. channel # <<>> /\ channel \in Seq(Here \X Nat) /\ channel' = Tail(channel)
  BY DEF Push, OutputTypes
<1>2. channel' \in Seq(Here \X Nat) /\ channel[1] \in Here \X Nat
  BY <1>1, Tailed
<1>3. channel[1][1] \in Here /\ channel[1][2] \in Nat
  BY <1>2
<1>4. pushed[channel[1][1]] \in Seq(Nat)
  BY <1>3 DEF OutputTypes
<1>5. Append(pushed[channel[1][1]], channel[1][2]) \in Seq(Nat)
  BY <1>3, <1>4, Appended
<1>6. pushed' \in [Here -> Seq(Nat)] /\ failures' \in Nat
  <2> DEFINE q == Append(pushed[channel[1][1]], channel[1][2])
  <2>1. \/ pushed' = [pushed EXCEPT ![channel[1][1]] = q] /\ failures' = failures
        \/ pushed' = pushed /\ failures' = failures + 1
    BY DEF Push
  <2>2. q \in Seq(Nat)
    BY <1>5
  <2> HIDE DEF q
  <2>3. PICK x : x = channel[1][1]
    OBVIOUS
  <2>4. /\ x \in Here /\ pushed \in [Here -> Seq(Nat)] /\ failures \in Nat
        /\ \/ pushed' = [pushed EXCEPT ![x] = q] /\ failures' = failures
           \/ pushed' = pushed /\ failures' = failures + 1
    BY <1>3, <2>1, <2>3 DEF OutputTypes
  <2>5. [pushed EXCEPT ![x] = q] \in [Here -> Seq(Nat)]
    BY <2>2, <2>4
  <2>6. failures + 1 \in Nat
    BY <2>4
  <2> QED
    BY <2>4, <2>5, <2>6
<1>7. UNCHANGED <<jobvars, subvars>> /\ Here' = Here
  BY DEF Push, jobvars, Here
<1> QED
  BY <1>2, <1>6, <1>7 DEF OutputTypes, Known, jobvars, subvars, Target

-----------------------------------------------------------------------------
\* Messages stay what they are, but for their flag.
LEMMA MsgsKeep ==
  ASSUME OutputInv, NEW j \in Here, OneStep(j)
  PROVE  /\ Len(msgs) \in Nat /\ Len(msgs') \in Nat /\ Len(msgs') >= Len(msgs)
         /\ \A i \in 1..Len(msgs) : msgs'[i].exit = msgs[i].exit /\ msgs'[i].bad = msgs[i].bad
<1> USE DEF OutputInv
<1>T. msgs \in Seq(Message0) /\ Len(msgs) \in Nat /\ j \in Jobs
  BY DEF OutputTypes
<1>1. CASE Callback(j)
  <2>1. hand[j] \in 1..Len(msgs)
    BY <1>1, HandKnown DEF Callback
  <2>2. PICK flag : msgs' = msgs \/ msgs' = [msgs EXCEPT ![hand[j]].flag = flag]
    BY <1>1 DEF Callback
  <2>3. \A i \in 1..Len(msgs) : msgs[i] \in Message0
    BY <1>T, Listed
  <2>4. DOMAIN msgs' = 1..Len(msgs) /\ Len(msgs') = Len(msgs)
    BY <1>T, <2>1, <2>2
  <2>5. \A i \in 1..Len(msgs) : msgs'[i].exit = msgs[i].exit /\ msgs'[i].bad = msgs[i].bad
    BY <1>T, <2>1, <2>2, <2>3 DEF Message0
  <2> QED
    BY <1>T, <2>4, <2>5
<1>2. CASE \E exit, bad \in BOOLEAN : New(exit, bad)
  <2>1. PICK exit, bad \in BOOLEAN : New(exit, bad)
    BY <1>2
  <2> QED
    BY <1>T, <2>1, NewFacts
<1>3. CASE UNCHANGED msgs
  BY <1>T, <1>3
<1>4. Does[j].bad \in BOOLEAN
  BY <1>T, DoesTypes
<1> QED
  BY <1>1, <1>2, <1>3, <1>4
  DEF OneStep, Handles, OfProcess, Subscribe, Call, CallEnd, RunEnd, CleanUp, Writes, Exits,
      Look, Replay, EnrolRead, Enrol, Awaits, Result, jobvars

\* The messages a loop has received: no more, or one more, after which it handles that.
Gains(k) ==
  /\ loop[k] = "idle" /\ loop'[k] = "received"
  /\ \E m \in 1..Len(msgs') : emitted'[k] = Append(emitted[k], m) /\ hand'[k] = m

LEMMA EmittedMoves ==
  ASSUME OutputInv, NEW j \in Here, OneStep(j), NEW k \in Here
  PROVE  \/ UNCHANGED <<emitted[k], hand[k]>>
         \/ Gains(k)
<1> USE DEF OutputInv
<1>T. msgs \in Seq(Message0) /\ Len(msgs) \in Nat /\ j \in Jobs /\ Len(msgs) + 1 \in Nat
  <2>1. msgs \in Seq(Message0) /\ j \in Jobs
    BY DEF OutputTypes
  <2> QED
    BY <2>1, Listed
<1>1. ASSUME NEW s \in Here, NEW m \in 1..Len(msgs'), NEW x \in Nat, m = x, Receives(s, x, loop)
      PROVE  UNCHANGED <<emitted[k], hand[k]>> \/ Gains(k)
  <2>1. s = k => Gains(k)
    BY <1>1, ReceivesFacts DEF Gains
  <2>2. s # k => UNCHANGED <<emitted[k], hand[k]>>
    BY <1>1, ReceivesFacts
  <2> QED
    BY <2>1, <2>2
<1>2. CASE Call(j)
  <2>1. Head(calling[j]) \in Here /\ hand[j] \in 1..Len(msgs)
    BY <1>2, HeadOfCalling, HandKnown DEF Call
  <2>2. msgs' = msgs /\ (Receives(Head(calling[j]), hand[j], loop) \/ UNCHANGED <<loop, hand, emitted>>)
    BY <1>2 DEF Call
  <2> QED
    BY <1>1, <1>T, <2>1, <2>2
<1>3. CASE Replay(j)
  <2>1. Subscribes(j) /\ Position(j) /\ Target(j) \in Here /\ proc[j] = "sending" /\ ptr[j] # 0
    BY <1>3 DEF Replay, Own, OutputTypes, Subscribes
  <2> DEFINE t == Target(j)
  <2>5. t \in Here /\ ptr[j] \in Nat /\ ptr[j] # 0 /\ ptr[j] <= Len(emitted[t]) /\ emitted[t] \in Seq(Nat)
    BY <2>1 DEF Position, OutputTypes
  <2>2. ptr[j] \in 1..Len(emitted[t]) /\ ptr[j] \in DOMAIN emitted[t]
    <3> HIDE DEF t
    <3> QED
      BY <2>5, Listed
  <2>3. emitted[t][ptr[j]] \in 1..Len(msgs)
    <3> HIDE DEF t
    <3> QED
      BY <2>5, <2>2 DEF Known
  <2>4. msgs' = msgs /\ (Receives(j, emitted[Target(j)][ptr[j]], loop) \/ UNCHANGED <<loop, hand, emitted>>)
    BY <1>3 DEF Replay
  <2> QED
    BY <1>1, <1>T, <2>3, <2>4
<1>4. CASE \E exit, bad \in BOOLEAN : New(exit, bad) /\ Receives(j, Len(msgs) + 1, loop)
  <2>1. Len(msgs') = Len(msgs) + 1
    BY <1>4, NewFacts
  <2> QED
    BY <1>1, <1>4, <1>T, <2>1
<1>5. CASE UNCHANGED <<hand, emitted>>
  BY <1>5
<1>6. Does[j].bad \in BOOLEAN
  BY <1>T, DoesTypes
<1> QED
  BY <1>2, <1>3, <1>4, <1>5, <1>6
  DEF OneStep, Handles, OfProcess, Subscribe, Callback, CallEnd, RunEnd, CleanUp, Writes, Exits,
      Look, EnrolRead, Enrol, Awaits, Result, jobvars

\* What each loop does in a step.
LEMMA LoopMoves ==
  ASSUME OutputInv, NEW j \in Here, OneStep(j), NEW k \in Here
  PROVE  \/ loop'[k] = loop[k]
         \/ Gains(k)
         \/ k = j /\ Callback(j) /\ loop[j] = "received" /\ loop'[j] = "calling"
         \/ k = j /\ CallEnd(j) /\ loop[j] = "calling" /\ calling[j] = <<>>
            /\ loop'[j] = IF msgs[hand[j]].exit THEN "drain" ELSE "idle"
         \/ k = j /\ ~Subscribes(j) /\ loop[j] = "drain" /\ loop'[j] = "idle"
         \/ k = j /\ (Subscribes(j) => proc[j] = "closed") /\ loop[j] = "drain" /\ loop'[j] = "done"
         \/ k = j /\ loop[j] = "done" /\ loop'[j] = "ended"
<1> USE DEF OutputInv
<1>T. loop \in [Here -> LoopStates]
  BY DEF OutputTypes
<1>1. ASSUME NEW s \in Here, NEW m, Receives(s, m, loop)
      PROVE  loop'[k] = loop[k] \/ Gains(k)
  <2>1. s # k => loop'[k] = loop[k]
    BY <1>1, <1>T DEF Receives
  <2>2. CASE s = k
    <3>1. emitted[k] \in Seq(Nat) /\ emitted \in [Here -> Seq(Nat)]
      BY DEF OutputTypes
    <3>2. emitted'[k] = Append(emitted[k], m) /\ Len(emitted'[k]) = Len(emitted[k]) + 1
      BY <1>1, <2>2, <3>1 DEF Receives
    <3>3. emitted'[k] # emitted[k]
      BY <3>1, <3>2, Listed
    <3> QED
      BY <3>3, EmittedMoves
  <2> QED
    BY <2>1, <2>2
<1>2. CASE Call(j)
  <2>1. Head(calling[j]) \in Here
    BY <1>2, HeadOfCalling DEF Call
  <2> QED
    BY <1>1, <1>2, <2>1 DEF Call
<1>3. CASE Callback(j)
  BY <1>3, <1>T DEF Callback
<1>4. CASE CallEnd(j)
  BY <1>4, <1>T DEF CallEnd
<1>5. CASE RunEnd(j)
  BY <1>5, <1>T DEF RunEnd
<1>6. CASE CleanUp(j)
  BY <1>6, <1>T DEF CleanUp
<1>7. CASE OfProcess(j)
  BY <1>1, <1>7 DEF OfProcess, Writes, Exits
<1>8. CASE Subscribe(j)
  BY <1>1, <1>8 DEF Subscribe, Look, Replay, EnrolRead, Enrol, Awaits, Result, jobvars
<1> QED
  BY <1>2, <1>3, <1>4, <1>5, <1>6, <1>7, <1>8 DEF OneStep, Handles

\* The subscribers that are still to be called.
LEMMA CallingMoves ==
  ASSUME OutputInv, NEW j \in Here, OneStep(j), NEW k \in Here
  PROVE  \/ calling'[k] = calling[k]
         \/ k = j /\ Callback(j) /\ loop[j] = "received" /\ loop'[j] = "calling"
            /\ calling'[j] = subscribers[j] /\ ~msgs[hand[j]].bad
         \/ k = j /\ Call(j) /\ loop[j] = "calling" /\ calling[j] # <<>> /\ calling'[j] = Tail(calling[j])
<1> USE DEF OutputInv
<1>T. calling \in [Here -> Seq(Here)]
  BY DEF OutputTypes
<1>1. CASE Callback(j)
  BY <1>1, <1>T DEF Callback, OutputTypes
<1>2. CASE Call(j)
  BY <1>2, <1>T DEF Call
<1> QED
  BY <1>1, <1>2
  DEF OneStep, Handles, OfProcess, Subscribe, CallEnd, RunEnd, CleanUp, Writes, Exits,
      Look, Replay, EnrolRead, Enrol, Awaits, Result, jobvars

LEMMA InHandStep ==
  ASSUME OutputInv, NEW j \in Here, OneStep(j), NEW k \in Here
  PROVE  InHand(k)'
<1> USE DEF OutputInv
<1>T. /\ emitted[k] \in Seq(Nat) /\ loop[k] \in LoopStates /\ InHand(k)
      /\ loop[k] \in {"received", "calling"} => hand[k] \in 1..Len(msgs)
  BY HandKnown DEF OutputTypes
<1>M. \A i \in 1..Len(msgs) : msgs'[i].exit = msgs[i].exit /\ msgs'[i].bad = msgs[i].bad
  BY MsgsKeep
<1>1. CASE Gains(k)
  <2>1. calling'[k] = calling[k]
    BY <1>1, CallingMoves DEF Gains
  <2>2. calling[k] = <<>>
    BY <1>1, <1>T DEF Gains, InHand
  <2>3. emitted'[k] # <<>> /\ hand'[k] = emitted'[k][Len(emitted'[k])]
    BY <1>1, <1>T, Appended DEF Gains
  <2> QED
    BY <2>1, <2>2, <2>3 DEF InHand
<1>2. CASE UNCHANGED <<emitted[k], hand[k]>>
  <2>1. CASE loop'[k] = loop[k]
    BY <1>2, <2>1, <1>T, <1>M, CallingMoves DEF InHand
  <2>2. CASE k = j /\ Callback(j)
    <3>1. loop[j] = "received" /\ loop'[j] = "calling"
      BY <2>2 DEF Callback, OutputTypes
    <3> QED
      BY <1>2, <2>2, <3>1, <1>T, <1>M, CallingMoves DEF InHand
  <2>3. CASE loop'[k] # loop[k] /\ ~(k = j /\ Callback(j))
    <3>1. Gains(k) \/ (loop'[k] \notin {"received", "calling"} /\ (loop[k] = "calling" => calling[k] = <<>>))
      BY <1>T, <2>3, LoopMoves
    <3>2. calling[k] = <<>> => calling'[k] = <<>>
      BY <2>3, CallingMoves
    <3> QED
      BY <1>1, <1>T, <3>1, <3>2 DEF InHand
  <2> QED
    BY <2>1, <2>2, <2>3
<1> QED
  BY <1>1, <1>2, EmittedMoves

\* What the processes of subscribers do.
LEMMA ProcMoves ==
  ASSUME OutputInv, NEW j \in Here, OneStep(j), NEW k \in Here
  PROVE  \/ proc'[k] = proc[k]
         \/ k = j /\ Look(j) /\ proc[j] = "new" /\ proc'[j] \in {"sending", "result"}
         \/ k = j /\ EnrolRead(j) /\ proc[j] = "sending" /\ proc'[j] = "enrolling"
         \/ k = j /\ Enrol(j) /\ proc[j] = "enrolling" /\ proc'[j] = "waiting"
         \/ k = j /\ Awaits(j) /\ proc[j] = "waiting" /\ proc'[j] = "result"
         \/ k = j /\ Result(j) /\ proc[j] = "result" /\ proc'[j] = "closed"
<1>T. proc \in [Here -> Unenrolled \cup Enrolled]
  BY DEF OutputInv, OutputTypes
<1>1. CASE Look(j)
  <2>1. proc' = [proc EXCEPT ![j] = "sending"] \/ proc' = [proc EXCEPT ![j] = "result"]
    BY <1>1 DEF Look
  <2> QED
    BY <1>1, <1>T, <2>1 DEF Look
<1>2. CASE EnrolRead(j) \/ Enrol(j)
  BY <1>2, <1>T DEF EnrolRead, Enrol
<1>3. CASE Awaits(j) \/ Result(j)
  BY <1>3, <1>T DEF Awaits, Result
<1>4. CASE Replay(j)
  BY <1>4 DEF Replay
<1> QED
  BY <1>1, <1>2, <1>3, <1>4
  DEF Subscribe, OneStep, Handles, OfProcess, Callback, Call, CallEnd, RunEnd, CleanUp, Writes, Exits, subvars

LEMMA StaysEnrolled ==
  ASSUME OutputInv, NEW j \in Here, OneStep(j), NEW k \in Here, proc[k] \in Enrolled
  PROVE  proc'[k] \in Enrolled
  BY ProcMoves DEF Enrolled

LEMMA SliceStays ==
  ASSUME OutputInv, NEW j \in Here, OneStep(j), NEW k \in Here, NEW q \in Seq(Here), Slice(k, q)
  PROVE  Slice(k, q)'
<1>1. DOMAIN q = 1..Len(q) /\ \A i \in DOMAIN q : q[i] \in Here
  BY Listed
<1> QED
  BY <1>1, StaysEnrolled DEF Slice, Target

LEMMA SubscribersMove ==
  ASSUME OutputInv, NEW j \in Here, OneStep(j), NEW k \in Here
  PROVE  \/ subscribers'[k] = subscribers[k]
         \/ Enrol(j) /\ k = Target(j) /\ subscribers'[k] = Append(copy[j], j)
<1>T. subscribers \in [Here -> Seq(Here)]
  BY DEF OutputInv, OutputTypes
<1>1. CASE Enrol(j)
  BY <1>1, <1>T DEF Enrol
<1> QED
  BY <1>1
  DEF OneStep, Handles, OfProcess, Subscribe, Callback, Call, CallEnd, RunEnd, CleanUp, Writes, Exits,
      Look, Replay, EnrolRead, Awaits, Result, jobvars

LEMMA TargetHere ==
  ASSUME OutputInv, NEW s \in Here, proc[s] # "new" \/ Subscribes(s)
  PROVE  Subscribes(s) /\ Target(s) \in Here
  BY DEF OutputInv, Own, OutputTypes, Subscribes

LEMMA SlicesStep ==
  ASSUME OutputInv, NEW j \in Here, OneStep(j), Here' = Here
  PROVE  Slices'
<1>T. \A k \in Here : /\ subscribers[k] \in Seq(Here) /\ calling[k] \in Seq(Here) /\ copy[k] \in Seq(Here)
                      /\ Slice(k, subscribers[k]) /\ Slice(k, calling[k])
                      /\ proc[k] = "enrolling" => Slice(Target(k), copy[k])
  BY DEF OutputInv, OutputTypes, Slices
<1>1. ASSUME Enrol(j) PROVE Slice(Target(j), Append(copy[j], j))'
  <2>1. proc[j] = "enrolling" /\ proc'[j] = "waiting"
    BY <1>1 DEF Enrol, OutputInv, OutputTypes
  <2>2. Slice(Target(j), copy[j]) /\ Target(j) \in Here /\ copy[j] \in Seq(Here)
    BY <2>1, <1>T, TargetHere
  <2>3. Slice(Target(j), copy[j])'
    <3>1. PICK q : q = copy[j]
      OBVIOUS
    <3>2. Slice(Target(j), q)'
      BY <2>2, <3>1, SliceStays
    <3>3. copy'[j] = copy[j]
      BY <1>1 DEF Enrol
    <3> QED
      BY <3>1, <3>2, <3>3
  <2>4. copy' = copy
    BY <1>1 DEF Enrol
  <2>5. \A i \in DOMAIN copy[j] : copy[j][i] # j
    BY <2>1, <2>2 DEF Slice, Enrolled
  <2> DEFINE q == Append(copy[j], j)
  <2>6. /\ DOMAIN q = 1..(Len(copy[j]) + 1) /\ DOMAIN copy[j] = 1..Len(copy[j]) /\ Len(copy[j]) \in Nat
        /\ q[Len(copy[j]) + 1] = j /\ \A i \in 1..Len(copy[j]) : q[i] = copy[j][i]
    BY <2>2, Appended
  <2>7. q' = q
    BY <2>4
  <2> HIDE DEF q
  <2>8. \A i \in DOMAIN q : IF i \in DOMAIN copy[j] THEN q[i] = copy[j][i] ELSE i = Len(copy[j]) + 1 /\ q[i] = j
    BY <2>6
  <2>9. \A i \in DOMAIN q : Target(q[i]) = Target(j) /\ proc'[q[i]] \in Enrolled
    BY <2>1, <2>3, <2>4, <2>8 DEF Slice, Target, Enrolled
  <2>10. \A i, k \in DOMAIN q : q[i] = q[k] => i = k
    BY <2>2, <2>5, <2>8 DEF Slice
  <2>11. Slice(Target(j), q)'
    BY <2>7, <2>9, <2>10 DEF Slice, Target
  <2> QED
    BY <2>11 DEF q
<1>2. ASSUME NEW k \in Here PROVE Slice(k, subscribers[k])'
  <2>1. CASE subscribers'[k] = subscribers[k]
    <3>1. PICK q : q = subscribers[k]
      OBVIOUS
    <3>2. Slice(k, q)'
      BY <1>T, <3>1, SliceStays
    <3> QED
      BY <2>1, <3>1, <3>2
  <2>2. CASE Enrol(j) /\ k = Target(j) /\ subscribers'[k] = Append(copy[j], j)
    <3>1. copy' = copy
      BY <2>2 DEF Enrol
    <3> QED
      BY <1>1, <2>2, <3>1
  <2> QED
    BY <2>1, <2>2, SubscribersMove
<1>3. ASSUME NEW k \in Here PROVE Slice(k, calling[k])'
  <2>1. CASE calling'[k] = calling[k]
    <3>1. PICK q : q = calling[k]
      OBVIOUS
    <3>2. Slice(k, q)'
      BY <1>T, <3>1, SliceStays
    <3> QED
      BY <2>1, <3>1, <3>2
  <2>2. CASE calling'[k] = subscribers[k]
    <3>1. PICK q : q = subscribers[k]
      OBVIOUS
    <3>2. Slice(k, q)'
      BY <1>T, <3>1, SliceStays
    <3> QED
      BY <2>2, <3>1, <3>2
  <2>3. CASE calling[k] # <<>> /\ calling'[k] = Tail(calling[k])
    <3>1. PICK q : q = Tail(calling[k])
      OBVIOUS
    <3>2. /\ q \in Seq(Here) /\ DOMAIN q = 1..(Len(calling[k]) - 1) /\ DOMAIN calling[k] = 1..Len(calling[k])
          /\ \A i \in DOMAIN q : q[i] = calling[k][i + 1]
          /\ Len(calling[k]) \in Nat \ {0}
      BY <1>T, <2>3, <3>1, Tailed
    <3>3. \A i \in DOMAIN q : i + 1 \in DOMAIN calling[k]
      BY <3>2
    <3>4. \A i, x \in DOMAIN q : i + 1 = x + 1 => i = x
      BY <3>2
    <3>7. \A i \in DOMAIN q : Target(q[i]) = k /\ proc[q[i]] \in Enrolled
      BY <1>T, <3>2, <3>3 DEF Slice
    <3>8. ASSUME NEW i \in DOMAIN q, NEW x \in DOMAIN q, q[i] = q[x] PROVE i = x
      <4>1. calling[k][i + 1] = calling[k][x + 1]
        BY <3>2, <3>8
      <4>2. i + 1 = x + 1
        BY <1>T, <3>3, <4>1 DEF Slice
      <4> QED
        BY <3>4, <4>2
    <3>5. Slice(k, q)
      BY <3>7, <3>8 DEF Slice
    <3>6. Slice(k, q)'
      BY <3>2, <3>5, SliceStays
    <3> QED
      BY <2>3, <3>1, <3>6
  <2> QED
    BY <2>1, <2>2, <2>3, CallingMoves
<1>4. ASSUME NEW k \in Here, proc'[k] = "enrolling" PROVE Slice(Target(k), copy[k])'
  <2>1. CASE EnrolRead(j) /\ k = j
    <3>1. copy'[j] = subscribers[Target(j)] /\ proc[j] # "new"
      BY <2>1 DEF EnrolRead, OutputInv, OutputTypes
    <3>2. Target(j) \in Here
      BY <3>1, TargetHere
    <3>3. PICK q : q = subscribers[Target(j)]
      OBVIOUS
    <3>4. Slice(Target(j), q)'
      BY <1>T, <3>2, <3>3, SliceStays
    <3> QED
      BY <2>1, <3>1, <3>3, <3>4
  <2>2. CASE ~(EnrolRead(j) /\ k = j)
    <3>1. proc[k] = "enrolling"
      BY <1>4, <2>2, ProcMoves
    <3>2. copy'[k] = copy[k]
      BY <2>2
      DEF OneStep, Handles, OfProcess, Subscribe, Callback, Call, CallEnd, RunEnd, CleanUp, Writes, Exits,
          Look, Replay, EnrolRead, Enrol, Awaits, Result, subvars, OutputInv, OutputTypes
    <3>3. Target(k) \in Here
      BY <3>1, TargetHere
    <3>4. PICK q : q = copy[k]
      OBVIOUS
    <3>5. Slice(Target(k), q)'
      BY <1>T, <3>1, <3>3, <3>4, SliceStays
    <3> QED
      BY <3>2, <3>4, <3>5
  <2> QED
    BY <2>1, <2>2
<1> QED
  BY <1>2, <1>3, <1>4 DEF Slices

\* What was received stays.
LEMMA EmittedKeeps ==
  ASSUME OutputInv, NEW j \in Here, OneStep(j), NEW k \in Here
  PROVE  /\ Len(emitted[k]) \in Nat /\ Len(emitted'[k]) \in Nat /\ Len(emitted'[k]) >= Len(emitted[k])
         /\ DOMAIN emitted[k] = 1..Len(emitted[k]) /\ DOMAIN emitted'[k] = 1..Len(emitted'[k])
         /\ \A i \in 1..Len(emitted[k]) : emitted'[k][i] = emitted[k][i]
         /\ \A i \in 1..Len(emitted[k]) : emitted[k][i] \in 1..Len(msgs)
         /\ Range(emitted[k]) = {emitted[k][i] : i \in 1..Len(emitted[k])}
         /\ Range(emitted'[k]) = {emitted'[k][i] : i \in 1..Len(emitted'[k])}
         /\ Range(emitted[k]) \subseteq Range(emitted'[k])
<1>1. emitted[k] \in Seq(Nat) /\ Known /\ msgs \in Seq(Message0) /\ Len(msgs) \in Nat
  BY DEF OutputInv, OutputTypes
<1>2. emitted'[k] \in Seq(Nat) /\ Len(emitted'[k]) >= Len(emitted[k])
      /\ \A i \in 1..Len(emitted[k]) : emitted'[k][i] = emitted[k][i]
  <2>1. CASE emitted'[k] = emitted[k]
    BY <1>1, <2>1
  <2>2. CASE Gains(k)
    <3>1. PICK m \in Nat : emitted'[k] = Append(emitted[k], m)
      BY <2>2, MsgsKeep DEF Gains
    <3> QED
      BY <1>1, <3>1, Appended
  <2> QED
    BY <2>1, <2>2, EmittedMoves
<1>3. /\ Len(emitted[k]) \in Nat /\ DOMAIN emitted[k] = 1..Len(emitted[k])
      /\ Range(emitted[k]) = {emitted[k][i] : i \in 1..Len(emitted[k])}
      /\ Len(emitted'[k]) \in Nat /\ DOMAIN emitted'[k] = 1..Len(emitted'[k])
      /\ Range(emitted'[k]) = {emitted'[k][i] : i \in 1..Len(emitted'[k])}
  BY <1>1, <1>2, Listed
<1>4. \A i \in 1..Len(emitted[k]) : emitted[k][i] \in 1..Len(msgs)
  BY <1>1, <1>3 DEF Known
<1>5. \A i \in 1..Len(emitted[k]) : i \in 1..Len(emitted'[k])
  BY <1>2, <1>3
<1> QED
  BY <1>2, <1>3, <1>4, <1>5

LEMMA Received ==
  ASSUME OutputInv, NEW k \in Here, NEW m \in Range(emitted[k])
  PROVE  /\ m \in 1..Len(msgs) /\ m \in Nat /\ Len(msgs) \in Nat /\ Len(msgs) + 1 # m
         /\ \E i \in 1..Len(emitted[k]) : m = emitted[k][i]
<1>1. emitted[k] \in Seq(Nat) /\ Known /\ msgs \in Seq(Message0)
  BY DEF OutputInv, OutputTypes
<1>2. DOMAIN emitted[k] = 1..Len(emitted[k]) /\ Len(msgs) \in Nat
  BY <1>1, Listed
<1>3. PICK i \in 1..Len(emitted[k]) : m = emitted[k][i]
  BY <1>2 DEF Range
<1>4. m \in 1..Len(msgs)
  BY <1>2, <1>3, <1>1 DEF Known
<1> QED
  BY <1>2, <1>3, <1>4

LEMMA CalledMoves ==
  ASSUME OutputInv, NEW j \in Here, OneStep(j), NEW k \in Here
  PROVE  /\ Called(k) \in Nat /\ Called(k) <= Len(emitted[k])
         /\ \/ Called(k)' = Called(k) /\ ~(k = j /\ Callback(j))
            \/ /\ k = j /\ Callback(j) /\ loop[k] = "received"
               /\ Called(k) = Len(emitted[k]) - 1 /\ Called(k)' = Len(emitted[k])
               /\ emitted'[k] = emitted[k]
<1>1. /\ emitted[k] \in Seq(Nat) /\ Len(emitted[k]) \in Nat
      /\ loop[k] = "received" => Len(emitted[k]) # 0
  BY Listed DEF OutputInv, OutputTypes, InHand
<1>2. Called(k) \in Nat /\ Called(k) <= Len(emitted[k])
  <2>1. CASE loop[k] = "received"
    BY <1>1, <2>1 DEF Called
  <2>2. CASE loop[k] # "received"
    BY <1>1, <2>2 DEF Called
  <2> QED
    BY <2>1, <2>2
<1>3. CASE Gains(k)
  <2>1. PICK m \in Nat : emitted'[k] = Append(emitted[k], m)
    BY <1>3, MsgsKeep DEF Gains
  <2>2. Len(emitted'[k]) = Len(emitted[k]) + 1
    BY <1>1, <2>1, Appended
  <2>3. ~(k = j /\ Callback(j))
    BY <1>3 DEF Gains, Callback
  <2> QED
    BY <1>1, <1>2, <1>3, <2>2, <2>3 DEF Called, Gains
<1>4. CASE emitted'[k] = emitted[k] /\ k = j /\ Callback(j)
  <2>1. loop[k] = "received" /\ loop'[k] = "calling"
    BY <1>4 DEF Callback, OutputInv, OutputTypes
  <2> QED
    BY <1>1, <1>2, <1>4, <2>1 DEF Called
<1>5. CASE emitted'[k] = emitted[k] /\ ~(k = j /\ Callback(j)) /\ ~Gains(k)
  <2>1. loop[k] = "received" <=> loop'[k] = "received"
    BY <1>5, LoopMoves
  <2> QED
    BY <1>1, <1>2, <1>5, <2>1 DEF Called
<1> QED
  BY <1>3, <1>4, <1>5, EmittedMoves

\* From whom a subscriber receives.
LEMMA GainsHow ==
  ASSUME OutputInv, NEW j \in Here, OneStep(j), NEW s \in Here, Subscribes(s), emitted'[s] # emitted[s]
  PROVE  \/ /\ j = Target(s) /\ Call(j) /\ loop[j] = "calling" /\ s = Head(calling[j]) /\ calling[j] # <<>>
            /\ Receives(s, hand[j], loop)
         \/ j = s /\ Replay(s) /\ Receives(s, emitted[Target(s)][ptr[s]], loop)
         \/ j = s /\ Result(s) /\ New(TRUE, FALSE) /\ Receives(s, Len(msgs) + 1, loop)
<1>T. emitted \in [Here -> Seq(Nat)]
  BY DEF OutputInv, OutputTypes
<1>1. ASSUME NEW k \in Here, NEW m, Receives(k, m, loop) PROVE k = s
  BY <1>1, <1>T DEF Receives
<1>2. CASE Call(j)
  <2>1. loop[j] = "calling" /\ calling[j] # <<>> /\ Receives(Head(calling[j]), hand[j], loop)
    BY <1>2 DEF Call
  <2>2. Head(calling[j]) \in Here /\ Target(Head(calling[j])) = j
    BY <2>1, HeadOfCalling DEF OutputInv
  <2> QED
    BY <1>1, <1>2, <2>1, <2>2
<1>3. CASE OfProcess(j)
  BY <1>1, <1>3 DEF OfProcess, Writes, Exits
<1>4. CASE Replay(j)
  <2>1. Receives(j, emitted[Target(j)][ptr[j]], loop)
    BY <1>4 DEF Replay
  <2> QED
    BY <1>1, <1>4, <2>1
<1>5. CASE Result(j)
  <2>1. New(TRUE, FALSE) /\ Receives(j, Len(msgs) + 1, loop)
    BY <1>5 DEF Result
  <2> QED
    BY <1>1, <1>5, <2>1
<1> QED
  BY <1>2, <1>3, <1>4, <1>5
  DEF OneStep, Handles, Subscribe, Callback, CallEnd, RunEnd, CleanUp, Look, EnrolRead, Enrol, Awaits,
      jobvars

\* Once a subscriber has done with its target, that receives nothing more.
LEMMA TargetFrozen ==
  ASSUME OutputInv, NEW j \in Here, OneStep(j), NEW s \in Here, Subscribes(s),
         proc[s] \in {"result", "closed"}
  PROVE  emitted'[Target(s)] = emitted[Target(s)] /\ Target(s) # s
<1>1. loop[Target(s)] \in {"done", "ended"} /\ Target(s) # s /\ Target(s) \in Here
  BY TargetHere DEF OutputInv, Own, Ending
<1> QED
  BY <1>1, EmittedMoves DEF Gains

LEMMA SeenStays ==
  ASSUME OutputInv, NEW j \in Here, OneStep(j), NEW s \in Here, Subscribes(s), emitted'[s] = emitted[s]
  PROVE  Seen(s)' = Seen(s)
<1> DEFINE q == emitted[s]
<1>T. q \in Seq(Nat) /\ Target(s) \in Here /\ Target(s)' = Target(s)
  BY TargetHere DEF OutputInv, OutputTypes, Target
<1>1. CASE q = <<>>
  BY <1>1 DEF Seen
<1>2. CASE q # <<>> /\ q[Len(q)] \in Range(emitted[Target(s)])
  <2>1. q[Len(q)] \in Range(emitted'[Target(s)])
    BY <1>2, <1>T, EmittedKeeps
  <2> QED
    BY <1>2, <1>T, <2>1 DEF Seen, Target
<1>3. CASE q # <<>> /\ q[Len(q)] \notin Range(emitted[Target(s)])
  <2>1. proc[s] = "closed"
    BY <1>3 DEF OutputInv, Own, Ending
  <2>2. emitted'[Target(s)] = emitted[Target(s)]
    BY <2>1, TargetFrozen
  <2> QED
    BY <1>3, <1>T, <2>2 DEF Seen, Target
<1> QED
  BY <1>1, <1>2, <1>3

\* A subscriber that has not closed has seen all its loop received.
LEMMA SeenAll ==
  ASSUME OutputInv, NEW s \in Here, Subscribes(s), proc[s] # "closed"
  PROVE  /\ Seen(s) = emitted[s]
         /\ emitted[s] = <<>> \/ emitted[s][Len(emitted[s])] \in Range(emitted[Target(s)])
  BY DEF OutputInv, Own, Ending, Seen

LEMMA SeenGains ==
  ASSUME OutputInv, NEW j \in Here, OneStep(j), NEW s \in Here, Subscribes(s), proc[s] # "closed",
         NEW m \in Range(emitted[Target(s)]), emitted'[s] = Append(emitted[s], m)
  PROVE  Seen(s) = emitted[s] /\ Seen(s)' = Append(Seen(s), m)
<1>1. emitted[s] \in Seq(Nat) /\ Target(s) \in Here
  BY TargetHere DEF OutputInv, OutputTypes
<1>2. m \in Range(emitted'[Target(s)]) /\ m \in Nat
  <2>1. m \in Nat
    BY <1>1, Received
  <2>2. Range(emitted[Target(s)]) \subseteq Range(emitted'[Target(s)])
    BY <1>1, EmittedKeeps
  <2> QED
    BY <2>1, <2>2
<1>3. emitted'[s][Len(emitted'[s])] = m /\ emitted'[s] # <<>>
  <2>1. PICK q \in Seq(Nat), x \in Nat : q = emitted[s] /\ x = m
    BY <1>1, <1>2
  <2>2. Append(q, x) # <<>> /\ Len(Append(q, x)) = Len(q) + 1 /\ Append(q, x)[Len(q) + 1] = x
    BY Appended
  <2> QED
    BY <2>1, <2>2
<1>4. Seen(s)' = emitted'[s]
  BY <1>2, <1>3 DEF Seen, Target
<1> QED
  BY <1>4, SeenAll

LEMMA SeenOwn ==
  ASSUME OutputInv, NEW j \in Here, OneStep(j), NEW s \in Here, Subscribes(s), proc[s] = "result",
         emitted'[s] = Append(emitted[s], Len(msgs) + 1)
  PROVE  Seen(s) = emitted[s] /\ Seen(s)' = Seen(s)
<1>1. emitted[s] \in Seq(Nat) /\ Target(s) \in Here /\ Len(msgs) + 1 \in Nat
  <2>1. emitted[s] \in Seq(Nat) /\ Target(s) \in Here
    BY TargetHere DEF OutputInv, OutputTypes
  <2>2. Len(msgs) \in Nat
    BY MsgsKeep
  <2> QED
    BY <2>1, <2>2
<1>2. emitted'[Target(s)] = emitted[Target(s)]
  BY TargetFrozen
<1>3. Len(msgs) + 1 \notin Range(emitted[Target(s)])
  BY <1>1, Received
<1>4. /\ emitted'[s] # <<>> /\ Len(emitted'[s]) = Len(emitted[s]) + 1
      /\ emitted'[s][Len(emitted'[s])] = Len(msgs) + 1
  BY <1>1, Appended
<1>5. SubSeq(emitted'[s], 1, Len(emitted'[s]) - 1) = emitted[s]
  BY <1>1, FrontOfAppend
<1>6. Seen(s)' = emitted[s]
  BY <1>2, <1>3, <1>4, <1>5 DEF Seen, Target
<1> QED
  BY <1>6, SeenAll

LEMMA RangeOfAppend ==
  ASSUME NEW S, NEW q \in Seq(S), NEW x \in S
  PROVE  Range(Append(q, x)) = Range(q) \cup {x}
<1> DEFINE a == Append(q, x)
<1>1. /\ DOMAIN q = 1..Len(q) /\ DOMAIN a = 1..(Len(q) + 1) /\ Len(q) \in Nat
      /\ \A i \in 1..Len(q) : a[i] = q[i]
      /\ a[Len(q) + 1] = x
  BY Appended
<1> HIDE DEF a
<1>2. \A i \in DOMAIN a : i \in DOMAIN q \/ i = Len(q) + 1
  BY <1>1
<1>3. Len(q) + 1 \in DOMAIN a /\ DOMAIN q \subseteq DOMAIN a
  BY <1>1
<1>4. Range(a) = Range(q) \cup {x}
  BY <1>1, <1>2, <1>3 DEF Range
<1> QED
  BY <1>4 DEF a

LEMMA RangeOfTail ==
  ASSUME NEW S, NEW q \in Seq(S), q # <<>>
  PROVE  Range(q) = Range(Tail(q)) \cup {Head(q)}
<1> DEFINE a == Tail(q)
<1>1. /\ Len(q) \in Nat \ {0} /\ DOMAIN q = 1..Len(q) /\ DOMAIN a = 1..(Len(q) - 1)
      /\ \A i \in DOMAIN a : a[i] = q[i + 1]
      /\ Head(q) = q[1]
  BY Tailed
<1> HIDE DEF a
<1>2. \A i \in DOMAIN a : i + 1 \in DOMAIN q
  BY <1>1
<1>3. \A i \in DOMAIN q : i = 1 \/ (i - 1 \in DOMAIN a /\ i = (i - 1) + 1)
  BY <1>1
<1>4. 1 \in DOMAIN q
  BY <1>1
<1>5. \A i \in DOMAIN q : i = 1 \/ q[i] = a[i - 1]
  BY <1>1, <1>3
<1>6. Range(q) \subseteq Range(a) \cup {q[1]}
  BY <1>3, <1>5 DEF Range
<1>7. Range(a) \cup {q[1]} \subseteq Range(q)
  BY <1>1, <1>2, <1>4 DEF Range
<1> QED
  BY <1>1, <1>6, <1>7 DEF a

\* What is known of a subscriber's progress, and how that changes.
LEMMA ReplayedMoves ==
  ASSUME OutputInv, NEW j \in Here, OneStep(j), NEW s \in Here, ~Look(j) \/ s # j, ~Replay(j) \/ s # j
  PROVE  /\ ptr'[s] = ptr[s]
         /\ \/ replayed'[s] = replayed[s] /\ ~(Enrol(j) /\ s = j)
               /\ (Enrol(j) /\ Target(s) = Target(j) => s \in Range(copy[j]))
            \/ /\ Enrol(j) /\ s = j
               /\ replayed'[s] = [replayed[s] EXCEPT !.since = Called(Target(s)), !.kept = TRUE]
            \/ /\ Enrol(j) /\ s # j
               /\ replayed'[s] = [replayed[s] EXCEPT !.kept = FALSE]
<1>T. ptr \in [Here -> Nat] /\ replayed \in [Here -> [first : Nat, last : Nat, since : Nat, kept : BOOLEAN]]
  BY DEF OutputInv, OutputTypes
<1>1. CASE Look(j)
  <2>1. /\ ptr' = ptr \/ \E x : ptr' = [ptr EXCEPT ![j] = x]
        /\ replayed' = replayed \/ \E x : replayed' = [replayed EXCEPT ![j] = x]
        /\ proc[j] = "new"
    BY <1>1 DEF Look
  <2>2. ~Enrol(j)
    BY <2>1 DEF Enrol
  <2> QED
    BY <1>1, <1>T, <2>1, <2>2
<1>2. CASE Replay(j)
  <2>1. /\ \E x : ptr' = [ptr EXCEPT ![j] = x]
        /\ \E x : replayed' = [replayed EXCEPT ![j] = x]
        /\ proc[j] = "sending"
    BY <1>2, <1>T DEF Replay
  <2>2. ~Enrol(j)
    BY <2>1 DEF Enrol
  <2> QED
    BY <1>2, <1>T, <2>1, <2>2
<1>3. CASE Enrol(j)
  <2>1. ptr' = ptr
    BY <1>3 DEF Enrol
  <2>2. replayed'[s] =
          IF s = j THEN [replayed[s] EXCEPT !.since = Called(Target(j)), !.kept = TRUE]
          ELSE IF Target(s) = Target(j) /\ s \notin Range(copy[j]) THEN [replayed[s] EXCEPT !.kept = FALSE]
          ELSE replayed[s]
    BY <1>3 DEF Enrol
  <2>3. CASE s = j
    BY <1>3, <2>1, <2>2, <2>3
  <2>4. CASE s # j
    BY <1>3, <2>1, <2>2, <2>4
  <2> QED
    BY <2>3, <2>4
<1>4. CASE ~Look(j) /\ ~Replay(j) /\ ~Enrol(j)
  <2>1. UNCHANGED <<ptr, replayed>>
    BY <1>4
    DEF OneStep, Handles, OfProcess, Subscribe, Callback, Call, CallEnd, RunEnd, CleanUp, Writes, Exits,
        EnrolRead, Awaits, Result, subvars
  <2> QED
    BY <1>4, <2>1
<1> QED
  BY <1>1, <1>2, <1>3, <1>4

LEMMA LookMoves ==
  ASSUME OutputInv, NEW s \in Here, Look(s)
  PROVE  LET n == FirstKept(Target(s)) IN
         /\ Subscribes(s) /\ Target(s) \in Here /\ proc[s] = "new"
         /\ UNCHANGED <<emitted, loop, hand, msgs, calling, subscribers>>
         /\ n \in Nat /\ n >= 1 /\ n <= Len(emitted[Target(s)]) + 1
         /\ emitted[Target(s)] # <<>> => n <= Len(emitted[Target(s)])
         /\ \/ /\ loop[Target(s)] = "ended" /\ proc'[s] = "result" /\ ptr'[s] = ptr[s]
               /\ replayed'[s] = replayed[s]
            \/ /\ proc'[s] = "sending" /\ ptr'[s] = IF emitted[Target(s)] = <<>> THEN 0 ELSE n
               /\ replayed'[s] = [replayed[s] EXCEPT !.first = n, !.last = n - 1]
<1>1. /\ Subscribes(s) /\ proc[s] = "new"
      /\ UNCHANGED <<emitted, loop, hand, msgs, calling, subscribers>>
  BY DEF Look, jobvars
<1>2. PICK t \in Here : t = Target(s)
  BY <1>1, TargetHere
<1>3. emitted[t] \in Seq(Nat) /\ Len(emitted[t]) \in Nat
  BY <1>2, Listed DEF OutputInv, OutputTypes
<1>4. /\ FirstKept(t) \in Nat /\ FirstKept(t) >= 1 /\ FirstKept(t) <= Len(emitted[t]) + 1
      /\ emitted[t] # <<>> => FirstKept(t) <= Len(emitted[t])
  <2>1. \A n \in Nat :
          LET k == IF n > Backlog THEN n - Backlog + 1 ELSE 1
          IN  k \in Nat /\ k >= 1 /\ k <= n + 1 /\ (n # 0 => k <= n)
    BY OutputAssumption
  <2>2. FirstKept(t) = IF Len(emitted[t]) > Backlog THEN Len(emitted[t]) - Backlog + 1 ELSE 1
    BY Zenon DEF FirstKept
  <2>3. emitted[t] # <<>> => Len(emitted[t]) # 0
    BY <1>3
  <2> QED
    BY <1>3, <2>1, <2>2, <2>3
<1>5. ptr \in [Here -> Nat] /\ replayed \in [Here -> [first : Nat, last : Nat, since : Nat, kept : BOOLEAN]]
      /\ proc \in [Here -> Unenrolled \cup Enrolled]
  BY DEF OutputInv, OutputTypes
<1>6. CASE loop[t] = "ended"
  <2>1. proc' = [proc EXCEPT ![s] = "result"] /\ UNCHANGED <<ptr, replayed>>
    BY <1>2, <1>6 DEF Look
  <2> QED
    BY <1>1, <1>2, <1>4, <1>5, <1>6, <2>1
<1>7. CASE loop[t] # "ended"
  <2>1. /\ proc' = [proc EXCEPT ![s] = "sending"]
        /\ ptr' = [ptr EXCEPT ![s] = IF emitted[t] = <<>> THEN 0 ELSE FirstKept(t)]
        /\ replayed' = [replayed EXCEPT ![s] = [@ EXCEPT !.first = FirstKept(t), !.last = FirstKept(t) - 1]]
    BY <1>2, <1>7 DEF Look
  <2> QED
    BY <1>1, <1>2, <1>4, <1>5, <2>1
<1> QED
  BY <1>6, <1>7

LEMMA ReplayMoves ==
  ASSUME OutputInv, NEW s \in Here, Replay(s)
  PROVE  LET t == Target(s) IN
         /\ Subscribes(s) /\ t \in Here /\ proc[s] = "sending" /\ ptr[s] # 0
         /\ UNCHANGED <<msgs, subscribers, calling, proc, copy>>
         /\ ptr[s] = replayed[s].last + 1 /\ ptr[s] \in 1..Len(emitted[t]) /\ Len(emitted[t]) \in Nat
         /\ emitted[t][ptr[s]] \in Range(emitted[t])
         /\ ptr'[s] = After(t, ptr[s])
         /\ ptr'[s] # 0 => ptr'[s] = ptr[s] + 1 /\ ptr'[s] <= Len(emitted[t])
         /\ replayed'[s] = [replayed[s] EXCEPT !.last = @ + 1]
         /\ \/ Receives(s, emitted[t][ptr[s]], loop)
            \/ loop[s] = "drain" /\ UNCHANGED <<loop, hand, emitted>>
<1>1. /\ proc[s] = "sending" /\ ptr[s] # 0 /\ UNCHANGED <<msgs, subscribers, calling, proc, copy>>
      /\ ptr' = [ptr EXCEPT ![s] = After(Target(s), ptr[s])]
      /\ replayed' = [replayed EXCEPT ![s].last = @ + 1]
      /\ \/ Receives(s, emitted[Target(s)][ptr[s]], loop)
         \/ loop[s] = "drain" /\ UNCHANGED <<loop, hand, emitted>>
  BY DEF Replay
<1>2. Subscribes(s) /\ Position(s) /\ Target(s) \in Here
  BY <1>1, TargetHere DEF OutputInv, Own
<1>3. PICK t \in Here : t = Target(s)
  BY <1>2
<1>4. /\ emitted[t] \in Seq(Nat) /\ Len(emitted[t]) \in Nat /\ ptr \in [Here -> Nat]
      /\ replayed \in [Here -> [first : Nat, last : Nat, since : Nat, kept : BOOLEAN]]
  BY Listed DEF OutputInv, OutputTypes
<1>5. ptr[s] = replayed[s].last + 1 /\ ptr[s] \in 1..Len(emitted[t])
  BY <1>1, <1>2, <1>3, <1>4 DEF Position
<1>6. emitted[t][ptr[s]] \in Range(emitted[t])
  BY <1>4, <1>5, Listed
<1>7. ptr'[s] = After(t, ptr[s]) /\ (ptr'[s] # 0 => ptr'[s] = ptr[s] + 1 /\ ptr'[s] <= Len(emitted[t]))
  BY <1>1, <1>3, <1>4, <1>5 DEF After
<1>8. replayed'[s] = [replayed[s] EXCEPT !.last = @ + 1]
  BY <1>1, <1>4
<1> QED
  BY <1>1, <1>2, <1>3, <1>4, <1>5, <1>6, <1>7, <1>8

LEMMA ReplayedTypes ==
  ASSUME OutputInv, NEW j \in Here, OneStep(j), NEW s \in Here
  PROVE  /\ replayed[s] \in [first : Nat, last : Nat, since : Nat, kept : BOOLEAN]
         /\ replayed'[s] \in [first : Nat, last : Nat, since : Nat, kept : BOOLEAN]
         /\ ptr[s] \in Nat /\ ptr'[s] \in Nat /\ s \in Here'
         /\ proc[s] \in Unenrolled \cup Enrolled /\ proc'[s] \in Unenrolled \cup Enrolled
         /\ loop[s] \in LoopStates /\ loop'[s] \in LoopStates
         /\ emitted[s] \in Seq(Nat) /\ emitted'[s] \in Seq(Nat)
<1>1. OutputTypes /\ OutputTypes'
  BY TypesStep DEF OutputInv
<1>2. loop \in [Here -> LoopStates] /\ loop' \in [Here' -> LoopStates]
  BY <1>1 DEF OutputTypes
<1>3. Here' = Here
  <2>1. \A k \in Here : loop'[k] = loop[k] \/ loop'[k] # loop[k]
    OBVIOUS
  <2>2. DOMAIN loop' = DOMAIN loop
    BY <1>2, HeadOfCalling
    DEF OneStep, Handles, OfProcess, Subscribe, Callback, Call, CallEnd, RunEnd, CleanUp, Writes, Exits,
        Look, Replay, EnrolRead, Enrol, Awaits, Result, jobvars, Receives, OutputInv
  <2> QED
    BY <2>2 DEF Here
<1> QED
  BY <1>1, <1>3 DEF OutputTypes

LEMMA ReplayedSince ==
  ASSUME OutputInv, NEW j \in Here, OneStep(j), NEW s \in Here, Subscribes(s)
  PROVE  \/ replayed'[s].since = replayed[s].since /\ ~(Enrol(j) /\ s = j)
         \/ Enrol(j) /\ s = j /\ replayed'[s].since = Called(Target(s))
<1>T. replayed[s] \in [first : Nat, last : Nat, since : Nat, kept : BOOLEAN]
  BY ReplayedTypes
<1>1. CASE Look(j) /\ s = j
  <2>1. replayed'[s] = replayed[s] \/ \E n : replayed'[s] = [replayed[s] EXCEPT !.first = n, !.last = n - 1]
    BY <1>1, LookMoves
  <2>2. proc[j] # "enrolling"
    BY <1>1 DEF Look
  <2> QED
    BY <1>T, <2>1, <2>2 DEF Enrol
<1>2. CASE Replay(j) /\ s = j
  <2>1. replayed'[s] = [replayed[s] EXCEPT !.last = @ + 1] /\ proc[j] # "enrolling"
    BY <1>2, ReplayMoves
  <2> QED
    BY <1>T, <2>1 DEF Enrol
<1>3. CASE (~Look(j) \/ s # j) /\ (~Replay(j) \/ s # j)
  BY <1>3, <1>T, ReplayedMoves
<1> QED
  BY <1>1, <1>2, <1>3

LEMMA PositionStep ==
  ASSUME OutputInv, NEW j \in Here, OneStep(j), NEW s \in Here, Subscribes(s)
  PROVE  Position(s)'
<1>1. PICK t \in Here : t = Target(s)
  BY TargetHere
<1>2. Position(s) /\ (proc[s] = "enrolling" => s \notin Range(calling[t]))
  <2>1. Position(s) /\ Slice(t, calling[t]) /\ calling[t] \in Seq(Here)
    BY DEF OutputInv, OutputTypes, Own, Slices
  <2> QED
    BY <2>1 DEF Slice, Range, Enrolled
<1>3. /\ Called(t) \in Nat /\ Called(t)' \in Nat /\ Called(t) <= Called(t)'
      /\ Callback(t) /\ t = j => Called(t) < Called(t)'
      /\ Len(emitted[t]) \in Nat /\ Len(emitted'[t]) \in Nat /\ Len(emitted[t]) <= Len(emitted'[t])
  BY CalledMoves, EmittedKeeps
<1>4. /\ replayed[s] \in [first : Nat, last : Nat, since : Nat, kept : BOOLEAN]
      /\ replayed'[s] \in [first : Nat, last : Nat, since : Nat, kept : BOOLEAN]
      /\ ptr[s] \in Nat /\ ptr'[s] \in Nat
  BY ReplayedTypes
<1>5. replayed'[s].since <= Called(t)'
  BY <1>1, <1>2, <1>3, <1>4, ReplayedSince DEF Position
<1>6. ASSUME s \in Range(calling'[t]) PROVE replayed'[s].since < Called(t)'
  <2>1. CASE s \in Range(calling[t])
    <3>1. ~(Enrol(j) /\ s = j)
      BY <1>2, <2>1 DEF Enrol
    <3> QED
      BY <1>1, <1>2, <1>3, <1>4, <2>1, <3>1, ReplayedSince DEF Position
  <2>2. CASE s \notin Range(calling[t])
    <3>1. ~(calling[t] # <<>> /\ calling'[t] = Tail(calling[t]))
      <4>1. calling[t] \in Seq(Here)
        BY DEF OutputInv, OutputTypes
      <4> QED
        BY <1>6, <2>2, <4>1, RangeOfTail
    <3>2. t = j /\ Callback(t) /\ ~Enrol(j)
      <4>1. t = j /\ Callback(t) /\ proc' = proc
        BY <1>6, <2>2, <3>1, CallingMoves DEF Callback, subvars
      <4>2. Enrol(j) => proc'[j] = "waiting" /\ proc[j] = "enrolling"
        BY DEF Enrol, OutputInv, OutputTypes
      <4> QED
        BY <4>1, <4>2
    <3> QED
      BY <1>1, <1>2, <1>3, <1>4, <3>2, ReplayedSince DEF Position
  <2> QED
    BY <2>1, <2>2
<1>7. ASSUME replayed'[s].kept PROVE s \in Range(subscribers'[t]) /\ proc'[s] \in Enrolled
  <2>1. CASE Enrol(j) /\ s = j
    <3>1. copy[j] \in Seq(Here) /\ proc \in [Here -> Unenrolled \cup Enrolled]
      BY DEF OutputInv, OutputTypes
    <3>2. proc'[s] = "waiting"
      BY <2>1, <3>1 DEF Enrol
    <3>3. subscribers'[t] = Append(copy[j], j)
      BY <1>1, <2>1 DEF Enrol, OutputInv, OutputTypes
    <3> QED
      BY <2>1, <3>1, <3>2, <3>3, RangeOfAppend DEF Enrolled
  <2>2. CASE ~(Enrol(j) /\ s = j)
    <3>1. replayed[s].kept /\ (Enrol(j) /\ Target(s) = Target(j) => s \in Range(copy[j]))
      <4>1. CASE Look(j) /\ s = j
        <5>1. replayed'[s] = replayed[s] \/ \E n : replayed'[s] = [replayed[s] EXCEPT !.first = n, !.last = n - 1]
          BY <4>1, LookMoves
        <5> QED
          BY <1>4, <1>7, <2>2, <4>1, <5>1
      <4>2. CASE Replay(j) /\ s = j
        <5>1. replayed'[s] = [replayed[s] EXCEPT !.last = @ + 1]
          BY <4>2, ReplayMoves
        <5> QED
          BY <1>4, <1>7, <2>2, <4>2, <5>1
      <4>3. CASE (~Look(j) \/ s # j) /\ (~Replay(j) \/ s # j)
        BY <1>4, <1>7, <2>2, <4>3, ReplayedMoves
      <4> QED
        BY <4>1, <4>2, <4>3
    <3>2. s \in Range(subscribers[t]) /\ proc[s] \in Enrolled
      BY <1>1, <1>2, <3>1 DEF Position
    <3>3. copy[j] \in Seq(Here)
      BY DEF OutputInv, OutputTypes
    <3>4. s \in Range(subscribers'[t])
      <4>1. CASE Enrol(j) /\ t = Target(j) /\ subscribers'[t] = Append(copy[j], j)
        <5>1. s \in Range(copy[j])
          BY <1>1, <3>1, <4>1
        <5>2. Range(Append(copy[j], j)) = Range(copy[j]) \cup {j}
          BY <3>3, RangeOfAppend
        <5> QED
          BY <4>1, <5>1, <5>2
      <4> QED
        BY <3>2, <4>1, SubscribersMove
    <3> QED
      BY <3>2, <3>4, StaysEnrolled
  <2> QED
    BY <2>1, <2>2
<1>8. /\ 1 <= replayed'[s].first /\ replayed'[s].first <= replayed'[s].last + 1
      /\ replayed'[s].last <= Len(emitted'[t])
      /\ proc'[s] = "new" => replayed'[s].first = 1 /\ replayed'[s].last = 0
      /\ proc'[s] = "sending" /\ ptr'[s] # 0 => ptr'[s] = replayed'[s].last + 1 /\ ptr'[s] <= Len(emitted'[t])
  <2>1. CASE Look(j) /\ s = j
    <3>1. \/ /\ proc'[s] = "result" /\ replayed'[s] = replayed[s]
          \/ /\ proc'[s] = "sending"
             /\ ptr'[s] = IF emitted[t] = <<>> THEN 0 ELSE FirstKept(t)
             /\ replayed'[s] = [replayed[s] EXCEPT !.first = FirstKept(t), !.last = FirstKept(t) - 1]
      BY <1>1, <2>1, LookMoves
    <3>2. /\ FirstKept(t) \in Nat /\ FirstKept(t) >= 1 /\ FirstKept(t) <= Len(emitted[t]) + 1
          /\ emitted[t] # <<>> => FirstKept(t) <= Len(emitted[t])
          /\ emitted' = emitted
      BY <1>1, <2>1, LookMoves
    <3>3. PICK n \in Nat : n = FirstKept(t)
      BY <3>2
    <3>4. CASE replayed'[s] = replayed[s] /\ proc'[s] = "result"
      BY <1>1, <1>2, <1>3, <1>4, <3>2, <3>4 DEF Position
    <3>5. CASE /\ proc'[s] = "sending"
               /\ ptr'[s] = IF emitted[t] = <<>> THEN 0 ELSE n
               /\ replayed'[s] = [replayed[s] EXCEPT !.first = n, !.last = n - 1]
      <4>1. replayed'[s].first = n /\ replayed'[s].last = n - 1
        BY <1>4, <3>5
      <4> QED
        BY <1>3, <3>2, <3>3, <3>5, <4>1
    <3> QED
      BY <3>1, <3>3, <3>4, <3>5
  <2>2. CASE Replay(j) /\ s = j
    <3>1. /\ replayed'[s] = [replayed[s] EXCEPT !.last = @ + 1] /\ proc'[s] = "sending"
          /\ ptr[s] = replayed[s].last + 1 /\ ptr[s] <= Len(emitted[t])
          /\ ptr'[s] # 0 => ptr'[s] = ptr[s] + 1 /\ ptr'[s] <= Len(emitted[t])
      BY <1>1, <2>2, ReplayMoves
    <3>2. replayed'[s].first = replayed[s].first /\ replayed'[s].last = replayed[s].last + 1
      BY <1>4, <3>1
    <3>3. replayed[s].first >= 1 /\ replayed[s].first <= replayed[s].last + 1
      BY <1>2 DEF Position
    <3>4. PICK a, b \in Nat : a = replayed[s].first /\ b = replayed[s].last
      BY <1>4
    <3>5. replayed'[s].first = a /\ replayed'[s].last = b + 1 /\ ptr[s] = b + 1
      BY <3>1, <3>2, <3>4
    <3>6. 1 <= a /\ a <= (b + 1) + 1 /\ b + 1 <= Len(emitted'[t])
      BY <1>3, <3>1, <3>3, <3>4, <3>5
    <3>7. ptr'[s] # 0 => ptr'[s] = (b + 1) + 1 /\ ptr'[s] <= Len(emitted'[t])
      <4>1. ptr'[s] # 0 => ptr'[s] = (b + 1) + 1
        BY <3>1, <3>5
      <4>2. ptr'[s] # 0 => ptr'[s] <= Len(emitted[t])
        BY <3>1
      <4>3. PICK p, a1, b1 \in Nat : p = ptr'[s] /\ a1 = Len(emitted[t]) /\ b1 = Len(emitted'[t]) /\ a1 <= b1
        BY <1>3, <1>4
      <4> QED
        BY <4>1, <4>2, <4>3
    <3>8. proc'[s] # "new"
      BY <3>1
    <3> QED
      BY <3>5, <3>6, <3>7, <3>8
  <2>3. CASE (~Look(j) \/ s # j) /\ (~Replay(j) \/ s # j)
    <3>1. ptr'[s] = ptr[s] /\ replayed'[s].first = replayed[s].first /\ replayed'[s].last = replayed[s].last
      BY <1>4, <2>3, ReplayedMoves
    <3>2. (proc'[s] = "new" => proc[s] = "new") /\ (proc'[s] = "sending" => proc[s] = "sending")
      BY <2>3, ProcMoves
    <3>3. /\ 1 <= replayed[s].first /\ replayed[s].first <= replayed[s].last + 1
          /\ replayed[s].last <= Len(emitted[t])
          /\ proc[s] = "new" => replayed[s].first = 1 /\ replayed[s].last = 0
          /\ proc[s] = "sending" /\ ptr[s] # 0 => ptr[s] = replayed[s].last + 1 /\ ptr[s] <= Len(emitted[t])
      BY <1>1, <1>2 DEF Position
    <3> QED
      BY <1>3, <1>4, <3>1, <3>2, <3>3
  <2> QED
    BY <2>1, <2>2, <2>3
<1>9. Target(s)' = t
  BY <1>1 DEF Target
<1> QED
  BY <1>1, <1>5, <1>6, <1>7, <1>8, <1>9 DEF Position, Target

\* The message that ends a run is the last a subscriber has of its target.
LastEnds(s) == \A i \in DOMAIN Seen(s) : msgs[Seen(s)[i]].exit => i = Len(Seen(s))

LEMMA SeenTypes ==
  ASSUME OutputInv, NEW s \in Here, Subscribes(s)
  PROVE  /\ Seen(s) \in Seq(Nat) /\ Len(Seen(s)) \in Nat /\ DOMAIN Seen(s) = 1..Len(Seen(s))
         /\ Range(Seen(s)) = {Seen(s)[i] : i \in 1..Len(Seen(s))}
         /\ \A i \in 1..Len(Seen(s)) : Seen(s)[i] \in 1..Len(msgs)
<1>1. PICK q \in Seq(Nat) : q = emitted[s]
  BY DEF OutputInv, OutputTypes
<1>2. Len(q) \in Nat /\ (q = <<>> <=> Len(q) = 0) /\ DOMAIN q = 1..Len(q)
      /\ \A i \in 1..Len(q) : q[i] \in 1..Len(msgs)
  BY <1>1, Listed DEF OutputInv, Known
<1>3. CASE Seen(s) = q
  BY <1>1, <1>2, <1>3, Listed
<1>4. CASE q # <<>> /\ Seen(s) = SubSeq(q, 1, Len(q) - 1)
  <2>1. /\ SubSeq(q, 1, Len(q) - 1) \in Seq(Nat) /\ Len(SubSeq(q, 1, Len(q) - 1)) = Len(q) - 1
        /\ \A i \in 1..(Len(q) - 1) : SubSeq(q, 1, Len(q) - 1)[i] = q[i]
    BY <1>2, <1>4
  <2>2. \A i \in 1..(Len(q) - 1) : i \in 1..Len(q)
    BY <1>2
  <2> QED
    BY <1>2, <1>4, <2>1, <2>2, Listed
<1> QED
  BY <1>1, <1>3, <1>4 DEF Seen

LEMMA OverStays ==
  ASSUME OutputInv, NEW j \in Here, OneStep(j), NEW s \in Here, Subscribes(s), Seen(s)' = Seen(s)
  PROVE  Over(s)' <=> Over(s)
<1>1. PICK q : q = Seen(s)
  OBVIOUS
<1>2. Range(q) = {q[i] : i \in 1..Len(q)} /\ \A i \in 1..Len(q) : q[i] \in 1..Len(msgs)
  BY <1>1, SeenTypes
<1>3. \A m \in Range(q) : msgs'[m].exit = msgs[m].exit
  BY <1>2, MsgsKeep
<1>4. Over(s) <=> \E m \in Range(q) : msgs[m].exit
  BY <1>1 DEF Over
<1>5. Over(s)' <=> \E m \in Range(q) : msgs'[m].exit
  BY <1>1 DEF Over
<1> QED
  BY <1>3, <1>4, <1>5

\* The message in hand of a subscriber that has not closed is the last it has seen.
LEMMA HandSeen ==
  ASSUME OutputInv, NEW s \in Here, Subscribes(s), loop[s] \in {"received", "calling"},
         ~msgs[hand[s]].exit \/ proc[s] # "closed"
  PROVE  Len(Seen(s)) \in DOMAIN Seen(s) /\ hand[s] = Seen(s)[Len(Seen(s))]
<1>1. Len(emitted[s]) \in Nat \ {0} /\ hand[s] = emitted[s][Len(emitted[s])] /\ emitted[s] # <<>>
      /\ emitted[s] \in Seq(Nat)
  BY HandKnown DEF OutputInv, OutputTypes, InHand
<1>2. Seen(s) = emitted[s]
  BY <1>1 DEF OutputInv, Own, Ending, Seen
<1> QED
  BY <1>1, <1>2, Listed

LEMMA EndingStep ==
  ASSUME OutputInv, NEW j \in Here, OneStep(j), NEW s \in Here, Subscribes(s), LastEnds(s)
  PROVE  Ending(s)'
<1>1. PICK t \in Here : t = Target(s)
  BY TargetHere
<1>2. Ending(s) /\ InHand(s)
  BY DEF OutputInv, Own
<1>3. Target(s)' = t
  BY <1>1 DEF Target
<1>4. /\ proc[s] \in Unenrolled \cup Enrolled /\ proc'[s] \in Unenrolled \cup Enrolled
      /\ emitted[s] \in Seq(Nat) /\ emitted'[s] \in Seq(Nat) /\ Len(msgs) \in Nat
      /\ \A i \in 1..Len(msgs) : msgs'[i].exit = msgs[i].exit
  BY ReplayedTypes, MsgsKeep
<1>5. proc[s] = "closed" => proc'[s] = "closed"
  BY ProcMoves
<1>A. ASSUME proc'[s] \in {"result", "closed"} PROVE loop'[t] \in {"done", "ended"}
  <2>1. loop[t] \in {"done", "ended"}
    <3>1. CASE proc[s] \in {"result", "closed"}
      BY <1>1, <1>2, <3>1 DEF Ending
    <3>2. CASE Look(j) /\ s = j
      BY <1>1, <1>A, <3>2, LookMoves
    <3>3. CASE Awaits(j) /\ s = j
      BY <1>1, <3>3 DEF Awaits
    <3> QED
      BY <1>A, <3>1, <3>2, <3>3, ProcMoves
  <2> QED
    BY <2>1, LoopMoves DEF Gains
<1>E. CASE emitted'[s] = emitted[s]
  <2>1. Seen(s)' = Seen(s) /\ (Over(s)' <=> Over(s)) /\ ~Gains(s)
    <3>1. ~Gains(s)
      <4>1. ASSUME NEW m \in 1..Len(msgs'), emitted'[s] = Append(emitted[s], m) PROVE FALSE
        <5>1. m \in Nat
          BY MsgsKeep
        <5> QED
          BY <1>E, <1>4, <4>1, <5>1, Appended
      <4> QED
        BY <4>1 DEF Gains
    <3> QED
      BY <1>E, <3>1, SeenStays, OverStays
  <2>2. ASSUME emitted'[s] # <<>>, emitted'[s][Len(emitted'[s])] \notin Range(emitted'[t])
        PROVE  proc'[s] = "closed" /\ msgs'[emitted'[s][Len(emitted'[s])]].exit
    <3>1. emitted[s][Len(emitted[s])] \notin Range(emitted[t])
      BY <1>E, <2>2, EmittedKeeps
    <3>2. proc[s] = "closed" /\ msgs[emitted[s][Len(emitted[s])]].exit
      BY <1>1, <1>2, <1>E, <2>2, <3>1 DEF Ending
    <3>3. emitted[s][Len(emitted[s])] \in 1..Len(msgs)
      BY <1>4, <1>E, <2>2, Listed DEF OutputInv, Known
    <3> QED
      BY <1>4, <1>5, <1>E, <3>2, <3>3
  <2>3. ASSUME Over(s)' PROVE loop'[s] # "idle"
    <3>1. Over(s) /\ loop[s] # "idle"
      BY <1>2, <2>1, <2>3 DEF Ending
    <3>2. CASE s = j /\ CallEnd(j) /\ loop[j] = "calling" /\ ~msgs[hand[j]].exit
      <4>1. Len(Seen(s)) \in DOMAIN Seen(s) /\ hand[s] = Seen(s)[Len(Seen(s))]
        BY <3>2, HandSeen
      <4>2. PICK i \in DOMAIN Seen(s) : msgs[Seen(s)[i]].exit
        BY <3>1, SeenTypes DEF Over
      <4>3. i = Len(Seen(s))
        BY <4>2 DEF LastEnds
      <4> QED
        BY <3>2, <4>1, <4>2, <4>3
    <3> QED
      BY <2>1, <3>1, <3>2, LoopMoves
  <2>4. ASSUME loop'[s] = "drain", proc'[s] # "closed" PROVE Over(s)'
    <3>1. CASE loop[s] = "drain"
      BY <1>2, <1>5, <2>1, <2>4, <3>1 DEF Ending
    <3>2. CASE loop[s] # "drain"
      <4>1. s = j /\ CallEnd(j) /\ loop[j] = "calling" /\ msgs[hand[j]].exit
        BY <2>1, <2>4, <3>2, LoopMoves
      <4>2. Len(Seen(s)) \in DOMAIN Seen(s) /\ hand[s] = Seen(s)[Len(Seen(s))]
        BY <1>5, <2>4, <4>1, HandSeen
      <4>3. Over(s)
        BY <4>1, <4>2, SeenTypes DEF Over
      <4> QED
        BY <2>1, <4>3
    <3> QED
      BY <3>1, <3>2
  <2>5. ASSUME t = s PROVE emitted'[s] = <<>> /\ loop'[s] = "idle" /\ proc'[s] \notin {"result", "closed"}
    <3>1. emitted[s] = <<>> /\ loop[s] = "idle"
      BY <1>1, <1>2, <2>5 DEF Ending
    <3>2. loop'[s] = "idle"
      BY <2>1, <3>1, LoopMoves
    <3> QED
      BY <1>A, <1>E, <2>5, <3>1, <3>2
  <2> QED
    BY <1>1, <1>3, <1>A, <2>2, <2>3, <2>4, <2>5 DEF Ending, Target
<1>G. CASE emitted'[s] # emitted[s]
  <2>1. Gains(s)
    BY <1>G, EmittedMoves
  <2>2. loop'[s] = "received" /\ loop[s] = "idle"
    BY <2>1 DEF Gains
  <2>3. t # s
    <3>1. CASE t = s
      <4>1. emitted[s] = <<>> /\ loop[s] = "idle" /\ proc[s] \notin {"result", "closed"} /\ Len(emitted[s]) = 0
        BY <1>1, <1>2, <1>4, <3>1, Listed DEF Ending
      <4>2. Replay(j) /\ j = s
        BY <1>1, <1>G, <3>1, <4>1, GainsHow DEF Result
      <4>3. ptr[s] \in 1..Len(emitted[s])
        BY <1>1, <3>1, <4>2, ReplayMoves
      <4> QED
        BY <4>1, <4>3
    <3> QED
      BY <3>1
  <2>4. ASSUME emitted'[s][Len(emitted'[s])] \notin Range(emitted'[t])
        PROVE  proc'[s] = "closed" /\ msgs'[emitted'[s][Len(emitted'[s])]].exit
    <3>1. ASSUME NEW m \in Range(emitted[t]), Receives(s, m, loop) PROVE FALSE
      <4>1. m \in Nat /\ m \in Range(emitted'[t])
        BY <3>1, Received, EmittedKeeps
      <4>2. emitted'[s] = Append(emitted[s], m)
        BY <3>1, <4>1, ReceivesFacts DEF OutputInv
      <4>3. emitted'[s][Len(emitted'[s])] = m
        BY <1>4, <4>1, <4>2, Appended
      <4> QED
        BY <2>4, <4>1, <4>3
    <3>2. ~(Receives(s, hand[t], loop) /\ loop[t] = "calling")
      BY <3>1, HandKnown DEF OutputInv
    <3>3. ~(Replay(s) /\ Receives(s, emitted[t][ptr[s]], loop))
      <4>1. Replay(s) => emitted[t][ptr[s]] \in Range(emitted[t])
        BY <1>1, ReplayMoves
      <4> QED
        BY <3>1, <4>1
    <3>4. j = s /\ Result(s) /\ New(TRUE, FALSE) /\ Receives(s, Len(msgs) + 1, loop)
      BY <1>1, <1>G, <3>2, <3>3, GainsHow
    <3>5. Len(msgs) + 1 \in Nat /\ msgs'[Len(msgs) + 1].exit = TRUE
      <4>1. New(TRUE, FALSE) /\ OutputTypes /\ TRUE \in BOOLEAN /\ FALSE \in BOOLEAN
        BY <3>4 DEF OutputInv
      <4>2. msgs'[Len(msgs) + 1].exit = TRUE
        BY <4>1, NewFacts, Zenon
      <4> QED
        BY <1>4, <4>2
    <3>6. emitted'[s] = Append(emitted[s], Len(msgs) + 1)
      BY <3>4, <3>5, ReceivesFacts DEF OutputInv
    <3>7. emitted'[s][Len(emitted'[s])] = Len(msgs) + 1
      BY <1>4, <3>5, <3>6, Appended
    <3>8. proc'[s] = "closed"
      BY <3>4 DEF Result, OutputInv, OutputTypes
    <3> QED
      BY <3>5, <3>7, <3>8
  <2> QED
    BY <1>1, <1>3, <1>A, <2>2, <2>3, <2>4 DEF Ending, Target
<1> QED
  BY <1>E, <1>G

-----------------------------------------------------------------------------
\* Served, of what it depends on: q is what a subscriber has seen, E what its target received,
\* X the messages that end a run, L what is live, and n how much of the backlog from f on was sent.
Fits(p, q, E, X, f, n, L, kept) ==
  /\ p \in [DOMAIN q -> DOMAIN E]
  /\ \A i \in DOMAIN q : q[i] = E[p[i]] /\ (q[i] \in X => i = Len(q))
  /\ \A i \in DOMAIN q : IF i <= n THEN p[i] = f + i - 1 ELSE p[i] \in L
  /\ \A i, k \in DOMAIN q : n < i /\ i < k => p[i] < p[k]
  /\ Len(q) >= n \/ (\E i \in DOMAIN q : q[i] \in X)
  /\ kept => \A k \in L :
       \/ \E i \in DOMAIN q : i > n /\ p[i] = k
       \/ (\E i \in DOMAIN q : q[i] \in X) /\ (\A i \in DOMAIN q : i > n => p[i] < k)

\* What a target has received goes on, and messages go on to end runs or not.
GoOn(E, X, E2, X2) ==
  /\ DOMAIN E \subseteq DOMAIN E2
  /\ \A i \in DOMAIN E : E2[i] = E[i] /\ (E[i] \in X2 <=> E[i] \in X)

LEMMA FitsSame ==
  ASSUME NEW q \in Seq(Nat), NEW E, NEW X, NEW E2, NEW X2, GoOn(E, X, E2, X2),
         NEW p, NEW f, NEW n \in Nat, NEW L, NEW L2, NEW kept, NEW kept2,
         Fits(p, q, E, X, f, n, L, kept), L \subseteq L2,
         kept2 => /\ kept
                  /\ \A k \in L2 \ L : /\ \E i \in DOMAIN q : q[i] \in X
                                       /\ \A i \in DOMAIN q : i > n => p[i] < k
  PROVE  Fits(p, q, E2, X2, f, n, L2, kept2)
<1>1. /\ p \in [DOMAIN q -> DOMAIN E2]
      /\ \A i \in DOMAIN q : q[i] = E2[p[i]] /\ (q[i] \in X2 <=> q[i] \in X)
  BY DEF Fits, GoOn
<1>2. /\ \A i \in DOMAIN q : q[i] \in X2 => i = Len(q)
      /\ \A i \in DOMAIN q : IF i <= n THEN p[i] = f + i - 1 ELSE p[i] \in L2
      /\ \A i, k \in DOMAIN q : n < i /\ i < k => p[i] < p[k]
      /\ Len(q) >= n \/ (\E i \in DOMAIN q : q[i] \in X2)
  BY <1>1 DEF Fits
<1>3. ASSUME kept2, NEW k \in L2
      PROVE  \/ \E i \in DOMAIN q : i > n /\ p[i] = k
             \/ (\E i \in DOMAIN q : q[i] \in X2) /\ (\A i \in DOMAIN q : i > n => p[i] < k)
  BY <1>1, <1>3 DEF Fits
<1> QED
  BY <1>1, <1>2, <1>3 DEF Fits

\* The next message of the target is seen, the x-th.
Extended(p, q, x) == [i \in 1..(Len(q) + 1) |-> IF i \in 1..Len(q) THEN p[i] ELSE x]

LEMMA FitsNext ==
  ASSUME NEW q \in Seq(Nat), NEW E, NEW X, NEW E2, NEW X2, GoOn(E, X, E2, X2),
         NEW p, NEW f \in Nat, NEW n \in Nat, NEW L \in SUBSET Nat, NEW kept,
         Fits(p, q, E, X, f, n, L, kept), \A i \in DOMAIN q : q[i] \notin X,
         NEW x \in Nat, x \in DOMAIN E, E[x] \in Nat, NEW L2, NEW n2 \in Nat, NEW kept2, kept2 => kept,
         \/ n2 = n /\ L2 = L \cup {x} /\ \A k \in L : k < x
         \/ n2 = n + 1 /\ L = {} /\ L2 = {} /\ x = f + n
  PROVE  Fits(Extended(p, q, x), Append(q, E[x]), E2, X2, f, n2, L2, kept2)
<1> DEFINE r == Extended(p, q, x)
           a == Append(q, E[x])
<1>1. /\ Len(q) \in Nat /\ DOMAIN q = 1..Len(q) /\ Len(a) = Len(q) + 1 /\ DOMAIN a = 1..(Len(q) + 1)
      /\ \A i \in 1..Len(q) : a[i] = q[i]
      /\ a[Len(q) + 1] = E[x]
  BY Appended
<1>2. /\ r \in [1..(Len(q) + 1) -> DOMAIN E2]
      /\ \A i \in 1..Len(q) : r[i] = p[i]
      /\ r[Len(q) + 1] = x
  BY <1>1 DEF Extended, Fits, GoOn
<1>3. Len(q) >= n /\ (L = {} => Len(q) <= n)
  <2>1. Len(q) >= n
    BY DEF Fits
  <2>2. ASSUME L = {}, Len(q) > n PROVE FALSE
    <3>1. Len(q) \in DOMAIN q /\ ~(Len(q) <= n)
      BY <1>1, <2>2
    <3> QED
      BY <2>2, <3>1 DEF Fits
  <2> QED
    BY <1>1, <2>1, <2>2
<1> HIDE DEF r, a
<1>4. \A i \in DOMAIN a : i \in DOMAIN q \/ i = Len(q) + 1
  BY <1>1
<1>5. \A i \in DOMAIN a : a[i] = E2[r[i]] /\ (a[i] \in X2 => i = Len(a))
  <2>1. \A i \in DOMAIN q : a[i] = E[p[i]] /\ p[i] \in DOMAIN E /\ a[i] \notin X2
    BY <1>1 DEF Fits, GoOn
  <2>2. \A i \in DOMAIN q : a[i] = E2[r[i]]
    BY <1>1, <1>2, <2>1 DEF GoOn
  <2>3. a[Len(q) + 1] = E2[r[Len(q) + 1]]
    BY <1>1, <1>2 DEF GoOn
  <2> QED
    BY <1>1, <1>4, <2>1, <2>2, <2>3
<1>6. \A i \in DOMAIN q : IF i <= n THEN r[i] = f + i - 1 ELSE r[i] \in L
  BY <1>1, <1>2 DEF Fits
<1>7. \A i \in DOMAIN q : i <= n \/ r[i] \in L
  BY <1>6
<1>8. CASE n2 = n /\ L2 = L \cup {x} /\ \A k \in L : k < x
  <2>1. \A i \in DOMAIN a : IF i <= n2 THEN r[i] = f + i - 1 ELSE r[i] \in L2
    BY <1>1, <1>2, <1>3, <1>4, <1>6, <1>8
  <2>2. ASSUME NEW i \in DOMAIN a, NEW k \in DOMAIN a, n2 < i, i < k PROVE r[i] < r[k]
    <3>1. i \in DOMAIN q
      BY <1>1, <1>4, <2>2
    <3>2. CASE k \in DOMAIN q
      BY <1>1, <1>2, <1>8, <2>2, <3>1, <3>2 DEF Fits
    <3>3. CASE k = Len(q) + 1
      <4>1. r[i] \in L
        BY <1>1, <1>6, <1>8, <2>2, <3>1
      <4> QED
        BY <1>2, <1>8, <3>3, <4>1
    <3> QED
      BY <1>4, <3>2, <3>3
  <2>3. Len(a) >= n2
    BY <1>1, <1>3, <1>8
  <2>4. ASSUME kept2, NEW k \in L2 PROVE \E i \in DOMAIN a : i > n2 /\ r[i] = k
    <3>1. CASE k = x
      <4>1. Len(q) + 1 \in DOMAIN a /\ Len(q) + 1 > n2
        BY <1>1, <1>3, <1>8
      <4> QED
        BY <1>2, <3>1, <4>1
    <3>2. CASE k \in L
      <4>1. PICK i \in DOMAIN q : i > n /\ p[i] = k
        BY <2>4, <3>2 DEF Fits
      <4>2. i \in DOMAIN a
        BY <1>1
      <4> QED
        BY <1>1, <1>2, <1>8, <4>1, <4>2
    <3> QED
      BY <1>8, <2>4, <3>1, <3>2
  <2> QED
    BY <1>1, <1>2, <1>5, <2>1, <2>2, <2>3, <2>4 DEF Fits, r, a
<1>9. CASE n2 = n + 1 /\ L = {} /\ L2 = {} /\ x = f + n
  <2>1. Len(q) = n
    <3>1. Len(q) >= n /\ Len(q) <= n /\ Len(q) \in Nat
      BY <1>1, <1>3, <1>9
    <3> QED
      BY <3>1
  <2>2. \A i \in DOMAIN a : i <= n2 /\ r[i] = f + i - 1
    <3>1. \A i \in DOMAIN q : r[i] = f + i - 1 /\ i <= n2
      BY <1>1, <1>6, <1>9, <2>1
    <3>2. r[Len(q) + 1] = f + (Len(q) + 1) - 1 /\ Len(q) + 1 <= n2
      BY <1>2, <1>9, <2>1
    <3> QED
      BY <1>4, <3>1, <3>2
  <2>3. \A i, k \in DOMAIN a : n2 < i /\ i < k => r[i] < r[k]
    BY <1>1, <1>9, <2>1
  <2>4. Len(a) >= n2
    BY <1>1, <1>9, <2>1
  <2> QED
    BY <1>1, <1>2, <1>5, <1>9, <2>2, <2>3, <2>4 DEF Fits, r, a
<1> QED
  BY <1>8, <1>9

\* A message of the backlog is drained, after one that ended the run was seen.
LEMMA FitsDrained ==
  ASSUME NEW q \in Seq(Nat), NEW E, NEW X, NEW p, NEW f, NEW n \in Nat, NEW kept,
         Fits(p, q, E, X, f, n, {}, kept), \E i \in DOMAIN q : q[i] \in X
  PROVE  Fits(p, q, E, X, f, n + 1, {}, FALSE)
<1>1. Len(q) \in Nat /\ DOMAIN q = 1..Len(q)
  BY Listed
<1>2. \A i \in DOMAIN q : i <= n /\ p[i] = f + i - 1 /\ i <= n + 1
  BY <1>1 DEF Fits
<1>3. \A i, k \in DOMAIN q : ~(n + 1 < i)
  BY <1>1, <1>2
<1> QED
  BY <1>2, <1>3 DEF Fits

-----------------------------------------------------------------------------
LEMMA HereStays ==
  ASSUME OutputInv, NEW j \in Here, OneStep(j)
  PROVE  Here' = Here
<1>1. loop \in [Here -> LoopStates]
  BY DEF OutputInv, OutputTypes
<1>2. DOMAIN loop' = DOMAIN loop
  BY <1>1
  DEF OneStep, Handles, OfProcess, Subscribe, Callback, Call, CallEnd, RunEnd, CleanUp, Writes, Exits,
      Look, Replay, EnrolRead, Enrol, Awaits, Result, jobvars, Receives
<1> QED
  BY <1>2 DEF Here

LEMMA OutputInvStep ==
  ASSUME OutputInv, NEW j \in Here, OneStep(j), \A s \in Here : Subscribes(s) => LastEnds(s)
  PROVE  OutputInv'
<1>1. Here' = Here /\ OutputTypes' /\ Known' /\ Slices'
  BY HereStays, TypesStep, SlicesStep
<1>2. ASSUME NEW s \in Here, ~Subscribes(s) PROVE proc'[s] = "new" /\ ~replayed'[s].kept
  <2>1. proc[s] = "new" /\ ~replayed[s].kept
    BY <1>2 DEF OutputInv, Own
  <2>2. (j = s => ~Look(j)) /\ (j = s => ~Replay(j)) /\ (j = s => ~Enrol(j))
    BY <1>2, <2>1 DEF Look, Replay, Enrol
  <2>3. proc'[s] = "new"
    BY <2>1, <2>2, ProcMoves
  <2>4. /\ replayed[s] \in [first : Nat, last : Nat, since : Nat, kept : BOOLEAN]
        /\ replayed'[s] = replayed[s] \/ replayed'[s] = [replayed[s] EXCEPT !.kept = FALSE]
    BY <2>2, ReplayedTypes, ReplayedMoves
  <2> QED
    BY <2>1, <2>3, <2>4
<1>3. ASSUME NEW s \in Here, Subscribes(s) PROVE Position(s)' /\ Ending(s)'
  BY <1>3, PositionStep, EndingStep
<1>4. Own'
  BY <1>1, <1>2, <1>3 DEF Own, Subscribes, Target
<1>5. \A k \in Here : InHand(k)'
  BY InHandStep
<1> QED
  BY <1>1, <1>4, <1>5 DEF OutputInv

\* Where Fits stands for Served, of the messages there are.
Endings == {m \in 1..Len(msgs) : msgs[m].exit}

Translates ==
  \A s \in Here : Subscribes(s) => \A p :
    (p \in [DOMAIN Seen(s) -> DOMAIN emitted[Target(s)]] /\ Served(s, p))
    <=> Fits(p, Seen(s), emitted[Target(s)], Endings, replayed[s].first, Replays(s), Live(s), replayed[s].kept)

LEMMA ServedFits == OutputInv => Translates
<1> SUFFICES ASSUME OutputInv, NEW s \in Here, Subscribes(s), NEW p
             PROVE  (p \in [DOMAIN Seen(s) -> DOMAIN emitted[Target(s)]] /\ Served(s, p))
                    <=> Fits(p, Seen(s), emitted[Target(s)], Endings, replayed[s].first, Replays(s), Live(s), replayed[s].kept)
  BY DEF Translates
<1>1. PICK q : q = Seen(s)
  OBVIOUS
<1>2. DOMAIN q = 1..Len(q) /\ Range(q) = {q[i] : i \in DOMAIN q} /\ \A i \in DOMAIN q : q[i] \in 1..Len(msgs)
  BY <1>1, SeenTypes
<1>3. \A i \in DOMAIN q : q[i] \in Endings <=> msgs[q[i]].exit
  BY <1>2 DEF Endings
<1>4. Over(s) <=> \E i \in DOMAIN q : q[i] \in Endings
  BY <1>1, <1>2, <1>3 DEF Over
<1>5. PICK L : L = Live(s)
  OBVIOUS
<1>6. PICK n : n = Replays(s)
  OBVIOUS
<1> QED
  BY <1>1, <1>3, <1>4, <1>5, <1>6 DEF Served, Fits

-----------------------------------------------------------------------------
\* How many messages of its target have gone to s or past it.
Sent(s) == Called(Target(s)) - (IF s \in Range(calling[Target(s)]) THEN 1 ELSE 0)

LEMMA SentBounds ==
  ASSUME OutputInv, NEW s \in Here, Subscribes(s)
  PROVE  /\ Sent(s) \in Nat /\ replayed[s].since \in Nat /\ replayed[s].since <= Sent(s)
         /\ Sent(s) <= Len(emitted[Target(s)]) /\ Len(emitted[Target(s)]) \in Nat
<1>1. PICK t \in Here : t = Target(s)
  BY TargetHere
<1>2. /\ replayed[s].since <= Called(t) /\ replayed[s].since \in Nat
      /\ s \in Range(calling[t]) => replayed[s].since < Called(t)
  <2>1. Position(s) /\ replayed \in [Here -> [first : Nat, last : Nat, since : Nat, kept : BOOLEAN]]
    BY DEF OutputInv, OutputTypes, Own
  <2> QED
    BY <1>1, <2>1 DEF Position
<1>3. Called(t) \in Nat /\ Called(t) <= Len(emitted[t]) /\ Len(emitted[t]) \in Nat
  <2>1. emitted[t] \in Seq(Nat) /\ InHand(t)
    BY DEF OutputInv, OutputTypes
  <2>2. Len(emitted[t]) \in Nat /\ (loop[t] = "received" => Len(emitted[t]) # 0)
    BY <2>1, Listed DEF InHand
  <2>3. CASE loop[t] = "received"
    BY <2>2, <2>3 DEF Called
  <2>4. CASE loop[t] # "received"
    BY <2>2, <2>4 DEF Called
  <2> QED
    BY <2>3, <2>4
<1> QED
  BY <1>1, <1>2, <1>3 DEF Sent

LEMMA SentMoves ==
  ASSUME OutputInv, NEW j \in Here, OneStep(j), NEW s \in Here, Subscribes(s)
  PROVE  LET t == Target(s) IN
         \/ Sent(s)' = Sent(s) /\ ~(Call(t) /\ j = t /\ s = Head(calling[t]))
         \/ /\ Sent(s)' = Sent(s) + 1 /\ Sent(s) + 1 = Len(emitted[t]) /\ emitted'[t] = emitted[t] /\ j = t
            /\ \/ Callback(t) /\ (msgs[emitted[t][Len(emitted[t])]].bad \/ ~replayed[s].kept)
               \/ /\ Call(t) /\ s = Head(calling[t])
                  /\ ~msgs[emitted[t][Len(emitted[t])]].bad
<1>1. PICK t \in Here : t = Target(s)
  BY TargetHere
<1>2. /\ Called(t) \in Nat /\ calling[t] \in Seq(Here) /\ emitted[t] \in Seq(Nat)
      /\ InHand(t) /\ Position(s) /\ Slice(t, calling[t]) /\ Target(s)' = t
  BY <1>1, CalledMoves DEF OutputInv, OutputTypes, Own, Slices, Target
<1>3. /\ Sent(s) = Called(t) - (IF s \in Range(calling[t]) THEN 1 ELSE 0)
      /\ Sent(s)' = Called(t)' - (IF s \in Range(calling'[t]) THEN 1 ELSE 0)
  BY <1>1, <1>2 DEF Sent, Target
<1>4. CASE j = t /\ Callback(t)
  <2>1. /\ loop[t] = "received" /\ Called(t) = Len(emitted[t]) - 1 /\ Called(t)' = Len(emitted[t])
        /\ emitted'[t] = emitted[t] /\ Len(emitted[t]) \in Nat
    BY <1>2, <1>4, CalledMoves, Listed
  <2>2. calling[t] = <<>> /\ hand[t] = emitted[t][Len(emitted[t])]
    BY <1>2, <2>1 DEF InHand
  <2>3. s \notin Range(calling[t])
    BY <2>2 DEF Range
  <2>4. ~(Call(t) /\ j = t /\ s = Head(calling[t]))
    BY <2>1 DEF Call
  <2>5. CASE msgs[hand[t]].bad
    <3>1. calling'[t] = calling[t]
      BY <1>4, <2>5 DEF Callback
    <3> QED
      BY <1>1, <1>2, <1>3, <1>4, <2>1, <2>2, <2>3, <2>5, <3>1
  <2>6. CASE ~msgs[hand[t]].bad
    <3>1. calling'[t] = subscribers[t]
      BY <1>4, <2>6 DEF Callback, OutputInv, OutputTypes
    <3>2. CASE s \in Range(subscribers[t])
      BY <1>1, <1>2, <1>3, <2>1, <2>3, <2>4, <3>1, <3>2
    <3>3. CASE s \notin Range(subscribers[t])
      <4>1. ~replayed[s].kept
        BY <1>1, <1>2, <3>3 DEF Position
      <4> QED
        BY <1>1, <1>2, <1>3, <1>4, <2>1, <2>3, <3>1, <3>3, <4>1
    <3> QED
      BY <3>2, <3>3
  <2> QED
    BY <2>5, <2>6
<1>5. CASE j = t /\ Call(t)
  <2>1. loop[t] = "calling" /\ calling[t] # <<>> /\ calling'[t] = Tail(calling[t])
    BY <1>5 DEF Call, OutputInv, OutputTypes
  <2>2. Called(t)' = Called(t)
    BY <2>1, CalledMoves
  <2>3. Range(calling[t]) = Range(Tail(calling[t])) \cup {Head(calling[t])}
    BY <1>2, <2>1, RangeOfTail
  <2>4. CASE s # Head(calling[t])
    BY <1>1, <1>3, <2>1, <2>2, <2>3, <2>4
  <2>5. CASE s = Head(calling[t])
    <3>1. s \notin Range(Tail(calling[t]))
      <4>1. PICK q \in Seq(Here) : q = calling[t]
        BY <1>2
      <4>5. PICK a : a = Tail(q)
        OBVIOUS
      <4>2. /\ Len(q) \in Nat \ {0} /\ DOMAIN q = 1..Len(q) /\ DOMAIN a = 1..(Len(q) - 1)
            /\ \A i \in DOMAIN a : a[i] = q[i + 1]
            /\ Head(q) = q[1]
        BY <2>1, <4>1, <4>5, Tailed
      <4>3. ASSUME NEW i \in DOMAIN a, a[i] = s PROVE FALSE
        <5>1. i + 1 \in DOMAIN q /\ 1 \in DOMAIN q /\ i + 1 # 1
          BY <4>2, <4>3
        <5>2. q[i + 1] = q[1]
          BY <2>5, <4>1, <4>2, <4>3
        <5> QED
          BY <1>2, <4>1, <5>1, <5>2 DEF Slice
      <4> QED
        BY <4>1, <4>5, <4>3 DEF Range
    <3>2. s \in Range(calling[t])
      BY <2>3, <2>5
    <3>3. Called(t) = Len(emitted[t])
      BY <2>1 DEF Called
    <3>4. ~msgs[emitted[t][Len(emitted[t])]].bad
      BY <1>2, <2>1 DEF InHand
    <3>5. emitted'[t] = emitted[t]
      BY <2>1, EmittedMoves DEF Gains
    <3> QED
      BY <1>1, <1>2, <1>3, <1>5, <2>1, <2>2, <2>5, <3>1, <3>2, <3>3, <3>4, <3>5
  <2> QED
    BY <2>4, <2>5
<1>6. CASE ~(j = t /\ Callback(t)) /\ ~(j = t /\ Call(t))
  <2>1. Called(t)' = Called(t) /\ calling'[t] = calling[t]
    BY <1>6, CalledMoves, CallingMoves
  <2> QED
    BY <1>1, <1>3, <1>6, <2>1
<1> QED
  BY <1>4, <1>5, <1>6

LEMMA LiveMoves ==
  ASSUME OutputInv, NEW j \in Here, OneStep(j), NEW s \in Here, Subscribes(s), ~(Look(j) /\ s = j)
  PROVE  LET t == Target(s) IN
         \/ Live(s)' = Live(s) /\ ~(Call(t) /\ j = t /\ s = Head(calling[t]))
         \/ Callback(j) /\ Live(s) \subseteq Live(s)' /\ ~replayed[s].kept
         \/ /\ j = t /\ Call(t) /\ s = Head(calling[t]) /\ Len(emitted[t]) \in DOMAIN emitted[t]
            /\ Live(s)' = Live(s) \cup {Len(emitted[t])} /\ \A k \in Live(s) : k < Len(emitted[t])
<1>1. PICK t \in Here : t = Target(s)
  BY TargetHere
<1>2. Target(s)' = t
  BY <1>1 DEF Target
<1>3. /\ Sent(s) \in Nat /\ replayed[s].since \in Nat /\ replayed[s].since <= Sent(s)
      /\ Sent(s) <= Len(emitted[t]) /\ Len(emitted[t]) \in Nat
  BY <1>1, SentBounds
<1>4. PICK a, b, n \in Nat : a = replayed[s].since /\ b = Sent(s) /\ n = Len(emitted[t])
  BY <1>3
<1>5. DOMAIN emitted[t] = 1..n /\ \A k \in 1..n : /\ emitted'[t][k] = emitted[t][k]
                                                   /\ msgs'[emitted'[t][k]].bad = msgs[emitted[t][k]].bad
  BY <1>4, EmittedKeeps, MsgsKeep
<1>6. Live(s) = IF proc[s] \in Unenrolled THEN {} ELSE {k \in (a + 1)..b : ~msgs[emitted[t][k]].bad}
  BY <1>1, <1>4 DEF Live, Sent, Unenrolled
<1>7. Live(s)' = IF proc'[s] \in Unenrolled THEN {}
                 ELSE {k \in (replayed'[s].since + 1)..Sent(s)' : ~msgs'[emitted'[t][k]].bad}
  BY <1>1, <1>2 DEF Live, Sent, Unenrolled
<1>8. \A k \in (a + 1)..b : k \in 1..n
  BY <1>3, <1>4
<1>9. CASE Enrol(j) /\ s = j
  <2>1. Sent(s)' = Sent(s)
    <3>1. ~Callback(j) /\ ~Call(j)
      <4>1. proc[j] # proc'[j]
        BY <1>9 DEF Enrol, OutputInv, OutputTypes
      <4> QED
        BY <4>1 DEF Callback, Call, subvars
    <3> QED
      BY <3>1, SentMoves
  <2>2. replayed'[s].since = Called(t)
    BY <1>1, <1>9, ReplayedSince
  <2>3. Called(t) \in Nat /\ b <= Called(t)
    BY <1>1, <1>4, CalledMoves DEF Sent
  <2>4. ~Call(j) /\ Live(s) = {}
    BY <1>6, <1>9 DEF Enrol, Unenrolled, Call, subvars, OutputInv, OutputTypes
  <2>5. Live(s)' = {}
    BY <1>4, <1>7, <2>1, <2>2, <2>3
  <2> QED
    BY <2>4, <2>5
<1>10. CASE ~(Enrol(j) /\ s = j)
  <2>1. replayed'[s].since = a
    BY <1>4, <1>10, ReplayedSince
  <2>2. proc'[s] \in Unenrolled <=> proc[s] \in Unenrolled
    BY <1>10, ProcMoves DEF Unenrolled
  <2>3. CASE Sent(s)' = Sent(s) /\ ~(Call(t) /\ j = t /\ s = Head(calling[t]))
    BY <1>1, <1>4, <1>5, <1>6, <1>7, <1>8, <2>1, <2>2, <2>3
  <2>4. CASE Sent(s)' = b + 1 /\ b + 1 = n /\ j = t /\ emitted'[t] = emitted[t]
    <3>1. n \in 1..n
      BY <2>4
    <3>2. \A k \in (a + 1)..(b + 1) : k \in (a + 1)..b \/ k = n
      BY <2>4
    <3>3. \A k \in (a + 1)..b : k \in (a + 1)..(b + 1) /\ k < n
      BY <2>4
    <3>4. n \in (a + 1)..(b + 1)
      BY <1>3, <1>4, <2>4
    <3>5. CASE Callback(t) /\ msgs[emitted[t][n]].bad
      <4>1. Live(s)' = Live(s)
        BY <1>5, <1>6, <1>7, <1>8, <2>1, <2>2, <2>4, <3>1, <3>2, <3>3, <3>5
      <4>2. ~Call(t)
        BY <3>5 DEF Call, Callback
      <4> QED
        BY <1>1, <4>1, <4>2
    <3>6. CASE Callback(t) /\ ~replayed[s].kept
      <4>1. Live(s) \subseteq Live(s)'
        BY <1>5, <1>6, <1>7, <1>8, <2>1, <2>2, <2>4, <3>3
      <4> QED
        BY <2>4, <3>6, <4>1
    <3>7. CASE Call(t) /\ s = Head(calling[t]) /\ ~msgs[emitted[t][n]].bad
      <4>1. proc[s] \in Enrolled
        BY <1>1, <3>7, HeadOfCalling DEF Call, OutputInv
      <4>2. proc[s] \notin Unenrolled
        BY <4>1 DEF Enrolled, Unenrolled
      <4>3. Live(s)' = Live(s) \cup {n}
        BY <1>5, <1>6, <1>7, <1>8, <2>1, <2>2, <2>4, <3>1, <3>2, <3>3, <3>4, <3>7, <4>2
      <4>4. \A k \in Live(s) : k < n
        BY <1>6, <3>3
      <4> QED
        BY <1>1, <1>4, <1>5, <2>4, <3>1, <3>7, <4>3, <4>4
    <3> QED
      BY <1>1, <1>4, <2>3, <2>4, <3>5, <3>6, <3>7, SentMoves
  <2> QED
    BY <1>1, <1>4, <2>3, <2>4, SentMoves
<1> QED
  BY <1>9, <1>10

LEMMA ServedFitsPrimed == OutputInv' => Translates'
  BY ServedFits, PTL

LEMMA ServedFitsNext ==
  ASSUME OutputInv', NEW s \in Here, s \in Here', Subscribes(s), NEW r,
         Fits(r, Seen(s)', emitted'[Target(s)], Endings', replayed'[s].first, Replays(s)', Live(s)', replayed'[s].kept)
  PROVE  r \in [DOMAIN Seen(s)' -> DOMAIN emitted'[Target(s)]] /\ Served(s, r)'
<1>1. Translates'
  BY ServedFitsPrimed
<1>2. Subscribes(s)' /\ Target(s)' = Target(s)
  BY DEF Subscribes, Target
<1> QED
  BY <1>1, <1>2 DEF Translates

LEMMA GoesOn1 ==
  ASSUME OutputInv, NEW j \in Here, OneStep(j), NEW k \in Here
  PROVE  GoOn(emitted[k], Endings, emitted'[k], Endings')
<1>1. /\ DOMAIN emitted[k] = 1..Len(emitted[k]) /\ DOMAIN emitted'[k] = 1..Len(emitted'[k])
      /\ Len(emitted[k]) \in Nat /\ Len(emitted'[k]) \in Nat /\ Len(emitted[k]) <= Len(emitted'[k])
      /\ \A i \in 1..Len(emitted[k]) : emitted'[k][i] = emitted[k][i] /\ emitted[k][i] \in 1..Len(msgs)
  BY EmittedKeeps
<1>2. /\ Len(msgs) \in Nat /\ Len(msgs') \in Nat /\ Len(msgs) <= Len(msgs')
      /\ \A i \in 1..Len(msgs) : msgs'[i].exit = msgs[i].exit
  BY MsgsKeep
<1>3. \A i \in 1..Len(msgs) : i \in Endings' <=> i \in Endings
  BY <1>2 DEF Endings
<1>4. DOMAIN emitted[k] \subseteq DOMAIN emitted'[k]
  BY <1>1
<1> QED
  BY <1>1, <1>3, <1>4 DEF GoOn

LEMMA ReplaysStay ==
  ASSUME OutputInv, NEW j \in Here, OneStep(j), NEW s \in Here, ~(Look(j) /\ s = j), ~(Replay(j) /\ s = j)
  PROVE  /\ replayed'[s].first = replayed[s].first /\ Replays(s)' = Replays(s)
         /\ (replayed'[s].kept => replayed[s].kept) \/ (Enrol(j) /\ s = j)
<1>1. replayed[s] \in [first : Nat, last : Nat, since : Nat, kept : BOOLEAN]
  BY ReplayedTypes
<1>2. replayed'[s].first = replayed[s].first /\ replayed'[s].last = replayed[s].last
  BY <1>1, ReplayedMoves
<1>3. (replayed'[s].kept => replayed[s].kept) \/ (Enrol(j) /\ s = j)
  BY <1>1, ReplayedMoves
<1> QED
  BY <1>2, <1>3 DEF Replays

LEMMA ReplaysTypes ==
  ASSUME OutputInv, NEW s \in Here, Subscribes(s)
  PROVE  /\ Replays(s) \in Nat /\ replayed[s].first \in Nat /\ Live(s) \in SUBSET Nat
         /\ replayed[s].last + 1 = replayed[s].first + Replays(s)
         /\ proc[s] \in Unenrolled => Live(s) = {} /\ ~replayed[s].kept
<1>1. replayed[s] \in [first : Nat, last : Nat, since : Nat, kept : BOOLEAN] /\ Position(s)
  BY DEF OutputInv, OutputTypes, Own
<1>2. PICK a, b \in Nat : a = replayed[s].first /\ b = replayed[s].last
  BY <1>1
<1>3. a <= b + 1
  BY <1>1, <1>2 DEF Position
<1>4. Replays(s) = (b + 1) - a
  BY <1>2 DEF Replays
<1>5. Live(s) \in SUBSET Nat
  <2>1. Sent(s) \in Nat /\ replayed[s].since \in Nat
    BY SentBounds
  <2>2. (replayed[s].since + 1)..Sent(s) \in SUBSET Nat
    BY <2>1
  <2> QED
    BY <2>2 DEF Live, Sent
<1>6. proc[s] \in Unenrolled => Live(s) = {} /\ ~replayed[s].kept
  BY <1>1 DEF Position, Live, Unenrolled, Enrolled
<1> QED
  BY <1>2, <1>3, <1>4, <1>5, <1>6

LEMMA ServedStep ==
  ASSUME OutputInv, OutputInv', NEW j \in Here, OneStep(j), NEW s \in Here, Subscribes(s),
         NEW p, p \in [DOMAIN Seen(s) -> DOMAIN emitted[Target(s)]], Served(s, p)
  PROVE  \E r : r \in [DOMAIN Seen(s)' -> DOMAIN emitted'[Target(s)]] /\ Served(s, r)'
<1>1. PICK t \in Here : t = Target(s)
  BY TargetHere
<1> DEFINE E == emitted[t]
           E2 == emitted'[t]
           Result2(r) == Fits(r, Seen(s)', E2, Endings', replayed'[s].first, Replays(s)', Live(s)', replayed'[s].kept)
<1>2. Fits(p, Seen(s), E, Endings, replayed[s].first, Replays(s), Live(s), replayed[s].kept)
  BY <1>1, ServedFits DEF Translates
<1>3. SUFFICES \E r : Result2(r)
  BY <1>1, HereStays, ServedFitsNext
<1>4. GoOn(E, Endings, E2, Endings')
  BY GoesOn1
<1>5. Seen(s) \in Seq(Nat) /\ DOMAIN Seen(s) = 1..Len(Seen(s)) /\ Len(Seen(s)) \in Nat
      /\ (Over(s) <=> \E i \in DOMAIN Seen(s) : Seen(s)[i] \in Endings)
  <2>1. /\ Seen(s) \in Seq(Nat) /\ Len(Seen(s)) \in Nat /\ DOMAIN Seen(s) = 1..Len(Seen(s))
        /\ Range(Seen(s)) = {Seen(s)[i] : i \in 1..Len(Seen(s))}
        /\ \A i \in 1..Len(Seen(s)) : Seen(s)[i] \in 1..Len(msgs)
    BY SeenTypes
  <2>2. \A i \in 1..Len(Seen(s)) : Seen(s)[i] \in Endings <=> msgs[Seen(s)[i]].exit
    BY <2>1 DEF Endings
  <2> QED
    BY <2>1, <2>2 DEF Over
<1>6. /\ Replays(s) \in Nat /\ replayed[s].first \in Nat /\ Live(s) \in SUBSET Nat
      /\ replayed[s].last + 1 = replayed[s].first + Replays(s)
      /\ proc[s] \in Unenrolled => Live(s) = {} /\ ~replayed[s].kept
  BY ReplaysTypes
<1>7. /\ replayed[s] \in [first : Nat, last : Nat, since : Nat, kept : BOOLEAN]
      /\ proc[s] \in Unenrolled \cup Enrolled
  BY ReplayedTypes
<1>8. Ending(s) /\ Position(s)
  BY DEF OutputInv, Own
<1> HIDE DEF E, E2, Result2
<1>A. CASE Look(j) /\ s = j
  <2>1. /\ proc[s] = "new" /\ emitted' = emitted
        /\ \/ replayed'[s] = replayed[s]
           \/ \E n \in Nat : replayed'[s] = [replayed[s] EXCEPT !.first = n, !.last = n - 1]
    BY <1>A, LookMoves
  <2>2. replayed[s].first = 1 /\ replayed[s].last = 0 /\ Live(s) = {} /\ ~replayed[s].kept
    BY <1>6, <1>8, <2>1 DEF Position, Unenrolled
  <2>3. Replays(s) = 0
    BY <2>2 DEF Replays
  <2>4. Replays(s)' = 0 /\ ~replayed'[s].kept
    <3>1. CASE replayed'[s] = replayed[s]
      BY <2>2, <3>1 DEF Replays
    <3>2. CASE \E n \in Nat : replayed'[s] = [replayed[s] EXCEPT !.first = n, !.last = n - 1]
      <4>1. PICK n \in Nat : replayed'[s] = [replayed[s] EXCEPT !.first = n, !.last = n - 1]
        BY <3>2
      <4>2. replayed'[s].first = n /\ replayed'[s].last = n - 1 /\ replayed'[s].kept = replayed[s].kept
        BY <1>7, <4>1
      <4> QED
        BY <2>2, <4>2 DEF Replays
    <3> QED
      BY <2>1, <3>1, <3>2
  <2>5. Seen(s)' = Seen(s)
    BY <2>1, SeenStays
  <2>6. DOMAIN Seen(s) = {}
    <3>1. ASSUME NEW i \in DOMAIN Seen(s) PROVE FALSE
      <4>1. i \in Nat /\ ~(i <= 0)
        BY <1>5, <3>1
      <4> QED
        BY <1>2, <2>2, <2>3, <3>1, <4>1 DEF Fits
    <3> QED
      BY <3>1
  <2>7. p \in [DOMAIN Seen(s) -> DOMAIN E2]
    BY <1>2, <1>4 DEF Fits, GoOn
  <2>8. Fits(p, Seen(s), E2, Endings', replayed'[s].first, 0, Live(s)', FALSE)
    BY <1>5, <2>6, <2>7 DEF Fits
  <2>9. replayed'[s].kept = FALSE
    BY <1>7, <2>4
  <2>10. Result2(p)
    BY <2>4, <2>5, <2>8, <2>9 DEF Result2
  <2> QED
    BY <2>10
<1>B. CASE Replay(j) /\ s = j
  <2>1. /\ proc[s] = "sending" /\ proc'[s] = "sending" /\ ptr[s] = replayed[s].last + 1
        /\ ptr[s] \in DOMAIN E /\ ptr[s] \in Nat /\ E[ptr[s]] \in Range(E)
        /\ replayed'[s] = [replayed[s] EXCEPT !.last = @ + 1]
        /\ \/ Receives(s, E[ptr[s]], loop)
           \/ loop[s] = "drain" /\ UNCHANGED <<loop, hand, emitted>>
    <3>1. DOMAIN E = 1..Len(E)
      BY EmittedKeeps DEF E
    <3> QED
      BY <1>1, <1>B, <3>1, ReplayMoves DEF E
  <2>2. Live(s) = {} /\ replayed[s].kept = FALSE
    BY <1>6, <1>7, <2>1 DEF Unenrolled
  <2>3. Live(s)' = {}
    BY <2>1 DEF Live
  <2>4. /\ replayed'[s].first = replayed[s].first /\ replayed'[s].kept = FALSE
        /\ Replays(s)' = Replays(s) + 1
    <3>1. /\ replayed'[s].first = replayed[s].first /\ replayed'[s].last = replayed[s].last + 1
          /\ replayed'[s].kept = replayed[s].kept
      BY <1>7, <2>1
    <3>2. PICK a, b \in Nat : a = replayed[s].first /\ b = replayed[s].last
      BY <1>7
    <3> QED
      BY <2>2, <3>1, <3>2 DEF Replays
  <2>5. CASE Receives(s, E[ptr[s]], loop)
    <3>1. E[ptr[s]] \in Nat
      BY <2>1, Received DEF E
    <3>2. loop[s] = "idle" /\ emitted'[s] = Append(emitted[s], E[ptr[s]])
      BY <2>5, <3>1, ReceivesFacts DEF OutputInv
    <3>3. Seen(s)' = Append(Seen(s), E[ptr[s]])
      <4>1. PICK m \in Range(emitted[Target(s)]) : m = E[ptr[s]]
        BY <1>1, <2>1 DEF E
      <4> QED
        BY <2>1, <3>2, <4>1, SeenGains
    <3>4. \A i \in DOMAIN Seen(s) : Seen(s)[i] \notin Endings
      BY <1>5, <1>8, <3>2 DEF Ending
    <3>5. PICK x \in Nat : x = ptr[s]
      BY <2>1
    <3>6. x = replayed[s].first + Replays(s)
      BY <1>6, <2>1, <3>5
    <3>7. Fits(p, Seen(s), E, Endings, replayed[s].first, Replays(s), {}, FALSE)
      BY <1>2, <2>2
    <3>8. PICK f, n \in Nat : f = replayed[s].first /\ n = Replays(s)
      BY <1>6
    <3>9. {} \in SUBSET Nat /\ n + 1 \in Nat
      OBVIOUS
    <3>10. Fits(Extended(p, Seen(s), x), Append(Seen(s), E[x]), E2, Endings', f, n + 1, {}, FALSE)
      <4>1. PICK q \in Seq(Nat) : q = Seen(s)
        BY <1>5
      <4>2. PICK X, X2 : X = Endings /\ X2 = Endings'
        OBVIOUS
      <4>3. /\ GoOn(E, X, E2, X2) /\ Fits(p, q, E, X, f, n, {}, FALSE)
            /\ \A i \in DOMAIN q : q[i] \notin X
            /\ x \in DOMAIN E /\ E[x] \in Nat /\ x = f + n
        BY <1>4, <2>1, <3>1, <3>4, <3>5, <3>6, <3>7, <3>8, <4>1, <4>2
      <4>4. Fits(Extended(p, q, x), Append(q, E[x]), E2, X2, f, n + 1, {}, FALSE)
        BY <3>9, <4>3, FitsNext
      <4> QED
        BY <4>1, <4>2, <4>4
    <3>11. Result2(Extended(p, Seen(s), x))
      BY <2>3, <2>4, <3>3, <3>5, <3>8, <3>10 DEF Result2
    <3> QED
      BY <3>11
  <2>6. CASE loop[s] = "drain" /\ UNCHANGED <<loop, hand, emitted>>
    <3>1. Seen(s)' = Seen(s)
      BY <2>6, SeenStays
    <3>2. \E i \in DOMAIN Seen(s) : Seen(s)[i] \in Endings
      BY <1>5, <1>8, <2>1, <2>6 DEF Ending
    <3>3. Fits(p, Seen(s), E, Endings, replayed[s].first, Replays(s), {}, FALSE)
      BY <1>2, <2>2
    <3>4. Fits(p, Seen(s), E, Endings, replayed[s].first, Replays(s) + 1, {}, FALSE)
      BY <1>5, <1>6, <3>2, <3>3, FitsDrained
    <3>5. Replays(s) + 1 \in Nat
      BY <1>6
    <3>6. Fits(p, Seen(s), E2, Endings', replayed[s].first, Replays(s) + 1, {}, FALSE)
      <4>1. PICK q \in Seq(Nat) : q = Seen(s)
        BY <1>5
      <4>2. PICK X, X2 : X = Endings /\ X2 = Endings'
        OBVIOUS
      <4>3. PICK n \in Nat : n = Replays(s) + 1
        BY <3>5
      <4>4. GoOn(E, X, E2, X2) /\ Fits(p, q, E, X, replayed[s].first, n, {}, FALSE)
        BY <1>4, <3>4, <4>1, <4>2, <4>3
      <4>5. Fits(p, q, E2, X2, replayed[s].first, n, {}, FALSE)
        <5>1. PICK L, kept : L = {} /\ kept = FALSE
          OBVIOUS
        <5>2. Fits(p, q, E, X, replayed[s].first, n, L, kept) /\ L \subseteq L /\ L \ L = {}
          BY <4>4, <5>1
        <5>3. kept => /\ kept
                      /\ \A k \in L \ L : /\ \E i \in DOMAIN q : q[i] \in X
                                          /\ \A i \in DOMAIN q : i > n => p[i] < k
          BY <5>1
        <5>4. Fits(p, q, E2, X2, replayed[s].first, n, L, kept)
          BY <4>4, <5>2, <5>3, FitsSame
        <5> QED
          BY <5>1, <5>4
      <4> QED
        BY <4>1, <4>2, <4>3, <4>5
    <3>7. Result2(p)
      BY <2>3, <2>4, <3>1, <3>6 DEF Result2
    <3> QED
      BY <3>7
  <2> QED
    BY <2>1, <2>5, <2>6
<1>C. CASE Call(t) /\ j = t /\ s = Head(calling[t])
  <2>1. /\ loop[t] = "calling" /\ calling[t] # <<>>
        /\ \/ Receives(s, hand[t], loop)
           \/ loop[s] = "drain" /\ UNCHANGED <<loop, hand, emitted>>
    BY <1>C DEF Call
  <2>2. PICK x \in Nat : x = Len(E)
    BY EmittedKeeps DEF E
  <2>3. x \in DOMAIN E /\ E[x] = hand[t] /\ E[x] \in Range(E) /\ E[x] \in Nat
    <3>1. /\ Len(emitted[t]) \in Nat \ {0} /\ hand[t] = emitted[t][Len(emitted[t])]
          /\ hand[t] \in 1..Len(msgs) /\ hand[t] \in Range(emitted[t])
      BY <2>1, HandKnown DEF OutputInv
    <3>2. DOMAIN emitted[t] = 1..Len(emitted[t]) /\ hand[t] \in Nat
      BY <3>1, EmittedKeeps, MsgsKeep
    <3> QED
      BY <2>2, <3>1, <3>2 DEF E
  <2>4. proc[s] # "closed"
    BY <1>1, <1>8, <2>1 DEF Ending
  <2>5. ~Enrol(j) /\ ~(Look(j) /\ s = j) /\ ~(Replay(j) /\ s = j) /\ ~Callback(j)
    <3>1. UNCHANGED <<subvars>>
      BY <1>C DEF Call
    <3>2. ~Enrol(j) /\ ~Look(j)
      <4>1. proc \in [Here -> Unenrolled \cup Enrolled]
        BY DEF OutputInv, OutputTypes
      <4>2. Enrol(j) => proc'[j] = "waiting" /\ proc[j] = "enrolling"
        BY <4>1 DEF Enrol
      <4>3. Look(j) => proc[j] = "new" /\ proc'[j] # "new"
        BY <4>1 DEF Look
      <4> QED
        BY <3>1, <4>2, <4>3 DEF subvars
    <3>3. Replay(j) => proc[j] = "sending"
      BY DEF Replay
    <3>4. proc[s] \in Enrolled
      BY <1>C, <2>1, HeadOfCalling DEF OutputInv
    <3>5. ~Callback(j)
      BY <1>C, <2>1 DEF Callback
    <3> QED
      BY <3>2, <3>3, <3>4, <3>5 DEF Enrolled
  <2>6. Live(s)' = Live(s) \cup {x} /\ \A k \in Live(s) : k < x
    BY <1>1, <1>C, <2>2, <2>5, LiveMoves DEF E
  <2>7. /\ replayed'[s].first = replayed[s].first /\ Replays(s)' = Replays(s)
        /\ replayed'[s].kept => replayed[s].kept
    BY <2>5, ReplaysStay
  <2>8. PICK q \in Seq(Nat) : q = Seen(s)
    BY <1>5
  <2>9. PICK X, X2, L, kept, kept2 : /\ X = Endings /\ X2 = Endings' /\ L = Live(s)
                                     /\ kept = replayed[s].kept /\ kept2 = replayed'[s].kept
    OBVIOUS
  <2>10. PICK f, n \in Nat : f = replayed[s].first /\ n = Replays(s)
    BY <1>6
  <2>11. /\ GoOn(E, X, E2, X2) /\ Fits(p, q, E, X, f, n, L, kept) /\ L \in SUBSET Nat
         /\ kept2 => kept
    BY <1>2, <1>4, <1>6, <2>7, <2>8, <2>9, <2>10
  <2>12. CASE Receives(s, hand[t], loop)
    <3>1. loop[s] = "idle" /\ emitted'[s] = Append(emitted[s], E[x])
      BY <2>3, <2>12, ReceivesFacts DEF OutputInv
    <3>2. Seen(s)' = Append(Seen(s), E[x])
      <4>1. PICK m \in Range(emitted[Target(s)]) : m = E[x]
        BY <1>1, <2>3 DEF E
      <4> QED
        BY <2>4, <3>1, <4>1, SeenGains
    <3>3. \A i \in DOMAIN q : q[i] \notin X
      BY <1>5, <1>8, <2>8, <2>9, <3>1 DEF Ending
    <3>4. PICK L2 : L2 = L \cup {x} /\ \A k \in L : k < x
      BY <2>6, <2>9
    <3>5. Fits(Extended(p, q, x), Append(q, E[x]), E2, X2, f, n, L2, kept2)
      BY <2>3, <2>11, <3>3, <3>4, FitsNext
    <3>6. Result2(Extended(p, q, x))
      BY <2>6, <2>7, <2>8, <2>9, <2>10, <3>2, <3>4, <3>5 DEF Result2
    <3> QED
      BY <3>6
  <2>13. CASE loop[s] = "drain" /\ UNCHANGED <<loop, hand, emitted>>
    <3>1. Seen(s)' = Seen(s)
      BY <2>13, SeenStays
    <3>2. \E i \in DOMAIN q : q[i] \in X
      BY <1>5, <1>8, <2>4, <2>8, <2>9, <2>13 DEF Ending
    <3>3. \A i \in DOMAIN q : i > n => p[i] < x
      <4>1. ASSUME NEW i \in DOMAIN q, i > n PROVE p[i] < x
        <5>1. ~(i <= n)
          BY <1>5, <2>8, <4>1
        <5>2. p[i] \in L
          BY <2>11, <5>1, <4>1 DEF Fits
        <5> QED
          BY <2>6, <2>9, <5>2
      <4> QED
        BY <4>1
    <3>4. PICK L2 : L2 = L \cup {x}
      OBVIOUS
    <3>5. L \subseteq L2 /\ \A k \in L2 \ L : k = x
      BY <3>4
    <3>8. kept2 => /\ kept
                   /\ \A k \in L2 \ L : /\ \E i \in DOMAIN q : q[i] \in X
                                        /\ \A i \in DOMAIN q : i > n => p[i] < k
      BY <2>11, <3>2, <3>3, <3>5
    <3>6. Fits(p, q, E2, X2, f, n, L2, kept2)
      <4>1. GoOn(E, X, E2, X2) /\ Fits(p, q, E, X, f, n, L, kept) /\ L \subseteq L2
        BY <2>11, <3>5
      <4> QED
        BY <3>8, <4>1, FitsSame
    <3>7. Result2(p)
      BY <2>6, <2>7, <2>8, <2>9, <2>10, <3>1, <3>4, <3>6 DEF Result2
    <3> QED
      BY <3>7
  <2> QED
    BY <2>1, <2>12, <2>13
<1>D. CASE ~(Look(j) /\ s = j) /\ ~(Replay(j) /\ s = j) /\ ~(Call(t) /\ j = t /\ s = Head(calling[t]))
  <2>1. Seen(s)' = Seen(s)
    <3>1. CASE emitted'[s] = emitted[s]
      BY <3>1, SeenStays
    <3>2. CASE emitted'[s] # emitted[s]
      <4>1. j = s /\ Result(s) /\ New(TRUE, FALSE) /\ Receives(s, Len(msgs) + 1, loop)
        BY <1>1, <1>D, <3>2, GainsHow
      <4>2. emitted'[s] = Append(emitted[s], Len(msgs) + 1) /\ proc[s] = "result"
        <5>1. Len(msgs) + 1 \in Nat
          BY MsgsKeep
        <5> QED
          BY <4>1, <5>1, ReceivesFacts DEF Result, OutputInv
      <4> QED
        BY <4>2, SeenOwn
    <3> QED
      BY <3>1, <3>2
  <2>2. /\ replayed'[s].first = replayed[s].first /\ Replays(s)' = Replays(s)
        /\ (replayed'[s].kept => replayed[s].kept) \/ (Enrol(j) /\ s = j)
    BY <1>D, ReplaysStay
  <2>3. Live(s)' = Live(s) \/ (Callback(j) /\ Live(s) \subseteq Live(s)' /\ ~replayed[s].kept)
    BY <1>1, <1>D, LiveMoves
  <2>8. PICK q \in Seq(Nat) : q = Seen(s)
    BY <1>5
  <2>9. PICK X, X2, L, kept, kept2 : /\ X = Endings /\ X2 = Endings' /\ L = Live(s)
                                     /\ kept = replayed[s].kept /\ kept2 = replayed'[s].kept
    OBVIOUS
  <2>10. PICK f, n \in Nat : f = replayed[s].first /\ n = Replays(s)
    BY <1>6
  <2>11. GoOn(E, X, E2, X2) /\ Fits(p, q, E, X, f, n, L, kept)
    BY <1>2, <1>4, <2>8, <2>9, <2>10
  <2>4. PICK L2 : L2 = Live(s)'
    OBVIOUS
  <2>5. CASE Enrol(j) /\ s = j
    <3>1. proc[s] \in Unenrolled /\ ~Callback(j)
      <4>1. proc[j] = "enrolling" /\ proc'[j] = "waiting"
        BY <2>5 DEF Enrol, OutputInv, OutputTypes
      <4> QED
        BY <2>5, <4>1 DEF Unenrolled, Callback, subvars
    <3>2. L = {} /\ L2 = L
      BY <1>6, <2>3, <2>4, <2>9, <3>1
    <3>3. Fits(p, q, E, X, f, n, L, kept2)
      BY <2>11, <3>2 DEF Fits
    <3>4. L2 \subseteq L2 /\ L2 \ L2 = {}
      OBVIOUS
    <3>5. Fits(p, q, E2, X2, f, n, L, kept2)
      BY <2>11, <3>2, <3>3, <3>4, FitsSame
    <3>6. Result2(p)
      BY <2>1, <2>2, <2>4, <2>8, <2>9, <2>10, <3>2, <3>5 DEF Result2
    <3> QED
      BY <3>6
  <2>6. CASE ~(Enrol(j) /\ s = j)
    <3>1. L \subseteq L2 /\ (kept2 => kept /\ L2 = L)
      <4>1. L \subseteq L2
        BY <2>3, <2>4, <2>9
      <4>2. ASSUME kept2 PROVE kept /\ L2 = L
        <5>1. replayed[s].kept
          BY <2>2, <2>6, <2>9, <4>2, Zenon
        <5> QED
          BY <2>3, <2>4, <2>9, <5>1
      <4> QED
        BY <4>1, <4>2
    <3>2. kept2 => /\ kept
                   /\ \A k \in L2 \ L : /\ \E i \in DOMAIN q : q[i] \in X
                                        /\ \A i \in DOMAIN q : i > n => p[i] < k
      BY <3>1
    <3>3. Fits(p, q, E2, X2, f, n, L2, kept2)
      BY <2>11, <3>1, <3>2, FitsSame
    <3>4. Result2(p)
      BY <2>1, <2>2, <2>4, <2>8, <2>9, <2>10, <3>3 DEF Result2
    <3> QED
      BY <3>4
  <2> QED
    BY <2>5, <2>6
<1> QED
  BY <1>A, <1>B, <1>C, <1>D

-----------------------------------------------------------------------------
\* What is inductive for the subscribers.
ServedInv == OutputInv /\ SubscribersServed

LEMMA ServedOneStep ==
  ASSUME ServedInv, NEW j \in Here, OneStep(j)
  PROVE  ServedInv'
<1>1. OutputInv /\ SubscribersServed
  BY DEF ServedInv
<1>2. ASSUME NEW s \in Here, Subscribes(s) PROVE LastEnds(s)
  BY <1>1, <1>2 DEF SubscribersServed, Served, LastEnds
<1>3. OutputInv' /\ Here' = Here
  BY <1>1, <1>2, OutputInvStep, HereStays
<1>4. ASSUME NEW s \in Here, Subscribes(s)
      PROVE  \E r \in [DOMAIN Seen(s)' -> DOMAIN emitted'[Target(s)]] : Served(s, r)'
  <2>1. PICK p \in [DOMAIN Seen(s) -> DOMAIN emitted[Target(s)]] : Served(s, p)
    BY <1>1, <1>4 DEF SubscribersServed
  <2> QED
    BY <1>1, <1>3, <1>4, <2>1, ServedStep
<1>5. SubscribersServed'
  BY <1>3, <1>4 DEF SubscribersServed, Subscribes, Target
<1> QED
  BY <1>3, <1>5 DEF ServedInv

\* What only the stream logger, streams or statistics change.
LEMMA ServedElse ==
  ASSUME ServedInv, UNCHANGED <<jobvars, subvars>>, OutputTypes', Known'
  PROVE  ServedInv'
<1>1. /\ OutputInv /\ SubscribersServed
      /\ msgs' = msgs /\ loop' = loop /\ hand' = hand /\ subscribers' = subscribers /\ calling' = calling
      /\ emitted' = emitted /\ proc' = proc /\ ptr' = ptr /\ copy' = copy /\ replayed' = replayed
  BY DEF ServedInv, jobvars, subvars
<1>2. Here' = Here
  BY <1>1 DEF Here
<1>3. Slices'
  BY <1>1, <1>2 DEF OutputInv, Slices, Slice, Target
<1>4. \A k \in Here : InHand(k)'
  BY <1>1 DEF OutputInv, InHand
<1>5. ASSUME NEW s \in Here, Subscribes(s) PROVE Position(s)' /\ Ending(s)'
  <2>1. PICK t : t = Target(s)
    OBVIOUS
  <2>2. Position(s) /\ Ending(s) /\ Target(s)' = t
    BY <1>1, <1>5, <2>1 DEF OutputInv, Own, Target
  <2>3. Called(t)' = Called(t)
    BY <1>1 DEF Called
  <2>4. Position(s)'
    BY <1>1, <2>1, <2>2, <2>3 DEF Position
  <2>5. Seen(s)' = Seen(s)
    BY <1>1, <2>1, <2>2 DEF Seen
  <2>6. Over(s)' <=> Over(s)
    BY <1>1, <2>5 DEF Over
  <2> QED
    BY <1>1, <2>1, <2>2, <2>4, <2>6 DEF Ending
<1>6. Own'
  BY <1>1, <1>2, <1>5 DEF OutputInv, Own, Subscribes, Target
<1>7. SubscribersServed'
  <2>1. ASSUME NEW s \in Here, Subscribes(s)
        PROVE  \E r \in [DOMAIN Seen(s)' -> DOMAIN emitted'[Target(s)]] : Served(s, r)'
    <3>1. PICK p \in [DOMAIN Seen(s) -> DOMAIN emitted[Target(s)]] : Served(s, p)
      BY <1>1, <2>1 DEF SubscribersServed
    <3>2. PICK t : t = Target(s) /\ t = Target(s)'
      BY DEF Target
    <3>3. Seen(s)' = Seen(s)
      BY <1>1, <3>2 DEF Seen
    <3>4. (Over(s)' <=> Over(s)) /\ Replays(s)' = Replays(s)
      BY <1>1, <3>3 DEF Over, Replays
    <3>5. Called(t)' = Called(t)
      BY <1>1 DEF Called
    <3>6. Live(s)' = Live(s)
      BY <1>1, <3>2, <3>5 DEF Live
    <3>7. Served(s, p)'
      BY <1>1, <3>1, <3>2, <3>3, <3>4, <3>6 DEF Served
    <3> QED
      BY <1>1, <3>1, <3>3, <3>7
  <2> QED
    BY <1>2, <2>1 DEF SubscribersServed, Subscribes, Target
<1> QED
  BY <1>2, <1>3, <1>4, <1>6, <1>7 DEF ServedInv, OutputInv

LEMMA ServedInit == FlowInit => ServedInv
<1> SUFFICES ASSUME FlowInit PROVE ServedInv
  OBVIOUS
<1>1. PICK sc \in Scenes : InitOutput(sc.jobs)
  BY DEF FlowInit
<1>2. OutputTypes /\ Known
  BY OutputInit
<1>3. /\ \A j \in Here : /\ loop[j] = "idle" /\ hand[j] = 0 /\ subscribers[j] = <<>> /\ calling[j] = <<>>
                         /\ emitted[j] = <<>> /\ proc[j] = "new" /\ ptr[j] = 0 /\ copy[j] = <<>>
                         /\ replayed[j] = [first |-> 1, last |-> 0, since |-> 0, kept |-> FALSE]
  BY <1>1 DEF InitOutput, Here
<1>4. Slices
  BY <1>3 DEF Slices, Slice
<1>5. \A j \in Here : InHand(j)
  BY <1>3 DEF InHand
<1>6. ASSUME NEW s \in Here, Subscribes(s)
      PROVE  /\ Position(s) /\ Ending(s)
             /\ \E p \in [DOMAIN Seen(s) -> DOMAIN emitted[Target(s)]] : Served(s, p)
  <2>1. PICK t \in Here : t = Target(s)
    BY <1>2, <1>6 DEF OutputTypes, Subscribes
  <2>2. Seen(s) = <<>> /\ ~Over(s) /\ Called(t) = 0 /\ Range(calling[t]) = {}
    BY <1>3, <2>1 DEF Seen, Over, Called, Range
  <2>3. Position(s)
    BY <1>3, <2>1, <2>2 DEF Position
  <2>4. Ending(s)
    BY <1>3, <2>1, <2>2 DEF Ending
  <2>5. Replays(s) = 0 /\ Live(s) = {}
    BY <1>3 DEF Replays, Live
  <2>6. PICK p : p \in [{} -> {}]
    <3>1. [i \in {} |-> i] \in [{} -> {}]
      OBVIOUS
    <3> QED
      BY <3>1
  <2>7. DOMAIN Seen(s) = {} /\ DOMAIN emitted[t] = {} /\ Len(Seen(s)) = 0
    BY <1>3, <2>2
  <2>8. Served(s, p)
    BY <1>3, <2>5, <2>7 DEF Served
  <2> QED
    BY <2>1, <2>3, <2>4, <2>6, <2>7, <2>8
<1>7. Own
  BY <1>3, <1>6 DEF Own
<1>8. SubscribersServed
  BY <1>6 DEF SubscribersServed
<1> QED
  BY <1>2, <1>4, <1>5, <1>7, <1>8 DEF ServedInv, OutputInv

LEMMA ServedNext == ServedInv /\ [FlowNext]_flowVars => ServedInv'
<1> SUFFICES ASSUME ServedInv, [FlowNext]_flowVars PROVE ServedInv'
  OBVIOUS
<1>1. CASE UNCHANGED output
  <2>1. OutputTypes' /\ Known'
    BY <1>1 DEF ServedInv, OutputInv, OutputTypes, Known, Here, Target, output
  <2> QED
    BY <1>1, <2>1, ServedElse DEF output, jobvars, subvars
<1>2. CASE Push
  BY <1>2, PushTypes, ServedElse DEF Push, ServedInv
<1>3. CASE \E j \in Here : Handles(j) \/ OfProcess(j) \/ Subscribe(j)
  BY <1>3, ServedOneStep DEF OneStep
<1> QED
  BY <1>1, <1>2, <1>3 DEF FlowNext, OutputStep, flowVars

\* Whatever subscribes to whom, and however the loops, the processes and the subscribers of
\* jobs interleave, each subscriber has what it was sent of the backlog and then what it was
\* handed, in order and once, and all of it unless another took its place (job.go, subscribe.go).
THEOREM ServedCorrect == FlowSpec => []SubscribersServed
<1>1. ServedInv => SubscribersServed
  BY DEF ServedInv
<1> QED
  BY <1>1, ServedInit, ServedNext, PTL DEF FlowSpec

\* What the loops hold, the lists of subscribers and how far each subscription is fit together at
\* every step (jobImb.run and Subscribe in job.go, subscribe.go).
THEOREM OutputHolds == FlowSpec => []OutputInv
<1>1. ServedInv => OutputInv
  BY DEF ServedInv
<1> QED
  BY <1>1, ServedInit, ServedNext, PTL DEF FlowSpec

-----------------------------------------------------------------------------
\* Tells, of what it depends on: P is what was pushed, W where in the channel messages are and V
\* what they are, E what the loop received, T which of it was handed on, F how often a push failed.
Recounts(q, c, P, W, V, E, T, F) ==
  /\ q \in [DOMAIN P -> T] /\ c \in [W -> T]
  /\ \A i \in DOMAIN P : /\ P[i] = E[q[i]]
                         /\ \A k \in DOMAIN P : i < k => q[i] < q[k]
                         /\ \A k \in W : q[i] < c[k]
  /\ \A i \in W : V[i] = E[c[i]] /\ \A k \in W : i < k => c[i] < c[k]
  /\ Cardinality(T \ (Range(q) \cup Range(c))) <= F

LEMMA RangeOf ==
  ASSUME NEW S, NEW D, NEW f \in [D -> S]
  PROVE  Range(f) = {f[i] : i \in D} /\ Range(f) \subseteq S
  BY DEF Range

LEMMA ToldSame ==
  ASSUME NEW q, NEW c, NEW P, NEW W, NEW V, NEW E, NEW E2, NEW T \in SUBSET Nat, IsFiniteSet(T),
         NEW F \in Nat, NEW F2 \in Nat, F <= F2,
         Recounts(q, c, P, W, V, E, T, F), \A i \in T : E2[i] = E[i]
  PROVE  Recounts(q, c, P, W, V, E2, T, F2)
<1>1. Cardinality(T \ (Range(q) \cup Range(c))) \in Nat
  <2>1. T \ (Range(q) \cup Range(c)) \subseteq T
    OBVIOUS
  <2> QED
    BY <2>1, FS_Subset, FS_CardinalityType
<1>2. Cardinality(T \ (Range(q) \cup Range(c))) <= F2
  BY <1>1 DEF Recounts
<1>3. /\ \A i \in DOMAIN P : q[i] \in T
      /\ \A i \in W : c[i] \in T
  BY DEF Recounts
<1> QED
  BY <1>2, <1>3 DEF Recounts

LEMMA ToldMore ==
  ASSUME NEW q, NEW c, NEW P, NEW W \in SUBSET Nat, NEW V, NEW V2, NEW E, NEW T \in SUBSET Nat, NEW F,
         Recounts(q, c, P, W, V, E, T, F),
         NEW w \in Nat, \A i \in W : i < w, NEW x \in Nat, \A i \in T : i < x,
         \A i \in W : V2[i] = V[i], V2[w] = E[x]
  PROVE  \E c2 : Recounts(q, c2, P, W \cup {w}, V2, E, T \cup {x}, F)
<1> DEFINE c2 == [i \in W \cup {w} |-> IF i \in W THEN c[i] ELSE x]
<1>1. /\ w \notin W /\ x \notin T /\ q \in [DOMAIN P -> T] /\ c \in [W -> T]
  <2>1. ~(w < w) /\ ~(x < x)
    OBVIOUS
  <2> QED
    BY <2>1 DEF Recounts
<1>2. /\ c2 \in [W \cup {w} -> T \cup {x}] /\ q \in [DOMAIN P -> T \cup {x}]
      /\ \A i \in W : c2[i] = c[i]
      /\ c2[w] = x
  BY <1>1
<1> HIDE DEF c2
<1>3. /\ Range(q) = {q[i] : i \in DOMAIN P} /\ Range(q) \subseteq T
      /\ Range(c) = {c[i] : i \in W} /\ Range(c) \subseteq T
      /\ Range(c2) = {c2[i] : i \in W \cup {w}}
  BY <1>1, <1>2, RangeOf
<1>4. Range(c2) = Range(c) \cup {x}
  BY <1>2, <1>3
<1>5. (T \cup {x}) \ (Range(q) \cup Range(c2)) = T \ (Range(q) \cup Range(c))
  BY <1>1, <1>4
<1>6. \A i \in DOMAIN P : /\ P[i] = E[q[i]]
                          /\ \A k \in DOMAIN P : i < k => q[i] < q[k]
                          /\ \A k \in W \cup {w} : q[i] < c2[k]
  BY <1>1, <1>2 DEF Recounts
<1>7. \A i \in W \cup {w} : V2[i] = E[c2[i]]
  BY <1>2 DEF Recounts
<1>8. ASSUME NEW i \in W \cup {w}, NEW k \in W \cup {w}, i < k PROVE c2[i] < c2[k]
  <2>1. i \in W
    <3>1. CASE i = w
      <4>1. CASE k = w
        BY <1>8, <3>1, <4>1
      <4>2. CASE k \in W
        <5>1. k < i /\ k \in Nat /\ i \in Nat
          BY <3>1, <4>2
        <5> QED
          BY <1>8, <5>1
      <4> QED
        BY <4>1, <4>2
    <3> QED
      BY <3>1
  <2>2. CASE k \in W
    BY <1>2, <1>8, <2>1, <2>2 DEF Recounts
  <2>3. CASE k = w
    BY <1>1, <1>2, <2>1, <2>3
  <2> QED
    BY <2>2, <2>3
<1>9. Cardinality((T \cup {x}) \ (Range(q) \cup Range(c2))) <= F
  BY <1>5 DEF Recounts
<1>10. Recounts(q, c2, P, W \cup {w}, V2, E, T \cup {x}, F)
  BY <1>2, <1>6, <1>7, <1>8, <1>9 DEF Recounts
<1> QED
  BY <1>10

\* The first of the channel is taken out.
Shifted(W) == {i \in Nat \ {0} : i + 1 \in W}

LEMMA ToldTail ==
  ASSUME NEW P \in Seq(Nat), NEW P2, NEW W \in SUBSET (Nat \ {0}), NEW V, NEW V2, NEW E,
         NEW T \in SUBSET Nat, IsFiniteSet(T), NEW F \in Nat, NEW F2,
         NEW q, NEW c, Recounts(q, c, P, W, V, E, T, F),
         \A i \in Shifted(W) : V2[i] = V[i + 1],
         \/ 1 \notin W /\ P2 = P /\ F2 \in Nat /\ F <= F2
         \/ 1 \in W /\ V[1] \in Nat /\ P2 = Append(P, V[1]) /\ F2 = F
         \/ 1 \in W /\ P2 = P /\ F2 = F + 1
  PROVE  \E q2, c2 : Recounts(q2, c2, P2, Shifted(W), V2, E, T, F2)
<1> DEFINE W2 == Shifted(W)
           c2 == [i \in W2 |-> c[i + 1]]
           Left(a, b) == T \ (Range(a) \cup Range(b))
<1>1. /\ q \in [DOMAIN P -> T] /\ c \in [W -> T]
      /\ \A i \in W2 : i \in Nat /\ i # 0 /\ i + 1 \in W
      /\ \A i \in W : i \in Nat /\ i # 0 /\ (i # 1 => i - 1 \in W2 /\ (i - 1) + 1 = i)
  BY DEF Recounts, Shifted
<1>2. c2 \in [W2 -> T] /\ \A i \in W2 : c2[i] = c[i + 1]
  BY <1>1
<1> HIDE DEF W2, c2
<1>3. /\ Range(q) = {q[i] : i \in DOMAIN P} /\ Range(q) \subseteq T
      /\ Range(c) = {c[i] : i \in W} /\ Range(c) \subseteq T
      /\ Range(c2) = {c2[i] : i \in W2} /\ Range(c2) \subseteq T
  BY <1>1, <1>2, RangeOf
<1>4. Range(c2) \subseteq Range(c)
  BY <1>1, <1>2, <1>3
<1>5. ASSUME NEW i \in W, i # 1 PROVE c[i] \in Range(c2)
  <2>1. i - 1 \in W2 /\ c2[i - 1] = c[(i - 1) + 1]
    BY <1>1, <1>2, <1>5
  <2>2. c[(i - 1) + 1] = c[i]
    BY <1>1, <1>5
  <2> QED
    BY <1>3, <2>1, <2>2
<1>6. /\ \A i \in DOMAIN P : /\ P[i] = E[q[i]]
                             /\ \A k \in DOMAIN P : i < k => q[i] < q[k]
                             /\ \A k \in W2 : q[i] < c2[k]
      /\ \A i \in W2 : V2[i] = E[c2[i]] /\ \A k \in W2 : i < k => c2[i] < c2[k]
  <2>1. \A i \in W2 : \A k \in W2 : i < k => i + 1 < k + 1
    BY <1>1
  <2>2. \A i \in W2 : V2[i] = E[c2[i]]
    BY <1>1, <1>2 DEF Recounts, W2
  <2>3. \A i \in W2 : \A k \in W2 : i < k => c2[i] < c2[k]
    BY <1>1, <1>2, <2>1 DEF Recounts
  <2> QED
    BY <1>1, <1>2, <2>2, <2>3 DEF Recounts
<1>7. \A a, b : IsFiniteSet(Left(a, b)) /\ Cardinality(Left(a, b)) \in Nat
  <2>1. \A a, b : Left(a, b) \subseteq T
    OBVIOUS
  <2> QED
    BY <2>1, FS_Subset, FS_CardinalityType
<1>8. Cardinality(Left(q, c)) <= F
  BY DEF Recounts
<1>9. \A a, b : Recounts(a, b, P2, W2, V2, E, T, F2) <=>
        /\ a \in [DOMAIN P2 -> T] /\ b \in [W2 -> T]
        /\ \A i \in DOMAIN P2 : /\ P2[i] = E[a[i]]
                                /\ \A k \in DOMAIN P2 : i < k => a[i] < a[k]
                                /\ \A k \in W2 : a[i] < b[k]
        /\ \A i \in W2 : V2[i] = E[b[i]] /\ \A k \in W2 : i < k => b[i] < b[k]
        /\ Cardinality(Left(a, b)) <= F2
  BY DEF Recounts
<1>10. \A a, b : Left(a, b) = T \ (Range(a) \cup Range(b))
  OBVIOUS
<1> HIDE DEF Left
<1>A. CASE 1 \notin W /\ P2 = P /\ F2 \in Nat /\ F <= F2
  <2>1. Range(c) \subseteq Range(c2)
    BY <1>3, <1>5, <1>A
  <2>2. Left(q, c2) = Left(q, c)
    BY <1>4, <1>10, <2>1
  <2>3. Cardinality(Left(q, c2)) <= F2
    BY <1>7, <1>8, <1>A, <2>2
  <2>4. Recounts(q, c2, P2, W2, V2, E, T, F2)
    BY <1>1, <1>2, <1>6, <1>9, <1>A, <2>3
  <2> QED
    BY <2>4 DEF W2
<1>B. CASE 1 \in W /\ P2 = P /\ F2 = F + 1
  <2>1. Left(q, c2) \subseteq Left(q, c) \cup {c[1]}
    BY <1>3, <1>5, <1>10, <1>B
  <2> DEFINE L == Left(q, c) \cup {c[1]}
  <2>2. IsFiniteSet(L) /\ Cardinality(L) \in Nat /\ Cardinality(L) <= Cardinality(Left(q, c)) + 1
    <3>1. /\ IsFiniteSet(L)
          /\ Cardinality(L) = IF c[1] \in Left(q, c) THEN Cardinality(Left(q, c)) ELSE Cardinality(Left(q, c)) + 1
      BY <1>7, FS_AddElement
    <3> QED
      BY <1>7, <3>1
  <2>6. Left(q, c2) \in SUBSET L
    BY <2>1
  <2> HIDE DEF L
  <2>3. Cardinality(Left(q, c2)) <= Cardinality(L)
    BY <2>2, <2>6, FS_Subset
  <2>4. Cardinality(Left(q, c2)) <= F2
    <3>1. PICK x, y, z \in Nat : x = Cardinality(Left(q, c2)) /\ y = Cardinality(L) /\ z = Cardinality(Left(q, c))
      BY <1>7, <2>2
    <3>2. x <= y /\ y <= z + 1 /\ z <= F
      BY <1>8, <2>2, <2>3, <3>1
    <3>3. x <= F2
      BY <1>B, <3>2
    <3> QED
      BY <3>1, <3>3
  <2>5. Recounts(q, c2, P2, W2, V2, E, T, F2)
    BY <1>1, <1>2, <1>6, <1>9, <1>B, <2>4
  <2> QED
    BY <2>5 DEF W2
<1>C. CASE 1 \in W /\ V[1] \in Nat /\ P2 = Append(P, V[1]) /\ F2 = F
  <2>0. PICK v \in Nat : v = V[1]
    BY <1>C
  <2>1. /\ Len(P) \in Nat /\ DOMAIN P = 1..Len(P) /\ DOMAIN P2 = 1..(Len(P) + 1)
        /\ \A i \in 1..Len(P) : P2[i] = P[i]
        /\ P2[Len(P) + 1] = v
    BY <1>C, <2>0, Appended
  <2> DEFINE n == Len(P) + 1
             q2 == [i \in 1..n |-> IF i \in 1..Len(P) THEN q[i] ELSE c[1]]
  <2>2. /\ q2 \in [DOMAIN P2 -> T]
        /\ \A i \in DOMAIN P : q2[i] = q[i] /\ i \in DOMAIN P2
        /\ q2[n] = c[1] /\ n \in DOMAIN P2
        /\ \A i \in DOMAIN P2 : i \in DOMAIN P \/ i = n
        /\ \A i \in DOMAIN P : ~(n < i) /\ ~(n < n)
    <3>1. n \in Nat /\ n \in 1..n /\ n \notin 1..Len(P) /\ \A i \in 1..n : i \in 1..Len(P) \/ i = n
      BY <2>1
    <3>2. \A i \in 1..Len(P) : i \in 1..n /\ ~(n < i)
      BY <2>1
    <3>3. c[1] \in T /\ \A i \in 1..Len(P) : q[i] \in T
      BY <1>1, <1>C, <2>1
    <3>4. ~(n < n)
      BY <3>1
    <3> HIDE DEF n
    <3>5. \A i \in 1..n : q2[i] = IF i \in 1..Len(P) THEN q[i] ELSE c[1]
      OBVIOUS
    <3>6. q2 \in [1..n -> T]
      BY <3>3
    <3>7. DOMAIN P2 = 1..n
      BY <2>1 DEF n
    <3> HIDE DEF q2
    <3> QED
      BY <2>1, <3>1, <3>2, <3>4, <3>5, <3>6, <3>7
  <2>9. P2[n] = v
    BY <2>1
  <2> HIDE DEF n, q2
  <2>3. Range(q2) = {q2[i] : i \in DOMAIN P2}
    BY <2>2, RangeOf
  <2>4. Range(q2) = Range(q) \cup {c[1]}
    BY <1>3, <2>2, <2>3
  <2>5. c[1] \in Range(c)
    BY <1>3, <1>C
  <2>6. Left(q2, c2) = Left(q, c)
    <3>1. Range(q2) \cup Range(c2) = Range(q) \cup Range(c)
      <4>1. Range(c) \subseteq Range(c2) \cup {c[1]}
        BY <1>3, <1>5
      <4> QED
        BY <1>4, <2>4, <2>5, <4>1
    <3> QED
      BY <1>10, <3>1
  <2>7. v = E[c[1]] /\ \A k \in W2 : c[1] < c2[k]
    <3>1. \A k \in W2 : 1 < k + 1
      BY <1>1
    <3> QED
      BY <1>1, <1>2, <1>C, <2>0, <3>1 DEF Recounts
  <2>8. \A i \in DOMAIN P2 : /\ P2[i] = E[q2[i]]
                             /\ \A k \in DOMAIN P2 : i < k => q2[i] < q2[k]
                             /\ \A k \in W2 : q2[i] < c2[k]
    <3>1. ASSUME NEW i \in DOMAIN P
          PROVE  /\ P2[i] = E[q2[i]]
                 /\ \A k \in DOMAIN P2 : i < k => q2[i] < q2[k]
                 /\ \A k \in W2 : q2[i] < c2[k]
      <4>1. q[i] < c[1]
        BY <1>C DEF Recounts
      <4>2. \A k \in DOMAIN P2 : i < k => q2[i] < q2[k]
        BY <1>6, <2>2, <4>1
      <4> QED
        BY <1>6, <2>1, <2>2, <4>2
    <3>2. /\ P2[n] = E[q2[n]]
          /\ \A k \in DOMAIN P2 : n < k => q2[n] < q2[k]
          /\ \A k \in W2 : q2[n] < c2[k]
      BY <2>2, <2>7, <2>9
    <3> QED
      BY <2>2, <3>1, <3>2
  <2>10. Recounts(q2, c2, P2, W2, V2, E, T, F2)
    BY <1>2, <1>6, <1>8, <1>9, <1>C, <2>2, <2>6, <2>8
  <2> QED
    BY <2>10 DEF W2
<1> QED
  BY <1>A, <1>B, <1>C

\* Where Recounts stands for Tells.
Carried(j) == [i \in OnTheWay(j) |-> channel[i][2]]
ToldOf(j, q, c) == Recounts(q, c, pushed[j], OnTheWay(j), Carried(j), emitted[j], ToTell(j), failures)
Retells ==
  \A j \in Here : \A q, c :
    (q \in [DOMAIN pushed[j] -> ToTell(j)] /\ c \in [OnTheWay(j) -> ToTell(j)] /\ Tells(j, q, c)) <=> ToldOf(j, q, c)

LEMMA Retold == Retells
<1> SUFFICES ASSUME NEW j \in Here, NEW q, NEW c
             PROVE  (q \in [DOMAIN pushed[j] -> ToTell(j)] /\ c \in [OnTheWay(j) -> ToTell(j)] /\ Tells(j, q, c))
                    <=> ToldOf(j, q, c)
  BY DEF Retells
<1>1. PICK W, T : W = OnTheWay(j) /\ T = ToTell(j)
  OBVIOUS
<1>2. \A i \in W : Carried(j)[i] = channel[i][2]
  BY <1>1 DEF Carried
<1> QED
  BY <1>1, <1>2 DEF ToldOf, Recounts, Tells

LEMMA RetoldPrimed == Retells'
  BY Retold, PTL

LEMMA ToTellTypes ==
  ASSUME OutputInv, NEW k \in Here
  PROVE  /\ ToTell(k) \in SUBSET Nat /\ IsFiniteSet(ToTell(k))
         /\ Called(k) \in Nat /\ Called(k) <= Len(emitted[k]) /\ Len(emitted[k]) \in Nat
         /\ DOMAIN emitted[k] = 1..Len(emitted[k])
         /\ \A i \in ToTell(k) : i \in 1..Called(k) /\ i \in 1..Len(emitted[k])
<1>1. /\ emitted[k] \in Seq(Nat) /\ Len(emitted[k]) \in Nat
      /\ DOMAIN emitted[k] = 1..Len(emitted[k])
      /\ loop[k] = "received" => Len(emitted[k]) # 0
  BY Listed DEF OutputInv, OutputTypes, InHand
<1>2. Called(k) \in Nat /\ Called(k) <= Len(emitted[k])
  <2>1. CASE loop[k] = "received"
    BY <1>1, <2>1 DEF Called
  <2>2. CASE loop[k] # "received"
    BY <1>1, <2>2 DEF Called
  <2> QED
    BY <2>1, <2>2
<1>3. ToTell(k) \subseteq 1..Called(k)
  BY DEF ToTell
<1>4. IsFiniteSet(1..Called(k))
  BY <1>2, FS_Interval
<1>5. IsFiniteSet(ToTell(k))
  BY <1>3, <1>4, FS_Subset
<1>6. \A i \in 1..Called(k) : i \in 1..Len(emitted[k]) /\ i \in Nat
  BY <1>1, <1>2
<1>7. ToTell(k) \in SUBSET Nat
  BY <1>3, <1>6
<1> QED
  BY <1>1, <1>2, <1>3, <1>5, <1>6, <1>7

LEMMA ToTellMoves ==
  ASSUME OutputInv, NEW j \in Here, OneStep(j), NEW k \in Here
  PROVE  \/ ToTell(k)' = ToTell(k) /\ ~(k = j /\ Callback(j) /\ ~msgs[hand[k]].bad)
         \/ /\ k = j /\ Callback(j) /\ ~msgs[hand[k]].bad /\ emitted'[k] = emitted[k]
            /\ hand[k] = emitted[k][Len(emitted[k])]
            /\ ToTell(k)' = ToTell(k) \cup {Len(emitted[k])} /\ \A i \in ToTell(k) : i < Len(emitted[k])
<1>1. PICK m, n \in Nat : m = Called(k) /\ n = Len(emitted[k])
  BY ToTellTypes
<1>2. m <= n
  BY <1>1, ToTellTypes
<1>3. \A i \in 1..m : i \in 1..n
  BY <1>2
<1>4. \A i \in 1..n : emitted'[k][i] = emitted[k][i] /\ (msgs'[emitted[k][i]].bad = msgs[emitted[k][i]].bad)
  BY <1>1, EmittedKeeps, MsgsKeep
<1>5. ToTell(k) = {i \in 1..m : ~msgs[emitted[k][i]].bad}
  BY <1>1 DEF ToTell
<1>6. ToTell(k)' = {i \in 1..Called(k)' : ~msgs'[emitted'[k][i]].bad}
  BY DEF ToTell
<1>7. CASE Called(k)' = Called(k) /\ ~(k = j /\ Callback(j))
  BY <1>1, <1>3, <1>4, <1>5, <1>6, <1>7
<1>8. CASE /\ k = j /\ Callback(j) /\ loop[k] = "received"
           /\ Called(k) = Len(emitted[k]) - 1 /\ Called(k)' = Len(emitted[k])
           /\ emitted'[k] = emitted[k]
  <2>1. m = n - 1 /\ Called(k)' = n
    BY <1>1, <1>8
  <2>2. InHand(k) /\ hand[k] = emitted[k][n]
    BY <1>1, <1>8 DEF OutputInv, InHand
  <2>3. n \in 1..n /\ n \notin 1..m /\ \A i \in 1..n : i \in 1..m \/ i = n
    BY <2>1
  <2>4. \A i \in ToTell(k) : i < n
    BY <1>5, <2>1
  <2>5. CASE msgs[hand[k]].bad
    <3>1. ToTell(k)' = ToTell(k)
      BY <1>3, <1>4, <1>5, <1>6, <2>1, <2>2, <2>3, <2>5
    <3> QED
      BY <2>5, <3>1
  <2>6. CASE ~msgs[hand[k]].bad
    <3>1. ToTell(k)' = ToTell(k) \cup {n}
      BY <1>3, <1>4, <1>5, <1>6, <2>1, <2>2, <2>3, <2>6
    <3> QED
      BY <1>1, <1>8, <2>2, <2>4, <2>6, <3>1
  <2> QED
    BY <2>5, <2>6
<1> QED
  BY <1>7, <1>8, CalledMoves

LEMMA ChannelMoves ==
  ASSUME OutputInv, NEW j \in Here, OneStep(j)
  PROVE  /\ pushed' = pushed /\ failures' = failures
         /\ \/ channel' = channel /\ ~(Callback(j) /\ ~msgs[hand[j]].bad /\ Does[j].stream)
            \/ Callback(j) /\ ~msgs[hand[j]].bad /\ channel' = Append(channel, <<j, hand[j]>>)
<1>1. CASE Callback(j)
  <2>1. CASE msgs[hand[j]].bad
    BY <1>1, <2>1 DEF Callback
  <2>2. CASE ~msgs[hand[j]].bad
    BY <1>1, <2>2 DEF Callback, LogRecord
  <2> QED
    BY <2>1, <2>2
<1>2. CASE ~Callback(j)
  <2>1. UNCHANGED <<channel, failures, pushed>>
    BY <1>2
    DEF OneStep, Handles, OfProcess, Subscribe, Call, CallEnd, RunEnd, CleanUp, Writes, Exits,
        Look, Replay, EnrolRead, Enrol, Awaits, Result, logvars
  <2> QED
    BY <1>2, <2>1
<1> QED
  BY <1>1, <1>2

LEMMA ChannelTypes ==
  ASSUME OutputInv, NEW k \in Here
  PROVE  /\ channel \in Seq(Here \X Nat) /\ Len(channel) \in Nat /\ DOMAIN channel = 1..Len(channel)
         /\ OnTheWay(k) \in SUBSET (Nat \ {0}) /\ OnTheWay(k) \in SUBSET Nat
         /\ pushed[k] \in Seq(Nat) /\ failures \in Nat
         /\ \A i \in OnTheWay(k) : Carried(k)[i] = channel[i][2] /\ i \in 1..Len(channel)
<1>1. channel \in Seq(Here \X Nat) /\ pushed[k] \in Seq(Nat) /\ failures \in Nat
  BY DEF OutputInv, OutputTypes
<1>2. Len(channel) \in Nat /\ DOMAIN channel = 1..Len(channel)
  BY <1>1, Listed
<1>3. OnTheWay(k) \subseteq 1..Len(channel)
  BY <1>2 DEF OnTheWay
<1>4. \A i \in 1..Len(channel) : i \in Nat /\ i \in Nat \ {0}
  BY <1>2
<1>5. \A i \in OnTheWay(k) : Carried(k)[i] = channel[i][2]
  BY DEF Carried
<1> QED
  BY <1>1, <1>2, <1>3, <1>4, <1>5

LEMMA ToldStep ==
  ASSUME OutputInv, OutputInv', NEW j \in Here, OneStep(j), NEW k \in Here, Does[k].stream,
         NEW q, NEW c, ToldOf(k, q, c)
  PROVE  \E c2 : ToldOf(k, q, c2)'
<1> DEFINE T == ToTell(k)
           W == OnTheWay(k)
           V == Carried(k)
           E == emitted[k]
           P == pushed[k]
<1>1. /\ T \in SUBSET Nat /\ IsFiniteSet(T) /\ \A i \in T : i \in 1..Len(E)
      /\ W \in SUBSET Nat /\ Len(channel) \in Nat /\ DOMAIN channel = 1..Len(channel)
      /\ channel \in Seq(Here \X Nat) /\ failures \in Nat
      /\ \A i \in W : V[i] = channel[i][2] /\ i \in 1..Len(channel)
      /\ V = [i \in W |-> channel[i][2]]
  BY ToTellTypes, ChannelTypes DEF Carried
<1>2. \A i \in T : emitted'[k][i] = E[i]
  BY <1>1, EmittedKeeps
<1>3. pushed' = pushed /\ failures' = failures
  BY ChannelMoves
<1>4. Recounts(q, c, P, W, V, E, T, failures)
  BY DEF ToldOf
<1>5. \A r, d : ToldOf(k, r, d)' <=>
        Recounts(r, d, P, OnTheWay(k)', Carried(k)', emitted'[k], ToTell(k)', failures)
  BY <1>3 DEF ToldOf
<1>6. /\ OnTheWay(k)' = {i \in DOMAIN channel' : channel'[i][1] = k}
      /\ W = {i \in DOMAIN channel : channel[i][1] = k}
      /\ Carried(k)' = [i \in OnTheWay(k)' |-> channel'[i][2]]
  BY DEF OnTheWay, Carried
<1> HIDE DEF T, W, V, E, P
<1>7. failures <= failures
  BY <1>1
<1>8. Recounts(q, c, P, W, V, emitted'[k], T, failures)
  <2>1. PICK F, E2 : F = failures /\ E2 = emitted'[k]
    OBVIOUS
  <2>2. F \in Nat /\ F <= F /\ Recounts(q, c, P, W, V, E, T, F) /\ \A i \in T : E2[i] = E[i]
    BY <1>1, <1>2, <1>4, <1>7, <2>1
  <2>3. Recounts(q, c, P, W, V, E2, T, F)
    BY <1>1, <2>2, ToldSame
  <2> QED
    BY <2>1, <2>3
<1>A. CASE channel' = channel /\ ~(Callback(j) /\ ~msgs[hand[j]].bad /\ Does[j].stream)
  <2>1. OnTheWay(k)' = W /\ Carried(k)' = V
    BY <1>1, <1>6, <1>A
  <2>2. ToTell(k)' = T
    BY <1>A, ToTellMoves DEF T
  <2> QED
    BY <1>5, <1>8, <2>1, <2>2
<1>B. CASE Callback(j) /\ ~msgs[hand[j]].bad /\ channel' = Append(channel, <<j, hand[j]>>)
  <2>1. PICK w \in Nat : w = Len(channel) + 1
    BY <1>1
  <2>2. hand[j] \in Nat /\ <<j, hand[j]>> \in Here \X Nat
    <3>1. hand[j] \in Nat
      BY DEF OutputInv, OutputTypes
    <3> QED
      BY <3>1
  <2>3. /\ DOMAIN channel' = 1..w /\ channel'[w] = <<j, hand[j]>>
        /\ \A i \in 1..Len(channel) : channel'[i] = channel[i]
    BY <1>1, <1>B, <2>1, <2>2, Appended
  <2>4. /\ \A i \in 1..w : i \in 1..Len(channel) \/ i = w
        /\ \A i \in 1..Len(channel) : i \in 1..w /\ i < w
        /\ w \in 1..w
    BY <1>1, <2>1
  <2>5. CASE k # j
    <3>1. channel'[w][1] # k
      BY <2>3, <2>5
    <3>2. OnTheWay(k)' = W
      BY <1>1, <1>6, <2>3, <2>4, <3>1
    <3>3. Carried(k)' = V
      BY <1>1, <1>6, <2>3, <3>2
    <3>4. ToTell(k)' = T
      BY <2>5, ToTellMoves DEF T
    <3> QED
      BY <1>5, <1>8, <3>2, <3>3, <3>4
  <2>6. CASE k = j
    <3>1. /\ emitted'[k] = E /\ hand[k] = E[Len(E)]
          /\ ToTell(k)' = T \cup {Len(E)} /\ \A i \in T : i < Len(E)
      BY <1>B, <2>6, ToTellMoves DEF T, E
    <3>2. channel'[w][1] = k /\ channel'[w][2] = hand[k]
      BY <2>3, <2>6
    <3>3. OnTheWay(k)' = W \cup {w}
      BY <1>1, <1>6, <2>3, <2>4, <3>2
    <3>4. PICK V2 : V2 = Carried(k)'
      OBVIOUS
    <3>5. /\ \A i \in W : V2[i] = V[i]
          /\ V2[w] = E[Len(E)]
      <4>1. \A i \in W \cup {w} : V2[i] = channel'[i][2]
        BY <1>6, <3>3, <3>4
      <4>2. \A i \in W : V2[i] = V[i]
        BY <1>1, <2>3, <4>1
      <4>3. V2[w] = E[Len(E)]
        BY <3>1, <3>2, <4>1
      <4> QED
        BY <4>2, <4>3
    <3>6. PICK x \in Nat : x = Len(E)
      BY EmittedKeeps DEF E
    <3>7. \A i \in W : i < w
      BY <1>1, <2>4
    <3>8. PICK F : F = failures
      OBVIOUS
    <3>9. /\ Recounts(q, c, P, W, V, E, T, F)
          /\ \A i \in T : i < x
          /\ V2[w] = E[x]
      BY <1>4, <3>1, <3>5, <3>6, <3>8
    <3>10. \E c2 : Recounts(q, c2, P, W \cup {w}, V2, E, T \cup {x}, F)
      <4>1. W \in SUBSET Nat /\ T \in SUBSET Nat
        BY <1>1
      <4> QED
        BY <3>5, <3>7, <3>9, <4>1, ToldMore
    <3> QED
      BY <1>5, <3>1, <3>3, <3>4, <3>6, <3>8, <3>10
  <2> QED
    BY <2>5, <2>6
<1> QED
  BY <1>A, <1>B, ChannelMoves

LEMMA ToldPush ==
  ASSUME OutputInv, Push, NEW k \in Here, NEW q, NEW c, ToldOf(k, q, c)
  PROVE  \E q2, c2 : ToldOf(k, q2, c2)'
<1> DEFINE T == ToTell(k)
           W == OnTheWay(k)
           V == Carried(k)
           E == emitted[k]
           P == pushed[k]
<1>1. /\ T \in SUBSET Nat /\ IsFiniteSet(T)
      /\ W \in SUBSET (Nat \ {0}) /\ Len(channel) \in Nat /\ DOMAIN channel = 1..Len(channel)
      /\ channel \in Seq(Here \X Nat) /\ failures \in Nat /\ P \in Seq(Nat)
      /\ \A i \in W : V[i] = channel[i][2] /\ i \in 1..Len(channel)
  BY ToTellTypes, ChannelTypes
<1>2. /\ channel # <<>> /\ channel' = Tail(channel) /\ UNCHANGED <<jobvars, subvars>>
      /\ \/ pushed' = [pushed EXCEPT ![channel[1][1]] = Append(@, channel[1][2])] /\ UNCHANGED failures
         \/ failures < MaxFailures /\ failures' = failures + 1 /\ UNCHANGED pushed
  BY DEF Push
<1>3. /\ emitted'[k] = E /\ ToTell(k)' = T
  BY <1>2 DEF ToTell, Called, jobvars
<1>4. /\ Len(channel) \in Nat \ {0} /\ DOMAIN channel' = 1..(Len(channel) - 1)
      /\ \A i \in 1..(Len(channel) - 1) : channel'[i] = channel[i + 1]
      /\ channel[1] \in Here \X Nat
  BY <1>1, <1>2, Tailed
<1>5. PICK x \in Here, v \in Nat : channel[1] = <<x, v>>
  BY <1>4
<1>6. /\ OnTheWay(k)' = {i \in DOMAIN channel' : channel'[i][1] = k}
      /\ W = {i \in DOMAIN channel : channel[i][1] = k}
      /\ \A i \in OnTheWay(k)' : Carried(k)'[i] = channel'[i][2]
  BY DEF OnTheWay, Carried
<1>7. Recounts(q, c, P, W, V, E, T, failures)
  BY DEF ToldOf
<1>8. PICK P2, F2, V2 : P2 = pushed'[k] /\ F2 = failures' /\ V2 = Carried(k)'
  OBVIOUS
<1>12. pushed \in [Here -> Seq(Nat)]
  BY DEF OutputInv, OutputTypes
<1> HIDE DEF T, W, V, E, P
<1>9. OnTheWay(k)' = Shifted(W)
  <2>1. ASSUME NEW i \in DOMAIN channel', channel'[i][1] = k PROVE i \in Shifted(W)
    <3>1. i \in Nat \ {0} /\ i + 1 \in DOMAIN channel
      BY <1>1, <1>4
    <3>2. channel[i + 1][1] = k
      BY <1>4, <2>1
    <3> QED
      BY <1>6, <3>1, <3>2 DEF Shifted
  <2>2. ASSUME NEW i \in Shifted(W) PROVE i \in DOMAIN channel' /\ channel'[i][1] = k
    <3>1. i \in Nat \ {0} /\ i + 1 \in W /\ i + 1 \in 1..Len(channel)
      BY <1>1 DEF Shifted
    <3>2. i \in 1..(Len(channel) - 1)
      BY <1>4, <3>1
    <3> QED
      BY <1>4, <1>6, <3>1, <3>2
  <2> QED
    BY <1>6, <2>1, <2>2
<1>10. \A i \in Shifted(W) : V2[i] = V[i + 1]
  <2>1. ASSUME NEW i \in Shifted(W) PROVE V2[i] = V[i + 1]
    <3>1. i \in DOMAIN channel' /\ i + 1 \in W
      BY <1>6, <1>9 DEF Shifted
    <3>2. V2[i] = channel'[i][2] /\ V[i + 1] = channel[i + 1][2]
      BY <1>1, <1>6, <1>8, <1>9, <3>1
    <3>3. channel'[i] = channel[i + 1]
      BY <1>4, <3>1
    <3> QED
      BY <3>2, <3>3
  <2> QED
    BY <2>1
<1>11. \/ 1 \notin W /\ P2 = P /\ F2 \in Nat /\ failures <= F2
       \/ 1 \in W /\ V[1] \in Nat /\ P2 = Append(P, V[1]) /\ F2 = failures
       \/ 1 \in W /\ P2 = P /\ F2 = failures + 1
  <2>1. 1 \in W <=> x = k
    BY <1>4, <1>5, <1>1, <1>6
  <2>2. 1 \in W => V[1] = v
    BY <1>1, <1>5
  <2>3. F2 \in Nat /\ failures <= F2
    BY <1>1, <1>2, <1>8
  <2>4. CASE pushed' = [pushed EXCEPT ![x] = Append(@, v)] /\ F2 = failures
    <3>1. x # k => P2 = P
      BY <1>8, <1>12, <2>4 DEF P
    <3>2. x = k => P2 = Append(P, v)
      BY <1>8, <1>12, <2>4 DEF P
    <3> QED
      BY <2>1, <2>2, <2>3, <2>4, <3>1, <3>2
  <2>5. CASE pushed' = pushed /\ F2 = failures + 1
    BY <1>8, <2>1, <2>3, <2>5 DEF P
  <2> QED
    BY <1>2, <1>5, <1>8, <2>4, <2>5
<1>13. PICK F : F = failures
  OBVIOUS
<1>14. \E q2, c2 : Recounts(q2, c2, P2, Shifted(W), V2, E, T, F2)
  <2>1. F \in Nat /\ Recounts(q, c, P, W, V, E, T, F)
    BY <1>1, <1>7, <1>13
  <2>2. \/ 1 \notin W /\ P2 = P /\ F2 \in Nat /\ F <= F2
        \/ 1 \in W /\ V[1] \in Nat /\ P2 = Append(P, V[1]) /\ F2 = F
        \/ 1 \in W /\ P2 = P /\ F2 = F + 1
    BY <1>11, <1>13
  <2> QED
    BY <1>1, <1>10, <2>1, <2>2, ToldTail
<1> QED
  BY <1>3, <1>8, <1>9, <1>14 DEF ToldOf

-----------------------------------------------------------------------------
\* And for the queue of the stream logger.
ToldInv == ServedInv /\ \A j \in Here : Does[j].stream => \E q, c : ToldOf(j, q, c)

LEMMA ToldInit == FlowInit => ToldInv
<1> SUFFICES ASSUME FlowInit, NEW j \in Here PROVE \E q, c : ToldOf(j, q, c)
  BY ServedInit DEF ToldInv
<1>1. PICK sc \in Scenes : InitOutput(sc.jobs)
  BY DEF FlowInit
<1>2. emitted[j] = <<>> /\ pushed[j] = <<>> /\ channel = <<>> /\ failures = 0 /\ loop[j] = "idle"
  BY <1>1 DEF InitOutput, Here
<1>3. Called(j) = 0
  BY <1>2 DEF Called
<1>4. ToTell(j) = {} /\ OnTheWay(j) = {} /\ DOMAIN pushed[j] = {}
  BY <1>2, <1>3 DEF ToTell, OnTheWay
<1>5. PICK q : q \in [{} -> {}]
  <2>1. [i \in {} |-> i] \in [{} -> {}]
    OBVIOUS
  <2> QED
    BY <2>1
<1>6. Cardinality({} \ (Range(q) \cup Range(q))) <= 0
  <2>1. {} \ (Range(q) \cup Range(q)) = {}
    OBVIOUS
  <2>2. Cardinality({}) = 0
    BY FS_EmptySet
  <2> QED
    BY <2>1, <2>2
<1>7. ToldOf(j, q, q)
  BY <1>2, <1>4, <1>5, <1>6 DEF ToldOf, Recounts
<1> QED
  BY <1>7

LEMMA ToldNext == ToldInv /\ [FlowNext]_flowVars => ToldInv'
<1> SUFFICES ASSUME ToldInv, [FlowNext]_flowVars PROVE ToldInv'
  OBVIOUS
<1>1. ServedInv /\ ServedInv' /\ OutputInv /\ OutputInv'
  BY ServedNext DEF ToldInv, ServedInv
<1>2. SUFFICES /\ Here' = Here
               /\ \A k \in Here : Does[k].stream => \A q, c : ToldOf(k, q, c) => \E q2, c2 : ToldOf(k, q2, c2)'
  BY <1>1 DEF ToldInv
<1>3. CASE UNCHANGED output
  <2>1. Here' = Here
    BY <1>3 DEF output, Here
  <2>2. ASSUME NEW k \in Here, NEW q, NEW c, ToldOf(k, q, c) PROVE ToldOf(k, q, c)'
    BY <1>3, <2>2 DEF output, ToldOf, Recounts, OnTheWay, Carried, ToTell, Called
  <2> QED
    BY <2>1, <2>2
<1>4. CASE Push
  <2>1. Here' = Here
    BY <1>4 DEF Push, jobvars, Here
  <2> QED
    BY <1>1, <1>4, <2>1, ToldPush
<1>5. CASE \E j \in Here : Handles(j) \/ OfProcess(j) \/ Subscribe(j)
  <2>1. PICK j \in Here : OneStep(j)
    BY <1>5 DEF OneStep
  <2>2. Here' = Here
    BY <1>1, <2>1, HereStays
  <2>3. ASSUME NEW k \in Here, Does[k].stream, NEW q, NEW c, ToldOf(k, q, c)
        PROVE  \E q2, c2 : ToldOf(k, q2, c2)'
    BY <1>1, <2>1, <2>3, ToldStep
  <2> QED
    BY <2>2, <2>3
<1> QED
  BY <1>3, <1>4, <1>5 DEF FlowNext, OutputStep, flowVars

\* Whatever the loops and the stream logger do, and whichever of its pushes fail, of a job that
\* streams all it was handed is in its queue or on its way, in order and once, but for what a
\* failed push has lost (msgCallback in pm.go, streamer.go).
THEOREM ToldCorrect == FlowSpec => []StreamsTold
<1>1. ToldInv => StreamsTold
  <2> SUFFICES ASSUME ToldInv, NEW j \in Here, Does[j].stream
               PROVE  \E q \in [DOMAIN pushed[j] -> ToTell(j)], c \in [OnTheWay(j) -> ToTell(j)] : Tells(j, q, c)
    BY DEF StreamsTold
  <2>1. PICK q, c : ToldOf(j, q, c)
    BY DEF ToldInv
  <2> QED
    BY <2>1, Retold DEF Retells
<1> QED
  BY <1>1, ToldInit, ToldNext, PTL DEF FlowSpec

-----------------------------------------------------------------------------
(* Sums over sequences                                                       *)

LEMMA LeastNumber ==
  ASSUME NEW T, T \subseteq Nat, T # {}
  PROVE  \E x \in T : \A y \in T : x <= y
<1> DEFINE R == {ss \in Nat \X Nat : ss[1] < ss[2]}
<1>1. IsWellFoundedOn(R, Nat)
  BY NatLessThanWellFounded DEF OpToRel
<1>2. \E x \in T : \A y \in T : ~(<<y, x>> \in R)
  <2> HIDE DEF R
  <2> QED BY <1>1, WFMin
<1>3. \A x, y \in Nat : y < x => <<y, x>> \in R
  OBVIOUS
<1>4. \A x, y \in Nat : ~(y < x) => x <= y
  OBVIOUS
<1>5. PICK x \in T : \A y \in T : ~(<<y, x>> \in R)
  BY <1>2
<1>6. \A y \in T : x <= y
  <2> HIDE DEF R
  <2> QED BY <1>3, <1>4, <1>5
<1> QED
  BY <1>6

\* Induction for a set of numbers.
LEMMA AllNumbers ==
  ASSUME NEW T, 0 \in T, \A n \in Nat : n \in T => n + 1 \in T
  PROVE  Nat \subseteq T
<1> SUFFICES ASSUME Nat \ T # {} PROVE FALSE
  OBVIOUS
<1>1. PICK x \in Nat \ T : \A y \in Nat \ T : x <= y
  <2> DEFINE M == Nat \ T
  <2> M \subseteq Nat /\ M # {}
    OBVIOUS
  <2> HIDE DEF M
  <2>1. \E x \in M : \A y \in M : x <= y
    BY LeastNumber
  <2> QED
    BY <2>1 DEF M
<1>2. x # 0
  BY <1>1
<1>3. x - 1 \in Nat /\ ~(x <= x - 1)
  BY <1>1, <1>2
<1>4. x - 1 \in T
  BY <1>1, <1>3
<1> QED
  BY <1>1, <1>3, <1>4

LEMMA Numbered ==
  ASSUME NEW N \in Nat, NEW a \in [1..N -> Int]
  PROVE  a \in Seq(Int) /\ Len(a) = N /\ DOMAIN a = 1..N
  OBVIOUS

\* What a sum recurs to is there.
LEMMA SumsExist ==
  ASSUME NEW N \in Nat, NEW a \in [1..N -> Int]
  PROVE  \E g \in [0..N -> Int] : g = [i \in 0..N |-> IF i = 0 THEN 0 ELSE g[i - 1] + a[i]]
<1>0. \A n \in Nat : n + 1 <= N => n + 1 \in 1..N
  OBVIOUS
<1> DEFINE P(n) == \E g \in [0..n -> Int] : g[0] = 0 /\ \A i \in 1..n : g[i] = g[i - 1] + a[i]
           T == {n \in Nat : n <= N => P(n)}
<1>1. 0 \in T
  <2> DEFINE g == [i \in 0..0 |-> 0]
  <2>1. g \in [0..0 -> Int] /\ g[0] = 0 /\ 1..0 = {}
    OBVIOUS
  <2> QED
    BY <2>1
<1>2. ASSUME NEW n \in Nat, n \in T PROVE n + 1 \in T
  <2> SUFFICES ASSUME n + 1 <= N PROVE P(n + 1)
    <3> HIDE DEF P
    <3> QED OBVIOUS
  <2>1. PICK g \in [0..n -> Int] : g[0] = 0 /\ \A i \in 1..n : g[i] = g[i - 1] + a[i]
    BY <1>2
  <2>0. n + 1 \in 1..N
    BY <1>0
  <2>2. a[n + 1] \in Int
    BY <2>0
  <2> DEFINE h == [i \in 0..(n + 1) |-> IF i = n + 1 THEN g[n] + a[n + 1] ELSE g[i]]
  <2>3. h \in [0..(n + 1) -> Int]
    BY <2>1, <2>2
  <2>4. h[0] = 0
    BY <2>1
  <2>5. ASSUME NEW i \in 1..(n + 1) PROVE h[i] = h[i - 1] + a[i]
    <3>1. i - 1 \in 0..(n + 1) /\ i \in 0..(n + 1) /\ i - 1 # n + 1
      OBVIOUS
    <3>2. h[i - 1] = g[i - 1]
      BY <3>1
    <3>3. CASE i = n + 1
      <4> h[i] = g[n] + a[n + 1] /\ i - 1 = n
        BY <3>1, <3>3
      <4> QED BY <3>2, <3>3
    <3>4. CASE i # n + 1
      <4> i \in 1..n /\ h[i] = g[i]
        BY <3>1, <3>4
      <4> QED BY <2>1, <3>2
    <3> QED
      BY <3>3, <3>4
  <2> HIDE DEF h
  <2> QED
    BY <2>3, <2>4, <2>5
<1>3. N \in T
  <2> HIDE DEF T
  <2> QED BY <1>1, <1>2, AllNumbers
<1>4. PICK g \in [0..N -> Int] : g[0] = 0 /\ \A i \in 1..N : g[i] = g[i - 1] + a[i]
  BY <1>3
<1>5. g = [i \in 0..N |-> IF i = 0 THEN 0 ELSE g[i - 1] + a[i]]
  BY <1>4
<1> QED
  BY <1>5

LEMMA SumsAre ==
  ASSUME NEW N \in Nat, NEW a \in [1..N -> Int]
  PROVE  /\ \A i \in 0..N : Sums(a)[i] \in Int
         /\ Sums(a)[0] = 0 /\ \A i \in 1..N : Sums(a)[i] = Sums(a)[i - 1] + a[i]
         /\ Sum(a) = Sums(a)[N]
<1>1. PICK g \in [0..N -> Int] : g = [i \in 0..N |-> IF i = 0 THEN 0 ELSE g[i - 1] + a[i]]
  BY SumsExist
<1>2. Len(a) = N
  BY Numbered
<1>3. Sums(a) = [i \in 0..Len(a) |-> IF i = 0 THEN 0 ELSE Sums(a)[i - 1] + a[i]]
  <2> DEFINE P(s) == s = [i \in 0..Len(a) |-> IF i = 0 THEN 0 ELSE s[i - 1] + a[i]]
  <2>1. P(CHOOSE s : P(s))
    <3>1. P(g)
      BY <1>1, <1>2
    <3> HIDE DEF P
    <3> QED
      BY <3>1, Zenon
  <2> QED
    BY <2>1, Zenon DEF Sums
<1>4. PICK s : s = Sums(a)
  OBVIOUS
<1>5. s = [i \in 0..N |-> IF i = 0 THEN 0 ELSE s[i - 1] + a[i]]
  BY <1>2, <1>3, <1>4
<1>6. s[0] = 0 /\ \A i \in 1..N : s[i] = s[i - 1] + a[i]
  <2> 0 \in 0..N /\ \A i \in 1..N : i \in 0..N /\ i # 0
    OBVIOUS
  <2> QED BY <1>5
<1>7. \A i \in 0..N : s[i] \in Int
  <2> DEFINE T == {n \in Nat : n <= N => s[n] \in Int}
  <2>1. 0 \in T
    BY <1>6
  <2>2. ASSUME NEW n \in Nat, n \in T PROVE n + 1 \in T
    BY <1>6, <2>2
  <2>3. Nat \subseteq T
    <3> HIDE DEF T
    <3> QED BY <2>1, <2>2, AllNumbers
  <2> QED
    BY <2>3
<1> QED
  BY <1>2, <1>4, <1>6, <1>7 DEF Sum

LEMMA SumsAgree ==
  ASSUME NEW N \in Nat, NEW a \in [1..N -> Int], NEW M \in Nat, NEW b \in [1..M -> Int],
         NEW n \in Nat, n <= N, n <= M, \A i \in 1..n : a[i] = b[i]
  PROVE  Sums(a)[n] = Sums(b)[n]
<1> DEFINE T == {i \in Nat : i <= n => Sums(a)[i] = Sums(b)[i]}
<1>0. /\ Sums(a)[0] = 0 /\ \A i \in 1..N : Sums(a)[i] = Sums(a)[i - 1] + a[i]
      /\ Sums(b)[0] = 0 /\ \A i \in 1..M : Sums(b)[i] = Sums(b)[i - 1] + b[i]
  BY SumsAre
<1>1. 0 \in T
  BY <1>0
<1>2. ASSUME NEW i \in Nat, i \in T PROVE i + 1 \in T
  <2> SUFFICES ASSUME i + 1 <= n PROVE Sums(a)[i + 1] = Sums(b)[i + 1]
    OBVIOUS
  <2>1. i + 1 \in 1..n /\ i + 1 \in 1..N /\ i + 1 \in 1..M /\ i + 1 - 1 = i
    OBVIOUS
  <2>2. Sums(a)[i] = Sums(b)[i]
    BY <1>2
  <2> QED
    BY <1>0, <2>1, <2>2
<1>3. Nat \subseteq T
  <2> HIDE DEF T
  <2> QED BY <1>1, <1>2, AllNumbers
<1> QED
  BY <1>3

\* One more.
LEMMA SumOneMore ==
  ASSUME NEW N \in Nat, NEW a \in [1..N -> Int], NEW b \in [1..(N + 1) -> Int],
         \A i \in 1..N : a[i] = b[i]
  PROVE  Sum(a) \in Int /\ Sum(b) = Sum(a) + b[N + 1]
<1>1. Sum(a) = Sums(a)[N] /\ Sums(a)[N] \in Int
  BY SumsAre
<1>2. N + 1 \in Nat /\ N + 1 \in 1..(N + 1) /\ N + 1 - 1 = N
  OBVIOUS
<1>3. Sum(b) = Sums(b)[N + 1] /\ Sums(b)[N + 1] = Sums(b)[N] + b[N + 1]
  BY <1>2, SumsAre
<1>4. Sums(a)[N] = Sums(b)[N]
  BY <1>2, SumsAgree
<1> QED
  BY <1>1, <1>3, <1>4

LEMMA SumOfZeros ==
  ASSUME NEW N \in Nat, NEW a \in [1..N -> Int], \A i \in 1..N : a[i] = 0
  PROVE  Sum(a) = 0
<1>1. Sum(a) = Sums(a)[N] /\ Sums(a)[0] = 0 /\ \A i \in 1..N : Sums(a)[i] = Sums(a)[i - 1] + a[i]
  BY SumsAre
<1> DEFINE T == {n \in Nat : n <= N => Sums(a)[n] = 0}
<1>2. 0 \in T
  BY <1>1
<1>3. ASSUME NEW n \in Nat, n \in T PROVE n + 1 \in T
  <2> SUFFICES ASSUME n + 1 <= N PROVE Sums(a)[n + 1] = 0
    OBVIOUS
  <2>1. n + 1 \in 1..N /\ n + 1 - 1 = n /\ Sums(a)[n] = 0
    BY <1>3
  <2> QED
    BY <1>1, <2>1
<1>4. Nat \subseteq T
  <2> HIDE DEF T
  <2> QED BY <1>2, <1>3, AllNumbers
<1> QED
  BY <1>1, <1>4

-----------------------------------------------------------------------------
(* Samples of what was fed                                                   *)

LEMMA MaxIs ==
  ASSUME NEW S, S \subseteq Int, NEW x \in S, \A y \in S : x >= y
  PROVE  Max(S) = x
<1>1. \A z \in S : (\A y \in S : z >= y) => z = x
  OBVIOUS
<1> QED
  BY <1>1 DEF Max

LEMMA GreatestOf ==
  ASSUME NEW N \in Nat, NEW f \in [1..N -> Int], NEW I \in SUBSET (1..N), I # {}
  PROVE  \E i \in I : \A j \in I : f[i] >= f[j]
<1> DEFINE P(n) == (\E i \in I : i <= n) => \E i \in I : i <= n /\ \A j \in I : j <= n => f[i] >= f[j]
           T == {n \in Nat : P(n)}
<1>1. 0 \in T
  OBVIOUS
<1>2. ASSUME NEW n \in Nat, P(n) PROVE P(n + 1)
  <2>1. CASE n + 1 \notin I
    <3>1. \A i \in I : i <= n + 1 <=> i <= n
      BY <2>1
    <3> QED
      BY <1>2, <3>1
  <2>2. CASE n + 1 \in I /\ ~\E i \in I : i <= n
    <3>1. \A j \in I : j <= n + 1 => j = n + 1
      BY <2>2
    <3>2. f[n + 1] \in Int
      BY <2>2
    <3>3. \A j \in I : j <= n + 1 => f[n + 1] >= f[j]
      BY <3>1, <3>2
    <3> QED
      BY <2>2, <3>3
  <2>3. CASE n + 1 \in I /\ \E i \in I : i <= n
    <3>1. PICK i \in I : i <= n /\ \A j \in I : j <= n => f[i] >= f[j]
      BY <1>2, <2>3
    <3>2. \A j \in I : j <= n + 1 => j <= n \/ j = n + 1
      OBVIOUS
    <3>3. f[i] \in Int /\ f[n + 1] \in Int /\ \A j \in I : f[j] \in Int
      BY <2>3
    <3>4. CASE f[i] >= f[n + 1]
      <4>1. \A j \in I : j <= n + 1 => f[i] >= f[j]
        BY <3>1, <3>2, <3>3, <3>4
      <4>2. i <= n + 1
        BY <3>1
      <4> QED
        BY <4>1, <4>2
    <3>5. CASE ~(f[i] >= f[n + 1])
      <4>1. \A j \in I : j <= n + 1 => f[n + 1] >= f[j]
        BY <3>1, <3>2, <3>3, <3>5
      <4> QED
        BY <2>3, <4>1
    <3> QED
      BY <3>4, <3>5
  <2> QED
    BY <2>1, <2>2, <2>3
<1>3. Nat \subseteq T
  <2>1. \A n \in Nat : n \in T => n + 1 \in T
    <3> HIDE DEF P
    <3> QED BY <1>2
  <2> HIDE DEF T
  <2> QED
    BY <1>1, <2>1, AllNumbers
<1>4. P(N)
  <2> HIDE DEF P
  <2> QED BY <1>3
<1>5. \A i \in I : i <= N
  OBVIOUS
<1> QED
  BY <1>4, <1>5

Entry == [time : Nat, value : Int]

LEMMA PeriodIs ==
  ASSUME NEW t \in Nat, NEW d \in Nat \ {0}
  PROVE  Period(t, d) \in Nat
<1>1. PICK n \in Nat : n = t \div d
  OBVIOUS
<1>2. n * d \in Nat
  OBVIOUS
<1> QED
  BY <1>1, <1>2 DEF Period

\* The last period up to i.
LEMMA PeriodOfIs ==
  ASSUME NEW op, NEW q \in Seq(Entry), NEW d \in Nat \ {0}, NEW i \in 0..Len(q)
  PROVE  /\ PeriodOf(op, q, d, i) \in Nat
         /\ \A j \in Counted(op, q) : j <= i => PeriodOf(op, q, d, i) >= Period(q[j].time, d)
         /\ \/ PeriodOf(op, q, d, i) = 0
            \/ \E j \in Counted(op, q) : j <= i /\ PeriodOf(op, q, d, i) = Period(q[j].time, d)
<1>1. Len(q) \in Nat /\ DOMAIN q = 1..Len(q) /\ \A j \in 1..Len(q) : q[j].time \in Nat
  <2>1. \A j \in 1..Len(q) : q[j] \in Entry
    OBVIOUS
  <2> QED
    BY <2>1 DEF Entry
<1>2. \A j \in 1..Len(q) : Period(q[j].time, d) \in Nat
  BY <1>1, PeriodIs
<1>3. PICK f : f = [j \in 1..Len(q) |-> Period(q[j].time, d)]
  OBVIOUS
<1>4. f \in [1..Len(q) -> Int]
  BY <1>2, <1>3
<1>5. PICK I : I = {j \in Counted(op, q) : j <= i}
  OBVIOUS
<1>6. I \subseteq 1..Len(q)
  BY <1>1, <1>5 DEF Counted
<1>7. PICK S : S = {0} \cup {Period(q[j].time, d) : j \in I}
  OBVIOUS
<1>8. PeriodOf(op, q, d, i) = Max(S)
  BY <1>5, <1>7 DEF PeriodOf
<1>9. S \subseteq Int
  BY <1>2, <1>6, <1>7
<1>10. CASE I = {}
  <2>1. S = {0}
    BY <1>7, <1>10
  <2>2. Max(S) = 0
    <3>1. 0 \in S /\ \A y \in S : 0 >= y
      BY <2>1
    <3> QED
      BY <1>9, <3>1, MaxIs
  <2> QED
    BY <1>5, <1>8, <1>10, <2>2
<1>11. CASE I # {}
  <2>1. PICK k \in I : \A j \in I : f[k] >= f[j]
    BY <1>1, <1>4, <1>6, <1>11, GreatestOf
  <2>2. f[k] \in S /\ f[k] \in Nat
    BY <1>2, <1>3, <1>6, <1>7
  <2>3. \A y \in S : f[k] >= y
    <3>1. \A j \in I : f[j] = Period(q[j].time, d)
      BY <1>3, <1>6
    <3>2. f[k] >= 0
      BY <2>2
    <3> QED
      BY <1>7, <2>1, <3>1, <3>2
  <2>4. Max(S) = f[k]
    BY <1>9, <2>2, <2>3, MaxIs
  <2> QED
    BY <1>3, <1>5, <1>6, <1>8, <2>1, <2>2, <2>4
<1> QED
  BY <1>10, <1>11

LEMMA PeriodsGrow ==
  ASSUME NEW op, NEW q \in Seq(Entry), NEW d \in Nat \ {0}, NEW i \in 0..Len(q), NEW j \in 0..Len(q), i <= j
  PROVE  PeriodOf(op, q, d, i) <= PeriodOf(op, q, d, j)
<1>1. Counted(op, q) \subseteq Int
  BY DEF Counted
<1>2. PeriodOf(op, q, d, i) \in Nat /\ PeriodOf(op, q, d, j) \in Nat
  BY PeriodOfIs
<1>3. CASE PeriodOf(op, q, d, i) = 0
  BY <1>2, <1>3
<1>4. CASE PeriodOf(op, q, d, i) # 0
  <2>1. PICK k \in Counted(op, q) : k <= i /\ PeriodOf(op, q, d, i) = Period(q[k].time, d)
    BY <1>4, PeriodOfIs
  <2>2. k <= j
    BY <1>1, <2>1
  <2>3. PeriodOf(op, q, d, j) >= Period(q[k].time, d)
    BY <2>2, PeriodOfIs
  <2> QED
    BY <1>2, <2>1, <2>3
<1> QED
  BY <1>3, <1>4

\* What one more value changes.
LEMMA OneMoreFed ==
  ASSUME NEW op, NEW q \in Seq(Entry), NEW x \in Entry
  PROVE  LET r == Append(q, x) IN
         /\ r \in Seq(Entry) /\ Len(q) \in Nat /\ Len(r) = Len(q) + 1
         /\ DOMAIN q = 1..Len(q) /\ DOMAIN r = 1..(Len(q) + 1)
         /\ (\A i \in 1..Len(q) : r[i] = q[i] /\ q[i] \in Entry) /\ r[Len(q) + 1] = x
         /\ Counted(op, q) \subseteq 1..Len(q) /\ Len(q) + 1 \notin Counted(op, q)
         /\ Counted(op, r) = Counted(op, q) \cup (IF Len(q) + 1 \in Counted(op, r) THEN {Len(q) + 1} ELSE {})
         /\ \A i \in Counted(op, q) : Amount(op, r, i) = Amount(op, q, i)
<1>1. PICK N, r : N = Len(q) /\ r = Append(q, x)
  OBVIOUS
<1>2. /\ r \in Seq(Entry) /\ N \in Nat /\ Len(r) = N + 1 /\ DOMAIN q = 1..N /\ DOMAIN r = 1..(N + 1)
      /\ (\A i \in 1..N : r[i] = q[i] /\ q[i] \in Entry) /\ r[N + 1] = x
  BY <1>1
<1>3. Counted(op, q) \subseteq 1..N /\ Counted(op, r) \subseteq 1..(N + 1)
  BY <1>2 DEF Counted
<1>4. \A i \in 1..N : i # 1 => i - 1 \in 1..N
  BY <1>2
<1>5. \A i \in 1..N : i \in Counted(op, r) <=> i \in Counted(op, q)
  <2> SUFFICES ASSUME NEW i \in 1..N PROVE i \in Counted(op, r) <=> i \in Counted(op, q)
    OBVIOUS
  <2>1. i \in 1..(N + 1)
    BY <1>2
  <2> QED
    BY <1>2, <1>4, <2>1 DEF Counted
<1>6. N + 1 \notin 1..N
  BY <1>2
<1>7. Counted(op, r) = Counted(op, q) \cup (IF N + 1 \in Counted(op, r) THEN {N + 1} ELSE {})
  <2>1. \A i \in 1..(N + 1) : i \in 1..N \/ i = N + 1
    BY <1>2
  <2> QED
    BY <1>3, <1>5, <1>6, <2>1
<1>8. \A i \in Counted(op, q) : Amount(op, r, i) = Amount(op, q, i)
  <2> SUFFICES ASSUME NEW i \in Counted(op, q) PROVE Amount(op, r, i) = Amount(op, q, i)
    OBVIOUS
  <2>1. i \in 1..N /\ r[i] = q[i]
    BY <1>2, <1>3
  <2>2. op # "D" \/ i # 1
    BY <1>2, <2>1 DEF Counted
  <2> QED
    BY <1>2, <1>4, <2>1, <2>2 DEF Amount
<1> QED
  BY <1>1, <1>2, <1>3, <1>6, <1>7, <1>8

LEMMA AmountIs ==
  ASSUME NEW op, NEW q \in Seq(Entry), NEW i \in Counted(op, q)
  PROVE  Amount(op, q, i) \in Int
<1>1. i \in 1..Len(q) /\ q[i] \in Entry /\ DOMAIN q = 1..Len(q) /\ Len(q) \in Nat
  BY DEF Counted
<1>2. CASE op # "D"
  BY <1>1, <1>2 DEF Amount, Entry
<1>3. CASE op = "D"
  <2>1. i # 1 /\ q[i].time > q[i - 1].time
    BY <1>1, <1>3 DEF Counted
  <2>2. i - 1 \in 1..Len(q)
    BY <1>1, <2>1
  <2>3. q[i - 1] \in Entry
    BY <2>2
  <2>4. q[i].value - q[i - 1].value \in Int /\ q[i].time - q[i - 1].time \in Nat \ {0}
    BY <1>1, <2>1, <2>3 DEF Entry
  <2>5. \A a \in Int, b \in Nat \ {0} : a \div b \in Int
    OBVIOUS
  <2> QED
    BY <1>3, <2>4, <2>5 DEF Amount
<1> QED
  BY <1>2, <1>3

LEMMA PeriodsStay ==
  ASSUME NEW op, NEW q \in Seq(Entry), NEW x \in Entry, NEW d \in Nat \ {0}, NEW i \in 0..Len(q)
  PROVE  PeriodOf(op, Append(q, x), d, i) = PeriodOf(op, q, d, i)
<1>1. PICK r : r = Append(q, x)
  OBVIOUS
<1>2. /\ Counted(op, r) = Counted(op, q) \cup (IF Len(q) + 1 \in Counted(op, r) THEN {Len(q) + 1} ELSE {})
      /\ Counted(op, q) \subseteq 1..Len(q) /\ Len(q) \in Nat
      /\ \A j \in 1..Len(q) : r[j] = q[j]
  BY <1>1, OneMoreFed
<1>3. {j \in Counted(op, r) : j <= i} = {j \in Counted(op, q) : j <= i}
  <2>1. ~(Len(q) + 1 <= i)
    BY <1>2
  <2> QED
    BY <1>2, <2>1
<1>4. {Period(r[j].time, d) : j \in {j \in Counted(op, r) : j <= i}}
      = {Period(q[j].time, d) : j \in {j \in Counted(op, q) : j <= i}}
  BY <1>2, <1>3
<1> QED
  BY <1>1, <1>4 DEF PeriodOf

\* The period of one more value: its own, if that is later than the last.
LEMMA PeriodsGoOn ==
  ASSUME NEW op, NEW q \in Seq(Entry), NEW x \in Entry, NEW d \in Nat \ {0}
  PROVE  LastPeriod(op, Append(q, x), d) =
           IF Len(q) + 1 \in Counted(op, Append(q, x)) /\ Period(x.time, d) > LastPeriod(op, q, d)
           THEN Period(x.time, d) ELSE LastPeriod(op, q, d)
<1>1. PICK r, N : r = Append(q, x) /\ N = Len(q)
  OBVIOUS
<1>2. /\ r \in Seq(Entry) /\ N \in Nat /\ Len(r) = N + 1 /\ r[N + 1] = x
      /\ \A j \in 1..N : r[j] = q[j]
      /\ Counted(op, q) \subseteq 1..N
      /\ Counted(op, r) = Counted(op, q) \cup (IF N + 1 \in Counted(op, r) THEN {N + 1} ELSE {})
  BY <1>1, OneMoreFed
<1>3. PICK L, M, P : L = LastPeriod(op, q, d) /\ M = LastPeriod(op, r, d) /\ P = Period(x.time, d)
  OBVIOUS
<1>4. P \in Nat
  BY <1>3, PeriodIs DEF Entry
<1>5. /\ M \in Nat /\ \A j \in Counted(op, r) : M >= Period(r[j].time, d)
      /\ M = 0 \/ \E j \in Counted(op, r) : M = Period(r[j].time, d)
  <2>1. \A j \in Counted(op, r) : j <= N + 1
    BY <1>2
  <2>2. N + 1 \in 0..Len(r)
    BY <1>2
  <2>3. M = PeriodOf(op, r, d, N + 1)
    BY <1>2, <1>3 DEF LastPeriod
  <2>4. /\ M \in Nat
        /\ \A j \in Counted(op, r) : j <= N + 1 => M >= Period(r[j].time, d)
        /\ M = 0 \/ \E j \in Counted(op, r) : j <= N + 1 /\ M = Period(r[j].time, d)
    <3>1. r \in Seq(Entry)
      BY <1>2
    <3> QED
      BY <2>2, <2>3, <3>1, PeriodOfIs
  <2> QED
    BY <2>1, <2>4
<1>6. /\ L \in Nat /\ \A j \in Counted(op, q) : L >= Period(r[j].time, d)
      /\ L = 0 \/ \E j \in Counted(op, q) : L = Period(r[j].time, d)
  <2>1. \A j \in Counted(op, q) : j <= N /\ r[j] = q[j]
    BY <1>2
  <2>2. N \in 0..Len(q)
    BY <1>1, <1>2
  <2>3. L = PeriodOf(op, q, d, N)
    BY <1>1, <1>3 DEF LastPeriod
  <2>4. /\ L \in Nat
        /\ \A j \in Counted(op, q) : j <= N => L >= Period(q[j].time, d)
        /\ L = 0 \/ \E j \in Counted(op, q) : j <= N /\ L = Period(q[j].time, d)
    BY <1>1, <2>2, <2>3, PeriodOfIs
  <2> QED
    BY <2>1, <2>4
<1>7. CASE N + 1 \in Counted(op, r)
  <2>1. Counted(op, r) = Counted(op, q) \cup {N + 1} /\ Period(r[N + 1].time, d) = P
    BY <1>2, <1>3, <1>7
  <2>2. M >= P /\ (M = 0 \/ M = P \/ \E j \in Counted(op, q) : M = Period(r[j].time, d))
    BY <1>5, <2>1
  <2>3. M >= L
    BY <1>5, <1>6, <2>1
  <2>4. M = 0 \/ M = P \/ L >= M
    BY <1>6, <2>2
  <2>5. M = IF P > L THEN P ELSE L
    BY <1>4, <1>5, <1>6, <2>2, <2>3, <2>4
  <2> QED
    BY <1>1, <1>3, <1>7, <2>5
<1>8. CASE N + 1 \notin Counted(op, r)
  <2>1. Counted(op, r) = Counted(op, q)
    BY <1>2, <1>8
  <2>2. M = L
    BY <1>5, <1>6, <2>1
  <2> QED
    BY <1>1, <1>3, <1>8, <2>2
<1> QED
  BY <1>7, <1>8

-----------------------------------------------------------------------------
\* The values of a period, what a sum goes over, and what the greatest is of.
OfPeriod(op, q, d, p) == {i \in Counted(op, q) : PeriodOf(op, q, d, i) = p}
Terms(op, q, I) == [i \in DOMAIN q |-> IF i \in I THEN Amount(op, q, i) ELSE 0]
Amounts(op, q, I, p) == {Amount(op, q, i) : i \in I} \cup (IF p = 0 THEN {0} ELSE {})

LEMMA SampleIs ==
  ASSUME NEW op, NEW q, NEW d, NEW p
  PROVE  LET I == OfPeriod(op, q, d, p) IN
         SampleOf(op, q, d, p) = [start |-> p, total |-> Sum(Terms(op, q, I)),
                                  max |-> Max(Amounts(op, q, I, p)), count |-> Cardinality(I)]
  BY DEF SampleOf, OfPeriod, Terms, Amounts

LEMMA MembersMove ==
  ASSUME NEW op, NEW q \in Seq(Entry), NEW x \in Entry, NEW d \in Nat \ {0}, NEW p
  PROVE  OfPeriod(op, Append(q, x), d, p) =
           OfPeriod(op, q, d, p) \cup
           (IF Len(q) + 1 \in Counted(op, Append(q, x)) /\ LastPeriod(op, Append(q, x), d) = p
            THEN {Len(q) + 1} ELSE {})
<1>1. PICK r, N : r = Append(q, x) /\ N = Len(q)
  OBVIOUS
<1>2. /\ N \in Nat /\ Len(r) = N + 1 /\ Counted(op, q) \subseteq 1..N
      /\ Counted(op, r) = Counted(op, q) \cup (IF N + 1 \in Counted(op, r) THEN {N + 1} ELSE {})
  BY <1>1, OneMoreFed
<1>3. \A i \in Counted(op, q) : PeriodOf(op, r, d, i) = PeriodOf(op, q, d, i)
  <2>1. \A i \in Counted(op, q) : i \in 0..Len(q)
    BY <1>1, <1>2
  <2> QED
    BY <1>1, <2>1, PeriodsStay
<1>4. PeriodOf(op, r, d, N + 1) = LastPeriod(op, r, d)
  BY <1>2 DEF LastPeriod
<1> QED
  BY <1>1, <1>2, <1>3, <1>4 DEF OfPeriod

LEMMA TermsAre ==
  ASSUME NEW op, NEW q \in Seq(Entry), NEW I \in SUBSET Counted(op, q)
  PROVE  /\ Len(q) \in Nat /\ Terms(op, q, I) \in [1..Len(q) -> Int]
         /\ \A i \in 1..Len(q) : Terms(op, q, I)[i] = IF i \in I THEN Amount(op, q, i) ELSE 0
<1>1. Len(q) \in Nat /\ DOMAIN q = 1..Len(q)
  OBVIOUS
<1>2. \A i \in I : Amount(op, q, i) \in Int
  BY AmountIs
<1> QED
  BY <1>1, <1>2 DEF Terms

\* A sample that the value is not of is what it was.
LEMMA SampleStays ==
  ASSUME NEW op, NEW q \in Seq(Entry), NEW x \in Entry, NEW d \in Nat \ {0}, NEW p,
         ~(Len(q) + 1 \in Counted(op, Append(q, x)) /\ LastPeriod(op, Append(q, x), d) = p)
  PROVE  SampleOf(op, Append(q, x), d, p) = SampleOf(op, q, d, p)
<1>1. PICK r, N : r = Append(q, x) /\ N = Len(q)
  OBVIOUS
<1>2. /\ r \in Seq(Entry) /\ N \in Nat /\ Len(r) = N + 1 /\ Counted(op, q) \subseteq 1..N
      /\ Counted(op, q) \subseteq Counted(op, r) /\ N + 1 \notin Counted(op, q)
      /\ \A i \in Counted(op, q) : Amount(op, r, i) = Amount(op, q, i)
  BY <1>1, OneMoreFed
<1>3. PICK I : I = OfPeriod(op, q, d, p)
  OBVIOUS
<1>4. I = OfPeriod(op, r, d, p) /\ I \subseteq Counted(op, q)
  <2>1. OfPeriod(op, r, d, p) = I \cup {}
    <3>1. OfPeriod(op, Append(q, x), d, p) = OfPeriod(op, q, d, p) \cup {}
      <4>1. PICK E : E = IF Len(q) + 1 \in Counted(op, Append(q, x)) /\ LastPeriod(op, Append(q, x), d) = p
                         THEN {Len(q) + 1} ELSE {}
        OBVIOUS
      <4>2. OfPeriod(op, Append(q, x), d, p) = OfPeriod(op, q, d, p) \cup E
        BY <4>1, MembersMove
      <4>3. E = {}
        BY <4>1
      <4> QED
        BY <4>2, <4>3
    <3> QED
      BY <1>1, <1>3, <3>1
  <2> QED
    BY <1>3, <2>1 DEF OfPeriod
<1>5. Sum(Terms(op, r, I)) = Sum(Terms(op, q, I))
  <2>1. PICK a, b : a = Terms(op, q, I) /\ b = Terms(op, r, I)
    OBVIOUS
  <2>2. I \in SUBSET Counted(op, q) /\ I \in SUBSET Counted(op, r)
    BY <1>2, <1>4
  <2>3. /\ a \in [1..N -> Int]
        /\ \A i \in 1..N : a[i] = IF i \in I THEN Amount(op, q, i) ELSE 0
    <3>1. /\ Terms(op, q, I) \in [1..Len(q) -> Int]
          /\ \A i \in 1..Len(q) : Terms(op, q, I)[i] = IF i \in I THEN Amount(op, q, i) ELSE 0
      BY <2>2, TermsAre
    <3> QED
      BY <1>1, <2>1, <3>1
  <2>4. /\ b \in [1..Len(r) -> Int]
        /\ \A i \in 1..Len(r) : b[i] = IF i \in I THEN Amount(op, r, i) ELSE 0
    <3>1. r \in Seq(Entry)
      BY <1>2
    <3>2. /\ Terms(op, r, I) \in [1..Len(r) -> Int]
          /\ \A i \in 1..Len(r) : Terms(op, r, I)[i] = IF i \in I THEN Amount(op, r, i) ELSE 0
      BY <2>2, <3>1, TermsAre
    <3> QED
      BY <2>1, <3>2
  <2>5. b \in [1..(N + 1) -> Int] /\ b[N + 1] = 0
    BY <1>2, <1>4, <2>4
  <2>6. \A i \in 1..N : a[i] = b[i]
    <3>1. \A i \in 1..N : i \in 1..Len(r)
      BY <1>2
    <3> QED
      BY <1>2, <1>4, <2>3, <2>4, <3>1
  <2>7. Sum(a) \in Int /\ Sum(b) = Sum(a) + b[N + 1]
    BY <1>2, <2>3, <2>5, <2>6, SumOneMore
  <2> QED
    BY <2>1, <2>5, <2>7
<1>6. Amounts(op, r, I, p) = Amounts(op, q, I, p)
  BY <1>2, <1>4 DEF Amounts
<1> QED
  BY <1>1, <1>3, <1>4, <1>5, <1>6, SampleIs

\* One that it is of has it beside those before.
LEMMA SampleGoesOn ==
  ASSUME NEW op, NEW q \in Seq(Entry), NEW x \in Entry, NEW d \in Nat \ {0}, NEW p,
         Len(q) + 1 \in Counted(op, Append(q, x)), LastPeriod(op, Append(q, x), d) = p
  PROVE  LET r == Append(q, x)
             I == OfPeriod(op, q, d, p)
             v == Amount(op, r, Len(q) + 1) IN
         /\ v \in Int /\ IsFiniteSet(I) /\ Sum(Terms(op, q, I)) \in Int
         /\ SampleOf(op, r, d, p) = [start |-> p, total |-> Sum(Terms(op, q, I)) + v,
                                     max |-> Max(Amounts(op, q, I, p) \cup {v}),
                                     count |-> Cardinality(I) + 1]
<1>1. PICK r, N : r = Append(q, x) /\ N = Len(q)
  OBVIOUS
<1>2. /\ r \in Seq(Entry) /\ N \in Nat /\ Len(r) = N + 1 /\ Counted(op, q) \subseteq 1..N
      /\ Counted(op, q) \subseteq Counted(op, r) /\ N + 1 \notin Counted(op, q)
      /\ \A i \in Counted(op, q) : Amount(op, r, i) = Amount(op, q, i)
  BY <1>1, OneMoreFed
<1>3. PICK I, J, v : I = OfPeriod(op, q, d, p) /\ J = OfPeriod(op, r, d, p) /\ v = Amount(op, r, N + 1)
  OBVIOUS
<1>4. J = I \cup {N + 1} /\ I \subseteq Counted(op, q) /\ J \subseteq Counted(op, r)
  BY <1>1, <1>2, <1>3, MembersMove DEF OfPeriod
<1>5. v \in Int
  BY <1>1, <1>2, <1>3, AmountIs
<1>6. IsFiniteSet(I) /\ Cardinality(J) = Cardinality(I) + 1
  <2>1. IsFiniteSet(1..N)
    BY <1>2, FS_Interval
  <2>2. IsFiniteSet(I)
    BY <1>2, <1>4, <2>1, FS_Subset
  <2>3. N + 1 \notin I
    BY <1>2, <1>4
  <2> QED
    BY <1>4, <2>2, <2>3, FS_AddElement
<1>7. Sum(Terms(op, q, I)) \in Int /\ Sum(Terms(op, r, J)) = Sum(Terms(op, q, I)) + v
  <2>1. PICK a, b : a = Terms(op, q, I) /\ b = Terms(op, r, J)
    OBVIOUS
  <2>2. I \in SUBSET Counted(op, q) /\ J \in SUBSET Counted(op, r)
    BY <1>4
  <2>3. /\ a \in [1..N -> Int]
        /\ \A i \in 1..N : a[i] = IF i \in I THEN Amount(op, q, i) ELSE 0
    <3>1. /\ Terms(op, q, I) \in [1..Len(q) -> Int]
          /\ \A i \in 1..Len(q) : Terms(op, q, I)[i] = IF i \in I THEN Amount(op, q, i) ELSE 0
      BY <2>2, TermsAre
    <3> QED
      BY <1>1, <2>1, <3>1
  <2>4. /\ b \in [1..Len(r) -> Int]
        /\ \A i \in 1..Len(r) : b[i] = IF i \in J THEN Amount(op, r, i) ELSE 0
    <3>1. r \in Seq(Entry)
      BY <1>2
    <3> QED
      BY <2>1, <2>2, <3>1, TermsAre
  <2>5. b \in [1..(N + 1) -> Int] /\ b[N + 1] = v
    BY <1>2, <1>3, <1>4, <2>4
  <2>6. \A i \in 1..N : a[i] = b[i]
    <3>1. \A i \in 1..N : i \in 1..Len(r) /\ (i \in J <=> i \in I)
      BY <1>2, <1>4
    <3> QED
      BY <1>2, <1>4, <2>3, <2>4, <3>1
  <2>7. Sum(a) \in Int /\ Sum(b) = Sum(a) + b[N + 1]
    BY <1>2, <2>3, <2>5, <2>6, SumOneMore
  <2> QED
    BY <2>1, <2>5, <2>7
<1>8. Amounts(op, r, J, p) = Amounts(op, q, I, p) \cup {v}
  <2>1. \A i \in I : Amount(op, r, i) = Amount(op, q, i)
    BY <1>2, <1>4
  <2>2. {Amount(op, r, i) : i \in J} = {Amount(op, q, i) : i \in I} \cup {v}
    BY <1>3, <1>4, <2>1
  <2> QED
    BY <2>2 DEF Amounts
<1> QED
  BY <1>1, <1>3, <1>5, <1>6, <1>7, <1>8, SampleIs

\* The greatest value of a sample there is.
LEMMA GreatestAmount ==
  ASSUME NEW op, NEW q \in Seq(Entry), NEW I \in SUBSET Counted(op, q), NEW p, I # {} \/ p = 0
  PROVE  /\ Amounts(op, q, I, p) \subseteq Int
         /\ \E m \in Amounts(op, q, I, p) : \A y \in Amounts(op, q, I, p) : m >= y
<1>1. /\ Len(q) \in Nat /\ Terms(op, q, I) \in [1..Len(q) -> Int] /\ I \subseteq 1..Len(q)
      /\ \A i \in I : Terms(op, q, I)[i] = Amount(op, q, i) /\ Amount(op, q, i) \in Int
  <2>1. I \subseteq 1..Len(q)
    BY DEF Counted
  <2> QED
    BY <2>1, TermsAre, AmountIs
<1>2. PICK S, T : S = {Amount(op, q, i) : i \in I} /\ T = Amounts(op, q, I, p)
  OBVIOUS
<1>3. T = S \cup (IF p = 0 THEN {0} ELSE {}) /\ S \subseteq Int
  BY <1>1, <1>2 DEF Amounts
<1>4. CASE I = {}
  <2>1. T = {0}
    BY <1>2, <1>3, <1>4
  <2> QED
    BY <1>2, <2>1
<1>5. CASE I # {}
  <2>1. PICK i \in I : \A j \in I : Terms(op, q, I)[i] >= Terms(op, q, I)[j]
    BY <1>1, <1>5, GreatestOf
  <2>2. PICK v : v = Amount(op, q, i)
    OBVIOUS
  <2>3. v \in S /\ v \in Int /\ \A y \in S : v >= y
    BY <1>1, <1>2, <2>1, <2>2
  <2>4. CASE p # 0
    BY <1>2, <1>3, <2>3, <2>4
  <2>5. CASE p = 0
    <3>1. T = S \cup {0}
      BY <1>3, <2>5
    <3>2. CASE v >= 0
      BY <1>2, <1>3, <2>3, <3>1, <3>2
    <3>3. CASE ~(v >= 0)
      <4>1. \A y \in S : 0 >= y
        BY <1>3, <2>3, <3>3
      <4> QED
        <5>1. 0 \in T /\ \A y \in T : 0 >= y
          BY <3>1, <4>1
        <5> QED
          BY <1>2, <1>3, <3>1, <5>1
    <3> QED
      BY <3>2, <3>3
  <2> QED
    BY <2>4, <2>5
<1> QED
  BY <1>4, <1>5

LEMMA MaxOfMore ==
  ASSUME NEW S, S \subseteq Int, NEW m \in S, \A y \in S : m >= y, NEW v \in Int
  PROVE  Max(S) = m /\ Max(S \cup {v}) = IF v > Max(S) THEN v ELSE Max(S)
<1>1. Max(S) = m
  BY MaxIs
<1>2. S \cup {v} \subseteq Int
  OBVIOUS
<1>3. CASE v > m
  <2>1. \A y \in S \cup {v} : v >= y
    BY <1>3
  <2>2. Max(S \cup {v}) = v
    BY <1>2, <2>1, MaxIs
  <2> QED
    BY <1>1, <1>3, <2>2
<1>4. CASE ~(v > m)
  <2>1. \A y \in S \cup {v} : m >= y
    BY <1>4
  <2>2. Max(S \cup {v}) = m
    BY <1>2, <2>1, MaxIs
  <2> QED
    BY <1>1, <1>4, <2>2
<1> QED
  BY <1>3, <1>4

LEMMA NoPeriod ==
  ASSUME NEW op, NEW q \in Seq(Entry), NEW d \in Nat \ {0}, NEW p \in Nat, p > LastPeriod(op, q, d)
  PROVE  OfPeriod(op, q, d, p) = {}
<1>1. Len(q) \in Nat /\ Counted(op, q) \subseteq 1..Len(q)
  BY DEF Counted
<1>2. LastPeriod(op, q, d) \in Nat
  <2>1. Len(q) \in 0..Len(q)
    BY <1>1
  <2> QED
    BY <2>1, PeriodOfIs DEF LastPeriod
<1>3. ASSUME NEW i \in Counted(op, q) PROVE PeriodOf(op, q, d, i) # p
  <2>1. i \in 0..Len(q) /\ Len(q) \in 0..Len(q) /\ i <= Len(q)
    BY <1>1
  <2>2. PeriodOf(op, q, d, i) <= LastPeriod(op, q, d) /\ PeriodOf(op, q, d, i) \in Nat
    BY <2>1, PeriodsGrow, PeriodOfIs DEF LastPeriod
  <2> QED
    BY <1>2, <2>2
<1> QED
  BY <1>3 DEF OfPeriod

LEMMA LastIsOne ==
  ASSUME NEW op, NEW q \in Seq(Entry), NEW d \in Nat \ {0}
  PROVE  /\ LastPeriod(op, q, d) \in Nat
         /\ LastPeriod(op, q, d) # 0 => LastPeriod(op, q, d) \in Periods(op, q, d)
         /\ \A p \in Periods(op, q, d) : p \in Nat /\ p <= LastPeriod(op, q, d)
<1>1. Len(q) \in 0..Len(q) /\ Len(q) \in Nat /\ \A i \in Counted(op, q) : i \in 0..Len(q) /\ i <= Len(q) /\ i <= i
  BY DEF Counted
<1>2. LastPeriod(op, q, d) \in Nat
  BY <1>1, PeriodOfIs DEF LastPeriod
<1>3. ASSUME LastPeriod(op, q, d) # 0 PROVE LastPeriod(op, q, d) \in Periods(op, q, d)
  <2>1. PICK j \in Counted(op, q) : LastPeriod(op, q, d) = Period(q[j].time, d)
    BY <1>1, <1>3, PeriodOfIs DEF LastPeriod
  <2>2. /\ PeriodOf(op, q, d, j) \in Nat /\ PeriodOf(op, q, d, j) <= LastPeriod(op, q, d)
        /\ PeriodOf(op, q, d, j) >= Period(q[j].time, d)
    BY <1>1, PeriodOfIs, PeriodsGrow DEF LastPeriod
  <2>3. PeriodOf(op, q, d, j) = LastPeriod(op, q, d)
    BY <1>2, <2>1, <2>2
  <2> QED
    BY <2>3 DEF Periods
<1>4. \A p \in Periods(op, q, d) : p \in Nat /\ p <= LastPeriod(op, q, d)
  BY <1>1, PeriodOfIs, PeriodsGrow DEF LastPeriod, Periods
<1> QED
  BY <1>2, <1>3, <1>4

Current(op, q, d) == SampleOf(op, q, d, LastPeriod(op, q, d))

\* The sample of the last period is fed one more value.
LEMMA FeedRight ==
  ASSUME NEW op, NEW q \in Seq(Entry), NEW x \in Entry, NEW d \in Nat \ {0},
         Len(q) + 1 \in Counted(op, Append(q, x))
  PROVE  /\ Current(op, Append(q, x), d)
              = Feed(Current(op, q, d), Amount(op, Append(q, x), Len(q) + 1), x.time, d)
         /\ Current(op, q, d).start = LastPeriod(op, q, d)
         /\ NewPeriod(Current(op, q, d), x.time, d)
              <=> LastPeriod(op, Append(q, x), d) # LastPeriod(op, q, d)
<1>1. PICK r, N : r = Append(q, x) /\ N = Len(q)
  OBVIOUS
<1>2. PICK L, M, P, v : /\ L = LastPeriod(op, q, d) /\ M = LastPeriod(op, r, d)
                        /\ P = Period(x.time, d) /\ v = Amount(op, r, N + 1)
  OBVIOUS
<1>3. P \in Nat /\ L \in Nat
  <2>1. Len(q) \in 0..Len(q)
    OBVIOUS
  <2> QED
    BY <1>2, <2>1, PeriodIs, PeriodOfIs DEF Entry, LastPeriod
<1>4. M = IF P > L THEN P ELSE L
  BY <1>1, <1>2, PeriodsGoOn
<1>5. PICK m : m = Current(op, q, d)
  OBVIOUS
<1>6. PICK I, J : I = OfPeriod(op, q, d, L) /\ J = OfPeriod(op, q, d, M)
  OBVIOUS
<1>7. m = [start |-> L, total |-> Sum(Terms(op, q, I)),
           max |-> Max(Amounts(op, q, I, L)), count |-> Cardinality(I)]
  BY <1>2, <1>5, <1>6, SampleIs DEF Current
<1>8. /\ v \in Int /\ IsFiniteSet(J) /\ Sum(Terms(op, q, J)) \in Int
      /\ Current(op, r, d) = [start |-> M, total |-> Sum(Terms(op, q, J)) + v,
                              max |-> Max(Amounts(op, q, J, M) \cup {v}), count |-> Cardinality(J) + 1]
  BY <1>1, <1>2, <1>6, SampleGoesOn DEF Current
<1>9. NewPeriod(m, x.time, d) <=> P > L
  BY <1>2, <1>3, <1>7 DEF NewPeriod
<1>10. CASE P > L
  <2>1. M = P /\ J = {} /\ M # 0
    BY <1>1, <1>2, <1>3, <1>4, <1>6, <1>10, NoPeriod
  <2>2. Cardinality(J) = 0
    BY <2>1, FS_EmptySet
  <2>3. Sum(Terms(op, q, J)) = 0
    <3>1. Len(q) \in Nat /\ Terms(op, q, J) \in [1..Len(q) -> Int] /\ \A i \in 1..Len(q) : Terms(op, q, J)[i] = 0
      <4>1. J \in SUBSET Counted(op, q)
        BY <2>1
      <4> QED
        <5>1. /\ Len(q) \in Nat /\ Terms(op, q, J) \in [1..Len(q) -> Int]
              /\ \A i \in 1..Len(q) : Terms(op, q, J)[i] = IF i \in J THEN Amount(op, q, i) ELSE 0
          BY <4>1, TermsAre
        <5> QED
          BY <2>1, <5>1
    <3> QED
      BY <3>1, SumOfZeros
  <2>4. Max(Amounts(op, q, J, M) \cup {v}) = v
    <3>1. Amounts(op, q, J, M) \cup {v} = {v}
      BY <2>1 DEF Amounts
    <3>2. {v} \subseteq Int /\ v \in {v} /\ \A y \in {v} : v >= y
      BY <1>8
    <3> QED
      BY <3>1, <3>2, MaxIs
  <2>5. Current(op, r, d) = [start |-> P, total |-> v, max |-> v, count |-> 1]
    BY <1>8, <2>1, <2>2, <2>3, <2>4
  <2>6. Feed(m, v, x.time, d) = [start |-> P, total |-> v, max |-> v, count |-> 1]
    BY <1>2, <1>9, <1>10 DEF Feed
  <2> QED
    BY <1>1, <1>2, <1>3, <1>5, <1>7, <1>9, <1>10, <2>1, <2>5, <2>6
<1>11. CASE ~(P > L)
  <2>1. M = L /\ J = I
    BY <1>4, <1>6, <1>11
  <2>2. I # {} \/ L = 0
    <3>1. ASSUME L # 0 PROVE I # {}
      BY <1>2, <1>6, <3>1, LastIsOne DEF OfPeriod, Periods
    <3> QED
      BY <3>1
  <2>3. Max(Amounts(op, q, I, L) \cup {v}) = IF v > m.max THEN v ELSE m.max
    <3>1. I \in SUBSET Counted(op, q)
      BY <1>6 DEF OfPeriod
    <3>2. PICK S : S = Amounts(op, q, I, L)
      OBVIOUS
    <3>3. S \subseteq Int /\ \E a \in S : \A y \in S : a >= y
      BY <2>2, <3>1, <3>2, GreatestAmount
    <3>4. Max(S \cup {v}) = IF v > Max(S) THEN v ELSE Max(S)
      BY <1>8, <3>3, MaxOfMore
    <3> QED
      BY <1>7, <3>2, <3>4
  <2>4. Feed(m, v, x.time, d) = [start |-> IF m.start = 0 THEN P ELSE m.start, total |-> m.total + v,
                                 max |-> IF v > m.max THEN v ELSE m.max, count |-> m.count + 1]
    BY <1>2, <1>9, <1>11 DEF Feed
  <2>5. (IF m.start = 0 THEN P ELSE m.start) = L
    BY <1>3, <1>7, <1>11
  <2> QED
    BY <1>1, <1>2, <1>5, <1>7, <1>8, <1>9, <1>11, <2>1, <2>3, <2>4, <2>5
<1> QED
  BY <1>10, <1>11

Samples == [start : Nat, total : Int, max : Int, count : Nat]

LEMMA CurrentIs ==
  ASSUME NEW op, NEW q \in Seq(Entry), NEW d \in Nat \ {0}
  PROVE  Current(op, q, d) \in Samples /\ Current(op, q, d).start = LastPeriod(op, q, d)
<1>1. PICK L, I : L = LastPeriod(op, q, d) /\ I = OfPeriod(op, q, d, L)
  OBVIOUS
<1>2. Current(op, q, d) = [start |-> L, total |-> Sum(Terms(op, q, I)),
                           max |-> Max(Amounts(op, q, I, L)), count |-> Cardinality(I)]
  BY <1>1, SampleIs DEF Current
<1>3. L \in Nat /\ I \in SUBSET Counted(op, q) /\ (I # {} \/ L = 0)
  <2>1. L \in Nat /\ (L # 0 => L \in Periods(op, q, d))
    BY <1>1, LastIsOne
  <2>2. L # 0 => I # {}
    BY <1>1, <2>1 DEF OfPeriod, Periods
  <2>3. I \in SUBSET Counted(op, q)
    BY <1>1 DEF OfPeriod
  <2> QED
    BY <2>1, <2>2, <2>3
<1>4. Sum(Terms(op, q, I)) \in Int
  <2>1. Len(q) \in Nat /\ Terms(op, q, I) \in [1..Len(q) -> Int]
    BY <1>3, TermsAre
  <2>2. Len(q) \in 0..Len(q)
    BY <2>1
  <2> QED
    BY <2>1, <2>2, SumsAre
<1>5. Max(Amounts(op, q, I, L)) \in Int
  <2>1. PICK S : S = Amounts(op, q, I, L)
    OBVIOUS
  <2>2. S \subseteq Int /\ \E m \in S : \A y \in S : m >= y
    BY <1>3, <2>1, GreatestAmount
  <2> QED
    BY <2>1, <2>2, MaxIs
<1>6. Cardinality(I) \in Nat
  <2>1. Len(q) \in Nat /\ I \subseteq 1..Len(q)
    BY <1>3 DEF Counted
  <2>2. IsFiniteSet(1..Len(q))
    BY <2>1, FS_Interval
  <2> QED
    BY <2>1, <2>2, FS_Subset, FS_CardinalityType
<1> QED
  BY <1>1, <1>2, <1>3, <1>4, <1>5, <1>6 DEF Samples

\* A value that does not count changes no sample.
LEMMA PastStays ==
  ASSUME NEW op, NEW q \in Seq(Entry), NEW x \in Entry, NEW d \in Nat \ {0}, NEW ms,
         Len(q) + 1 \notin Counted(op, Append(q, x)), OfPast(op, q, d, ms)
  PROVE  /\ OfPast(op, Append(q, x), d, ms)
         /\ Current(op, Append(q, x), d) = Current(op, q, d)
<1>1. PICK r : r = Append(q, x)
  OBVIOUS
<1>2. LastPeriod(op, r, d) = LastPeriod(op, q, d)
  BY <1>1, PeriodsGoOn
<1>3. \A p : SampleOf(op, r, d, p) = SampleOf(op, q, d, p)
  BY <1>1, SampleStays
<1>4. Counted(op, r) = Counted(op, q) /\ \A i \in Counted(op, q) : i \in 0..Len(q)
  <2>1. /\ Counted(op, r) = Counted(op, q) \cup (IF Len(q) + 1 \in Counted(op, r) THEN {Len(q) + 1} ELSE {})
        /\ Counted(op, q) \subseteq 1..Len(q) /\ Len(q) \in Nat
    BY <1>1, OneMoreFed
  <2>2. Len(q) + 1 \notin Counted(op, r)
    BY <1>1
  <2>3. Counted(op, r) = Counted(op, q)
    BY <2>1, <2>2
  <2>4. \A i \in 1..Len(q) : i \in 0..Len(q)
    BY <2>1
  <2> QED
    BY <2>1, <2>3, <2>4
<1>5. Periods(op, r, d) = Periods(op, q, d)
  BY <1>1, <1>4, PeriodsStay DEF Periods
<1> QED
  BY <1>1, <1>2, <1>3, <1>5 DEF OfPast, Current

\* One that counts may end a sample.
LEMMA PastGoesOn ==
  ASSUME NEW op, NEW q \in Seq(Entry), NEW x \in Entry, NEW d \in Nat \ {0}, NEW ms \in Seq(Samples),
         Len(q) + 1 \in Counted(op, Append(q, x)), OfPast(op, q, d, ms)
  PROVE  /\ ms \o Ended(Current(op, q, d), x.time, d) \in Seq(Samples)
         /\ OfPast(op, Append(q, x), d, ms \o Ended(Current(op, q, d), x.time, d))
<1>1. PICK r, N, m : r = Append(q, x) /\ N = Len(q) /\ m = Current(op, q, d)
  OBVIOUS
<1>2. PICK L, M, P : /\ L = LastPeriod(op, q, d) /\ M = LastPeriod(op, r, d) /\ P = Period(x.time, d)
  OBVIOUS
<1>3. /\ L \in Nat /\ (L # 0 => L \in Periods(op, q, d))
      /\ \A p \in Periods(op, q, d) : p \in Nat /\ p <= L
  BY <1>2, LastIsOne
<1>4. M = (IF P > L THEN P ELSE L) /\ P \in Nat
  BY <1>1, <1>2, PeriodsGoOn, PeriodIs DEF Entry
<1>5. m \in Samples /\ m.start = L
  BY <1>1, <1>2, CurrentIs
<1>6. NewPeriod(m, x.time, d) <=> M # L
  BY <1>1, <1>2, FeedRight
<1>7. Periods(op, r, d) = Periods(op, q, d) \cup {M}
  <2>1. /\ Counted(op, r) = Counted(op, q) \cup {N + 1} /\ Len(r) = N + 1
        /\ \A i \in Counted(op, q) : i \in 0..Len(q)
    BY <1>1, OneMoreFed
  <2>2. \A i \in Counted(op, q) : PeriodOf(op, r, d, i) = PeriodOf(op, q, d, i)
    BY <1>1, <2>1, PeriodsStay
  <2>3. PeriodOf(op, r, d, N + 1) = M
    BY <1>2, <2>1 DEF LastPeriod
  <2> QED
    BY <2>1, <2>2, <2>3 DEF Periods
<1>8. \A p : p # M => SampleOf(op, r, d, p) = SampleOf(op, q, d, p)
  BY <1>1, <1>2, SampleStays
<1>9. CASE M = L
  <2>1. ms \o Ended(m, x.time, d) = ms
    BY <1>6, <1>9 DEF Ended
  <2>2. Periods(op, r, d) \ {0, M} = Periods(op, q, d) \ {0, L}
    BY <1>7, <1>9
  <2>3. \A i \in DOMAIN ms : ms[i].start # M
    BY <1>2, <1>9 DEF OfPast
  <2> QED
    BY <1>1, <1>2, <1>8, <2>1, <2>2, <2>3 DEF OfPast
<1>10. CASE M # L /\ L = 0
  <2>1. ms \o Ended(m, x.time, d) = ms
    BY <1>5, <1>10 DEF Ended
  <2>2. M \notin Periods(op, q, d)
    BY <1>3, <1>4, <1>10
  <2>3. Periods(op, r, d) \ {0, M} = Periods(op, q, d) \ {0, L}
    BY <1>7, <1>10, <2>2
  <2>4. \A i \in DOMAIN ms : ms[i].start # M
    BY <1>2, <2>2 DEF OfPast
  <2> QED
    BY <1>1, <1>2, <1>8, <2>1, <2>3, <2>4 DEF OfPast
<1>11. CASE M # L /\ L # 0
  <2>1. PICK ns : ns = ms \o Ended(m, x.time, d)
    OBVIOUS
  <2>2. ns = Append(ms, m)
    <3>1. Ended(m, x.time, d) = <<m>>
      BY <1>5, <1>6, <1>11 DEF Ended
    <3> QED
      BY <2>1, <3>1, <1>5
  <2>3. /\ ns \in Seq(Samples) /\ DOMAIN ns = 1..(Len(ms) + 1) /\ Len(ms) \in Nat /\ DOMAIN ms = 1..Len(ms)
        /\ ns[Len(ms) + 1] = m /\ \A i \in 1..Len(ms) : ns[i] = ms[i]
    BY <1>5, <2>2
  <2>4. M \notin Periods(op, q, d) /\ M # 0 /\ M \in Nat
    BY <1>3, <1>4, <1>11
  <2>5. /\ {ms[i].start : i \in DOMAIN ms} = Periods(op, q, d) \ {0, L}
        /\ \A i \in DOMAIN ms : /\ ms[i] = SampleOf(op, q, d, ms[i].start)
                                /\ \A j \in DOMAIN ms : i < j => ms[i].start < ms[j].start
    BY <1>2 DEF OfPast
  <2>6. \A i \in DOMAIN ms : ms[i].start # M /\ ms[i].start < L
    <3> SUFFICES ASSUME NEW i \in DOMAIN ms PROVE ms[i].start # M /\ ms[i].start < L
      OBVIOUS
    <3>1. ms[i].start \in Periods(op, q, d) /\ ms[i].start # L
      BY <2>5
    <3> QED
      BY <1>3, <2>4, <3>1
  <2>7. {ns[i].start : i \in DOMAIN ns} = Periods(op, r, d) \ {0, M}
    <3>1. {ns[i].start : i \in DOMAIN ns} = {ms[i].start : i \in DOMAIN ms} \cup {L}
      <4>1. \A i \in DOMAIN ns : i \in DOMAIN ms \/ i = Len(ms) + 1
        BY <2>3
      <4>2. Len(ms) + 1 \in DOMAIN ns /\ \A i \in DOMAIN ms : i \in DOMAIN ns
        BY <2>3
      <4> QED
        BY <1>5, <2>3, <4>1, <4>2
    <3> QED
      BY <1>3, <1>7, <1>11, <2>4, <2>5, <3>1
  <2>8. m = SampleOf(op, r, d, m.start)
    BY <1>1, <1>2, <1>5, <1>8, <1>11 DEF Current
  <2>9. ASSUME NEW i \in DOMAIN ns
        PROVE  /\ ns[i] = SampleOf(op, r, d, ns[i].start)
               /\ \A j \in DOMAIN ns : i < j => ns[i].start < ns[j].start
    <3>1. CASE i = Len(ms) + 1
      BY <2>3, <2>8, <3>1
    <3>2. CASE i \in DOMAIN ms
      <4>1. ns[i] = ms[i] /\ ns[i] = SampleOf(op, r, d, ns[i].start)
        BY <1>8, <2>3, <2>5, <2>6, <3>2
      <4>2. ASSUME NEW j \in DOMAIN ns, i < j PROVE ns[i].start < ns[j].start
        <5>1. j \in DOMAIN ms \/ j = Len(ms) + 1
          BY <2>3
        <5> QED
          BY <1>5, <2>3, <2>5, <2>6, <3>2, <4>1, <4>2, <5>1
      <4> QED
        BY <4>1, <4>2
    <3> QED
      BY <2>3, <3>1, <3>2
  <2>10. OfPast(op, r, d, ns)
    BY <1>2, <2>7, <2>9 DEF OfPast
  <2> QED
    BY <1>1, <2>1, <2>3, <2>10
<1> QED
  BY <1>9, <1>10, <1>11

-----------------------------------------------------------------------------
\* The state s was made of the values q, and the samples ms have been pushed.
StateOf(s, q, ms) ==
  /\ q \in Seq(Entry) /\ ms \in [Lengths -> Seq(Samples)]
  /\ s = [op |-> s.op, value |-> s.value, time |-> s.time,
          current |-> [d \in Lengths |-> Current(s.op, q, d)],
          history |-> [d \in Lengths |-> LastFew(ms[d], HistoryLength)]]
  /\ IF q = <<>> THEN s.time = -1 ELSE s.time = q[Len(q)].time /\ s.value = q[Len(q)].value
  /\ \A d \in Lengths : OfPast(s.op, q, d, ms[d])

LEMMA TwoFields ==
  ASSUME NEW s, NEW x, NEW y,
         s = [op |-> s.op, value |-> s.value, time |-> s.time, current |-> s.current, history |-> s.history]
  PROVE  [s EXCEPT !.current = x, !.history = y]
         = [op |-> s.op, value |-> s.value, time |-> s.time, current |-> x, history |-> y]
<1>1. [s EXCEPT !.current = x, !.history = y] = [[s EXCEPT !.current = x] EXCEPT !.history = y]
  OBVIOUS
<1>2. PICK c : c = [s EXCEPT !.current = x]
  OBVIOUS
<1>3. c = [op |-> s.op, value |-> s.value, time |-> s.time, current |-> x, history |-> s.history]
  BY <1>2
<1>4. [c EXCEPT !.history = y] = [op |-> s.op, value |-> s.value, time |-> s.time, current |-> x, history |-> y]
  BY <1>3
<1> QED
  BY <1>1, <1>2, <1>4

LEMMA NewStateOf ==
  ASSUME NEW op
  PROVE  StateOf(NewState(op), <<>>, NoPoints)
<1>1. PICK q : q = <<>>
  OBVIOUS
<1>2. q \in Seq(Entry) /\ Len(q) = 0 /\ DOMAIN q = {}
  BY <1>1
<1>3. Counted(op, q) = {}
  BY <1>2 DEF Counted
<1>4. ASSUME NEW d \in Lengths
      PROVE  Current(op, q, d) = NoSample /\ OfPast(op, q, d, <<>>) /\ LastFew(<<>>, HistoryLength) = <<>>
  <2>1. d \in Nat \ {0} /\ HistoryLength \in Nat
    BY StatisticsAssumption
  <2>2. LastPeriod(op, q, d) = 0
    <3>1. 0 \in 0..Len(q)
      BY <1>2
    <3> QED
      BY <1>2, <1>3, <2>1, <3>1, PeriodOfIs DEF LastPeriod
  <2>3. PICK I : I = OfPeriod(op, q, d, 0)
    OBVIOUS
  <2>4. I = {} /\ Cardinality(I) = 0
    BY <1>3, <2>3, FS_EmptySet DEF OfPeriod
  <2>5. Max(Amounts(op, q, I, 0)) = 0
    <3>1. Amounts(op, q, I, 0) = {0} /\ {0} \subseteq Int /\ \A y \in {0} : 0 >= y
      BY <2>4 DEF Amounts
    <3> QED
      BY <3>1, MaxIs
  <2>6. Sum(Terms(op, q, I)) = 0
    <3>1. Terms(op, q, I) \in [1..0 -> Int] /\ \A i \in 1..0 : Terms(op, q, I)[i] = 0
      <4>1. I \in SUBSET Counted(op, q)
        BY <2>4
      <4>2. Terms(op, q, I) \in [1..Len(q) -> Int]
        BY <1>2, <4>1, TermsAre
      <4> QED
        BY <1>2, <4>2
    <3> QED
      BY <3>1, SumOfZeros
  <2>7. Current(op, q, d) = NoSample
    BY <2>2, <2>3, <2>4, <2>5, <2>6, SampleIs DEF Current, NoSample
  <2>8. OfPast(op, q, d, <<>>)
    BY <1>3 DEF OfPast, Periods
  <2>9. LastFew(<<>>, HistoryLength) = <<>>
    BY <2>1 DEF LastFew
  <2> QED
    BY <2>7, <2>8, <2>9
<1>5. NoPoints \in [Lengths -> Seq(Samples)] /\ \A d \in Lengths : NoPoints[d] = <<>>
  BY DEF NoPoints
<1>6. [d \in Lengths |-> Current(op, q, d)] = [d \in Lengths |-> NoSample]
  BY <1>4
<1>7. [d \in Lengths |-> LastFew(NoPoints[d], HistoryLength)] = NoPoints
  BY <1>4, <1>5 DEF NoPoints
<1> QED
  BY <1>1, <1>2, <1>4, <1>5, <1>6, <1>7 DEF StateOf, NewState

\* The last few of what the last few were before, and one more.
LEMMA LastFewOfMore ==
  ASSUME NEW S, NEW ms \in Seq(S), NEW e \in S, NEW n \in Nat
  PROVE  /\ LastFew(LastFew(ms, n), n) = LastFew(ms, n)
         /\ LastFew(Append(LastFew(ms, n), e), n) = LastFew(Append(ms, e), n)
<1>1. Len(ms) \in Nat
  OBVIOUS
<1>2. CASE Len(ms) <= n
  BY <1>1, <1>2 DEF LastFew
<1>3. CASE Len(ms) > n
  <2>1. PICK h : h = SubSeq(ms, Len(ms) - n + 1, Len(ms))
    OBVIOUS
  <2>2. /\ h \in Seq(S) /\ Len(h) = n /\ LastFew(ms, n) = h
        /\ \A i \in 1..n : h[i] = ms[Len(ms) - n + i]
    BY <1>1, <1>3, <2>1 DEF LastFew
  <2>3. LastFew(h, n) = h
    BY <2>2 DEF LastFew
  <2>4. PICK a, b : a = Append(h, e) /\ b = Append(ms, e)
    OBVIOUS
  <2>5. /\ a \in Seq(S) /\ Len(a) = n + 1 /\ a[n + 1] = e /\ \A i \in 1..n : a[i] = h[i]
        /\ b \in Seq(S) /\ Len(b) = Len(ms) + 1 /\ b[Len(ms) + 1] = e
        /\ \A i \in 1..Len(ms) : b[i] = ms[i]
    BY <1>1, <2>2, <2>4
  <2>6. /\ LastFew(a, n) = SubSeq(a, 2, n + 1)
        /\ LastFew(b, n) = SubSeq(b, Len(ms) + 1 - n + 1, Len(ms) + 1)
    BY <1>1, <1>3, <2>5 DEF LastFew
  <2>7. PICK x, y : x = SubSeq(a, 2, n + 1) /\ y = SubSeq(b, Len(ms) + 1 - n + 1, Len(ms) + 1)
    OBVIOUS
  <2>8. /\ x \in Seq(S) /\ Len(x) = n /\ \A i \in 1..n : x[i] = a[i + 1]
        /\ y \in Seq(S) /\ Len(y) = n /\ \A i \in 1..n : y[i] = b[Len(ms) + 1 - n + i]
    BY <1>1, <1>3, <2>5, <2>7
  <2>9. ASSUME NEW i \in 1..n PROVE x[i] = y[i]
    <3>1. CASE i = n
      <4>1. i + 1 = n + 1 /\ Len(ms) + 1 - n + i = Len(ms) + 1
        BY <1>1, <3>1
      <4>2. x[i] = a[i + 1] /\ y[i] = b[Len(ms) + 1 - n + i]
        BY <2>8
      <4> QED
        BY <2>5, <4>1, <4>2
    <3>2. CASE i # n
      <4>1. i + 1 \in 1..n /\ Len(ms) + 1 - n + i \in 1..Len(ms) /\ Len(ms) - n + (i + 1) = Len(ms) + 1 - n + i
        BY <1>1, <1>3, <3>2
      <4>2. x[i] = h[i + 1] /\ h[i + 1] = ms[Len(ms) - n + (i + 1)]
        BY <2>2, <2>5, <2>8, <4>1
      <4>3. y[i] = ms[Len(ms) + 1 - n + i]
        BY <2>5, <2>8, <4>1
      <4> QED
        BY <4>1, <4>2, <4>3
    <3> QED
      BY <3>1, <3>2
  <2>10. x = y
    <3>1. x \in [1..n -> S] /\ y \in [1..n -> S]
      BY <2>8
    <3> QED
      BY <2>9, <3>1
  <2> QED
    BY <2>2, <2>3, <2>4, <2>6, <2>7, <2>10
<1> QED
  BY <1>1, <1>2, <1>3

\* What has been pushed when it is.
Pushed(s, ms, t) == [d \in Lengths |-> IF Counts(s, t) THEN ms[d] \o Ended(s.current[d], t, d) ELSE ms[d]]

\* A state is fed.
LEMMA FedOn ==
  ASSUME NEW s, NEW q, NEW ms, StateOf(s, q, ms), NEW t \in Nat, NEW v \in Int
  PROVE  /\ StateOf(FeedOn(s, t, v), Append(q, [time |-> t, value |-> v]),
                    Pushed(s, ms, t))
         /\ FeedOn(s, t, v).time = t /\ FeedOn(s, t, v).value = v
<1>1. PICK op, x, r, N, u : /\ op = s.op /\ x = [time |-> t, value |-> v] /\ r = Append(q, x) /\ N = Len(q)
                            /\ u = FeedOn(s, t, v)
  OBVIOUS
<1>2. /\ q \in Seq(Entry) /\ x \in Entry /\ N \in Nat /\ r \in Seq(Entry) /\ r # <<>> /\ Len(r) = N + 1
      /\ r[N + 1] = x /\ DOMAIN r = 1..(N + 1) /\ \A i \in 1..N : r[i] = q[i] /\ q[i] \in Entry
      /\ ms \in [Lengths -> Seq(Samples)] /\ \A d \in Lengths : OfPast(op, q, d, ms[d])
  <2>1. q \in Seq(Entry) /\ x \in Entry
    BY <1>1 DEF StateOf, Entry
  <2>2. ms \in [Lengths -> Seq(Samples)] /\ \A d \in Lengths : OfPast(op, q, d, ms[d])
    BY <1>1 DEF StateOf
  <2> QED
    BY <1>1, <2>1, <2>2
<1>3. /\ s = [op |-> op, value |-> s.value, time |-> s.time,
              current |-> [d \in Lengths |-> Current(op, q, d)],
              history |-> [d \in Lengths |-> LastFew(ms[d], HistoryLength)]]
      /\ IF q = <<>> THEN s.time = -1 ELSE s.time = q[N].time /\ s.value = q[N].value
  BY <1>1 DEF StateOf
<1>4. Lengths \subseteq Nat \ {0} /\ HistoryLength \in Nat
  BY StatisticsAssumption
<1>5. Counts(s, t) <=> N + 1 \in Counted(op, r)
  <2>1. CASE q = <<>>
    <3>1. N = 0 /\ s.time = -1
      BY <1>1, <1>3, <2>1
    <3> QED
      BY <1>1, <1>2, <3>1 DEF Counts, Counted
  <2>2. CASE q # <<>>
    <3>1. N # 0 /\ N \in 1..N /\ N + 1 # 1 /\ N + 1 - 1 = N /\ N + 1 \in 1..(N + 1)
      BY <1>1, <1>2, <2>2
    <3>2. r[N] = q[N] /\ s.time = q[N].time /\ q[N].time \in Nat
      BY <1>2, <1>3, <2>2, <3>1 DEF Entry
    <3>3. r[N + 1].time = t
      BY <1>1, <1>2
    <3> QED
      BY <1>2, <3>1, <3>2, <3>3 DEF Counts, Counted
  <2> QED
    BY <2>1, <2>2
<1>6. PICK a : a = IF s.op = "D" THEN (v - s.value) \div (t - s.time) ELSE v
  OBVIOUS
<1>7. u = [(IF Counts(s, t) THEN FeedAll(s, t, a) ELSE s) EXCEPT !.value = v, !.time = t]
  BY <1>1, <1>6 DEF FeedOn
<1>8. CASE N + 1 \in Counted(op, r)
  <2>1. a = Amount(op, r, N + 1)
    <3>1. CASE op = "D"
      <4>1. N + 1 # 1
        BY <1>2, <1>8, <3>1 DEF Counted
      <4>2. N \in 1..N /\ N + 1 - 1 = N /\ q # <<>>
        BY <1>1, <1>2, <4>1
      <4>3. r[N] = q[N] /\ s.time = q[N].time /\ s.value = q[N].value
        BY <1>2, <1>3, <4>2
      <4> QED
        BY <1>1, <1>2, <1>6, <3>1, <4>2, <4>3 DEF Amount
    <3>2. CASE op # "D"
      BY <1>1, <1>2, <1>6, <3>2 DEF Amount
    <3> QED
      BY <3>1, <3>2
  <2>2. PICK ns : ns = [d \in Lengths |-> ms[d] \o Ended(Current(op, q, d), t, d)]
    OBVIOUS
  <2>3. ASSUME NEW d \in Lengths
        PROVE  /\ ns[d] \in Seq(Samples) /\ OfPast(op, r, d, ns[d])
               /\ Feed(s.current[d], a, t, d) = Current(op, r, d)
               /\ LastFew(s.history[d] \o Ended(s.current[d], t, d), HistoryLength) = LastFew(ns[d], HistoryLength)
    <3>1. d \in Nat \ {0} /\ ms[d] \in Seq(Samples) /\ OfPast(op, q, d, ms[d]) /\ x.time = t
      BY <1>1, <1>2, <1>4
    <3>2. ms[d] \o Ended(Current(op, q, d), t, d) \in Seq(Samples)
          /\ OfPast(op, r, d, ms[d] \o Ended(Current(op, q, d), t, d))
      BY <1>1, <1>2, <1>8, <3>1, PastGoesOn
    <3>3. s.current[d] = Current(op, q, d) /\ s.history[d] = LastFew(ms[d], HistoryLength)
      BY <1>3
    <3>4. Current(op, r, d) = Feed(Current(op, q, d), a, t, d)
      BY <1>1, <1>2, <1>8, <2>1, <3>1, FeedRight
    <3>5. LastFew(LastFew(ms[d], HistoryLength) \o Ended(Current(op, q, d), t, d), HistoryLength)
          = LastFew(ms[d] \o Ended(Current(op, q, d), t, d), HistoryLength)
      <4>1. PICK m, h : m = Current(op, q, d) /\ h = LastFew(ms[d], HistoryLength)
        OBVIOUS
      <4>2. m \in Samples
        BY <1>2, <3>1, <4>1, CurrentIs
      <4>3. h \in Seq(Samples)
        BY <1>4, <3>1, <4>1 DEF LastFew
      <4>4. LastFew(h, HistoryLength) = LastFew(ms[d], HistoryLength)
            /\ LastFew(Append(h, m), HistoryLength) = LastFew(Append(ms[d], m), HistoryLength)
        BY <1>4, <3>1, <4>1, <4>2, LastFewOfMore
      <4>5. CASE Ended(m, t, d) = <<>>
        <5>1. h \o <<>> = h /\ ms[d] \o <<>> = ms[d]
          BY <3>1, <4>3
        <5> QED
          BY <4>1, <4>4, <4>5, <5>1
      <4>6. CASE Ended(m, t, d) = <<m>>
        <5>1. h \o <<m>> = Append(h, m) /\ ms[d] \o <<m>> = Append(ms[d], m)
          BY <3>1, <4>2, <4>3
        <5> QED
          BY <4>1, <4>4, <4>6, <5>1
      <4> QED
        BY <4>5, <4>6 DEF Ended
    <3> QED
      BY <2>2, <3>2, <3>3, <3>4, <3>5
  <2>4. PICK c, h : /\ c = [d \in Lengths |-> Feed(s.current[d], a, t, d)]
                    /\ h = [d \in Lengths |-> LastFew(s.history[d] \o Ended(s.current[d], t, d), HistoryLength)]
    OBVIOUS
  <2>5. u = [op |-> op, value |-> v, time |-> t, current |-> c, history |-> h]
    <3>1. FeedAll(s, t, a) = [s EXCEPT !.current = c, !.history = h]
      BY <1>3, <2>4 DEF FeedAll
    <3>2. u = [[s EXCEPT !.current = c, !.history = h] EXCEPT !.value = v, !.time = t]
      BY <1>5, <1>7, <1>8, <3>1
    <3>3. [s EXCEPT !.current = c, !.history = h]
          = [op |-> op, value |-> s.value, time |-> s.time, current |-> c, history |-> h]
      <4>1. s = [op |-> s.op, value |-> s.value, time |-> s.time, current |-> s.current, history |-> s.history]
        BY <1>1, <1>3
      <4> QED
        BY <1>1, <4>1, TwoFields
    <3>4. PICK w : w = [op |-> op, value |-> s.value, time |-> s.time, current |-> c, history |-> h]
      OBVIOUS
    <3>6. [w EXCEPT !.value = v, !.time = t] = [[w EXCEPT !.value = v] EXCEPT !.time = t]
      OBVIOUS
    <3>7. PICK z : z = [w EXCEPT !.value = v]
      OBVIOUS
    <3>8. z = [op |-> op, value |-> v, time |-> s.time, current |-> c, history |-> h]
      BY <3>4, <3>7
    <3>9. [z EXCEPT !.time = t] = [op |-> op, value |-> v, time |-> t, current |-> c, history |-> h]
      BY <3>8
    <3>5. [w EXCEPT !.value = v, !.time = t] = [op |-> op, value |-> v, time |-> t, current |-> c, history |-> h]
      BY <3>6, <3>7, <3>9
    <3> QED
      BY <3>2, <3>3, <3>4, <3>5
  <2>A. c = [d \in Lengths |-> Current(op, r, d)] /\ h = [d \in Lengths |-> LastFew(ns[d], HistoryLength)]
    BY <2>3, <2>4
  <2>6. ns \in [Lengths -> Seq(Samples)]
    BY <2>2, <2>3
  <2>7. StateOf(u, r, ns)
    BY <1>1, <1>2, <2>3, <2>5, <2>6, <2>A DEF StateOf
  <2>8. ns = Pushed(s, ms, t)
    <3>1. \A d \in Lengths : s.current[d] = Current(op, q, d)
      BY <1>3
    <3> QED
      BY <1>5, <1>8, <2>2, <3>1 DEF Pushed
  <2> QED
    BY <1>1, <2>5, <2>7, <2>8
<1>9. CASE N + 1 \notin Counted(op, r)
  <2>1. u = [op |-> op, value |-> v, time |-> t, current |-> s.current, history |-> s.history]
    <3>1. u = [s EXCEPT !.value = v, !.time = t]
      BY <1>5, <1>7, <1>9
    <3>2. PICK c, h : s.current = c /\ s.history = h
      OBVIOUS
    <3>3. s = [op |-> op, value |-> s.value, time |-> s.time, current |-> c, history |-> h]
      BY <1>3, <3>2
    <3>5. [s EXCEPT !.value = v, !.time = t] = [[s EXCEPT !.value = v] EXCEPT !.time = t]
      OBVIOUS
    <3>6. PICK z : z = [s EXCEPT !.value = v]
      OBVIOUS
    <3>7. z = [op |-> op, value |-> v, time |-> s.time, current |-> c, history |-> h]
      BY <3>3, <3>6
    <3>8. [z EXCEPT !.time = t] = [op |-> op, value |-> v, time |-> t, current |-> c, history |-> h]
      BY <3>7
    <3>4. [s EXCEPT !.value = v, !.time = t] = [op |-> op, value |-> v, time |-> t, current |-> c, history |-> h]
      BY <3>5, <3>6, <3>8
    <3> QED
      BY <3>1, <3>2, <3>4
  <2>2. ASSUME NEW d \in Lengths
        PROVE  OfPast(op, r, d, ms[d]) /\ Current(op, r, d) = Current(op, q, d)
    BY <1>1, <1>2, <1>4, <1>9, <2>2, PastStays
  <2>3. [d \in Lengths |-> Current(op, r, d)] = [d \in Lengths |-> Current(op, q, d)]
    BY <2>2
  <2>4. StateOf(u, r, ms)
    BY <1>1, <1>2, <1>3, <2>1, <2>2, <2>3 DEF StateOf
  <2>5. ms = Pushed(s, ms, t)
    BY <1>2, <1>5, <1>9 DEF Pushed
  <2>6. StateOf(u, r, Pushed(s, ms, t))
    BY <2>4, <2>5
  <2>7. u.time = t /\ u.value = v
    BY <2>1
  <2> QED
    BY <1>1, <2>6, <2>7
<1> QED
  BY <1>8, <1>9

-----------------------------------------------------------------------------
(* The states of the keys                                                    *)

Loading(c) == \E k \in Keys, op \in {"A", "D"} : c = [pc |-> "load", key |-> k, op |-> op]
Saving(c) == c.pc = "save" /\ c.key \in Keys /\ c = [pc |-> "save", key |-> c.key, state |-> c.state]
StatTypes ==
  /\ now \in Nat /\ clock.start \in Nat
  /\ Feeders \subseteq DOMAIN Stages /\ stage \in [Feeders -> Nat]
  /\ \A f \in Feeders : stage[f] < Len(Stages[f])
  /\ todo \in [Feeders -> SUBSET [key : Keys, op : {"A", "D"}]]
  /\ call = [f \in Feeders |-> call[f]]
  /\ \A f \in Feeders : call[f] = Idle \/ Loading(call[f]) \/ Saving(call[f])
  /\ points = [k \in Keys |-> points[k]] /\ fed = [k \in Keys |-> fed[k]]
  /\ DOMAIN state \subseteq Keys

\* The state in Redis was made of the values fed.
Made(k) ==
  IF k \in DOMAIN state THEN StateOf(state[k], fed[k], points[k])
  ELSE fed[k] = <<>> /\ points[k] = NoPoints
\* Of a key that one feeds at a time, so is the state to be saved.
KeyInv(k) ==
  /\ \A f, g \in InCall(k) : f = g
  /\ \A f \in InCall(k) : call[f].pc = "save" =>
       LET s == call[f].state IN
       StateOf(s, Append(fed[k], [time |-> s.time, value |-> s.value]), points[k])
  /\ (\A f \in InCall(k) : call[f].pc # "save") => Made(k)
StatInv == StatTypes /\ \A k \in Keys \ disturbed : KeyInv(k)

LEMMA StatInit == FlowInit => StatInv
<1> SUFFICES ASSUME FlowInit PROVE StatInv
  OBVIOUS
<1>1. PICK sc \in Scenes : InitStatistics(sc.feeders, sc.clocks)
  BY DEF FlowInit
<1>2. PICK F \in sc.feeders : stage = [f \in F |-> 0]
  BY <1>1 DEF InitStatistics
<1>3. /\ F \subseteq DOMAIN Stages /\ clock.start \in Nat /\ now = clock.start /\ Feeders = F
      /\ todo = [f \in F |-> {}] /\ call = [f \in F |-> Idle]
      /\ points = [k \in Keys |-> NoPoints] /\ fed = [k \in Keys |-> <<>>] /\ state = None
  BY <1>1, <1>2, ScenesAssumption DEF InitStatistics, Feeders
<1>4. \A f \in DOMAIN Stages : Len(Stages[f]) \in Nat /\ Len(Stages[f]) > 0
  <2> TAKE f \in DOMAIN Stages
  <2>1. PICK E : Stages[f] \in Seq(E) /\ Stages[f] # <<>>
    BY StatisticsAssumption
  <2> QED
    BY <2>1
<1>5. DOMAIN state = {}
  BY <1>3 DEF None
<1>6. StatTypes
  BY <1>2, <1>3, <1>4, <1>5 DEF StatTypes
<1>7. ASSUME NEW k \in Keys PROVE KeyInv(k)
  <2>1. InCall(k) = {}
    BY <1>3 DEF InCall
  <2>2. Made(k)
    BY <1>3, <1>5 DEF Made
  <2> QED
    BY <2>1, <2>2 DEF KeyInv
<1> QED
  BY <1>6, <1>7 DEF StatInv

\* Nothing is done with a key.
LEMMA KeyStays ==
  ASSUME NEW k, KeyInv(k), Feeders' = Feeders,
         \A f \in Feeders : \/ call'[f] = call[f]
                            \/ (call[f] = Idle \/ call[f].key # k) /\ (call'[f] = Idle \/ call'[f].key # k),
         k \in DOMAIN state' <=> k \in DOMAIN state,
         k \in DOMAIN state => state'[k] = state[k],
         fed'[k] = fed[k], points'[k] = points[k]
  PROVE  KeyInv(k)'
<1>1. InCall(k)' = InCall(k) /\ \A f \in InCall(k) : call'[f] = call[f]
  BY DEF InCall
<1>2. Made(k) => Made(k)'
  BY DEF Made, StateOf
<1>3. \A f \in InCall(k) : call[f].pc = "save" =>
         LET s == call'[f].state IN
         StateOf(s, Append(fed'[k], [time |-> s.time, value |-> s.value]), points'[k])
  BY <1>1 DEF KeyInv
<1> QED
  BY <1>1, <1>2, <1>3 DEF KeyInv, StateOf

LEMMA InCallIs == ASSUME NEW k, NEW f PROVE f \in InCall(k) <=> f \in Feeders /\ call[f] # Idle /\ call[f].key = k
  BY DEF InCall

LEMMA ReadCountersInv == ASSUME StatInv, NEW f \in Feeders, ReadCounters(f) PROVE StatInv'
<1>1. PICK s : s = Stages[f][stage[f] + 1]
  OBVIOUS
<1>2. /\ todo' \in [Feeders -> SUBSET [key : Keys, op : {"A", "D"}]]
      /\ stage' \in [Feeders -> Nat] /\ \A g \in Feeders : stage'[g] < Len(Stages[g])
  <2>1. PICK n : n = Len(Stages[f])
    OBVIOUS
  <2>2. /\ n \in Nat \ {0} /\ stage[f] \in Nat /\ stage[f] < n
        /\ s.entries \subseteq [key : Keys, op : {"A", "D"}]
    <3>1. Stages[f] \in Seq([entries : SUBSET [key : Keys, op : {"A", "D"}], some : BOOLEAN, fails : BOOLEAN])
          /\ Stages[f] # <<>>
      BY StatisticsAssumption DEF StatInv, StatTypes
    <3>2. n \in Nat \ {0} /\ stage[f] \in Nat /\ stage[f] < n
      BY <2>1, <3>1 DEF StatInv, StatTypes
    <3>3. s \in [entries : SUBSET [key : Keys, op : {"A", "D"}], some : BOOLEAN, fails : BOOLEAN]
      <4>1. PICK S, g, i : /\ S = [entries : SUBSET [key : Keys, op : {"A", "D"}], some : BOOLEAN, fails : BOOLEAN]
                           /\ g = Stages[f] /\ i = stage[f] + 1
        OBVIOUS
      <4>2. g \in Seq(S) /\ i \in 1..Len(g)
        BY <2>1, <3>1, <3>2, <4>1
      <4>3. g[i] \in S
        BY <4>2
      <4> QED
        BY <1>1, <4>1, <4>3
    <3> QED
      BY <3>2, <3>3
  <2>3. todo \in [Feeders -> SUBSET [key : Keys, op : {"A", "D"}]] /\ stage \in [Feeders -> Nat]
        /\ \A g \in Feeders : stage[g] < Len(Stages[g])
    BY DEF StatInv, StatTypes
  <2>4. CASE /\ \E E \in IF s.some THEN SUBSET s.entries ELSE {s.entries} : todo' = [todo EXCEPT ![f] = E]
             /\ stage' = [stage EXCEPT ![f] = (@ + 1) % Len(Stages[f])]
    <3>1. PICK E \in SUBSET s.entries : todo' = [todo EXCEPT ![f] = E]
      BY <2>4
    <3>2. PICK m : m = (stage[f] + 1) % n
      OBVIOUS
    <3>3. m \in Nat /\ m < n
      BY <2>2, <3>2
    <3>4. stage' = [stage EXCEPT ![f] = m]
      BY <2>1, <2>3, <2>4, <3>2
    <3> QED
      BY <2>1, <2>2, <2>3, <3>1, <3>3, <3>4
  <2>5. CASE stage' = [stage EXCEPT ![f] = 0] /\ UNCHANGED todo
    BY <2>1, <2>2, <2>3, <2>5
  <2> QED
    BY <1>1, <2>4, <2>5 DEF ReadCounters
<1>3. /\ DOMAIN stage' = Feeders
      /\ clock' = clock /\ now' = now /\ call' = call /\ state' = state /\ points' = points /\ fed' = fed
      /\ disturbed' = disturbed
  BY <1>2 DEF ReadCounters
<1>4. Feeders' = Feeders
  BY <1>3 DEF Feeders
<1>5. StatTypes'
  BY <1>2, <1>3, <1>4 DEF StatInv, StatTypes, Loading, Saving
<1>6. \A k \in Keys \ disturbed : KeyInv(k)'
  BY <1>3, <1>4, KeyStays DEF StatInv
<1> QED
  BY <1>3, <1>5, <1>6 DEF StatInv

LEMMA TouchInv == ASSUME StatInv, NEW f \in Feeders, Touch(f) PROVE StatInv'
<1>1. PICK e \in todo[f] :
        /\ call[f] = Idle /\ todo' = [todo EXCEPT ![f] = @ \ {e}]
        /\ call' = [call EXCEPT ![f] = [pc |-> "load", key |-> e.key, op |-> e.op]]
        /\ disturbed' = IF InCall(e.key) # {} THEN disturbed \cup {e.key} ELSE disturbed
        /\ UNCHANGED <<clock, now, stage, evicted, state, points, fed, breaks>>
  BY DEF Touch
<1>2. Feeders' = Feeders /\ DOMAIN call = Feeders /\ call = [g \in Feeders |-> call[g]]
      /\ todo \in [Feeders -> SUBSET [key : Keys, op : {"A", "D"}]]
  BY <1>1 DEF Feeders, StatInv, StatTypes
<1>3. e.key \in Keys /\ e.op \in {"A", "D"}
  BY <1>1, <1>2
<1>4. PICK n : n = [pc |-> "load", key |-> e.key, op |-> e.op]
  OBVIOUS
<1>5. n # Idle /\ n.pc = "load" /\ n.key = e.key /\ Loading(n)
  BY <1>3, <1>4 DEF Idle, Loading
<1>6. call' = [g \in Feeders |-> call'[g]] /\ call'[f] = n /\ \A g \in Feeders \ {f} : call'[g] = call[g]
  BY <1>1, <1>2, <1>4
<1>7. StatTypes'
  <2>1. todo' \in [Feeders -> SUBSET [key : Keys, op : {"A", "D"}]]
    BY <1>1, <1>2
  <2>2. \A g \in Feeders : call'[g] = Idle \/ Loading(call'[g]) \/ Saving(call'[g])
    BY <1>5, <1>6 DEF StatInv, StatTypes
  <2> QED
    BY <1>1, <1>2, <1>6, <2>1, <2>2 DEF StatInv, StatTypes, Loading, Saving
<1>8. ASSUME NEW k \in Keys, k \notin disturbed' PROVE KeyInv(k)'
  <2>1. k \notin disturbed /\ KeyInv(k)
    BY <1>1, <1>8 DEF StatInv
  <2>2. CASE k = e.key
    <3>1. InCall(k) = {}
      BY <1>1, <1>8, <2>2
    <3>2. InCall(k)' = {f}
      BY <1>2, <1>5, <1>6, <2>2, <3>1 DEF InCall
    <3>3. Made(k)'
      BY <1>1, <2>1, <3>1 DEF KeyInv, Made, StateOf
    <3> QED
      BY <1>5, <1>6, <3>2, <3>3 DEF KeyInv
  <2>3. CASE k # e.key
    <3>1. \A g \in Feeders : \/ call'[g] = call[g]
                             \/ (call[g] = Idle \/ call[g].key # k) /\ (call'[g] = Idle \/ call'[g].key # k)
      BY <1>1, <1>5, <1>6, <2>3
    <3> QED
      BY <1>1, <1>2, <2>1, <3>1, KeyStays
  <2> QED
    BY <2>2, <2>3
<1> QED
  BY <1>7, <1>8 DEF StatInv

\* What a step of the call of f leaves of the types.
LEMMA CallTypes ==
  ASSUME StatInv, NEW f \in Feeders, NEW n, n = Idle \/ Loading(n) \/ Saving(n),
         call' = [call EXCEPT ![f] = n], UNCHANGED <<clock, now, stage, todo>>,
         points' = [k \in Keys |-> points'[k]], fed' = [k \in Keys |-> fed'[k]],
         DOMAIN state' \subseteq Keys
  PROVE  /\ StatTypes' /\ Feeders' = Feeders /\ call'[f] = n
         /\ \A g \in Feeders \ {f} : call'[g] = call[g]
<1>1. Feeders' = Feeders /\ call = [g \in Feeders |-> call[g]]
  BY DEF Feeders, StatInv, StatTypes
<1>2. call' = [g \in Feeders |-> call'[g]] /\ call'[f] = n /\ \A g \in Feeders \ {f} : call'[g] = call[g]
  BY <1>1
<1>3. \A g \in Feeders : call'[g] = Idle \/ Loading(call'[g]) \/ Saving(call'[g])
  BY <1>2 DEF StatInv, StatTypes
<1> QED
  BY <1>1, <1>2, <1>3 DEF StatInv, StatTypes, Loading, Saving

\* Of another key than that of its call, and of that key if it is fed alone.
LEMMA CallKeys ==
  ASSUME StatInv, NEW f \in Feeders, call[f] # Idle, NEW n, n = Idle \/ n.key = call[f].key,
         Feeders' = Feeders, call'[f] = n, \A g \in Feeders \ {f} : call'[g] = call[g], NEW k \in Keys,
         k \notin disturbed
  PROVE  /\ k # call[f].key =>
              \A g \in Feeders : \/ call'[g] = call[g]
                                 \/ (call[g] = Idle \/ call[g].key # k) /\ (call'[g] = Idle \/ call'[g].key # k)
         /\ k = call[f].key => InCall(k) = {f} /\ InCall(k)' = IF n = Idle THEN {} ELSE {f}
<1>1. KeyInv(k)
  BY DEF StatInv
<1>2. CASE k # call[f].key
  BY <1>2
<1>3. CASE k = call[f].key
  <2>1. f \in InCall(k)
    BY <1>3 DEF InCall
  <2>2. InCall(k) = {f}
    BY <1>1, <2>1 DEF KeyInv
  <2>3. InCall(k)' = IF n = Idle THEN {} ELSE {f}
    <3>1. \A g \in Feeders \ {f} : ~(call[g] # Idle /\ call[g].key = k)
      BY <2>2 DEF InCall
    <3> QED
      BY <1>3, <3>1 DEF InCall
  <2> QED
    BY <1>3, <2>2, <2>3
<1> QED
  BY <1>2, <1>3

LEMMA LoadInv == ASSUME StatInv, NEW f \in Feeders, Load(f) PROVE StatInv'
<1>1. PICK k, op : k = call[f].key /\ op = call[f].op
  OBVIOUS
<1>2. PICK s : s = IF k \in DOMAIN state THEN state[k] ELSE NewState(op)
  OBVIOUS
<1>3. /\ call[f].pc = "load" /\ call[f] # Idle /\ k \in Keys /\ f \in InCall(k)
      /\ UNCHANGED <<clock, now, stage, todo, tracked, evicted, state, fed, feeds>>
  <2>1. call[f].pc = "load" /\ UNCHANGED <<clock, now, stage, todo, tracked, evicted, state, fed, feeds>>
    BY DEF Load
  <2>2. call[f] # Idle /\ Loading(call[f])
    BY <2>1 DEF StatInv, StatTypes, Idle, Saving
  <2>3. k \in Keys
    BY <1>1, <2>2 DEF Loading
  <2> QED
    BY <1>1, <2>1, <2>2, <2>3 DEF InCall
<1>4. fed = [x \in Keys |-> fed[x]] /\ points = [x \in Keys |-> points[x]] /\ DOMAIN state \subseteq Keys
      /\ now \in Nat
  BY DEF StatInv, StatTypes
<1>5. CASE UNCHANGED <<points, disturbed>> /\ call' = [call EXCEPT ![f] = Idle]
  <2>1. /\ StatTypes' /\ Feeders' = Feeders /\ call'[f] = Idle
        /\ \A g \in Feeders \ {f} : call'[g] = call[g]
    BY <1>3, <1>4, <1>5, CallTypes
  <2>2. ASSUME NEW x \in Keys \ disturbed PROVE KeyInv(x)'
    <3>1. KeyInv(x)
      BY DEF StatInv
    <3>2. CASE x # k
      <4>1. \A g \in Feeders : \/ call'[g] = call[g]
                               \/ (call[g] = Idle \/ call[g].key # x) /\ (call'[g] = Idle \/ call'[g].key # x)
        BY <1>1, <1>3, <2>1, <3>2, CallKeys
      <4> QED
        BY <1>3, <1>5, <2>1, <3>1, <4>1, KeyStays
    <3>3. CASE x = k
      <4>1. InCall(x) = {f} /\ InCall(x)' = {}
        BY <1>1, <1>3, <2>1, <3>3, CallKeys
      <4>2. Made(x)'
        BY <1>3, <1>5, <3>1, <4>1 DEF KeyInv, Made, StateOf
      <4> QED
        BY <4>1, <4>2 DEF KeyInv
    <3> QED
      BY <3>2, <3>3
  <2> QED
    BY <1>5, <2>1, <2>2 DEF StatInv
<1>6. CASE /\ \E v \in Values :
                call' = [call EXCEPT ![f] = [pc |-> "save", key |-> k, state |-> FeedOn(s, now, v)]]
           /\ \/ /\ points' = [points EXCEPT ![k] = [d \in Lengths |->
                       IF Counts(s, now) THEN @[d] \o Ended(s.current[d], now, d) ELSE @[d]]]
                 /\ UNCHANGED <<disturbed, breaks>>
              \/ Disturbs(k) /\ UNCHANGED points
  <2>1. PICK v \in Values : call' = [call EXCEPT ![f] = [pc |-> "save", key |-> k, state |-> FeedOn(s, now, v)]]
    BY <1>6
  <2>2. PICK n, u : u = FeedOn(s, now, v) /\ n = [pc |-> "save", key |-> k, state |-> u]
    OBVIOUS
  <2>3. n.pc = "save" /\ n.key = k /\ n.state = u /\ n # Idle /\ Saving(n)
    BY <1>3, <2>2 DEF Idle, Saving
  <2>4. points' = [x \in Keys |-> points'[x]] /\ \A x \in Keys \ {k} : points'[x] = points[x]
    BY <1>3, <1>4, <1>6
  <2>5. /\ StatTypes' /\ Feeders' = Feeders /\ call'[f] = n
        /\ \A g \in Feeders \ {f} : call'[g] = call[g]
    BY <1>3, <1>4, <2>1, <2>2, <2>3, <2>4, CallTypes
  <2>6. ASSUME NEW x \in Keys, x \notin disturbed' PROVE KeyInv(x)'
    <3>1. x \notin disturbed /\ KeyInv(x)
      BY <1>6, <2>6 DEF StatInv, Disturbs
    <3>2. CASE x # k
      <4>1. \A g \in Feeders : \/ call'[g] = call[g]
                               \/ (call[g] = Idle \/ call[g].key # x) /\ (call'[g] = Idle \/ call'[g].key # x)
        BY <1>1, <1>3, <2>3, <2>5, <3>1, <3>2, CallKeys
      <4> QED
        BY <1>3, <2>4, <2>5, <3>1, <3>2, <4>1, KeyStays
    <3>3. CASE x = k
      <4>1. InCall(k) = {f} /\ InCall(k)' = {f}
        BY <1>1, <1>3, <2>3, <2>5, <3>1, <3>3, CallKeys
      <4>2. PICK q, ms : q = fed[k] /\ ms = points[k]
        OBVIOUS
      <4>3. points' = [points EXCEPT ![k] = [d \in Lengths |->
                IF Counts(s, now) THEN @[d] \o Ended(s.current[d], now, d) ELSE @[d]]]
        BY <1>6, <2>6, <3>3 DEF Disturbs
      <4>4. points'[k] = Pushed(s, ms, now)
        BY <1>3, <1>4, <4>2, <4>3 DEF Pushed
      <4>5. StateOf(s, q, ms)
        <5>1. Made(k)
          BY <1>3, <3>1, <3>3, <4>1 DEF KeyInv
        <5>2. CASE k \in DOMAIN state
          BY <1>2, <4>2, <5>1, <5>2 DEF Made
        <5>3. CASE k \notin DOMAIN state
          BY <1>2, <4>2, <5>1, <5>3, NewStateOf DEF Made
        <5> QED
          BY <5>2, <5>3
      <4>6. v \in Int
        BY <2>1, StatisticsAssumption
      <4>7. StateOf(u, Append(q, [time |-> now, value |-> v]), Pushed(s, ms, now))
            /\ u.time = now /\ u.value = v
        <5>1. StateOf(FeedOn(s, now, v), Append(q, [time |-> now, value |-> v]), Pushed(s, ms, now))
              /\ FeedOn(s, now, v).time = now /\ FeedOn(s, now, v).value = v
          BY <1>4, <4>5, <4>6, FedOn
        <5> QED
          BY <2>2, <5>1
      <4>8. StateOf(u, Append(q, [time |-> u.time, value |-> u.value]), points'[k])
        BY <4>4, <4>7
      <4>9. fed'[k] = q
        BY <1>3, <4>2
      <4>10. call'[f].pc = "save" /\ call'[f].state = u
        BY <2>3, <2>5
      <4>11. LET z == call'[f].state IN
             StateOf(z, Append(fed'[k], [time |-> z.time, value |-> z.value]), points'[k])
        BY <4>8, <4>9, <4>10
      <4>12. StateOf(call[f].state, Append(fed[k], [time |-> call[f].state.time, value |-> call[f].state.value]),
                     points[k])'
        BY <4>11 DEF StateOf
      <4> QED
        BY <3>3, <4>1, <4>10, <4>12 DEF KeyInv
    <3> QED
      BY <3>2, <3>3
  <2> QED
    BY <2>5, <2>6 DEF StatInv
<1> QED
  BY <1>1, <1>2, <1>5, <1>6 DEF Load

LEMMA SaveInv == ASSUME StatInv, NEW f \in Feeders, Save(f) PROVE StatInv'
<1>1. PICK k, s : k = call[f].key /\ s = call[f].state
  OBVIOUS
<1>2. /\ call[f].pc = "save" /\ call[f] # Idle /\ k \in Keys /\ call' = [call EXCEPT ![f] = Idle]
      /\ \/ /\ state' = With(state, k, s)
            /\ fed' = [fed EXCEPT ![k] = Append(@, [time |-> s.time, value |-> s.value])]
            /\ UNCHANGED <<disturbed, breaks>>
         \/ Disturbs(k) /\ UNCHANGED <<state, fed>>
      /\ UNCHANGED <<clock, now, stage, todo, tracked, evicted, points, feeds>>
  <2>1. call[f].pc = "save"
    BY DEF Save
  <2>2. call[f] # Idle /\ Saving(call[f])
    BY <2>1 DEF StatInv, StatTypes, Idle, Loading
  <2> QED
    BY <1>1, <2>2 DEF Save, Saving
<1>3. fed = [x \in Keys |-> fed[x]] /\ points = [x \in Keys |-> points[x]] /\ DOMAIN state \subseteq Keys
  BY DEF StatInv, StatTypes
<1>4. /\ fed' = [x \in Keys |-> fed'[x]] /\ \A x \in Keys \ {k} : fed'[x] = fed[x]
      /\ DOMAIN state' \subseteq Keys
      /\ \A x \in Keys \ {k} : /\ x \in DOMAIN state' <=> x \in DOMAIN state
                               /\ x \in DOMAIN state => state'[x] = state[x]
  BY <1>2, <1>3 DEF With
<1>5. /\ StatTypes' /\ Feeders' = Feeders /\ call'[f] = Idle
      /\ \A g \in Feeders \ {f} : call'[g] = call[g]
  BY <1>2, <1>3, <1>4, CallTypes
<1>6. ASSUME NEW x \in Keys, x \notin disturbed' PROVE KeyInv(x)'
  <2>1. x \notin disturbed /\ KeyInv(x)
    BY <1>2, <1>6 DEF StatInv, Disturbs
  <2>2. CASE x # k
    <3>1. \A g \in Feeders : \/ call'[g] = call[g]
                             \/ (call[g] = Idle \/ call[g].key # x) /\ (call'[g] = Idle \/ call'[g].key # x)
      BY <1>1, <1>2, <1>5, <2>1, <2>2, CallKeys
    <3> QED
      BY <1>2, <1>4, <1>5, <2>1, <2>2, <3>1, KeyStays
  <2>3. CASE x = k
    <3>1. InCall(k) = {f} /\ InCall(k)' = {}
      BY <1>1, <1>2, <1>5, <2>1, <2>3, CallKeys
    <3>2. StateOf(s, Append(fed[k], [time |-> s.time, value |-> s.value]), points[k])
      BY <1>1, <1>2, <2>1, <2>3, <3>1 DEF KeyInv
    <3>3. /\ state' = With(state, k, s)
          /\ fed' = [fed EXCEPT ![k] = Append(@, [time |-> s.time, value |-> s.value])]
      BY <1>2, <1>6, <2>3 DEF Disturbs
    <3>4. k \in DOMAIN state' /\ state'[k] = s
      BY <3>3 DEF With
    <3>5. fed'[k] = Append(fed[k], [time |-> s.time, value |-> s.value])
      BY <1>2, <1>3, <3>3
    <3>6. StateOf(state'[k], fed'[k], points'[k])
      BY <1>2, <3>2, <3>4, <3>5
    <3>7. Made(k)'
      BY <3>4, <3>6 DEF Made, StateOf
    <3> QED
      BY <2>3, <3>1, <3>7 DEF KeyInv
  <2> QED
    BY <2>2, <2>3
<1> QED
  BY <1>5, <1>6 DEF StatInv

LEMMA OnEvictedInv == ASSUME StatInv, NEW k \in Keys, OnEvicted(k) PROVE StatInv'
<1>1. /\ state' = Without(state, k) /\ fed' = [fed EXCEPT ![k] = <<>>] /\ points' = [points EXCEPT ![k] = NoPoints]
      /\ disturbed' = IF InCall(k) # {} THEN disturbed \cup {k} ELSE disturbed \ {k}
      /\ UNCHANGED <<clock, now, stage, todo, call>>
  BY DEF OnEvicted
<1>2. fed = [x \in Keys |-> fed[x]] /\ points = [x \in Keys |-> points[x]] /\ DOMAIN state \subseteq Keys
  BY DEF StatInv, StatTypes
<1>3. /\ fed' = [x \in Keys |-> fed'[x]] /\ points' = [x \in Keys |-> points'[x]] /\ DOMAIN state' \subseteq Keys
      /\ fed'[k] = <<>> /\ points'[k] = NoPoints /\ k \notin DOMAIN state'
      /\ \A x \in Keys \ {k} : /\ fed'[x] = fed[x] /\ points'[x] = points[x]
                               /\ x \in DOMAIN state' <=> x \in DOMAIN state
                               /\ x \in DOMAIN state => state'[x] = state[x]
  BY <1>1, <1>2 DEF Without
<1>4. Feeders' = Feeders
  BY <1>1 DEF Feeders
<1>5. StatTypes'
  BY <1>1, <1>3, <1>4 DEF StatInv, StatTypes, Loading, Saving
<1>6. ASSUME NEW x \in Keys, x \notin disturbed' PROVE KeyInv(x)'
  <2>1. CASE x # k
    <3>1. KeyInv(x)
      BY <1>1, <1>6, <2>1 DEF StatInv
    <3> QED
      BY <1>1, <1>3, <1>4, <2>1, <3>1, KeyStays
  <2>2. CASE x = k
    <3>1. InCall(k) = {}
      BY <1>1, <1>6, <2>2
    <3>2. InCall(k)' = {}
      BY <1>1, <1>4, <3>1 DEF InCall
    <3>3. Made(k)'
      BY <1>3 DEF Made
    <3> QED
      BY <2>2, <3>2, <3>3 DEF KeyInv
  <2> QED
    BY <2>1, <2>2
<1> QED
  BY <1>5, <1>6 DEF StatInv

\* The cache, the time and what is not of the statistics do not change what is kept.
LEMMA ElseInv ==
  ASSUME StatInv, now' \in Nat, UNCHANGED <<clock, stage, todo, call, state, points, fed, disturbed>>
  PROVE  StatInv'
<1>1. Feeders' = Feeders
  BY DEF Feeders
<1>2. StatTypes'
  BY <1>1 DEF StatInv, StatTypes, Loading, Saving
<1>3. \A k \in Keys \ disturbed : KeyInv(k)'
  BY <1>1, KeyStays DEF StatInv
<1> QED
  BY <1>2, <1>3 DEF StatInv

LEMMA StatNext == StatInv /\ [FlowNext]_flowVars => StatInv'
<1> SUFFICES ASSUME StatInv, [FlowNext]_flowVars PROVE StatInv'
  OBVIOUS
<1>1. now \in Nat /\ clock.start \in Nat
  BY DEF StatInv, StatTypes
<1>2. CASE UNCHANGED statistics
  <2>1. now' \in Nat /\ UNCHANGED <<clock, stage, todo, call, state, points, fed, disturbed>>
    BY <1>1, <1>2 DEF statistics
  <2> QED
    BY <2>1, ElseInv
<1>3. CASE StatisticsStep
  <2>1. CASE \E f \in Feeders : ReadCounters(f) \/ Touch(f) \/ Load(f) \/ Save(f)
    BY <2>1, ReadCountersInv, TouchInv, LoadInv, SaveInv
  <2>2. CASE \E k \in Keys : OnEvicted(k)
    BY <2>2, OnEvictedInv
  <2>3. CASE \E k \in Keys : Evict(k)
    <3>1. now' \in Nat /\ UNCHANGED <<clock, stage, todo, call, state, points, fed, disturbed>>
      BY <1>1, <2>3 DEF Evict
    <3> QED
      BY <3>1, ElseInv
  <2>4. CASE Tick
    <3>1. now' \in Nat
      <4>1. CASE now' = now + 1
        BY <1>1, <4>1
      <4>2. CASE now' \in clock.start..(now - 1)
        BY <1>1, <4>2
      <4> QED
        BY <2>4, <4>1, <4>2 DEF Tick
    <3>2. UNCHANGED <<clock, stage, todo, call, state, points, fed, disturbed>>
      BY <2>4 DEF Tick
    <3> QED
      BY <3>1, <3>2, ElseInv
  <2> QED
    BY <1>3, <2>1, <2>2, <2>3, <2>4 DEF StatisticsStep
<1> QED
  BY <1>2, <1>3 DEF FlowNext, OutputStep, flowVars

\* For any values, clock, lengths of periods and keys, whoever feeds them: of a key that one feeds
\* at a time and that Redis kept, the sample of each length is that of the values of the last
\* period, and those of the periods before are, each once and in order, in the queue and, the
\* last of them, in the history (manager.go, stats.go, plugin.go of the aggregator).
THEOREM SamplesHold == FlowSpec => []SamplesRight
<1>1. StatInv => SamplesRight
  <2> SUFFICES ASSUME StatInv, NEW k \in DOMAIN state \ disturbed, NEW d \in Lengths,
                      \A f \in InCall(k) : call[f].pc # "save"
               PROVE  LET s == state[k] IN
                      /\ s.current[d] = SampleOf(s.op, fed[k], d, LastPeriod(s.op, fed[k], d))
                      /\ OfPast(s.op, fed[k], d, points[k][d])
                      /\ s.history[d] = LastFew(points[k][d], HistoryLength)
    BY DEF SamplesRight
  <2>1. k \in Keys /\ KeyInv(k)
    BY DEF StatInv, StatTypes
  <2>2. StateOf(state[k], fed[k], points[k])
    BY <2>1 DEF KeyInv, Made
  <2>3. PICK s, q, ms : s = state[k] /\ q = fed[k] /\ ms = points[k]
    OBVIOUS
  <2>4. /\ s.current = [x \in Lengths |-> Current(s.op, q, x)]
        /\ s.history = [x \in Lengths |-> LastFew(ms[x], HistoryLength)]
        /\ OfPast(s.op, q, d, ms[d])
    <3>1. PICK c, h : /\ c = [x \in Lengths |-> Current(s.op, q, x)]
                      /\ h = [x \in Lengths |-> LastFew(ms[x], HistoryLength)]
      OBVIOUS
    <3>2. s = [op |-> s.op, value |-> s.value, time |-> s.time, current |-> c, history |-> h]
          /\ OfPast(s.op, q, d, ms[d])
      BY <2>2, <2>3, <3>1 DEF StateOf
    <3>3. s.current = c /\ s.history = h
      BY <3>2
    <3> QED
      BY <3>1, <3>2, <3>3
  <2>5. s.current[d] = Current(s.op, q, d) /\ s.history[d] = LastFew(ms[d], HistoryLength)
    BY <2>4
  <2> QED
    BY <2>3, <2>4, <2>5 DEF Current
<1> QED
  BY <1>1, StatInit, StatNext, PTL DEF FlowSpec

-----------------------------------------------------------------------------
(* Lines and ends of messages                                                *)

LEMMA LeastIs ==
  ASSUME NEW T, T \subseteq Nat, NEW else
  PROVE  IF T = {} THEN Least(T, else) = else
         ELSE Least(T, else) \in T /\ \A j \in T : Least(T, else) <= j
  BY LeastNumber DEF Least

LEMMA NextLineIs ==
  ASSUME NEW b \in Seq(Tokens), NEW i \in 1..(Len(b) + 1)
  PROVE  /\ NextLine(b, i) \in 1..(Len(b) + 1) /\ NextLine(b, i) >= i
         /\ i <= Len(b) => NextLine(b, i) > i
         /\ \A j \in i..(NextLine(b, i) - 2) : b[j] # NewLine
         /\ NextLine(b, i) = Len(b) + 1 \/ b[NextLine(b, i) - 1] = NewLine
<1>1. PICK N, T : N = Len(b) /\ T = {j \in i..N : b[j] = NewLine}
  OBVIOUS
<1>2. N \in Nat /\ T \subseteq Nat /\ i \in 1..(N + 1)
  BY <1>1
<1>5. NextLine(b, i) = Least(T, N) + 1
  BY <1>1 DEF NextLine
<1>3. CASE T = {}
  <2>1. NextLine(b, i) = N + 1
    BY <1>2, <1>3, <1>5, LeastIs
  <2>2. \A j \in i..N : b[j] # NewLine
    BY <1>1, <1>3
  <2>3. PICK x : x = NextLine(b, i)
    OBVIOUS
  <2>4. /\ x \in 1..(N + 1) /\ x >= i /\ i <= N => x > i /\ \A j \in i..(x - 2) : b[j] # NewLine
        /\ x = N + 1
    BY <1>2, <2>1, <2>2, <2>3
  <2> QED
    BY <1>1, <2>3, <2>4
<1>4. CASE T # {}
  <2>1. PICK j \in T : Least(T, N) = j /\ \A k \in T : j <= k
    BY <1>2, <1>4, LeastIs
  <2>2. j \in i..N /\ b[j] = NewLine /\ NextLine(b, i) = j + 1
    BY <1>1, <1>2, <1>5, <2>1
  <2>3. \A k \in i..(j - 1) : b[k] # NewLine
    BY <1>1, <1>2, <2>1, <2>2
  <2>4. PICK x : x = NextLine(b, i)
    OBVIOUS
  <2>5. /\ x \in 1..(N + 1) /\ x >= i /\ x > i /\ x - 2 = j - 1 /\ x - 1 = j
    BY <1>2, <2>2, <2>4
  <2> QED
    BY <1>1, <2>2, <2>3, <2>4, <2>5
<1> QED
  BY <1>3, <1>4

LEMMA EndIs ==
  ASSUME NEW b \in Seq(Tokens), NEW i \in Nat \ {0}
  PROVE  \/ End(b, i) = 0 /\ \A j \in i..(Len(b) - 2) : ~Terminates(b, j)
         \/ /\ End(b, i) \in i..(Len(b) - 2) /\ Terminates(b, End(b, i))
            /\ \A j \in i..(End(b, i) - 1) : ~Terminates(b, j)
<1>1. PICK N, T : N = Len(b) /\ T = {j \in i..(N - 2) : Terminates(b, j)}
  OBVIOUS
<1>2. N \in Nat /\ T \subseteq Nat /\ End(b, i) = Least(T, 0)
  BY <1>1 DEF End
<1>3. CASE T = {}
  BY <1>1, <1>2, <1>3, LeastIs
<1>4. CASE T # {}
  <2>1. PICK e \in T : Least(T, 0) = e /\ \A k \in T : e <= k
    BY <1>2, <1>4, LeastIs
  <2>2. e \in i..(N - 2) /\ Terminates(b, e) /\ End(b, i) = e
    BY <1>1, <1>2, <2>1
  <2>3. \A k \in i..(e - 1) : ~Terminates(b, k)
    BY <1>1, <1>2, <2>1, <2>2
  <2> QED
    BY <1>1, <2>2, <2>3
<1> QED
  BY <1>3, <1>4

LEMMA EndThere ==
  ASSUME NEW t \in Seq(Tokens), NEW h \in Nat \ {0}, NEW e \in h..(Len(t) - 2), Terminates(t, e),
         \A j \in h..(e - 1) : ~Terminates(t, j)
  PROVE  End(t, h) = e
<1>1. PICK x : x = End(t, h)
  OBVIOUS
<1>2. Len(t) \in Nat
  OBVIOUS
<1>3. x # 0
  <2>1. e \in h..(Len(t) - 2) /\ ~(\A j \in h..(Len(t) - 2) : ~Terminates(t, j))
    OBVIOUS
  <2> QED
    BY <1>1, <2>1, EndIs
<1>4. x \in h..(Len(t) - 2) /\ Terminates(t, x) /\ \A j \in h..(x - 1) : ~Terminates(t, j)
  BY <1>1, <1>3, EndIs
<1>5. ~(x < e) /\ ~(e < x)
  BY <1>2, <1>4
<1> QED
  BY <1>1, <1>2, <1>4, <1>5

\* b is n tokens of t, behind r.
Cut(t, r, n, b) ==
  /\ t \in Seq(Tokens) /\ r \in Nat /\ n \in Nat /\ r + n <= Len(t)
  /\ b \in Seq(Tokens) /\ Len(b) = n /\ \A i \in 1..n : b[i] = t[r + i]
\* It ends where a line does.
AtLine(t, r, n) == n = 0 \/ r + n = Len(t) \/ t[r + n] = NewLine

LEMMA NextLineShifted ==
  ASSUME NEW t, NEW r, NEW n, NEW b, Cut(t, r, n, b), AtLine(t, r, n), NEW i \in 1..n
  PROVE  NextLine(t, r + i) = r + NextLine(b, i)
<1>1. /\ t \in Seq(Tokens) /\ r \in Nat /\ n \in Nat /\ r + n <= Len(t) /\ Len(t) \in Nat
      /\ b \in Seq(Tokens) /\ Len(b) = n /\ \A j \in 1..n : b[j] = t[r + j]
      /\ r + n = Len(t) \/ t[r + n] = NewLine
  BY DEF Cut, AtLine
<1>2. PICK x, y : x = NextLine(b, i) /\ y = NextLine(t, r + i)
  OBVIOUS
<1>3. /\ x \in 1..(n + 1) /\ x > i /\ \A j \in i..(x - 2) : b[j] # NewLine
      /\ x = n + 1 \/ b[x - 1] = NewLine
  <2>1. i \in 1..(Len(b) + 1) /\ i <= Len(b)
    BY <1>1
  <2>2. /\ NextLine(b, i) \in 1..(Len(b) + 1) /\ NextLine(b, i) > i
        /\ \A j \in i..(NextLine(b, i) - 2) : b[j] # NewLine
        /\ NextLine(b, i) = Len(b) + 1 \/ b[NextLine(b, i) - 1] = NewLine
    BY <1>1, <2>1, NextLineIs
  <2> QED
    BY <1>1, <1>2, <2>2
<1>4. /\ y \in 1..(Len(t) + 1) /\ y > r + i /\ \A j \in (r + i)..(y - 2) : t[j] # NewLine
      /\ y = Len(t) + 1 \/ t[y - 1] = NewLine
  <2>1. r + i \in 1..(Len(t) + 1) /\ r + i <= Len(t)
    BY <1>1
  <2>2. PICK z : z = r + i
    OBVIOUS
  <2>3. /\ NextLine(t, z) \in 1..(Len(t) + 1) /\ NextLine(t, z) >= z
        /\ z <= Len(t) => NextLine(t, z) > z
        /\ \A j \in z..(NextLine(t, z) - 2) : t[j] # NewLine
        /\ NextLine(t, z) = Len(t) + 1 \/ t[NextLine(t, z) - 1] = NewLine
    BY <1>1, <2>1, <2>2, NextLineIs
  <2> QED
    BY <1>2, <2>1, <2>2, <2>3
<1>5. ~(y < r + x)
  <2> SUFFICES ASSUME y < r + x PROVE FALSE
    OBVIOUS
  <2>1. y - 1 - r \in i..(x - 2) /\ y - 1 - r \in 1..n /\ r + (y - 1 - r) = y - 1 /\ y # Len(t) + 1
    BY <1>1, <1>3, <1>4
  <2>2. b[y - 1 - r] = t[y - 1] /\ t[y - 1] = NewLine
    BY <1>1, <1>4, <2>1
  <2> QED
    BY <1>3, <2>1, <2>2
<1>6. ~(r + x < y)
  <2> SUFFICES ASSUME r + x < y PROVE FALSE
    OBVIOUS
  <2>0. r \in Nat /\ i \in Nat /\ x \in Nat /\ y \in Nat /\ x > i /\ r + x < y
    BY <1>1, <1>3, <1>4
  <2>1. r + x - 1 \in (r + i)..(y - 2)
    BY <2>0
  <2>2. t[r + x - 1] # NewLine
    BY <1>4, <2>1
  <2>3. x - 1 \in 1..n /\ r + (x - 1) = r + x - 1
    BY <1>1, <1>3
  <2>4. x = n + 1
    BY <1>1, <1>3, <2>2, <2>3
  <2>5. r + n = Len(t)
    BY <1>1, <2>2, <2>4
  <2> QED
    BY <1>1, <1>4, <2>4, <2>5
<1>7. y = r + x
  BY <1>1, <1>3, <1>4, <1>5, <1>6
<1> QED
  BY <1>2, <1>7

LEMMA TerminatesShifted ==
  ASSUME NEW t, NEW r, NEW n, NEW b, Cut(t, r, n, b), NEW j \in 1..(n - 2)
  PROVE  Terminates(b, j) <=> Terminates(t, r + j)
<1>1. r \in Nat /\ n \in Nat /\ \A i \in 1..n : b[i] = t[r + i]
  BY DEF Cut
<1>2. j \in 1..n /\ j + 1 \in 1..n /\ j + 2 \in 1..n /\ r + (j + 1) = r + j + 1 /\ r + (j + 2) = r + j + 2
  BY <1>1
<1> QED
  BY <1>1, <1>2 DEF Terminates

LEMMA EndShifted ==
  ASSUME NEW t, NEW r, NEW n, NEW b, Cut(t, r, n, b), NEW i \in 1..(n + 1), End(b, i) # 0
  PROVE  End(b, i) \in i..(n - 2) /\ End(t, r + i) = r + End(b, i)
<1>1. /\ t \in Seq(Tokens) /\ r \in Nat /\ n \in Nat /\ r + n <= Len(t) /\ Len(t) \in Nat
      /\ b \in Seq(Tokens) /\ Len(b) = n
  BY DEF Cut
<1>2. PICK e : e = End(b, i)
  OBVIOUS
<1>3. e \in i..(n - 2) /\ Terminates(b, e) /\ \A j \in i..(e - 1) : ~Terminates(b, j)
  BY <1>1, <1>2, EndIs
<1>4. Terminates(t, r + e) /\ r + e \in (r + i)..(Len(t) - 2)
  <2>1. e \in 1..(n - 2) /\ r + e \in (r + i)..(Len(t) - 2)
    BY <1>1, <1>3
  <2> QED
    BY <1>3, <2>1, TerminatesShifted
<1>5. ASSUME NEW j \in (r + i)..(r + e - 1) PROVE ~Terminates(t, j)
  <2>1. j - r \in i..(e - 1) /\ j - r \in 1..(n - 2) /\ r + (j - r) = j
    BY <1>1, <1>3
  <2> QED
    BY <1>3, <2>1, TerminatesShifted
<1>6. PICK k, l : k = r + i /\ l = r + e
  OBVIOUS
<1>7. k \in Nat \ {0} /\ l \in k..(Len(t) - 2) /\ Terminates(t, l) /\ \A j \in k..(l - 1) : ~Terminates(t, j)
  <2>0. r \in Nat
    BY <1>1
  <2>1. k \in Nat \ {0}
    BY <1>6, <2>0
  <2>2. l \in k..(Len(t) - 2) /\ Terminates(t, l)
    BY <1>4, <1>6
  <2>3. ASSUME NEW j \in k..(l - 1) PROVE ~Terminates(t, j)
    <3>1. j \in (r + i)..(r + e - 1)
      <4>1. r \in Nat /\ i \in Nat /\ e \in Nat
        BY <1>1, <1>3, <2>0
      <4>2. j \in Int /\ k <= j /\ j <= l - 1
        BY <1>6, <2>3, <4>1
      <4> QED
        BY <1>6, <4>1, <4>2
    <3> QED
      BY <1>5, <3>1
  <2> QED
    BY <2>1, <2>2, <2>3
<1>8. End(t, k) = l
  BY <1>1, <1>7, EndThere
<1> QED
  BY <1>2, <1>3, <1>6, <1>8

\* What is cut of b is cut of t.
LEMMA SubSeqShifted ==
  ASSUME NEW t, NEW r, NEW n, NEW b, Cut(t, r, n, b), NEW i \in 1..(n + 1), NEW k \in 0..n
  PROVE  SubSeq(b, i, k) = SubSeq(t, r + i, r + k) /\ SubSeq(b, i, k) \in Seq(Tokens)
<1>1. /\ t \in Seq(Tokens) /\ r \in Nat /\ n \in Nat /\ r + n <= Len(t) /\ Len(t) \in Nat
      /\ b \in Seq(Tokens) /\ Len(b) = n /\ \A j \in 1..n : b[j] = t[r + j]
  BY DEF Cut
<1>2. /\ \A j \in i..k : b[j] \in Tokens /\ b[j] = t[r + j]
      /\ \A j \in (r + i)..(r + k) : t[j] \in Tokens
  BY <1>1
<1>3. PICK x, y : x = SubSeq(b, i, k) /\ y = SubSeq(t, r + i, r + k)
  OBVIOUS
<1>4. /\ x \in Seq(Tokens) /\ Len(x) = IF i <= k THEN k - i + 1 ELSE 0
      /\ \A j \in 1..(k - i + 1) : x[j] = b[i + j - 1]
  BY <1>1, <1>2, <1>3, SubSeqProperties
<1>5. PICK m, l : m = r + i /\ l = r + k
  OBVIOUS
<1>6. /\ y \in Seq(Tokens) /\ Len(y) = IF m <= l THEN l - m + 1 ELSE 0
      /\ \A j \in 1..(l - m + 1) : y[j] = t[m + j - 1]
  <2>1. m \in Int /\ l \in Int /\ \A j \in m..l : t[j] \in Tokens
    BY <1>1, <1>2, <1>5
  <2>2. y = SubSeq(t, m, l)
    BY <1>3, <1>5
  <2> QED
    BY <2>1, <2>2, SubSeqProperties
<1>7. ASSUME NEW j \in 1..Len(x) PROVE x[j] = y[j]
  <2>1. i \in Nat /\ k \in Nat /\ i <= k /\ j \in 1..(k - i + 1)
    BY <1>1, <1>4
  <2>2. /\ j \in 1..(l - m + 1) /\ i + j - 1 \in i..k
        /\ r + (i + j - 1) = m + j - 1 /\ j \in 1..(k - i + 1)
    <3>1. r \in Nat
      BY <1>1
    <3>2. l - m + 1 = k - i + 1
      BY <1>5, <2>1, <3>1
    <3>3. i + j - 1 \in i..k
      BY <2>1
    <3>4. r + (i + j - 1) = m + j - 1
      BY <1>5, <2>1, <3>1
    <3> QED
      BY <2>1, <3>2, <3>3, <3>4
  <2> QED
    BY <1>2, <1>4, <1>6, <2>2
<1>8. Len(x) = Len(y)
  BY <1>1, <1>4, <1>5, <1>6
<1> QED
  BY <1>3, <1>4, <1>6, <1>7, <1>8, SeqEqual

-----------------------------------------------------------------------------
(* Recursion from each position to later ones                                *)

\* At each number, G depends on what comes at later ones; and is such a recursion.
LaterOnly(N, S, G) ==
  \A i \in 1..N : \A g, h \in [1..N -> S] :
     (\A j \in (i + 1)..N : g[j] = h[j]) => G[<<i, g>>] = G[<<i, h>>]
Recurs(N, S, G) == \E f \in [1..N -> S] : \A i \in 1..N : f[i] = G[<<i, f>>]

LEMMA RecursionDown ==
  ASSUME NEW N \in Nat, NEW S, S # {}, NEW G \in [(1..N) \X [1..N -> S] -> S],
         LaterOnly(N, S, G)
  PROVE  Recurs(N, S, G)
<1> DEFINE P(n) == \E f \in [1..N -> S] : \A i \in (N + 1 - n)..N : f[i] = G[<<i, f>>]
           T == {n \in Nat : n <= N => P(n)}
<1>1. 0 \in T
  <2>1. (N + 1 - 0)..N = {} /\ \E c : c \in S
    OBVIOUS
  <2>2. PICK c : c \in S
    BY <2>1
  <2>3. [i \in 1..N |-> c] \in [1..N -> S]
    BY <2>2
  <2> QED
    BY <2>1, <2>3
<1>2. ASSUME NEW n \in Nat, n \in T PROVE n + 1 \in T
  <2> SUFFICES ASSUME n + 1 <= N PROVE P(n + 1)
    <3> HIDE DEF P
    <3> QED OBVIOUS
  <2>0. P(n)
    <3> HIDE DEF P
    <3> QED BY <1>2
  <2>1. PICK f \in [1..N -> S] : \A i \in (N + 1 - n)..N : f[i] = G[<<i, f>>]
    BY <2>0
  <2>2. PICK k : k = N - n
    OBVIOUS
  <2>3. k \in 1..N /\ N + 1 - n = k + 1 /\ N + 1 - (n + 1) = k
    BY <2>2
  <2>4. G[<<k, f>>] \in S
    BY <2>3
  <2>5. PICK h : h = [f EXCEPT ![k] = G[<<k, f>>]]
    OBVIOUS
  <2>6. h \in [1..N -> S] /\ h[k] = G[<<k, f>>] /\ \A j \in 1..N : j # k => h[j] = f[j]
    BY <2>3, <2>4, <2>5
  <2>7. ASSUME NEW i \in k..N PROVE h[i] = G[<<i, h>>]
    <3>1. i \in 1..N /\ \A j \in (i + 1)..N : j \in 1..N /\ j # k
      BY <2>3
    <3>2. G[<<i, f>>] = G[<<i, h>>]
      BY <2>6, <3>1 DEF LaterOnly
    <3>3. CASE i = k
      BY <2>6, <3>2, <3>3
    <3>4. CASE i # k
      <4>1. i \in (N + 1 - n)..N
        BY <2>3, <3>4
      <4> QED
        BY <2>1, <2>6, <3>1, <3>2, <3>4, <4>1
    <3> QED
      BY <3>3, <3>4
  <2> QED
    BY <2>3, <2>6, <2>7
<1>3. N \in T
  <2> HIDE DEF T
  <2> QED BY <1>1, <1>2, AllNumbers
<1>4. P(N)
  <2> HIDE DEF P
  <2> QED BY <1>3
<1>5. N + 1 - N = 1
  OBVIOUS
<1> QED
  BY <1>4, <1>5 DEF Recurs

\* What is said, and with what level.
Levels == {Plain} \cup {LevelOf(h) : h \in DOMAIN Header}
Said == [level : Levels, text : Seq(Tokens)]

LEMMA Pieced ==
  ASSUME NEW t \in Seq(Tokens), NEW i \in Nat \ {0}, NEW k \in Int, k <= Len(t)
  PROVE  SubSeq(t, i, k) \in Seq(Tokens)
<1>1. \A j \in i..k : t[j] \in Tokens
  OBVIOUS
<1> QED
  BY <1>1, SubSeqProperties

LEMMA HeaderSays ==
  ASSUME NEW h, IsHeader(h), NEW x \in Seq(Tokens)
  PROVE  Message(LevelOf(h), x) \in Said /\ <<Message(LevelOf(h), x)>> \in Seq(Said)
<1>1. LevelOf(h) \in Levels
  BY DEF IsHeader, Levels
<1>2. Message(LevelOf(h), x) \in Said
  BY <1>1 DEF Message, Said
<1> QED
  BY <1>2

LEMMA PlainSays ==
  ASSUME NEW x \in Seq(Tokens)
  PROVE  Message(Plain, x) \in Said /\ <<Message(Plain, x)>> \in Seq(Said)
<1>1. Message(Plain, x) \in Said
  BY DEF Message, Said, Levels
<1> QED
  BY <1>1

\* What a cut token leaves is text.
LEMMA WordsAre == Words \subseteq Tokens /\ NewLine \notin Words
  BY DEF Words

LEMMA KeptIs ==
  ASSUME NEW x \in Seq(Tokens)
  PROVE  Kept(x) \in Seq(Tokens) /\ Lost(x) \in Seq(Tokens)
<1>1. CASE ~Wide(x)
  BY <1>1 DEF Kept, Lost
<1>2. CASE Wide(x)
  <2>1. PICK n, w : n = Len(x) /\ w = x[n]
    OBVIOUS
  <2>2. w \in DOMAIN Halves
    BY <1>2, <2>1 DEF Wide
  <2>3. Halves[w] \in Words \X Words
    BY <2>2, StreamsAssumption
  <2>4. Halves[w][1] \in Tokens /\ Halves[w][2] \in Tokens
    BY <2>3, WordsAre
  <2>5. PICK y, z : y = Halves[w][1] /\ z = Halves[w][2]
    OBVIOUS
  <2>6. Kept(x) = [x EXCEPT ![n] = y] /\ Lost(x) = <<z>>
    BY <1>2, <2>1, <2>5 DEF Kept, Lost
  <2>7. y \in Tokens /\ z \in Tokens /\ n \in 1..Len(x)
    BY <1>2, <2>1, <2>4, <2>5 DEF Wide
  <2>8. [x EXCEPT ![n] = y] \in Seq(Tokens)
    BY <2>7
  <2>9. <<z>> \in Seq(Tokens)
    BY <2>7
  <2> QED
    BY <2>6, <2>8, <2>9
<1> QED
  BY <1>1, <1>2

\* Only the token behind the header is changed, and that is no newline.
LEMMA UncolonedIs ==
  ASSUME NEW t \in Seq(Tokens), NEW h \in 1..Len(t), IsHeader(t[h]), Multiline(t, h)
  PROVE  /\ Uncoloned(t, h) \in Seq(Tokens) /\ Len(Uncoloned(t, h)) = Len(t)
         /\ \A j \in 1..Len(t) : j # h + 1 => Uncoloned(t, h)[j] = t[j]
         /\ \A j \in 1..Len(t) : t[j] = NewLine => Uncoloned(t, h)[j] = NewLine
<1>1. CASE Header[t[h]].multiline
  BY <1>1 DEF Uncoloned
<1>2. CASE ~Header[t[h]].multiline
  <2>1. PICK k, w : k = h + 1 /\ w = t[k]
    OBVIOUS
  <2>2. h < Len(t) /\ w \in DOMAIN Uncolon
    BY <1>2, <2>1 DEF Multiline
  <2>3. Uncolon[w] \in Tokens /\ w # NewLine
    BY <2>2, WordsAre, StreamsAssumption DEF NewLine, Colons
  <2>4. Uncoloned(t, h) = [t EXCEPT ![k] = Uncolon[w]] /\ k \in 1..Len(t)
    BY <1>2, <2>1, <2>2 DEF Uncoloned
  <2> QED
    BY <2>1, <2>3, <2>4
<1> QED
  BY <1>1, <1>2

LEMMA BodyIs ==
  ASSUME NEW t \in Seq(Tokens), NEW h \in 1..Len(t), IsHeader(t[h]), Multiline(t, h),
         NEW k \in Int, k <= Len(t)
  PROVE  Body(t, h, k) \in Seq(Tokens)
<1>1. PICK u, i : u = Uncoloned(t, h) /\ i = h + 1
  OBVIOUS
<1>2. u \in Seq(Tokens) /\ Len(u) = Len(t) /\ i \in Nat \ {0}
  BY <1>1, UncolonedIs
<1>3. SubSeq(u, i, k) \in Seq(Tokens)
  BY <1>2, Pieced
<1> QED
  BY <1>1, <1>3 DEF Body

\* b is a part of t behind the header at h and the token after it.
LEMMA UncolonedCut ==
  ASSUME NEW t, NEW r, NEW n, NEW b, Cut(t, r, n, b), NEW h \in 1..Len(t), IsHeader(t[h]), Multiline(t, h),
         h < r
  PROVE  Cut(Uncoloned(t, h), r, n, b)
<1>1. /\ t \in Seq(Tokens) /\ r \in Nat /\ n \in Nat /\ r + n <= Len(t) /\ Len(t) \in Nat
      /\ b \in Seq(Tokens) /\ Len(b) = n /\ \A i \in 1..n : b[i] = t[r + i]
  BY DEF Cut
<1>2. PICK u : u = Uncoloned(t, h)
  OBVIOUS
<1>3. u \in Seq(Tokens) /\ Len(u) = Len(t) /\ \A j \in 1..Len(t) : j # h + 1 => u[j] = t[j]
  BY <1>1, <1>2, UncolonedIs
<1>4. ASSUME NEW i \in 1..n PROVE b[i] = u[r + i]
  <2>1. PICK j : j = r + i
    OBVIOUS
  <2>2. j \in 1..Len(t) /\ j # h + 1
    BY <1>1, <2>1
  <2> QED
    BY <1>1, <1>3, <2>1, <2>2
<1> QED
  BY <1>1, <1>2, <1>3, <1>4 DEF Cut

LEMMA MultilineShifted ==
  ASSUME NEW t, NEW r, NEW n, NEW b, Cut(t, r, n, b), AtLine(t, r, n), NEW i \in 1..n, IsHeader(b[i])
  PROVE  Multiline(b, i) <=> Multiline(t, r + i)
<1>1. /\ t \in Seq(Tokens) /\ r \in Nat /\ n \in Nat /\ r + n <= Len(t) /\ Len(t) \in Nat
      /\ b \in Seq(Tokens) /\ Len(b) = n /\ \A j \in 1..n : b[j] = t[r + j]
  BY DEF Cut
<1>2. PICK j, k : j = r + i /\ k = i + 1
  OBVIOUS
<1>3. b[i] = t[j]
  BY <1>1, <1>2
<1>4. CASE i < n
  <2>1. k \in 1..n /\ r + k = j + 1 /\ j < Len(t) /\ i < Len(b)
    BY <1>1, <1>2, <1>4
  <2>2. b[k] = t[j + 1]
    BY <1>1, <2>1
  <2> QED
    BY <1>2, <1>3, <2>1, <2>2 DEF Multiline
<1>5. CASE ~(i < n)
  <2>1. i = n /\ n # 0 /\ ~(i < Len(b)) /\ j = r + n
    BY <1>1, <1>2, <1>5
  <2>2. t[j] # NewLine
    BY <1>3, StreamsAssumption DEF IsHeader
  <2>3. r + n = Len(t)
    BY <2>1, <2>2 DEF AtLine
  <2>4. ~(j < Len(t))
    BY <1>1, <2>1, <2>3
  <2> QED
    BY <1>2, <1>3, <2>1, <2>4 DEF Multiline
<1> QED
  BY <1>4, <1>5

\* The body of a message of b is that of t.
LEMMA BodyShifted ==
  ASSUME NEW t, NEW r, NEW n, NEW b, Cut(t, r, n, b), NEW i \in 1..n, IsHeader(b[i]), Multiline(b, i),
         Multiline(t, r + i), NEW k \in 0..n
  PROVE  Body(b, i, k) = Body(t, r + i, r + k) /\ Body(b, i, k) \in Seq(Tokens)
<1>1. /\ t \in Seq(Tokens) /\ r \in Nat /\ n \in Nat /\ r + n <= Len(t) /\ Len(t) \in Nat
      /\ b \in Seq(Tokens) /\ Len(b) = n /\ \A j \in 1..n : b[j] = t[r + j]
  BY DEF Cut
<1>2. PICK h, q, u, v : h = r + i /\ q = i + 1 /\ u = Uncoloned(t, h) /\ v = Uncoloned(b, i)
  OBVIOUS
<1>3. h \in 1..Len(t) /\ b[i] = t[h] /\ q \in 1..(n + 1) /\ r + q = h + 1
  BY <1>1, <1>2
<1>4. u \in Seq(Tokens) /\ Len(u) = Len(t) /\ \A j \in 1..Len(t) : j # h + 1 => u[j] = t[j]
  BY <1>1, <1>2, <1>3, UncolonedIs
<1>5. v \in Seq(Tokens) /\ Len(v) = n /\ \A j \in 1..n : j # q => v[j] = b[j]
  BY <1>1, <1>2, UncolonedIs
<1>6. ASSUME NEW j \in 1..n PROVE v[j] = u[r + j]
  <2>1. PICK l : l = r + j
    OBVIOUS
  <2>2. l \in 1..Len(t) /\ (j # q => l # h + 1) /\ b[j] = t[l] /\ (j = q => l = h + 1)
    BY <1>1, <1>2, <2>1
  <2>3. CASE j # q
    BY <1>4, <1>5, <2>1, <2>2, <2>3
  <2>4. CASE j = q /\ Header[b[i]].multiline
    BY <1>2, <1>3, <2>1, <2>2, <2>4 DEF Uncoloned
  <2>5. CASE j = q /\ ~Header[b[i]].multiline
    <3>1. v = [b EXCEPT ![q] = Uncolon[b[q]]] /\ u = [t EXCEPT ![l] = Uncolon[t[l]]]
      BY <1>2, <1>3, <2>2, <2>5 DEF Uncoloned
    <3> QED
      BY <1>1, <2>1, <2>2, <2>5, <3>1
  <2> QED
    BY <2>3, <2>4, <2>5
<1>7. Cut(u, r, n, v)
  BY <1>1, <1>4, <1>5, <1>6 DEF Cut
<1>8. SubSeq(v, q, k) = SubSeq(u, r + q, r + k) /\ SubSeq(v, q, k) \in Seq(Tokens)
  BY <1>3, <1>7, SubSeqShifted
<1> QED
  BY <1>2, <1>3, <1>8 DEF Body

-----------------------------------------------------------------------------
(* The lines of a text                                                       *)

LinesBody(t, g, i) ==
  LET next == NextLine(t, i)
      end == End(t, i + 1)
      line == SubSeq(t, i + 1, next - 1) IN
  IF i > Len(t) THEN <<>>
  ELSE IF ~IsHeader(t[i])
  THEN <<Message(Plain, SubSeq(t, i, next - 1))>> \o g[next]
  ELSE IF ~Multiline(t, i)
  THEN <<Message(LevelOf(t[i]), Kept(line)), Message(Plain, Lost(line))>> \o g[next]
  ELSE IF end = 0 THEN <<>>
  ELSE <<Message(LevelOf(t[i]), Body(t, i, end - 1))>> \o g[end + 3]

\* Where it goes on.
LEMMA LaterLines ==
  ASSUME NEW t \in Seq(Tokens), NEW i \in 1..Len(t)
  PROVE  /\ NextLine(t, i) \in (i + 1)..(Len(t) + 1)
         /\ End(t, i + 1) = 0 \/ End(t, i + 1) + 3 \in (i + 1)..(Len(t) + 1)
         /\ End(t, i + 1) \in 0..Len(t)
<1>1. i \in 1..(Len(t) + 1) /\ i + 1 \in Nat \ {0} /\ Len(t) \in Nat
  OBVIOUS
<1>2. NextLine(t, i) \in 1..(Len(t) + 1) /\ (i <= Len(t) => NextLine(t, i) > i)
  BY <1>1, NextLineIs
<1>3. PICK e : e = End(t, i + 1)
  OBVIOUS
<1>4. e = 0 \/ e \in (i + 1)..(Len(t) - 2)
  BY <1>1, <1>3, EndIs
<1>5. e = 0 \/ e + 3 \in (i + 1)..(Len(t) + 1)
  BY <1>1, <1>4
<1>6. e \in 0..Len(t)
  BY <1>1, <1>4
<1> QED
  BY <1>1, <1>2, <1>3, <1>5, <1>6

LEMMA LinesBodyIs ==
  ASSUME NEW t \in Seq(Tokens), NEW i \in 1..(Len(t) + 1), NEW g, NEW h,
         \A j \in (i + 1)..(Len(t) + 1) : g[j] = h[j] /\ g[j] \in Seq(Said)
  PROVE  LinesBody(t, g, i) = LinesBody(t, h, i) /\ LinesBody(t, g, i) \in Seq(Said)
<1>1. CASE i > Len(t)
  BY <1>1 DEF LinesBody
<1>2. CASE i <= Len(t)
  <2>1. PICK next, end : next = NextLine(t, i) /\ end = End(t, i + 1)
    OBVIOUS
  <2>2. /\ next \in (i + 1)..(Len(t) + 1)
        /\ end = 0 \/ end + 3 \in (i + 1)..(Len(t) + 1)
        /\ end \in 0..Len(t)
    <3>1. i \in 1..Len(t)
      BY <1>2
    <3> QED
      BY <2>1, <3>1, LaterLines
  <2>3. /\ next - 1 \in Int /\ next - 1 <= Len(t) /\ end - 1 \in Int /\ end - 1 <= Len(t) /\ i \in Nat \ {0}
        /\ i + 1 \in Nat \ {0} /\ Len(t) \in Nat /\ next \in 1..(Len(t) + 1)
        /\ end # 0 => end + 3 \in 1..(Len(t) + 1)
    BY <2>2
  <2>4. /\ SubSeq(t, i, next - 1) \in Seq(Tokens) /\ SubSeq(t, i + 1, next - 1) \in Seq(Tokens)
        /\ IsHeader(t[i]) /\ Multiline(t, i) => Body(t, i, end - 1) \in Seq(Tokens)
    BY <1>2, <2>3, Pieced, BodyIs
  <2>5. g[next] = h[next] /\ g[next] \in Seq(Said)
    BY <2>2, <2>3
  <2>6. end # 0 => g[end + 3] = h[end + 3] /\ g[end + 3] \in Seq(Said)
    BY <2>2, <2>3
  <2>7. CASE ~IsHeader(t[i])
    <3>1. <<Message(Plain, SubSeq(t, i, next - 1))>> \in Seq(Said)
      BY <2>4, PlainSays
    <3> QED
      BY <1>2, <2>1, <2>3, <2>5, <2>7, <3>1, ConcatProperties DEF LinesBody
  <2>8. CASE IsHeader(t[i]) /\ ~Multiline(t, i)
    <3>1. PICK line : line = SubSeq(t, i + 1, next - 1)
      OBVIOUS
    <3>2. PICK ms : ms = <<Message(LevelOf(t[i]), Kept(line)), Message(Plain, Lost(line))>>
      OBVIOUS
    <3>3. ms \in Seq(Said)
      <4>1. Kept(line) \in Seq(Tokens) /\ Lost(line) \in Seq(Tokens)
        BY <2>4, <3>1, KeptIs
      <4>2. Message(LevelOf(t[i]), Kept(line)) \in Said /\ Message(Plain, Lost(line)) \in Said
        BY <2>8, <4>1, HeaderSays, PlainSays
      <4> QED
        BY <3>2, <4>2
    <3>4. ASSUME NEW f PROVE LinesBody(t, f, i) = ms \o f[next]
      <4>1. LinesBody(t, f, i) =
              <<Message(LevelOf(t[i]), Kept(SubSeq(t, i + 1, NextLine(t, i) - 1))),
                Message(Plain, Lost(SubSeq(t, i + 1, NextLine(t, i) - 1)))>> \o f[NextLine(t, i)]
        <5>1. ~(i > Len(t))
          BY <1>2, <2>3
        <5> QED
          BY <2>8, <5>1, Zenon DEF LinesBody
      <4> QED
        BY <2>1, <3>1, <3>2, <4>1, Zenon
    <3>5. LinesBody(t, g, i) = ms \o g[next] /\ LinesBody(t, h, i) = ms \o h[next]
      BY <3>4
    <3>6. PICK x : x = g[next]
      OBVIOUS
    <3>7. ms \o x \in Seq(Said)
      BY <2>5, <3>3, <3>6, ConcatProperties
    <3> QED
      BY <2>5, <3>5, <3>6, <3>7
  <2>9. CASE IsHeader(t[i]) /\ Multiline(t, i) /\ end = 0
    BY <1>2, <2>1, <2>3, <2>9 DEF LinesBody
  <2>10. CASE IsHeader(t[i]) /\ Multiline(t, i) /\ end # 0
    <3>1. <<Message(LevelOf(t[i]), Body(t, i, end - 1))>> \in Seq(Said)
      BY <2>4, <2>10, HeaderSays
    <3> QED
      BY <1>2, <2>1, <2>3, <2>6, <2>10, <3>1, ConcatProperties DEF LinesBody
  <2> QED
    BY <2>7, <2>8, <2>9, <2>10
<1> QED
  BY <1>1, <1>2

LEMMA LinesFromIs ==
  ASSUME NEW t \in Seq(Tokens)
  PROVE  /\ LinesFrom(t) \in [1..(Len(t) + 1) -> Seq(Said)]
         /\ \A i \in 1..(Len(t) + 1) : LinesFrom(t)[i] = LinesBody(t, LinesFrom(t), i)
<1>1. PICK N, S : N = Len(t) + 1 /\ S = Seq(Said)
  OBVIOUS
<1>2. N \in Nat /\ <<>> \in S
  BY <1>1
<1>3. ASSUME NEW i \in 1..N, NEW g, NEW h, \A j \in (i + 1)..N : g[j] = h[j] /\ g[j] \in S
      PROVE  LinesBody(t, g, i) = LinesBody(t, h, i) /\ LinesBody(t, g, i) \in S
  BY <1>1, <1>3, LinesBodyIs
<1>4. PICK G : G = [x \in (1..N) \X [1..N -> S] |-> LinesBody(t, x[2], x[1])]
  OBVIOUS
<1>5. /\ G \in [(1..N) \X [1..N -> S] -> S]
      /\ \A i \in 1..N : \A g \in [1..N -> S] : G[<<i, g>>] = LinesBody(t, g, i)
  <2>1. ASSUME NEW i \in 1..N, NEW g \in [1..N -> S] PROVE LinesBody(t, g, i) \in S
    BY <1>2, <1>3
  <2> QED
    BY <1>4, <2>1
<1>6. PICK f \in [1..N -> S] : \A i \in 1..N : f[i] = G[<<i, f>>]
  <2>1. ASSUME NEW i \in 1..N, NEW g \in [1..N -> S], NEW h \in [1..N -> S],
               \A j \in (i + 1)..N : g[j] = h[j]
        PROVE  G[<<i, g>>] = G[<<i, h>>]
    <3>1. \A j \in (i + 1)..N : g[j] = h[j] /\ g[j] \in S
      BY <1>2, <2>1
    <3>2. LinesBody(t, g, i) = LinesBody(t, h, i)
      BY <1>3, <3>1
    <3> QED
      BY <1>5, <3>2
  <2> QED
    <3>1. LaterOnly(N, S, G)
      BY <2>1 DEF LaterOnly
    <3>2. Recurs(N, S, G)
      BY <1>2, <1>5, <3>1, RecursionDown
    <3> QED
      BY <3>2 DEF Recurs
<1>7. f = [i \in 1..(Len(t) + 1) |-> LinesBody(t, f, i)]
  BY <1>1, <1>5, <1>6
<1>8. LinesFrom(t) = [i \in 1..(Len(t) + 1) |-> LinesBody(t, LinesFrom(t), i)]
  <2> DEFINE P(s) == s = [i \in 1..(Len(t) + 1) |-> LinesBody(t, s, i)]
  <2>1. P(CHOOSE s : P(s))
    <3>1. P(f)
      BY <1>7
    <3> HIDE DEF P
    <3> QED
      BY <3>1, Zenon
  <2>2. LinesFrom(t) = CHOOSE s : P(s)
    BY Zenon DEF LinesFrom, LinesBody
  <2> QED
    BY <2>1, <2>2, Zenon
<1>9. PICK L : L = LinesFrom(t)
  OBVIOUS
<1>10. DOMAIN L = 1..N /\ \A i \in 1..N : L[i] = LinesBody(t, L, i)
  BY <1>1, <1>8, <1>9
<1>11. \A i \in 1..N : L[i] = f[i]
  <2> DEFINE P(n) == \A i \in (N + 1 - n)..N : L[i] = f[i]
             T == {n \in Nat : n <= N => P(n)}
  <2>1. 0 \in T
    BY <1>2
  <2>2. ASSUME NEW n \in Nat, n \in T PROVE n + 1 \in T
    <3> SUFFICES ASSUME n + 1 <= N PROVE P(n + 1)
      <4> HIDE DEF P
      <4> QED OBVIOUS
    <3>1. P(n)
      <4> HIDE DEF P
      <4> QED BY <1>2, <2>2
    <3>2. PICK k : k = N - n
      OBVIOUS
    <3>3. k \in 1..N /\ N + 1 - n = k + 1 /\ N + 1 - (n + 1) = k
      BY <1>2, <3>2
    <3>4. \A j \in (k + 1)..N : f[j] = L[j] /\ f[j] \in S
      BY <1>2, <3>1, <3>3
    <3>5. f[k] = LinesBody(t, f, k) /\ L[k] = LinesBody(t, L, k)
      BY <1>5, <1>6, <1>10, <3>3
    <3>6. f[k] = L[k]
      BY <1>3, <3>3, <3>4, <3>5
    <3> QED
      BY <1>2, <3>1, <3>3, <3>6
  <2>3. P(N)
    <3>1. N \in T
      <4> HIDE DEF T
      <4> QED BY <1>2, <2>1, <2>2, AllNumbers
    <3> HIDE DEF P
    <3> QED BY <3>1
  <2>4. N + 1 - N = 1
    BY <1>2
  <2> QED
    BY <2>3, <2>4
<1>12. L \in [1..N -> S]
  <2>1. L = [i \in 1..(Len(t) + 1) |-> LinesBody(t, L, i)]
    BY <1>8, <1>9
  <2>2. \A i \in 1..N : L[i] \in S
    BY <1>11
  <2> QED
    BY <1>1, <2>1, <2>2
<1> QED
  BY <1>1, <1>9, <1>10, <1>12

-----------------------------------------------------------------------------
(* The parts of a buffer                                                     *)

Part == [plain : Seq(Tokens), out : Seq(Said), multi : Seq(Said)]
NoPart == [plain |-> <<>>, out |-> <<>>, multi |-> NoMulti]

PartsBody(t, g, i) ==
  LET next == NextLine(t, i)
      end == End(t, i + 1)
      line == SubSeq(t, i + 1, next - 1)
      after == NextLine(t, end + 3) IN
  IF i > Len(t) THEN [plain |-> <<>>, out |-> <<>>, multi |-> NoMulti]
  ELSE IF ~IsHeader(t[i]) THEN TextThen(SubSeq(t, i, next - 1), g[next])
  ELSE IF ~Multiline(t, i)
  THEN MessageThen(Message(LevelOf(t[i]), Kept(line)), TextThen(Lost(line), g[next]))
  ELSE IF end = 0
  THEN [plain |-> <<>>, out |-> <<>>,
        multi |-> <<Message(LevelOf(t[i]), Body(t, i, Len(t)))>>]
  ELSE MessageThen(Message(LevelOf(t[i]), Body(t, i, end - 1)),
                   TextThen(SubSeq(t, end + 3, after - 1), g[after]))

LEMMA FlushIs == ASSUME NEW p \in Part PROVE Flush(p) \in Seq(Said)
<1>1. p.plain \in Seq(Tokens) /\ p.out \in Seq(Said)
  BY DEF Part
<1>2. (IF p.plain = <<>> THEN <<>> ELSE <<Message(Plain, p.plain)>>) \in Seq(Said)
  BY <1>1, PlainSays
<1> QED
  BY <1>1, <1>2, ConcatProperties DEF Flush

LEMMA TextThenIs == ASSUME NEW p \in Part, NEW x \in Seq(Tokens) PROVE TextThen(x, p) \in Part
<1>1. p.plain \in Seq(Tokens) /\ p.out \in Seq(Said) /\ p.multi \in Seq(Said)
  BY DEF Part
<1>2. x \o p.plain \in Seq(Tokens)
  BY <1>1, ConcatProperties
<1> QED
  BY <1>1, <1>2 DEF TextThen, Part

LEMMA MessageThenIs == ASSUME NEW p \in Part, NEW m \in Said PROVE MessageThen(m, p) \in Part
<1>1. p.multi \in Seq(Said) /\ Flush(p) \in Seq(Said) /\ <<m>> \in Seq(Said)
  BY FlushIs DEF Part
<1>2. <<m>> \o Flush(p) \in Seq(Said)
  BY <1>1, ConcatProperties
<1> QED
  BY <1>1, <1>2 DEF MessageThen, Part

LEMMA PartsBodyIs ==
  ASSUME NEW t \in Seq(Tokens), NEW i \in 1..(Len(t) + 1), NEW g, NEW h,
         \A j \in (i + 1)..(Len(t) + 1) : g[j] = h[j] /\ g[j] \in Part
  PROVE  PartsBody(t, g, i) = PartsBody(t, h, i) /\ PartsBody(t, g, i) \in Part
<1>0. NoMulti \in Seq(Said) /\ <<>> \in Seq(Said) /\ <<>> \in Seq(Tokens)
  BY DEF NoMulti
<1>1. CASE i > Len(t)
  BY <1>0, <1>1 DEF PartsBody, Part
<1>2. CASE i <= Len(t)
  <2>1. PICK next, end, after : next = NextLine(t, i) /\ end = End(t, i + 1) /\ after = NextLine(t, end + 3)
    OBVIOUS
  <2>2. /\ next \in (i + 1)..(Len(t) + 1)
        /\ end = 0 \/ end + 3 \in (i + 1)..(Len(t) + 1)
        /\ end \in 0..Len(t)
    <3>1. i \in 1..Len(t)
      BY <1>2
    <3> QED
      BY <2>1, <3>1, LaterLines
  <2>3. /\ next - 1 \in Int /\ next - 1 <= Len(t) /\ end - 1 \in Int /\ end - 1 <= Len(t) /\ i \in Nat \ {0}
        /\ i + 1 \in Nat \ {0} /\ Len(t) \in Nat /\ next \in 1..(Len(t) + 1) /\ end + 3 \in Nat \ {0}
        /\ end # 0 => end + 3 \in 1..(Len(t) + 1)
    BY <2>2
  <2>4. end # 0 => /\ after \in (i + 1)..(Len(t) + 1) /\ after - 1 \in Int /\ after - 1 <= Len(t)
    <3> SUFFICES ASSUME end # 0
                 PROVE  /\ after \in (i + 1)..(Len(t) + 1) /\ after - 1 \in Int /\ after - 1 <= Len(t)
      OBVIOUS
    <3>1. NextLine(t, end + 3) \in 1..(Len(t) + 1) /\ NextLine(t, end + 3) >= end + 3
      BY <2>3, NextLineIs
    <3>2. PICK N : N = Len(t)
      OBVIOUS
    <3>3. /\ after \in 1..(N + 1) /\ after >= end + 3 /\ end + 3 \in (i + 1)..(N + 1)
          /\ N \in Nat /\ end \in Nat /\ i \in Nat
      BY <2>1, <2>2, <2>3, <3>1, <3>2
    <3>4. after \in (i + 1)..(N + 1) /\ after - 1 \in Int /\ after - 1 <= N
      BY <3>3
    <3> QED
      BY <3>2, <3>4
  <2>5. /\ SubSeq(t, i, next - 1) \in Seq(Tokens) /\ SubSeq(t, i + 1, next - 1) \in Seq(Tokens)
        /\ IsHeader(t[i]) /\ Multiline(t, i) =>
              Body(t, i, end - 1) \in Seq(Tokens) /\ Body(t, i, Len(t)) \in Seq(Tokens)
        /\ end # 0 => SubSeq(t, end + 3, after - 1) \in Seq(Tokens)
    <3>1. SubSeq(t, i, next - 1) \in Seq(Tokens) /\ SubSeq(t, i + 1, next - 1) \in Seq(Tokens)
      BY <2>3, Pieced
    <3>2. IsHeader(t[i]) /\ Multiline(t, i) =>
            Body(t, i, end - 1) \in Seq(Tokens) /\ Body(t, i, Len(t)) \in Seq(Tokens)
      BY <1>2, <2>3, BodyIs
    <3>3. end # 0 => SubSeq(t, end + 3, after - 1) \in Seq(Tokens)
      BY <2>3, <2>4, Pieced
    <3> QED
      BY <3>1, <3>2, <3>3
  <2>6. g[next] = h[next] /\ g[next] \in Part
    BY <2>2
  <2>7. end # 0 => g[after] = h[after] /\ g[after] \in Part
    BY <2>4
  <2>8. CASE ~IsHeader(t[i])
    <3>1. TextThen(SubSeq(t, i, next - 1), g[next]) \in Part
      BY <2>5, <2>6, TextThenIs
    <3> QED
      BY <1>2, <2>1, <2>3, <2>6, <2>8, <3>1 DEF PartsBody
  <2>9. CASE IsHeader(t[i]) /\ ~Multiline(t, i)
    <3>1. PICK line, m : line = SubSeq(t, i + 1, next - 1) /\ m = Message(LevelOf(t[i]), Kept(line))
      OBVIOUS
    <3>2. Kept(line) \in Seq(Tokens) /\ Lost(line) \in Seq(Tokens)
      BY <2>5, <3>1, KeptIs
    <3>3. m \in Said
      BY <2>9, <3>1, <3>2, HeaderSays
    <3>4. MessageThen(m, TextThen(Lost(line), g[next])) \in Part
      BY <2>6, <3>2, <3>3, TextThenIs, MessageThenIs
    <3> QED
      BY <1>2, <2>1, <2>3, <2>6, <2>9, <3>1, <3>4 DEF PartsBody
  <2>10. CASE IsHeader(t[i]) /\ Multiline(t, i) /\ end = 0
    <3>1. <<Message(LevelOf(t[i]), Body(t, i, Len(t)))>> \in Seq(Said)
      BY <2>5, <2>10, HeaderSays
    <3> QED
      BY <1>0, <1>2, <2>1, <2>3, <2>10, <3>1 DEF PartsBody, Part
  <2>11. CASE IsHeader(t[i]) /\ Multiline(t, i) /\ end # 0
    <3>1. Message(LevelOf(t[i]), Body(t, i, end - 1)) \in Said
      BY <2>5, <2>11, HeaderSays
    <3>2. TextThen(SubSeq(t, end + 3, after - 1), g[after]) \in Part
      BY <2>5, <2>7, <2>11, TextThenIs
    <3>3. MessageThen(Message(LevelOf(t[i]), Body(t, i, end - 1)),
                      TextThen(SubSeq(t, end + 3, after - 1), g[after])) \in Part
      BY <3>1, <3>2, MessageThenIs
    <3> QED
      BY <1>2, <2>1, <2>3, <2>7, <2>11, <3>3 DEF PartsBody
  <2> QED
    BY <2>8, <2>9, <2>10, <2>11
<1> QED
  BY <1>1, <1>2

LEMMA PartsIs ==
  ASSUME NEW t \in Seq(Tokens)
  PROVE  /\ Parts(t) \in [1..(Len(t) + 1) -> Part]
         /\ \A i \in 1..(Len(t) + 1) : Parts(t)[i] = PartsBody(t, Parts(t), i)
<1>1. PICK N, S : N = Len(t) + 1 /\ S = Part
  OBVIOUS
<1>2. N \in Nat /\ NoPart \in S
  <2>1. <<>> \in Seq(Tokens) /\ <<>> \in Seq(Said)
    OBVIOUS
  <2> QED
    BY <1>1, <2>1 DEF NoPart, NoMulti, Part
<1>3. ASSUME NEW i \in 1..N, NEW g, NEW h, \A j \in (i + 1)..N : g[j] = h[j] /\ g[j] \in S
      PROVE  PartsBody(t, g, i) = PartsBody(t, h, i) /\ PartsBody(t, g, i) \in S
  BY <1>1, <1>3, PartsBodyIs
<1>4. PICK G : G = [x \in (1..N) \X [1..N -> S] |-> PartsBody(t, x[2], x[1])]
  OBVIOUS
<1>5. /\ G \in [(1..N) \X [1..N -> S] -> S]
      /\ \A i \in 1..N : \A g \in [1..N -> S] : G[<<i, g>>] = PartsBody(t, g, i)
  <2>1. ASSUME NEW i \in 1..N, NEW g \in [1..N -> S] PROVE PartsBody(t, g, i) \in S
    <3>1. \A j \in (i + 1)..N : g[j] = g[j] /\ g[j] \in S
      BY <1>2
    <3> QED
      BY <1>3, <3>1
  <2> QED
    BY <1>4, <2>1
<1>6. PICK f \in [1..N -> S] : \A i \in 1..N : f[i] = G[<<i, f>>]
  <2>1. ASSUME NEW i \in 1..N, NEW g \in [1..N -> S], NEW h \in [1..N -> S],
               \A j \in (i + 1)..N : g[j] = h[j]
        PROVE  G[<<i, g>>] = G[<<i, h>>]
    <3>1. \A j \in (i + 1)..N : g[j] = h[j] /\ g[j] \in S
      BY <1>2, <2>1
    <3>2. PartsBody(t, g, i) = PartsBody(t, h, i)
      BY <1>3, <3>1
    <3> QED
      BY <1>5, <3>2
  <2> QED
    <3>1. LaterOnly(N, S, G)
      BY <2>1 DEF LaterOnly
    <3>2. Recurs(N, S, G)
      BY <1>2, <1>5, <3>1, RecursionDown
    <3> QED
      BY <3>2 DEF Recurs
<1>7. f = [i \in 1..(Len(t) + 1) |-> PartsBody(t, f, i)]
  BY <1>1, <1>5, <1>6
<1>8. Parts(t) = [i \in 1..(Len(t) + 1) |-> PartsBody(t, Parts(t), i)]
  <2> DEFINE P(s) == s = [i \in 1..(Len(t) + 1) |-> PartsBody(t, s, i)]
  <2>1. P(CHOOSE s : P(s))
    <3>1. P(f)
      BY <1>7
    <3> HIDE DEF P
    <3> QED
      BY <3>1, Zenon
  <2>2. Parts(t) = CHOOSE s : P(s)
    BY Zenon DEF Parts, PartsBody
  <2> QED
    BY <2>1, <2>2, Zenon
<1>9. PICK L : L = Parts(t)
  OBVIOUS
<1>10. DOMAIN L = 1..N /\ \A i \in 1..N : L[i] = PartsBody(t, L, i)
  BY <1>1, <1>8, <1>9
<1>11. \A i \in 1..N : L[i] = f[i]
  <2> DEFINE P(n) == \A i \in (N + 1 - n)..N : L[i] = f[i]
             T == {n \in Nat : n <= N => P(n)}
  <2>1. 0 \in T
    BY <1>2
  <2>2. ASSUME NEW n \in Nat, n \in T PROVE n + 1 \in T
    <3> SUFFICES ASSUME n + 1 <= N PROVE P(n + 1)
      <4> HIDE DEF P
      <4> QED OBVIOUS
    <3>1. P(n)
      <4> HIDE DEF P
      <4> QED BY <1>2, <2>2
    <3>2. PICK k : k = N - n
      OBVIOUS
    <3>3. k \in 1..N /\ N + 1 - n = k + 1 /\ N + 1 - (n + 1) = k
      BY <1>2, <3>2
    <3>4. \A j \in (k + 1)..N : f[j] = L[j] /\ f[j] \in S
      BY <1>2, <3>1, <3>3
    <3>5. f[k] = PartsBody(t, f, k) /\ L[k] = PartsBody(t, L, k)
      BY <1>5, <1>6, <1>10, <3>3
    <3>6. f[k] = L[k]
      BY <1>3, <3>3, <3>4, <3>5
    <3> QED
      BY <1>2, <3>1, <3>3, <3>6
  <2>3. P(N)
    <3>1. N \in T
      <4> HIDE DEF T
      <4> QED BY <1>2, <2>1, <2>2, AllNumbers
    <3> HIDE DEF P
    <3> QED BY <3>1
  <2>4. N + 1 - N = 1
    BY <1>2
  <2> QED
    BY <2>3, <2>4
<1>12. L \in [1..N -> S]
  <2>1. L = [i \in 1..(Len(t) + 1) |-> PartsBody(t, L, i)]
    BY <1>8, <1>9
  <2>2. \A i \in 1..N : L[i] \in S
    BY <1>11
  <2> QED
    BY <1>1, <2>1, <2>2
<1> QED
  BY <1>1, <1>9, <1>10, <1>12

-----------------------------------------------------------------------------
(* Sequences of sequences, flattened                                         *)

FlatTo(ss) ==
  LET flatten[i \in 1..Len(ss)] == IF i = 1 THEN ss[i] ELSE flatten[i-1] \o ss[i]
  IN flatten

LEMMA FlatExists ==
  ASSUME NEW S, NEW ss \in Seq(Seq(S))
  PROVE  \E g \in [1..Len(ss) -> Seq(S)] : g = [i \in 1..Len(ss) |-> IF i = 1 THEN ss[i] ELSE g[i-1] \o ss[i]]
<1>1. PICK N : N = Len(ss)
  OBVIOUS
<1>2. N \in Nat /\ \A i \in 1..N : ss[i] \in Seq(S)
  BY <1>1
<1> DEFINE P(n) == \E g \in [1..n -> Seq(S)] : \A i \in 1..n : g[i] = IF i = 1 THEN ss[i] ELSE g[i-1] \o ss[i]
           T == {n \in Nat : n <= N => P(n)}
<1>3. 0 \in T
  <2>1. [i \in 1..0 |-> <<>>] \in [1..0 -> Seq(S)] /\ 1..0 = {}
    OBVIOUS
  <2> QED
    BY <2>1
<1>4. ASSUME NEW n \in Nat, n \in T PROVE n + 1 \in T
  <2> SUFFICES ASSUME n + 1 <= N PROVE P(n + 1)
    <3> HIDE DEF P
    <3> QED OBVIOUS
  <2>1. P(n)
    <3> HIDE DEF P
    <3> QED BY <1>2, <1>4
  <2>2. PICK g \in [1..n -> Seq(S)] : \A i \in 1..n : g[i] = IF i = 1 THEN ss[i] ELSE g[i-1] \o ss[i]
    BY <2>1
  <2>3. PICK x : x = IF n + 1 = 1 THEN ss[n + 1] ELSE g[n] \o ss[n + 1]
    OBVIOUS
  <2>4. x \in Seq(S)
    <3>1. ss[n + 1] \in Seq(S)
      BY <1>2
    <3>2. n # 0 => g[n] \in Seq(S)
      BY <2>2
    <3> QED
      BY <2>3, <3>1, <3>2, ConcatProperties
  <2>5. PICK h : h = [i \in 1..(n + 1) |-> IF i = n + 1 THEN x ELSE g[i]]
    OBVIOUS
  <2>6. h \in [1..(n + 1) -> Seq(S)] /\ h[n + 1] = x /\ \A i \in 1..n : h[i] = g[i]
    BY <2>2, <2>4, <2>5
  <2>7. ASSUME NEW i \in 1..(n + 1) PROVE h[i] = IF i = 1 THEN ss[i] ELSE h[i-1] \o ss[i]
    <3>1. CASE i = n + 1
      <4>1. i # 1 => i - 1 \in 1..n /\ i - 1 = n
        BY <3>1
      <4> QED
        BY <2>3, <2>6, <3>1, <4>1
    <3>2. CASE i # n + 1
      <4>1. i \in 1..n /\ (i # 1 => i - 1 \in 1..n)
        BY <3>2
      <4> QED
        BY <2>2, <2>6, <4>1
    <3> QED
      BY <3>1, <3>2
  <2> QED
    BY <2>6, <2>7
<1>5. P(N)
  <2>1. N \in T
    <3> HIDE DEF T
    <3> QED BY <1>2, <1>3, <1>4, AllNumbers
  <2> HIDE DEF P
  <2> QED BY <1>2, <2>1
<1>6. PICK g \in [1..N -> Seq(S)] : \A i \in 1..N : g[i] = IF i = 1 THEN ss[i] ELSE g[i-1] \o ss[i]
  BY <1>5
<1>7. g = [i \in 1..N |-> IF i = 1 THEN ss[i] ELSE g[i-1] \o ss[i]]
  BY <1>6
<1> QED
  BY <1>1, <1>6, <1>7

LEMMA FlatToIs ==
  ASSUME NEW S, NEW ss \in Seq(Seq(S))
  PROVE  /\ \A i \in 1..Len(ss) : FlatTo(ss)[i] \in Seq(S)
         /\ \A i \in 1..Len(ss) : FlatTo(ss)[i] = IF i = 1 THEN ss[i] ELSE FlatTo(ss)[i-1] \o ss[i]
<1>1. PICK g \in [1..Len(ss) -> Seq(S)] : g = [i \in 1..Len(ss) |-> IF i = 1 THEN ss[i] ELSE g[i-1] \o ss[i]]
  BY FlatExists
<1>2. FlatTo(ss) = [i \in 1..Len(ss) |-> IF i = 1 THEN ss[i] ELSE FlatTo(ss)[i-1] \o ss[i]]
  <2> DEFINE P(f) == f = [i \in 1..Len(ss) |-> IF i = 1 THEN ss[i] ELSE f[i-1] \o ss[i]]
  <2>1. P(CHOOSE f : P(f))
    <3>1. P(g)
      BY <1>1
    <3> HIDE DEF P
    <3> QED
      BY <3>1, Zenon
  <2> QED
    BY <2>1, Zenon DEF FlatTo
<1>3. PICK f, N : f = FlatTo(ss) /\ N = Len(ss)
  OBVIOUS
<1>4. f = [i \in 1..N |-> IF i = 1 THEN ss[i] ELSE f[i-1] \o ss[i]]
  BY <1>2, <1>3
<1>5. N \in Nat /\ (\A i \in 1..N : ss[i] \in Seq(S)) /\ \A i \in 1..N : f[i] = IF i = 1 THEN ss[i] ELSE f[i-1] \o ss[i]
  <2>1. N \in Nat /\ \A i \in 1..N : ss[i] \in Seq(S)
    BY <1>3
  <2>2. \A i \in 1..N : f[i] = IF i = 1 THEN ss[i] ELSE f[i-1] \o ss[i]
    BY <1>4, Zenon
  <2> QED
    BY <2>1, <2>2
<1>6. \A i \in 1..N : f[i] \in Seq(S)
  <2> DEFINE T == {n \in Nat : n + 1 <= N => f[n + 1] \in Seq(S)}
  <2>1. 0 \in T
    BY <1>5
  <2>2. ASSUME NEW n \in Nat, n \in T PROVE n + 1 \in T
    <3> SUFFICES ASSUME n + 1 + 1 <= N PROVE f[n + 1 + 1] \in Seq(S)
      OBVIOUS
    <3>1. f[n + 1] \in Seq(S)
      BY <1>5, <2>2
    <3>2. n + 1 + 1 \in 1..N /\ n + 1 + 1 # 1 /\ n + 1 + 1 - 1 = n + 1
      BY <1>5
    <3>3. PICK k : k = n + 1 + 1
      OBVIOUS
    <3>4. k \in 1..N /\ k # 1 /\ k - 1 = n + 1
      BY <3>2, <3>3
    <3>5. f[k] = f[k-1] \o ss[k] /\ ss[k] \in Seq(S)
      BY <1>5, <3>4
    <3> QED
      BY <3>1, <3>3, <3>4, <3>5, ConcatProperties
  <2>3. Nat \subseteq T
    <3> HIDE DEF T
    <3> QED BY <2>1, <2>2, AllNumbers
  <2>4. \A i \in 1..N : i - 1 \in Nat /\ i - 1 + 1 = i /\ i <= N
    BY <1>5
  <2> QED
    BY <2>3, <2>4
<1> QED
  BY <1>3, <1>5, <1>6

LEMMA FlattenIs ==
  ASSUME NEW S, NEW ss \in Seq(Seq(S))
  PROVE  /\ FlattenSeq(ss) = IF Len(ss) = 0 THEN <<>> ELSE FlatTo(ss)[Len(ss)]
         /\ FlattenSeq(ss) \in Seq(S)
<1>1. FlattenSeq(ss) = IF Len(ss) = 0 THEN ss ELSE FlatTo(ss)[Len(ss)]
  BY DEF FlattenSeq, FlatTo
<1>2. Len(ss) \in Nat /\ (Len(ss) = 0 => ss = <<>>) /\ <<>> \in Seq(S)
  OBVIOUS
<1>3. Len(ss) # 0 => FlatTo(ss)[Len(ss)] \in Seq(S)
  BY <1>2, FlatToIs
<1> QED
  BY <1>1, <1>2, <1>3

LEMMA FlattenMore ==
  ASSUME NEW S, NEW ss \in Seq(Seq(S)), NEW x \in Seq(S)
  PROVE  FlattenSeq(Append(ss, x)) = FlattenSeq(ss) \o x
<1>1. PICK N, b : N = Len(ss) /\ b = Append(ss, x)
  OBVIOUS
<1>2. /\ N \in Nat /\ b \in Seq(Seq(S)) /\ Len(b) = N + 1 /\ b[N + 1] = x /\ \A i \in 1..N : b[i] = ss[i]
  BY <1>1
<1>3. FlattenSeq(b) = FlatTo(b)[N + 1]
  BY <1>2, FlattenIs
<1>4. \A i \in 1..(N + 1) : FlatTo(b)[i] = IF i = 1 THEN b[i] ELSE FlatTo(b)[i-1] \o b[i]
  BY <1>2, FlatToIs
<1>5. CASE N = 0
  <2>1. FlattenSeq(ss) = <<>> /\ FlatTo(b)[N + 1] = x
    BY <1>1, <1>2, <1>4, <1>5, FlattenIs
  <2> QED
    BY <1>1, <1>3, <2>1, ConcatEmptySeq
<1>6. CASE N # 0
  <2>1. \A i \in 1..N : FlatTo(ss)[i] = IF i = 1 THEN ss[i] ELSE FlatTo(ss)[i-1] \o ss[i]
    BY <1>1, FlatToIs
  <2>2. \A i \in 1..N : FlatTo(ss)[i] = FlatTo(b)[i]
    <3> DEFINE T == {n \in Nat : n + 1 <= N => FlatTo(ss)[n + 1] = FlatTo(b)[n + 1]}
    <3>1. 0 \in T
      BY <1>2, <1>4, <2>1
    <3>2. ASSUME NEW n \in Nat, n \in T PROVE n + 1 \in T
      <4> SUFFICES ASSUME n + 1 + 1 <= N PROVE FlatTo(ss)[n + 1 + 1] = FlatTo(b)[n + 1 + 1]
        OBVIOUS
      <4>1. FlatTo(ss)[n + 1] = FlatTo(b)[n + 1]
        BY <1>2, <3>2
      <4>2. n + 1 + 1 \in 1..N /\ n + 1 + 1 \in 1..(N + 1) /\ n + 1 + 1 # 1 /\ n + 1 + 1 - 1 = n + 1
        BY <1>2
      <4> QED
        BY <1>2, <1>4, <2>1, <4>1, <4>2
    <3>3. Nat \subseteq T
      <4> HIDE DEF T
      <4> QED BY <3>1, <3>2, AllNumbers
    <3>4. \A i \in 1..N : i - 1 \in Nat /\ i - 1 + 1 = i /\ i <= N
      BY <1>2
    <3> QED
      BY <3>3, <3>4
  <2>3. N + 1 \in 1..(N + 1) /\ N + 1 # 1 /\ N + 1 - 1 = N /\ N \in 1..N
    BY <1>2, <1>6
  <2>4. FlatTo(b)[N + 1] = FlatTo(b)[N] \o x
    <3>1. PICK k : k = N + 1
      OBVIOUS
    <3>2. k \in 1..(N + 1) /\ k # 1 /\ k - 1 = N
      BY <2>3, <3>1
    <3>3. FlatTo(b)[k] = FlatTo(b)[k-1] \o b[k]
      BY <1>4, <3>2
    <3> QED
      BY <1>2, <3>1, <3>2, <3>3
  <2>5. FlattenSeq(ss) = FlatTo(ss)[N]
    BY <1>1, <1>6, FlattenIs
  <2> QED
    BY <1>1, <1>3, <2>2, <2>3, <2>4, <2>5
<1> QED
  BY <1>5, <1>6

-----------------------------------------------------------------------------
(* Messages, whatever the reads                                              *)

\* The places of what is not a newline.
Marks(t) == {i \in DOMAIN t : t[i] # NewLine}

LEMMA TrimmedIs ==
  ASSUME NEW t \in Seq(Tokens)
  PROVE  /\ Max({0} \cup Marks(t)) \in 0..Len(t) /\ \A i \in Marks(t) : i <= Max({0} \cup Marks(t))
         /\ Trimmed(t) = SubSeq(t, 1, Max({0} \cup Marks(t))) /\ Trimmed(t) \in Seq(Tokens)
<1>1. PICK N, I : N = Len(t) /\ I = Marks(t)
  OBVIOUS
<1>2. N \in Nat /\ I \in SUBSET (1..N)
  BY <1>1 DEF Marks
<1>3. PICK x : x \in {0} \cup I /\ \A y \in {0} \cup I : x >= y
  <2>1. CASE I = {}
    BY <2>1
  <2>2. CASE I # {}
    <3>1. PICK f : f = [i \in 1..N |-> i]
      OBVIOUS
    <3>2. f \in [1..N -> Int] /\ \A i \in 1..N : f[i] = i
      BY <3>1
    <3>3. PICK i \in I : \A j \in I : f[i] >= f[j]
      BY <1>2, <2>2, <3>2, GreatestOf
    <3> QED
      BY <1>2, <3>2, <3>3
  <2> QED
    BY <2>1, <2>2
<1>4. Max({0} \cup I) = x /\ x \in 0..N
  <2>1. {0} \cup I \subseteq Int
    BY <1>2
  <2>2. PICK M : M = {0} \cup I
    OBVIOUS
  <2>3. M \subseteq Int /\ x \in M /\ \A y \in M : x >= y
    BY <1>3, <2>1, <2>2
  <2>4. Max(M) = x
    BY <2>3, MaxIs
  <2> QED
    BY <1>2, <1>3, <2>2, <2>4
<1>5. Trimmed(t) = SubSeq(t, 1, x)
  BY <1>1, <1>4 DEF Trimmed, Marks
<1>6. SubSeq(t, 1, x) \in Seq(Tokens)
  BY <1>1, <1>2, <1>4, Pieced
<1> QED
  BY <1>1, <1>3, <1>4, <1>5, <1>6

\* One more newline.
LEMMA TrimmedSame ==
  ASSUME NEW t \in Seq(Tokens), NEW u \in Seq(Tokens), Len(u) = Len(t) + 1, u[Len(t) + 1] = NewLine,
         \A i \in 1..Len(t) : u[i] = t[i]
  PROVE  Trimmed(u) = Trimmed(t)
<1>1. Marks(u) = Marks(t)
  <2>1. DOMAIN t = 1..Len(t) /\ DOMAIN u = 1..(Len(t) + 1) /\ Len(t) \in Nat
    OBVIOUS
  <2> QED
    BY <2>1 DEF Marks
<1>2. PICK x : x = Max({0} \cup Marks(t))
  OBVIOUS
<1>3. x \in 0..Len(t) /\ Trimmed(t) = SubSeq(t, 1, x) /\ Trimmed(u) = SubSeq(u, 1, x)
  BY <1>1, <1>2, TrimmedIs
<1>4. \A i \in 1..x : t[i] \in Tokens /\ u[i] \in Tokens /\ u[i] = t[i]
  BY <1>3
<1>5. PICK a, b : a = SubSeq(t, 1, x) /\ b = SubSeq(u, 1, x)
  OBVIOUS
<1>6. /\ a \in Seq(Tokens) /\ Len(a) = x /\ \A i \in 1..x : a[i] = t[i]
      /\ b \in Seq(Tokens) /\ Len(b) = x /\ \A i \in 1..x : b[i] = u[i]
  BY <1>3, <1>4, <1>5
<1> QED
  BY <1>3, <1>4, <1>5, <1>6, SeqEqual

LEMMA PiecesIs ==
  ASSUME NEW m \in Said
  PROVE  Pieces(m) \in Seq(Said)
<1>1. m = [level |-> m.level, text |-> m.text] /\ m.level \in Levels /\ m.text \in Seq(Tokens)
  BY DEF Said
<1>2. CASE m.level = Plain
  <2>1. PICK x : x = m.text
    OBVIOUS
  <2>2. x \in Seq(Tokens) /\ DOMAIN x = 1..Len(x) /\ Len(x) \in Nat
    BY <1>1, <2>1
  <2>3. ASSUME NEW i \in 1..Len(x) PROVE Message(Plain, <<x[i]>>) \in Said
    <3>1. PICK y : y = <<x[i]>>
      OBVIOUS
    <3>2. y \in Seq(Tokens)
      BY <2>2, <3>1
    <3> QED
      BY <3>1, <3>2, PlainSays
  <2>4. [i \in 1..Len(x) |-> Message(Plain, <<x[i]>>)] \in Seq(Said)
    BY <2>2, <2>3
  <2> QED
    BY <1>2, <2>1, <2>2, <2>4 DEF Pieces
<1>3. CASE m.level # Plain
  <2>1. Trimmed(m.text) \in Seq(Tokens)
    BY <1>1, TrimmedIs
  <2>2. [m EXCEPT !.text = Trimmed(@)] \in Said
    BY <1>1, <2>1 DEF Said
  <2> QED
    BY <1>3, <2>2 DEF Pieces
<1> QED
  BY <1>2, <1>3

LEMMA Joined ==
  ASSUME NEW x \in Seq(Said), NEW y \in Seq(Said), NEW z \in Seq(Said)
  PROVE  x \o y \in Seq(Said) /\ (x \o y) \o z = x \o (y \o z)
<1>1. x \o y \in Seq(Said)
  OBVIOUS
<1>2. (x \o y) \o z = x \o (y \o z)
  BY ConcatAssociative
<1> QED
  BY <1>1, <1>2

\* How plain text is cut does not matter.
LEMMA PlainPieces ==
  ASSUME NEW x \in Seq(Tokens), NEW y \in Seq(Tokens)
  PROVE  /\ Pieces(Message(Plain, x \o y)) = Pieces(Message(Plain, x)) \o Pieces(Message(Plain, y))
         /\ Pieces(Message(Plain, <<>>)) = <<>>
<1>1. \A z \in Seq(Tokens) : Pieces(Message(Plain, z)) = [i \in 1..Len(z) |-> Message(Plain, <<z[i]>>)]
  BY DEF Pieces, Message
<1>2. PICK z : z = x \o y
  OBVIOUS
<1>3. /\ z \in Seq(Tokens) /\ Len(z) = Len(x) + Len(y) /\ Len(x) \in Nat /\ Len(y) \in Nat
      /\ \A i \in 1..Len(x) : z[i] = x[i]
      /\ \A i \in 1..Len(y) : z[Len(x) + i] = y[i]
  BY <1>2
<1>4. PICK a, b, c : a = Pieces(Message(Plain, x)) /\ b = Pieces(Message(Plain, y)) /\ c = Pieces(Message(Plain, z))
  OBVIOUS
<1>5. /\ a \in Seq(Said) /\ Len(a) = Len(x) /\ \A i \in 1..Len(x) : a[i] = Message(Plain, <<x[i]>>)
      /\ b \in Seq(Said) /\ Len(b) = Len(y) /\ \A i \in 1..Len(y) : b[i] = Message(Plain, <<y[i]>>)
      /\ c \in Seq(Said) /\ Len(c) = Len(z) /\ \A i \in 1..Len(z) : c[i] = Message(Plain, <<z[i]>>)
  <2>1. /\ a = [i \in 1..Len(x) |-> Message(Plain, <<x[i]>>)]
        /\ b = [i \in 1..Len(y) |-> Message(Plain, <<y[i]>>)]
        /\ c = [i \in 1..Len(z) |-> Message(Plain, <<z[i]>>)]
    BY <1>1, <1>3, <1>4
  <2>2. a \in Seq(Said) /\ b \in Seq(Said) /\ c \in Seq(Said)
    BY <1>3, <1>4, PlainSays, PiecesIs
  <2>3. Len(x) \in Nat /\ Len(y) \in Nat /\ Len(z) \in Nat
    BY <1>3
  <2> QED
    BY <2>1, <2>2, <2>3
<1>6. PICK d : d = a \o b
  OBVIOUS
<1>7. /\ d \in Seq(Said) /\ Len(d) = Len(x) + Len(y) /\ \A i \in 1..Len(x) : d[i] = a[i]
      /\ \A i \in 1..Len(y) : d[Len(x) + i] = b[i]
  <2>1. /\ d \in Seq(Said) /\ Len(d) = Len(a) + Len(b)
        /\ \A i \in 1..(Len(a) + Len(b)) : d[i] = IF i <= Len(a) THEN a[i] ELSE b[i - Len(a)]
    <3>1. a \in Seq(Said) /\ b \in Seq(Said)
      BY <1>5
    <3>2. /\ a \o b \in Seq(Said) /\ Len(a \o b) = Len(a) + Len(b)
          /\ \A i \in 1..(Len(a) + Len(b)) : (a \o b)[i] = IF i <= Len(a) THEN a[i] ELSE b[i - Len(a)]
      BY <3>1, ConcatProperties
    <3> QED
      BY <1>6, <3>2
  <2>2. \A i \in 1..Len(x) : i \in 1..(Len(a) + Len(b)) /\ i <= Len(a)
    BY <1>3, <1>5
  <2>3. \A i \in 1..Len(y) : /\ Len(x) + i \in 1..(Len(a) + Len(b)) /\ ~(Len(x) + i <= Len(a))
                              /\ Len(x) + i - Len(a) = i
    BY <1>3, <1>5
  <2> QED
    BY <1>5, <2>1, <2>2, <2>3
<1>8. ASSUME NEW i \in 1..Len(d) PROVE c[i] = d[i]
  <2>1. i \in 1..Len(z) /\ c[i] = Message(Plain, <<z[i]>>)
    <3>1. i \in 1..Len(z)
      BY <1>3, <1>7
    <3> QED
      BY <1>5, <3>1
  <2>2. CASE i \in 1..Len(x)
    <3>1. z[i] = x[i]
      BY <1>3, <2>2
    <3>2. d[i] = a[i] /\ a[i] = Message(Plain, <<x[i]>>)
      BY <1>5, <1>7, <2>2
    <3> QED
      BY <2>1, <3>1, <3>2
  <2>3. CASE i \notin 1..Len(x)
    <3>1. PICK k : k = i - Len(x)
      OBVIOUS
    <3>2. k \in 1..Len(y) /\ i = Len(x) + k
      BY <1>3, <2>1, <2>3, <3>1
    <3>3. z[i] = y[k]
      BY <1>3, <3>2
    <3>4. d[i] = b[k] /\ b[k] = Message(Plain, <<y[k]>>)
      BY <1>5, <1>7, <3>2
    <3> QED
      BY <2>1, <3>3, <3>4
  <2> QED
    BY <2>2, <2>3
<1>9. c = d
  BY <1>3, <1>5, <1>7, <1>8, SeqEqual
<1>10. Pieces(Message(Plain, <<>>)) = <<>>
  <2>1. PICK e : e = <<>>
    OBVIOUS
  <2>2. e \in Seq(Tokens) /\ Len(e) = 0
    BY <2>1
  <2>3. Pieces(Message(Plain, e)) = [i \in 1..0 |-> Message(Plain, <<e[i]>>)]
    BY <1>1, <2>2
  <2>4. [i \in 1..0 |-> Message(Plain, <<e[i]>>)] = <<>>
    OBVIOUS
  <2> QED
    BY <2>1, <2>3, <2>4
<1> QED
  BY <1>2, <1>4, <1>6, <1>9, <1>10

LEMMA NormalMore ==
  ASSUME NEW ms \in Seq(Said), NEW m \in Said
  PROVE  Normal(ms) \in Seq(Said) /\ Normal(Append(ms, m)) = Normal(ms) \o Pieces(m)
<1>1. PICK N, b : N = Len(ms) /\ b = Append(ms, m)
  OBVIOUS
<1>2. /\ N \in Nat /\ DOMAIN ms = 1..N /\ DOMAIN b = 1..(N + 1) /\ b[N + 1] = m
      /\ \A i \in 1..N : b[i] = ms[i] /\ ms[i] \in Said
  BY <1>1
<1>3. PICK p, q : p = [i \in DOMAIN ms |-> Pieces(ms[i])] /\ q = [i \in DOMAIN b |-> Pieces(b[i])]
  OBVIOUS
<1>4. Pieces(m) \in Seq(Said) /\ \A i \in 1..N : Pieces(ms[i]) \in Seq(Said)
  BY <1>2, PiecesIs
<1>5. p \in Seq(Seq(Said)) /\ Len(p) = N
  BY <1>2, <1>3, <1>4
<1>6. q = Append(p, Pieces(m))
  <2>1. PICK a : a = Append(p, Pieces(m))
    OBVIOUS
  <2>2. a \in Seq(Seq(Said)) /\ Len(a) = N + 1 /\ a[N + 1] = Pieces(m) /\ \A i \in 1..N : a[i] = p[i]
    BY <1>2, <1>4, <1>5, <2>1
  <2>3. \A i \in 1..(N + 1) : q[i] \in Seq(Said)
    BY <1>2, <1>3, <1>4
  <2>4. q \in Seq(Seq(Said)) /\ Len(q) = N + 1
    <3>1. PICK S, M : S = Seq(Said) /\ M = N + 1
      OBVIOUS
    <3>2. M \in Nat /\ q \in [1..M -> S]
      BY <1>2, <1>3, <2>3, <3>1
    <3>3. q \in Seq(S) /\ Len(q) = M
      BY <3>2
    <3> QED
      BY <3>1, <3>3
  <2>5. \A i \in 1..(N + 1) : q[i] = a[i]
    BY <1>2, <1>3, <2>2
  <2> QED
    BY <1>2, <2>1, <2>2, <2>4, <2>5, SeqEqual
<1>7. Normal(ms) = FlattenSeq(p) /\ Normal(b) = FlattenSeq(q)
  BY <1>3 DEF Normal
<1> QED
  BY <1>1, <1>4, <1>5, <1>6, <1>7, FlattenIs, FlattenMore

LEMMA NormalNone == Normal(<<>>) = <<>> /\ <<>> \in Seq(Said)
<1>1. [i \in DOMAIN <<>> |-> Pieces(<<>>[i])] = <<>>
  OBVIOUS
<1> QED
  BY <1>1 DEF Normal, FlattenSeq

LEMMA NormalIs == ASSUME NEW ms \in Seq(Said) PROVE Normal(ms) \in Seq(Said)
<1>1. CASE Said = {}
  <2>1. ms = <<>>
    BY <1>1
  <2> QED
    BY <2>1, NormalNone
<1>2. CASE Said # {}
  <2>1. PICK m \in Said : TRUE
    BY <1>2
  <2> QED
    BY <2>1, NormalMore
<1> QED
  BY <1>1, <1>2

LEMMA NormalOne == ASSUME NEW m \in Said PROVE Normal(<<m>>) = Pieces(m)
<1>1. PICK e : e = <<>>
  OBVIOUS
<1>2. e \in Seq(Said) /\ Normal(e) = <<>>
  BY <1>1, NormalNone
<1>3. Append(e, m) = <<m>>
  BY <1>1
<1>4. Normal(Append(e, m)) = Normal(e) \o Pieces(m) /\ Pieces(m) \in Seq(Said)
  BY <1>2, NormalMore, PiecesIs
<1> QED
  BY <1>2, <1>3, <1>4, ConcatEmptySeq

LEMMA NormalStep ==
  ASSUME NEW a \in Seq(Said), NEW d \in Seq(Said), NEW e \in Said, Normal(a \o d) = Normal(a) \o Normal(d)
  PROVE  Normal(a \o Append(d, e)) = Normal(a) \o Normal(Append(d, e))
<1>1. a \o d \in Seq(Said) /\ a \o Append(d, e) = Append(a \o d, e)
  OBVIOUS
<1>2. Normal(a \o Append(d, e)) = Normal(a \o d) \o Pieces(e)
  BY <1>1, NormalMore
<1>3. Normal(Append(d, e)) = Normal(d) \o Pieces(e)
  BY NormalMore
<1>4. Normal(a) \in Seq(Said) /\ Normal(d) \in Seq(Said) /\ Pieces(e) \in Seq(Said)
  BY NormalIs, PiecesIs
<1>5. PICK x \in Seq(Said), y \in Seq(Said), z \in Seq(Said) : x = Normal(a) /\ y = Normal(d) /\ z = Pieces(e)
  BY <1>4
<1>6. (x \o y) \o z = x \o (y \o z)
  BY Joined, SMTT(30)
<1> QED
  BY <1>2, <1>3, <1>5, <1>6

LEMMA NormalConcat ==
  ASSUME NEW a \in Seq(Said), NEW b \in Seq(Said)
  PROVE  Normal(a \o b) = Normal(a) \o Normal(b)
<1> DEFINE T == {n \in Nat : \A c \in Seq(Said) : Len(c) = n => Normal(a \o c) = Normal(a) \o Normal(c)}
<1>1. 0 \in T
  <2> SUFFICES ASSUME NEW c \in Seq(Said), Len(c) = 0 PROVE Normal(a \o c) = Normal(a) \o Normal(c)
    OBVIOUS
  <2>1. c = <<>> /\ Normal(c) = <<>> /\ Normal(a) \in Seq(Said)
    BY NormalNone, NormalIs
  <2> QED
    BY <2>1, ConcatEmptySeq
<1>2. ASSUME NEW n \in Nat, n \in T PROVE n + 1 \in T
  <2> SUFFICES ASSUME NEW c \in Seq(Said), Len(c) = n + 1 PROVE Normal(a \o c) = Normal(a) \o Normal(c)
    OBVIOUS
  <2>1. c # <<>>
    OBVIOUS
  <2>2. PICK d \in Seq(Said), e \in Said : c = Append(d, e)
    BY <2>1, SequenceEmptyOrAppend
  <2>3. Normal(a \o d) = Normal(a) \o Normal(d)
    BY <1>2, <2>2
  <2> QED
    BY <2>2, <2>3, NormalStep
<1>3. Nat \subseteq T
  <2> HIDE DEF T
  <2> QED BY <1>1, <1>2, AllNumbers
<1> QED
  BY <1>3

\* What the messages of a part are, up to how they are cut.
LEMMA FlushNormal ==
  ASSUME NEW p \in Part
  PROVE  Normal(Flush(p)) = Pieces(Message(Plain, p.plain)) \o Normal(p.out)
<1>1. p.plain \in Seq(Tokens) /\ p.out \in Seq(Said)
  BY DEF Part
<1>2. Normal(p.out) \in Seq(Said)
  BY <1>1, NormalIs
<1>3. CASE p.plain = <<>>
  <2>1. Flush(p) = p.out
    BY <1>1, <1>3, ConcatEmptySeq DEF Flush
  <2>2. Pieces(Message(Plain, p.plain)) = <<>>
    BY <1>1, <1>3, PlainPieces
  <2> QED
    BY <1>2, <2>1, <2>2, ConcatEmptySeq
<1>4. CASE p.plain # <<>>
  <2>1. PICK m : m = Message(Plain, p.plain)
    OBVIOUS
  <2>2. m \in Said /\ <<m>> \in Seq(Said)
    BY <1>1, <2>1, PlainSays
  <2>3. Flush(p) = <<m>> \o p.out
    BY <1>4, <2>1 DEF Flush
  <2>4. Normal(<<m>> \o p.out) = Normal(<<m>>) \o Normal(p.out)
    BY <1>1, <2>2, NormalConcat
  <2>5. Normal(<<m>>) = Pieces(m)
    BY <2>2, NormalOne
  <2> QED
    BY <2>1, <2>3, <2>4, <2>5
<1> QED
  BY <1>3, <1>4

LEMMA TextThenNormal ==
  ASSUME NEW x \in Seq(Tokens), NEW p \in Part
  PROVE  Normal(Flush(TextThen(x, p))) = Pieces(Message(Plain, x)) \o Normal(Flush(p))
<1>1. p.plain \in Seq(Tokens) /\ p.out \in Seq(Said)
  BY DEF Part
<1>2. PICK q : q = TextThen(x, p)
  OBVIOUS
<1>3. q \in Part /\ q.plain = x \o p.plain /\ q.out = p.out
  BY <1>2, TextThenIs DEF TextThen
<1>4. Normal(Flush(q)) = Pieces(Message(Plain, q.plain)) \o Normal(q.out)
  BY <1>3, FlushNormal
<1>5. Pieces(Message(Plain, x \o p.plain)) = Pieces(Message(Plain, x)) \o Pieces(Message(Plain, p.plain))
  BY <1>1, PlainPieces
<1>6. Normal(Flush(p)) = Pieces(Message(Plain, p.plain)) \o Normal(p.out)
  BY FlushNormal
<1>8. /\ Pieces(Message(Plain, x)) \in Seq(Said) /\ Pieces(Message(Plain, p.plain)) \in Seq(Said)
      /\ Normal(p.out) \in Seq(Said)
  BY <1>1, PlainSays, PiecesIs, NormalIs
<1>7. PICK a \in Seq(Said), c \in Seq(Said), d \in Seq(Said) :
        a = Pieces(Message(Plain, x)) /\ c = Pieces(Message(Plain, p.plain)) /\ d = Normal(p.out)
  BY <1>8
<1>9. (a \o c) \o d = a \o (c \o d)
  BY Joined, SMTT(30)
<1> QED
  BY <1>2, <1>3, <1>4, <1>5, <1>6, <1>7, <1>9

LEMMA MessageThenNormal ==
  ASSUME NEW m \in Said, NEW p \in Part
  PROVE  Normal(Flush(MessageThen(m, p))) = Pieces(m) \o Normal(Flush(p))
<1>1. PICK q, f : q = MessageThen(m, p) /\ f = Flush(p)
  OBVIOUS
<1>2. f \in Seq(Said) /\ <<m>> \in Seq(Said) /\ <<m>> \o f \in Seq(Said)
  BY <1>1, FlushIs, ConcatProperties
<1>3. q.plain = <<>> /\ q.out = <<m>> \o f
  BY <1>1 DEF MessageThen
<1>4. Flush(q) = <<m>> \o f
  BY <1>2, <1>3, ConcatEmptySeq DEF Flush
<1>5. Normal(<<m>> \o f) = Normal(<<m>>) \o Normal(f)
  BY <1>2, NormalConcat
<1>6. Normal(<<m>>) = Pieces(m)
  BY NormalOne
<1> QED
  BY <1>1, <1>4, <1>5, <1>6

\* What is to be said of t from i on.
Owed(t, i) == Normal(LinesFrom(t)[i])
LEMMA OwedIs ==
  ASSUME NEW t \in Seq(Tokens), NEW i \in 1..(Len(t) + 1)
  PROVE  Owed(t, i) \in Seq(Said)
<1>1. LinesFrom(t)[i] \in Seq(Said)
  BY LinesFromIs
<1> QED
  BY <1>1, NormalIs DEF Owed

LEMMA OwedOnly ==
  ASSUME NEW t \in Seq(Tokens), NEW i \in 1..(Len(t) + 1)
  PROVE  Normal(<<>>) \o Owed(t, i) = Owed(t, i)
<1>1. PICK x : x = Owed(t, i)
  OBVIOUS
<1>2. x \in Seq(Said)
  BY <1>1, OwedIs
<1>3. <<>> \o x = x
  BY <1>2, ConcatEmptySeq
<1> QED
  BY <1>1, <1>3, NormalNone

LEMMA OwedLine ==
  ASSUME NEW t \in Seq(Tokens), NEW i \in 1..(Len(t) + 1)
  PROVE  /\ i = Len(t) + 1 => Owed(t, i) = <<>>
         /\ i <= Len(t) /\ ~IsHeader(t[i]) =>
              Owed(t, i) = Pieces(Message(Plain, SubSeq(t, i, NextLine(t, i) - 1))) \o Owed(t, NextLine(t, i))
         /\ i <= Len(t) /\ IsHeader(t[i]) /\ ~Multiline(t, i) =>
              LET line == SubSeq(t, i + 1, NextLine(t, i) - 1) IN
              Owed(t, i) = Pieces(Message(LevelOf(t[i]), Kept(line)))
                             \o (Pieces(Message(Plain, Lost(line))) \o Owed(t, NextLine(t, i)))
         /\ i <= Len(t) /\ IsHeader(t[i]) /\ Multiline(t, i) /\ End(t, i + 1) = 0 => Owed(t, i) = <<>>
         /\ i <= Len(t) /\ IsHeader(t[i]) /\ Multiline(t, i) /\ End(t, i + 1) # 0 =>
              Owed(t, i) = Pieces(Message(LevelOf(t[i]), Body(t, i, End(t, i + 1) - 1)))
                             \o Owed(t, End(t, i + 1) + 3)
<1>1. PICK L, N : L = LinesFrom(t) /\ N = Len(t)
  OBVIOUS
<1>2. N \in Nat /\ L[i] = LinesBody(t, L, i) /\ \A j \in 1..(N + 1) : L[j] \in Seq(Said)
  BY <1>1, LinesFromIs
<1>3. CASE i = N + 1
  <2>1. LinesBody(t, L, i) = <<>>
    BY <1>1, <1>2, <1>3 DEF LinesBody
  <2> QED
    BY <1>1, <1>2, <1>3, <2>1, NormalNone DEF Owed
<1>4. CASE i <= N
  <2>0. i \in 1..Len(t) /\ ~(i > Len(t)) /\ i # Len(t) + 1
    BY <1>1, <1>2, <1>4
  <2>1. PICK next, end : next = NextLine(t, i) /\ end = End(t, i + 1)
    OBVIOUS
  <2>2. /\ next \in (i + 1)..(N + 1)
        /\ end = 0 \/ end + 3 \in (i + 1)..(N + 1)
        /\ end \in 0..N
    BY <1>1, <2>0, <2>1, LaterLines
  <2>3. /\ next - 1 \in Int /\ next - 1 <= Len(t) /\ end - 1 \in Int /\ end - 1 <= Len(t) /\ i \in Nat \ {0}
        /\ i + 1 \in Nat \ {0} /\ next \in 1..(N + 1) /\ (end # 0 => end + 3 \in 1..(N + 1))
    <3>1. N = Len(t) /\ N \in Nat /\ i \in 1..N
      BY <1>1, <1>2, <2>0
    <3> QED
      BY <2>2, <3>1
  <2>4. /\ SubSeq(t, i, next - 1) \in Seq(Tokens) /\ SubSeq(t, i + 1, next - 1) \in Seq(Tokens)
        /\ IsHeader(t[i]) /\ Multiline(t, i) => Body(t, i, end - 1) \in Seq(Tokens)
    BY <2>0, <2>3, Pieced, BodyIs
  <2>5. ASSUME NEW m \in Said, NEW j \in 1..(N + 1), L[i] = <<m>> \o L[j]
        PROVE  Owed(t, i) = Pieces(m) \o Owed(t, j)
    <3>1. <<m>> \in Seq(Said) /\ L[j] \in Seq(Said)
      BY <1>2
    <3>2. Normal(<<m>> \o L[j]) = Normal(<<m>>) \o Normal(L[j])
      BY <3>1, NormalConcat
    <3>3. Normal(<<m>>) = Pieces(m)
      BY NormalOne
    <3> QED
      BY <1>1, <2>5, <3>2, <3>3 DEF Owed
  <2>6. CASE ~IsHeader(t[i])
    <3>1. L[i] = <<Message(Plain, SubSeq(t, i, next - 1))>> \o L[next]
      BY <1>2, <2>0, <2>1, <2>6 DEF LinesBody
    <3>2. Message(Plain, SubSeq(t, i, next - 1)) \in Said
      BY <2>4, PlainSays
    <3>3. Owed(t, i) = Pieces(Message(Plain, SubSeq(t, i, next - 1))) \o Owed(t, next)
      <4>1. PICK m, j : m = Message(Plain, SubSeq(t, i, next - 1)) /\ j = next
        OBVIOUS
      <4>2. m \in Said /\ j \in 1..(N + 1) /\ L[i] = <<m>> \o L[j]
        BY <2>3, <3>1, <3>2, <4>1
      <4>3. Owed(t, i) = Pieces(m) \o Owed(t, j)
        BY <2>5, <4>2
      <4> QED
        BY <4>1, <4>3
    <3> QED
      BY <2>0, <2>1, <2>6, <3>3
  <2>7. CASE IsHeader(t[i]) /\ ~Multiline(t, i)
    <3>0. PICK line : line = SubSeq(t, i + 1, next - 1)
      OBVIOUS
    <3>1. PICK m, x : m = Message(LevelOf(t[i]), Kept(line)) /\ x = Message(Plain, Lost(line))
      OBVIOUS
    <3>2. m \in Said /\ x \in Said
      <4>1. Kept(line) \in Seq(Tokens) /\ Lost(line) \in Seq(Tokens)
        BY <2>4, <3>0, KeptIs
      <4> QED
        BY <2>7, <3>1, <4>1, HeaderSays, PlainSays
    <3>3. L[i] = <<m, x>> \o L[next]
      BY <1>2, <2>0, <2>1, <2>7, <3>0, <3>1 DEF LinesBody
    <3>4. Owed(t, i) = Pieces(m) \o (Pieces(x) \o Owed(t, next))
      <4>1. PICK a, c, d : a = Pieces(m) /\ c = Pieces(x) /\ d = Normal(L[next])
        OBVIOUS
      <4>2. <<m>> \in Seq(Said) /\ <<x>> \in Seq(Said) /\ <<m, x>> \in Seq(Said) /\ <<m, x>> = <<m>> \o <<x>>
        <5>0. <<m>> \in Seq(Said) /\ <<x>> \in Seq(Said) /\ <<m, x>> \in Seq(Said)
          BY <3>2
        <5>1. PICK y : y = <<m>> \o <<x>>
          OBVIOUS
        <5>2. y \in Seq(Said) /\ Len(y) = 2 /\ y[1] = m /\ y[2] = x
          BY <5>0, <5>1, ConcatProperties
        <5>3. y = <<m, x>>
          BY <5>0, <5>2
        <5> QED
          BY <5>0, <5>1, <5>3
      <4>3. L[next] \in Seq(Said)
        BY <1>2, <2>3
      <4>4. a \in Seq(Said) /\ c \in Seq(Said) /\ d \in Seq(Said)
        BY <3>2, <4>1, <4>3, PiecesIs, NormalIs
      <4>5. Normal(<<m, x>>) = a \o c
        <5>1. Normal(<<m>> \o <<x>>) = Normal(<<m>>) \o Normal(<<x>>)
          BY <4>2, NormalConcat
        <5>2. Normal(<<m>>) = a /\ Normal(<<x>>) = c
          BY <3>2, <4>1, NormalOne
        <5> QED
          BY <4>2, <5>1, <5>2
      <4>6. Normal(<<m, x>> \o L[next]) = (a \o c) \o d
        BY <4>1, <4>2, <4>3, <4>5, NormalConcat
      <4>7. (a \o c) \o d = a \o (c \o d)
        BY <4>4, Joined
      <4> QED
        BY <1>1, <3>3, <4>1, <4>6, <4>7 DEF Owed
    <3> QED
      BY <2>0, <2>1, <2>7, <3>0, <3>1, <3>4
  <2>8. CASE IsHeader(t[i]) /\ Multiline(t, i) /\ end = 0
    <3>1. L[i] = <<>>
      BY <1>2, <2>0, <2>1, <2>8 DEF LinesBody
    <3>2. Owed(t, i) = <<>>
      BY <1>1, <3>1, NormalNone DEF Owed
    <3> QED
      BY <2>0, <2>1, <2>8, <3>2
  <2>9. CASE IsHeader(t[i]) /\ Multiline(t, i) /\ end # 0
    <3>1. L[i] = <<Message(LevelOf(t[i]), Body(t, i, end - 1))>> \o L[end + 3]
      BY <1>2, <2>0, <2>1, <2>9 DEF LinesBody
    <3>2. Message(LevelOf(t[i]), Body(t, i, end - 1)) \in Said
      BY <2>4, <2>9, HeaderSays
    <3>3. Owed(t, i) = Pieces(Message(LevelOf(t[i]), Body(t, i, end - 1))) \o Owed(t, end + 3)
      <4>1. PICK m, j : m = Message(LevelOf(t[i]), Body(t, i, end - 1)) /\ j = end + 3
        OBVIOUS
      <4>2. m \in Said /\ j \in 1..(N + 1) /\ L[i] = <<m>> \o L[j]
        BY <2>3, <2>9, <3>1, <3>2, <4>1
      <4>3. Owed(t, i) = Pieces(m) \o Owed(t, j)
        BY <2>5, <4>2
      <4> QED
        BY <4>1, <4>3
    <3> QED
      BY <2>0, <2>1, <2>9, <3>3
  <2> QED
    BY <2>6, <2>7, <2>8, <2>9
<1> QED
  BY <1>1, <1>2, <1>3, <1>4

-----------------------------------------------------------------------------
(* Reads of a text                                                           *)

\* r of t is read, and mu is of the header at h, or nothing is left.
At(t, r, mu, h) ==
  IF mu = <<>> THEN h = r + 1
  ELSE /\ h \in 1..r /\ IsHeader(t[h]) /\ Multiline(t, h)
       /\ mu = <<Message(LevelOf(t[h]), Body(t, h, r))>>
       /\ \A j \in (h + 1)..(r - 2) : ~Terminates(t, j)
\* With ms, what is said of t up to r is what is to be said of it from i on.
Whole(t, r, ms, mu, i) ==
  \E h \in 1..(Len(t) + 1) : At(t, r, mu, h) /\ Normal(ms) \o Owed(t, h) = Owed(t, i)
Makes(t, r, p, i) == Whole(t, r, Flush(p), p.multi, i)

LEMMA WholeMore ==
  ASSUME NEW t \in Seq(Tokens), NEW r \in Nat, NEW ms \in Seq(Said), NEW mu, NEW i, NEW j,
         NEW a \in Seq(Said), NEW ns, Normal(ns) = a \o Normal(ms), Owed(t, i) = a \o Owed(t, j),
         Whole(t, r, ms, mu, j)
  PROVE  Whole(t, r, ns, mu, i)
<1>1. PICK h \in 1..(Len(t) + 1) : At(t, r, mu, h) /\ Normal(ms) \o Owed(t, h) = Owed(t, j)
  BY DEF Whole
<1>2. PICK x, y : x = Normal(ms) /\ y = Owed(t, h)
  OBVIOUS
<1>3. x \in Seq(Said) /\ y \in Seq(Said)
  BY <1>2, NormalIs, OwedIs
<1>4. (a \o x) \o y = a \o (x \o y)
  BY <1>3, Joined
<1>5. Normal(ns) \o Owed(t, h) = Owed(t, i)
  BY <1>1, <1>2, <1>4
<1> QED
  BY <1>1, <1>5 DEF Whole

LEMMA MadeText ==
  ASSUME NEW t \in Seq(Tokens), NEW r \in Nat, NEW p \in Part, NEW x \in Seq(Tokens), NEW i, NEW j,
         Owed(t, i) = Pieces(Message(Plain, x)) \o Owed(t, j), Makes(t, r, p, j)
  PROVE  Makes(t, r, TextThen(x, p), i)
<1>1. PICK q, a, ms, ns : q = TextThen(x, p) /\ a = Pieces(Message(Plain, x)) /\ ms = Flush(p) /\ ns = Flush(q)
  OBVIOUS
<1>2. a \in Seq(Said) /\ ms \in Seq(Said)
  BY <1>1, PlainSays, PiecesIs, FlushIs
<1>3. Normal(ns) = a \o Normal(ms) /\ q.multi = p.multi
  BY <1>1, TextThenNormal DEF TextThen
<1>4. Whole(t, r, ms, p.multi, j)
  BY <1>1 DEF Makes
<1>5. Whole(t, r, ns, p.multi, i)
  BY <1>1, <1>2, <1>3, <1>4, WholeMore
<1> QED
  BY <1>1, <1>3, <1>5 DEF Makes

LEMMA MadeMessage ==
  ASSUME NEW t \in Seq(Tokens), NEW r \in Nat, NEW p \in Part, NEW m \in Said, NEW i, NEW j,
         Owed(t, i) = Pieces(m) \o Owed(t, j), Makes(t, r, p, j)
  PROVE  Makes(t, r, MessageThen(m, p), i)
<1>1. PICK q, a, ms, ns : q = MessageThen(m, p) /\ a = Pieces(m) /\ ms = Flush(p) /\ ns = Flush(q)
  OBVIOUS
<1>2. a \in Seq(Said) /\ ms \in Seq(Said)
  BY <1>1, PiecesIs, FlushIs
<1>3. Normal(ns) = a \o Normal(ms) /\ q.multi = p.multi
  BY <1>1, MessageThenNormal DEF MessageThen
<1>4. Whole(t, r, ms, p.multi, j)
  BY <1>1 DEF Makes
<1>5. Whole(t, r, ns, p.multi, i)
  BY <1>1, <1>2, <1>3, <1>4, WholeMore
<1> QED
  BY <1>1, <1>3, <1>5 DEF Makes

\* A line with a header, and what is lost of it.
LEMMA MadeKept ==
  ASSUME NEW t \in Seq(Tokens), NEW r \in Nat, NEW p \in Part, NEW m \in Said, NEW x \in Seq(Tokens),
         NEW i, NEW j, Owed(t, i) = Pieces(m) \o (Pieces(Message(Plain, x)) \o Owed(t, j)),
         j \in 1..(Len(t) + 1), Makes(t, r, p, j)
  PROVE  Makes(t, r, MessageThen(m, TextThen(x, p)), i)
<1>1. PICK q, s, a, c, ms, ns : /\ q = TextThen(x, p) /\ s = MessageThen(m, q) /\ a = Pieces(m)
                                /\ c = Pieces(Message(Plain, x)) /\ ms = Flush(p) /\ ns = Flush(s)
  OBVIOUS
<1>2. q \in Part /\ a \in Seq(Said) /\ c \in Seq(Said) /\ ms \in Seq(Said) /\ a \o c \in Seq(Said)
  BY <1>1, PlainSays, PiecesIs, FlushIs, TextThenIs, ConcatProperties
<1>2a. a \in Seq(Said) /\ c \in Seq(Said)
  BY <1>2
<1>3. Normal(ns) = (a \o c) \o Normal(ms)
  <2>1. PICK d : d = Normal(ms)
    OBVIOUS
  <2>2. Normal(ns) = a \o (c \o d)
    BY <1>1, <1>2, <2>1, TextThenNormal, MessageThenNormal
  <2>3. d \in Seq(Said)
    BY <1>2, <2>1, NormalIs
  <2>4. (a \o c) \o d = a \o (c \o d)
    BY <1>2a, <2>3, Joined
  <2> QED
    BY <2>1, <2>2, <2>4
<1>4. Owed(t, i) = (a \o c) \o Owed(t, j)
  <2>1. PICK d : d = Owed(t, j)
    OBVIOUS
  <2>2. d \in Seq(Said)
    BY <2>1, OwedIs
  <2>3. (a \o c) \o d = a \o (c \o d)
    BY <1>2a, <2>2, Joined
  <2> QED
    BY <1>1, <2>1, <2>3
<1>5. PICK e, mu : e = a \o c /\ mu = p.multi
  OBVIOUS
<1>6. Whole(t, r, ns, mu, i)
  <2>1. Whole(t, r, ms, mu, j)
    BY <1>1, <1>5 DEF Makes
  <2> QED
    BY <1>2, <1>3, <1>4, <1>5, <2>1, WholeMore
<1>7. s.multi = mu
  BY <1>1, <1>5 DEF MessageThen, TextThen
<1> QED
  BY <1>1, <1>6, <1>7 DEF Makes

\* A header that follows the end of a message is not read with it.
NoHeaderAfter(b) == \A i \in 1..(Len(b) - 3) : Terminates(b, i) => ~IsHeader(b[i + 3])

\* The end of b, at a line's end.
LEMMA MadeNone ==
  ASSUME NEW t, NEW r, NEW n, NEW b, Cut(t, r, n, b)
  PROVE  Makes(t, r + n, Parts(b)[n + 1], r + n + 1)
<1>1. /\ t \in Seq(Tokens) /\ r \in Nat /\ n \in Nat /\ r + n <= Len(t) /\ Len(t) \in Nat
      /\ b \in Seq(Tokens) /\ Len(b) = n
  BY DEF Cut
<1>2. PICK p, h : p = Parts(b)[n + 1] /\ h = r + n + 1
  OBVIOUS
<1>3. p = NoPart
  <2>1. n + 1 \in 1..(Len(b) + 1) /\ n + 1 > Len(b)
    BY <1>1
  <2>2. p = PartsBody(b, Parts(b), n + 1)
    BY <1>1, <1>2, <2>1, PartsIs
  <2> QED
    BY <2>1, <2>2 DEF PartsBody, NoPart
<1>4. Flush(p) = <<>> /\ p.multi = <<>>
  <2>1. p.plain = <<>> /\ p.out = <<>> /\ p.multi = <<>>
    BY <1>3 DEF NoPart, NoMulti
  <2>2. <<>> \o <<>> = <<>>
    OBVIOUS
  <2> QED
    BY <2>1, <2>2 DEF Flush
<1>5. h \in 1..(Len(t) + 1) /\ h = (r + n) + 1
  BY <1>1, <1>2
<1>6. Normal(<<>>) \o Owed(t, h) = Owed(t, h)
  BY <1>1, <1>5, OwedOnly
<1>7. At(t, r + n, <<>>, h)
  BY <1>5 DEF At
<1> QED
  BY <1>2, <1>4, <1>5, <1>6, <1>7 DEF Makes, Whole

\* The same cut of b and of t.
SameCut(t, r, n, b) ==
  \A i \in 1..(n + 1), k \in 0..n :
     SubSeq(b, i, k) = SubSeq(t, r + i, r + k) /\ SubSeq(b, i, k) \in Seq(Tokens)
LEMMA CutSame ==
  ASSUME NEW t, NEW r, NEW n, NEW b, Cut(t, r, n, b)
  PROVE  SameCut(t, r, n, b)
<1>1. ASSUME NEW i \in 1..(n + 1), NEW k \in 0..n
      PROVE  SubSeq(b, i, k) = SubSeq(t, r + i, r + k) /\ SubSeq(b, i, k) \in Seq(Tokens)
  BY SubSeqShifted
<1> QED
  BY <1>1 DEF SameCut

\* The token i of b is the token j of t.
TokenOf(t, r, n, b, i, j) ==
  /\ t \in Seq(Tokens) /\ b \in Seq(Tokens) /\ Len(b) = n /\ r \in Nat /\ n \in Nat /\ Len(t) \in Nat
  /\ r + n <= Len(t) /\ r + n \in Nat
  /\ j \in 1..(Len(t) + 1) /\ j <= Len(t) /\ j \in 1..(r + n) /\ b[i] = t[j] /\ j \in Nat
  /\ i \in 1..(Len(b) + 1) /\ i \in 1..Len(b) /\ ~(i > Len(b)) /\ i + 1 \in 1..(n + 1) /\ i + 1 \in Nat \ {0}
  /\ r + (i + 1) = j + 1
LEMMA CutIs ==
  ASSUME NEW t, NEW r, NEW n, NEW b, Cut(t, r, n, b), NEW i \in 1..n
  PROVE  TokenOf(t, r, n, b, i, r + i)
<1>0. PICK j : j = r + i
  OBVIOUS
<1>1. /\ t \in Seq(Tokens) /\ r \in Nat /\ n \in Nat /\ r + n <= Len(t) /\ Len(t) \in Nat
      /\ b \in Seq(Tokens) /\ Len(b) = n
  BY DEF Cut
<1>2. b[i] = t[j]
  BY <1>0 DEF Cut
<1>3. PICK N : N = Len(t)
  OBVIOUS
<1>4. j \in 1..(N + 1) /\ j <= N /\ j \in 1..(r + n) /\ j \in Nat /\ r + n \in Nat
  BY <1>0, <1>1, <1>3
<1>5. i \in 1..(n + 1) /\ ~(i > n) /\ i + 1 \in 1..(n + 1) /\ i + 1 \in Nat \ {0} /\ r + (i + 1) = j + 1
  BY <1>0, <1>1
<1> QED
  BY <1>0, <1>1, <1>2, <1>3, <1>4, <1>5 DEF TokenOf

\* A line of b, with what comes then.
LEMMA MadeLine ==
  ASSUME NEW t, NEW r, NEW n, NEW b, Cut(t, r, n, b), AtLine(t, r, n), NEW i \in 1..n,
         ~(IsHeader(b[i]) /\ Multiline(b, i)),
         \A k \in (i + 1)..(n + 1) : Makes(t, r + n, Parts(b)[k], r + k)
  PROVE  Makes(t, r + n, Parts(b)[i], r + i)
<1>2. PICK next, j, R : next = NextLine(b, i) /\ j = r + i /\ R = r + n
  OBVIOUS
<1>1. /\ t \in Seq(Tokens) /\ b \in Seq(Tokens) /\ Len(b) = n /\ r \in Nat /\ n \in Nat
      /\ j \in 1..(Len(t) + 1) /\ j <= Len(t) /\ b[i] = t[j] /\ j \in Nat /\ R \in Nat
      /\ i \in 1..(Len(b) + 1) /\ i \in 1..Len(b) /\ ~(i > Len(b)) /\ i + 1 \in 1..(n + 1)
      /\ r + (i + 1) = j + 1
  <2>1. TokenOf(t, r, n, b, i, r + i)
    BY CutIs
  <2> QED
    BY <1>2, <2>1 DEF TokenOf
<1>3. next \in (i + 1)..(n + 1)
  BY <1>1, <1>2, LaterLines
<1>4. NextLine(t, j) = r + next
  BY <1>2, NextLineShifted
<1>5. PICK k, l, q : k = next - 1 /\ l = NextLine(t, j) - 1 /\ q = i + 1
  OBVIOUS
<1>6. k \in 0..n /\ l = r + k /\ q \in 1..(n + 1) /\ j + 1 = r + q
  BY <1>1, <1>3, <1>4, <1>5
<1>7. /\ SubSeq(b, i, k) = SubSeq(t, j, l) /\ SubSeq(b, i, k) \in Seq(Tokens)
      /\ SubSeq(b, q, k) = SubSeq(t, j + 1, l) /\ SubSeq(b, q, k) \in Seq(Tokens)
  <2>1. i \in 1..(n + 1)
    BY <1>1
  <2>2. SubSeq(b, i, k) = SubSeq(t, j, l) /\ SubSeq(b, i, k) \in Seq(Tokens)
    <3>1. SameCut(t, r, n, b)
      BY CutSame
    <3> QED
      BY <1>2, <1>6, <2>1, <3>1 DEF SameCut
  <2>3. SubSeq(b, q, k) = SubSeq(t, j + 1, l) /\ SubSeq(b, q, k) \in Seq(Tokens)
    <3>1. SameCut(t, r, n, b)
      BY CutSame
    <3> QED
      BY <1>6, <3>1 DEF SameCut
  <2> QED
    BY <2>2, <2>3
<1>8. Makes(t, R, Parts(b)[next], r + next) /\ Parts(b)[next] \in Part
  <2>1. next \in 1..(Len(b) + 1)
    BY <1>1, <1>3
  <2>2. Parts(b)[next] \in Part
    BY <1>1, <2>1, PartsIs
  <2> QED
    BY <1>2, <1>3, <2>2
<1>9. Parts(b)[i] = PartsBody(b, Parts(b), i) /\ ~(i > Len(b))
  BY <1>1, PartsIs
<1>10. CASE ~IsHeader(b[i])
  <2>1. PICK x, p : x = SubSeq(b, i, k) /\ p = Parts(b)[next]
    OBVIOUS
  <2>2. Parts(b)[i] = TextThen(x, p)
    BY <1>2, <1>5, <1>9, <1>10, <2>1 DEF PartsBody
  <2>3. Owed(t, j) = Pieces(Message(Plain, x)) \o Owed(t, r + next)
    <3>1. Owed(t, j) = Pieces(Message(Plain, SubSeq(t, j, NextLine(t, j) - 1))) \o Owed(t, NextLine(t, j))
      BY <1>1, <1>10, OwedLine
    <3>2. Owed(t, j) = Pieces(Message(Plain, SubSeq(t, j, l))) \o Owed(t, NextLine(t, j))
      BY <1>5, <3>1
    <3> QED
      BY <1>4, <1>7, <2>1, <3>2
  <2>4. x \in Seq(Tokens) /\ p \in Part /\ Makes(t, R, p, r + next)
    BY <1>7, <1>8, <2>1
  <2> QED
    BY <1>1, <1>2, <2>2, <2>3, <2>4, MadeText
<1>11. CASE IsHeader(b[i]) /\ ~Multiline(b, i)
  <2>0. PICK line : line = SubSeq(b, q, k)
    OBVIOUS
  <2>1. PICK m, x, p : m = Message(LevelOf(b[i]), Kept(line)) /\ x = Lost(line) /\ p = Parts(b)[next]
    OBVIOUS
  <2>2. Parts(b)[i] = MessageThen(m, TextThen(x, p))
    BY <1>2, <1>5, <1>9, <1>11, <2>0, <2>1 DEF PartsBody
  <2>3. Owed(t, j) = Pieces(m) \o (Pieces(Message(Plain, x)) \o Owed(t, r + next))
    <3>1. IsHeader(t[j]) /\ ~Multiline(t, j)
      BY <1>1, <1>2, <1>11, MultilineShifted
    <3>2. PICK s : s = SubSeq(t, j + 1, NextLine(t, j) - 1)
      OBVIOUS
    <3>3. Owed(t, j) = Pieces(Message(LevelOf(t[j]), Kept(s)))
                         \o (Pieces(Message(Plain, Lost(s))) \o Owed(t, NextLine(t, j)))
      BY <1>1, <3>1, <3>2, OwedLine
    <3>4. s = line
      BY <1>5, <1>7, <2>0, <3>2
    <3> QED
      BY <1>1, <1>4, <2>1, <3>3, <3>4
  <2>4. m \in Said /\ x \in Seq(Tokens) /\ p \in Part /\ Makes(t, R, p, r + next)
    <3>1. Kept(line) \in Seq(Tokens) /\ Lost(line) \in Seq(Tokens)
      BY <1>7, <2>0, KeptIs
    <3> QED
      BY <1>8, <1>11, <2>1, <3>1, HeaderSays
  <2>5. r + next \in 1..(Len(t) + 1)
    <3>1. Len(t) \in Nat /\ r + n <= Len(t)
      BY DEF Cut
    <3> QED
      BY <1>1, <1>3, <3>1
  <2> QED
    BY <1>1, <1>2, <2>2, <2>3, <2>4, <2>5, MadeKept
<1> QED
  BY <1>10, <1>11

\* A message of several lines of b that goes on behind it.
LEMMA MadeOpen ==
  ASSUME NEW t, NEW r, NEW n, NEW b, Cut(t, r, n, b), AtLine(t, r, n), NEW i \in 1..n,
         IsHeader(b[i]), Multiline(b, i), End(b, i + 1) = 0
  PROVE  Makes(t, r + n, Parts(b)[i], r + i)
<1>2. PICK p, h, R : p = Parts(b)[i] /\ h = r + i /\ R = r + n
  OBVIOUS
<1>3. /\ t \in Seq(Tokens) /\ b \in Seq(Tokens) /\ Len(b) = n /\ r \in Nat /\ n \in Nat /\ R \in Nat
      /\ h \in 1..(Len(t) + 1) /\ h \in 1..R /\ b[i] = t[h] /\ h \in Nat
      /\ i \in 1..(Len(b) + 1) /\ ~(i > Len(b)) /\ i + 1 \in 1..(n + 1) /\ i + 1 \in Nat \ {0}
      /\ r + (i + 1) = h + 1
  <2>1. TokenOf(t, r, n, b, i, r + i)
    BY CutIs
  <2> QED
    BY <1>2, <2>1 DEF TokenOf
<1>4. p.plain = <<>> /\ p.out = <<>> /\ p.multi = <<Message(LevelOf(b[i]), Body(b, i, Len(b)))>>
  <2>2. p = PartsBody(b, Parts(b), i)
    BY <1>2, <1>3, PartsIs
  <2>3. p = [plain |-> <<>>, out |-> <<>>, multi |-> <<Message(LevelOf(b[i]), Body(b, i, Len(b)))>>]
    BY <1>3, <2>2 DEF PartsBody
  <2> QED
    BY <2>3
<1>5. Multiline(t, h) /\ Body(b, i, Len(b)) = Body(t, h, R)
  <2>1. Multiline(t, r + i)
    BY MultilineShifted
  <2>2. n \in 0..n
    BY <1>3
  <2>3. Body(b, i, n) = Body(t, r + i, r + n)
    BY <2>1, <2>2, BodyShifted
  <2> QED
    BY <1>2, <1>3, <2>1, <2>3
<1>6. ASSUME NEW j \in (h + 1)..(R - 2) PROVE ~Terminates(t, j)
  <2>1. PICK k : k = j - r
    OBVIOUS
  <2>4. PICK q : q = i + 1
    OBVIOUS
  <2>2. k \in q..(Len(b) - 2) /\ k \in 1..(n - 2) /\ r + k = j
    BY <1>2, <1>3, <2>1, <2>4
  <2>3. ~Terminates(b, k)
    <3>1. q \in Nat \ {0} /\ End(b, q) = 0
      BY <1>3, <2>4
    <3>2. \A x \in q..(Len(b) - 2) : ~Terminates(b, x)
      BY <1>3, <3>1, EndIs
    <3> QED
      BY <2>2, <3>2
  <2> QED
    BY <2>2, <2>3, TerminatesShifted
<1>7. At(t, R, p.multi, h)
  <2>1. p.multi = <<Message(LevelOf(t[h]), Body(t, h, R))>>
    BY <1>3, <1>4, <1>5
  <2>2. p.multi # <<>>
    BY <2>1
  <2> QED
    BY <1>3, <1>5, <1>6, <2>1, <2>2 DEF At
<1>8. Flush(p) = <<>>
  <2>1. <<>> \o <<>> = <<>>
    OBVIOUS
  <2> QED
    BY <1>4, <2>1 DEF Flush
<1>9. Normal(<<>>) \o Owed(t, h) = Owed(t, h)
  BY <1>3, OwedOnly
<1> QED
  BY <1>2, <1>3, <1>7, <1>8, <1>9 DEF Makes, Whole

\* One that ends in b.
LEMMA MadeEnded ==
  ASSUME NEW t, NEW r, NEW n, NEW b, Cut(t, r, n, b), AtLine(t, r, n), NoHeaderAfter(b), NEW i \in 1..n,
         IsHeader(b[i]), Multiline(b, i), End(b, i + 1) # 0,
         \A k \in (i + 1)..(n + 1) : Makes(t, r + n, Parts(b)[k], r + k)
  PROVE  Makes(t, r + n, Parts(b)[i], r + i)
<1>2. PICK j, R, e, k : j = r + i /\ R = r + n /\ e = End(b, i + 1) /\ k = e + 3
  OBVIOUS
<1>1. /\ t \in Seq(Tokens) /\ b \in Seq(Tokens) /\ Len(b) = n /\ r \in Nat /\ n \in Nat /\ R \in Nat
      /\ j \in 1..(Len(t) + 1) /\ j <= Len(t) /\ b[i] = t[j] /\ j \in Nat
      /\ i \in 1..(Len(b) + 1) /\ ~(i > Len(b)) /\ r + (i + 1) = j + 1
  <2>1. TokenOf(t, r, n, b, i, r + i)
    BY CutIs
  <2> QED
    BY <1>2, <2>1 DEF TokenOf
<1>3. i + 1 \in 1..(n + 1) /\ i + 1 \in Nat \ {0}
  BY <1>1
<1>4. e \in (i + 1)..(n - 2) /\ Terminates(b, e)
  BY <1>1, <1>2, <1>3, EndIs
<1>5. End(t, j + 1) = r + e
  <2>1. End(t, r + (i + 1)) = r + End(b, i + 1)
    BY <1>3, EndShifted
  <2>2. r + (i + 1) = j + 1
    BY <1>1, <1>2
  <2> QED
    BY <1>2, <2>1, <2>2
<1>13. PICK q, c, l : q = i + 1 /\ c = e - 1 /\ l = End(t, j + 1) - 1
  OBVIOUS
<1>6. /\ r + e # 0 /\ k \in (i + 1)..(n + 1) /\ k \in 1..(Len(b) + 1) /\ End(t, j + 1) + 3 = r + k
      /\ q \in 1..(n + 1) /\ c \in 0..n /\ l = r + c /\ j + 1 = r + q
  <2>0. r \in Nat /\ n \in Nat /\ Len(b) = n
    BY <1>1
  <2>1. i \in Nat /\ e \in Nat /\ i + 1 <= e /\ e <= n - 2 /\ r \in Nat /\ n \in Nat /\ Len(b) = n
    BY <1>4, <2>0
  <2>6. k = e + 3
    BY <1>2
  <2>2. r + e # 0 /\ k \in (i + 1)..(n + 1) /\ k \in 1..(Len(b) + 1) /\ r + e + 3 = r + k
    BY <2>1, <2>6, SMTT(30)
  <2>3. End(t, j + 1) + 3 = r + k
    BY <1>5, <2>2
  <2>4. q \in 1..(n + 1) /\ c \in 0..n /\ j + 1 = r + q
    BY <1>1, <1>3, <1>13, <2>1
  <2>5. l = r + c
    BY <1>5, <1>13, <2>1
  <2> QED
    BY <2>2, <2>3, <2>4, <2>5
<1>7. PICK m, p : m = Message(LevelOf(b[i]), Body(b, i, c)) /\ p = Parts(b)[k]
  OBVIOUS
<1>8. Multiline(t, j) /\ Body(b, i, c) = Body(t, j, l) /\ Body(b, i, c) \in Seq(Tokens)
  <2>1. Multiline(t, r + i)
    BY MultilineShifted
  <2>2. Body(b, i, c) = Body(t, r + i, r + c) /\ Body(b, i, c) \in Seq(Tokens)
    BY <1>6, <2>1, BodyShifted
  <2> QED
    BY <1>2, <1>6, <2>1, <2>2
<1>9. m \in Said
  BY <1>7, <1>8, HeaderSays
<1>10. p \in Part /\ Makes(t, R, p, r + k)
  BY <1>1, <1>2, <1>6, <1>7, PartsIs
<1>11. Parts(b)[i] = MessageThen(m, p)
  <2>1. PICK after : after = NextLine(b, k)
    OBVIOUS
  <2>2. p = TextThen(SubSeq(b, k, after - 1), Parts(b)[after])
    <3>1. p = PartsBody(b, Parts(b), k)
      BY <1>1, <1>6, <1>7, PartsIs
    <3>2. CASE k <= n
      <4>1. e \in 1..(Len(b) - 3) /\ ~(k > Len(b))
        <5>1. i \in Nat /\ i >= 1 /\ n \in Nat /\ Len(b) = n /\ e \in (i + 1)..(n - 2) /\ k = e + 3
          BY <1>1, <1>2, <1>4
        <5>2. e \in 1..(n - 3) /\ ~(k > n)
          BY <3>2, <5>1
        <5> QED
          BY <5>1, <5>2
      <4>2. ~IsHeader(b[k])
        BY <1>2, <1>4, <4>1 DEF NoHeaderAfter
      <4> QED
        BY <2>1, <3>1, <4>1, <4>2 DEF PartsBody
    <3>3. CASE k > n
      <4>1. k = n + 1 /\ k > Len(b)
        BY <1>1, <1>6, <3>3
      <4>2. after = n + 1
        <5>1. after \in 1..(Len(b) + 1) /\ after >= k
          BY <1>1, <1>6, <2>1, NextLineIs
        <5>2. after \in 1..(n + 1) /\ after >= n + 1 /\ n \in Nat
          BY <1>1, <4>1, <5>1
        <5> QED
          BY <5>2
      <4>3. p = NoPart /\ Parts(b)[after] = NoPart
        BY <1>7, <3>1, <4>1, <4>2 DEF PartsBody, NoPart
      <4>4. SubSeq(b, k, after - 1) = <<>>
        BY <1>1, <4>1, <4>2, SubSeqEmpty
      <4>5. <<>> \o <<>> = <<>>
        OBVIOUS
      <4>6. TextThen(<<>>, NoPart) = NoPart
        BY <4>5 DEF TextThen, NoPart
      <4> QED
        BY <4>3, <4>4, <4>6
    <3> QED
      BY <1>1, <1>6, <3>2, <3>3
  <2>4. Parts(b)[i] = PartsBody(b, Parts(b), i)
    BY <1>1, PartsIs
  <2> QED
    BY <1>1, <1>2, <1>7, <1>13, <2>1, <2>2, <2>4 DEF PartsBody
<1>12. Owed(t, j) = Pieces(m) \o Owed(t, r + k)
  <2>1. Owed(t, j) = Pieces(Message(LevelOf(t[j]), Body(t, j, End(t, j + 1) - 1))) \o Owed(t, End(t, j + 1) + 3)
    BY <1>1, <1>5, <1>6, <1>8, OwedLine
  <2>2. Owed(t, j) = Pieces(Message(LevelOf(t[j]), Body(t, j, l))) \o Owed(t, r + k)
    BY <1>6, <1>13, <2>1
  <2> QED
    BY <1>1, <1>7, <1>8, <2>2
<1> QED
  BY <1>1, <1>2, <1>6, <1>9, <1>10, <1>11, <1>12, MadeMessage

\* All of b, from each line on.
LEMMA MadeOf ==
  ASSUME NEW t, NEW r, NEW n, NEW b, Cut(t, r, n, b), AtLine(t, r, n), NoHeaderAfter(b)
  PROVE  Makes(t, r + n, Parts(b)[1], r + 1)
<1>1. n \in Nat /\ r \in Nat
  BY DEF Cut
<1> DEFINE P(l) == \A k \in (n + 1 - l)..(n + 1) : Makes(t, r + n, Parts(b)[k], r + k)
           T == {l \in Nat : l <= n => P(l)}
<1>2. 0 \in T
  <2>1. Makes(t, r + n, Parts(b)[n + 1], r + n + 1)
    BY MadeNone
  <2>2. ASSUME NEW k \in (n + 1 - 0)..(n + 1) PROVE k = n + 1 /\ r + k = r + n + 1
    BY <1>1
  <2> QED
    BY <2>1, <2>2
<1>3. ASSUME NEW l \in Nat, l \in T PROVE l + 1 \in T
  <2> SUFFICES ASSUME l + 1 <= n PROVE P(l + 1)
    <3> HIDE DEF P
    <3> QED OBVIOUS
  <2>1. P(l)
    <3> HIDE DEF P
    <3> QED BY <1>1, <1>3
  <2>2. PICK i : i = n - l
    OBVIOUS
  <2>3. i \in 1..n /\ n + 1 - l = i + 1 /\ n + 1 - (l + 1) = i
    BY <1>1, <2>2
  <2>4. \A k \in (i + 1)..(n + 1) : Makes(t, r + n, Parts(b)[k], r + k)
    BY <2>1, <2>3
  <2>5. Makes(t, r + n, Parts(b)[i], r + i)
    <3> HIDE DEF T, P
    <3>1. CASE ~(IsHeader(b[i]) /\ Multiline(b, i))
      BY <2>3, <2>4, <3>1, MadeLine
    <3>2. CASE IsHeader(b[i]) /\ Multiline(b, i) /\ End(b, i + 1) = 0
      BY <2>3, <3>2, MadeOpen
    <3>3. CASE IsHeader(b[i]) /\ Multiline(b, i) /\ End(b, i + 1) # 0
      BY <2>3, <2>4, <3>3, MadeEnded
    <3> QED
      BY <3>1, <3>2, <3>3
  <2>6. ASSUME NEW k \in i..(n + 1) PROVE k = i \/ k \in (i + 1)..(n + 1)
    BY <1>1, <2>3
  <2> QED
    BY <2>3, <2>4, <2>5, <2>6
<1>4. P(n)
  <2>1. n \in T
    <3> HIDE DEF T
    <3> QED BY <1>1, <1>2, <1>3, AllNumbers
  <2> HIDE DEF P
  <2> QED BY <1>1, <2>1
<1>5. 1 \in (n + 1 - n)..(n + 1)
  BY <1>1
<1> QED
  BY <1>4, <1>5

LEMMA ProcessWhole ==
  ASSUME NEW t, NEW r, NEW n, NEW b, Cut(t, r, n, b), AtLine(t, r, n), NoHeaderAfter(b)
  PROVE  Whole(t, r + n, Process(b).out, Process(b).multi, r + 1) /\ Process(b).out \in Seq(Said)
<1>1. PICK p : p = Parts(b)[1]
  OBVIOUS
<1>2. Process(b).out = Flush(p) /\ Process(b).multi = p.multi
  BY <1>1 DEF Process
<1>3. Makes(t, r + n, p, r + 1)
  BY <1>1, MadeOf
<1>4. p \in Part
  <2>1. b \in Seq(Tokens) /\ 1 \in 1..(Len(b) + 1)
    BY DEF Cut
  <2> QED
    BY <1>1, <2>1, PartsIs
<1> QED
  BY <1>2, <1>3, <1>4, FlushIs DEF Makes

\* What is left of nothing from its first token on is nothing.
LEMMA NothingLeft ==
  ASSUME NEW c \in Nat, NEW n \in Nat, NEW l \in Nat, c >= 1, l + c = n + 1
  PROVE  n = 0 => l = 0
OBVIOUS

\* b from c on is a read of its own.
LEMMA RestIs ==
  ASSUME NEW t, NEW r, NEW n, NEW b, Cut(t, r, n, b), AtLine(t, r, n), NoHeaderAfter(b), NEW c \in 1..(n + 1),
         NEW q, q = r + (c - 1), NEW l, l = n - (c - 1)
  PROVE  /\ Cut(t, q, l, Rest(b, c)) /\ AtLine(t, q, l) /\ NoHeaderAfter(Rest(b, c))
         /\ q + l = r + n /\ q + 1 = r + c
<1>1. /\ t \in Seq(Tokens) /\ r \in Nat /\ n \in Nat /\ r + n <= Len(t) /\ Len(t) \in Nat
      /\ b \in Seq(Tokens) /\ Len(b) = n /\ \A j \in 1..n : b[j] = t[r + j]
  BY DEF Cut
<1>2. PICK x : x = Rest(b, c)
  OBVIOUS
<1>3. /\ c \in Nat /\ c >= 1 /\ c <= n + 1 /\ q \in Nat /\ l \in Nat
      /\ q + l = r + n /\ q + 1 = r + c /\ l + c = n + 1
  <2>1. r \in Nat /\ n \in Nat
    BY <1>1
  <2> QED
    BY <2>1
<1>4. x \in Seq(Tokens) /\ Len(x) = l /\ \A j \in 1..l : x[j] = b[c + j - 1]
  <2>1. c \in Int /\ n \in Int /\ \A j \in c..n : b[j] \in Tokens
    BY <1>1, <1>3
  <2>2. /\ SubSeq(b, c, n) \in Seq(Tokens)
        /\ Len(SubSeq(b, c, n)) = IF c <= n THEN n - c + 1 ELSE 0
        /\ \A j \in 1..(n - c + 1) : SubSeq(b, c, n)[j] = b[c + j - 1]
    BY <2>1, SubSeqProperties
  <2>3. x = SubSeq(b, c, n)
    BY <1>1, <1>2 DEF Rest
  <2>4. n - c + 1 = l /\ (~(c <= n) => l = 0)
    BY <1>3, <2>1
  <2> QED
    BY <2>2, <2>3, <2>4
<1>5. ASSUME NEW j \in 1..l PROVE x[j] = t[q + j]
  <2>1. PICK k : k = c + j - 1
    OBVIOUS
  <2>2. k \in 1..n /\ r + k = q + j
    BY <1>1, <1>3, <2>1
  <2> QED
    BY <1>1, <1>4, <2>1, <2>2
<1>6. Cut(t, q, l, x)
  BY <1>1, <1>3, <1>4, <1>5 DEF Cut
<1>7. AtLine(t, q, l)
  <2>1. n = 0 => l = 0
    <3>1. n \in Nat
      BY <1>1
    <3>2. c \in Nat /\ c >= 1 /\ l \in Nat /\ l + c = n + 1
      BY <1>3
    <3> QED
      BY <3>1, <3>2, NothingLeft
  <2> QED
    BY <1>3, <2>1 DEF AtLine
<1>8. NoHeaderAfter(x)
  <2> SUFFICES ASSUME NEW i \in 1..(Len(x) - 3), Terminates(x, i) PROVE ~IsHeader(x[i + 3])
    BY DEF NoHeaderAfter
  <2>1. PICK k : k = c + i - 1
    OBVIOUS
  <2>2. i \in 1..(l - 3) /\ i \in Nat
    BY <1>3, <1>4
  <2>3. /\ i \in 1..l /\ i + 1 \in 1..l /\ i + 2 \in 1..l /\ i + 3 \in 1..l /\ k \in 1..(n - 3)
        /\ c + (i + 1) - 1 = k + 1 /\ c + (i + 2) - 1 = k + 2 /\ c + (i + 3) - 1 = k + 3
    BY <1>1, <1>3, <2>1, <2>2
  <2>4. x[i] = b[k] /\ x[i + 1] = b[k + 1] /\ x[i + 2] = b[k + 2] /\ x[i + 3] = b[k + 3]
    BY <1>4, <2>1, <2>3
  <2>5. Terminates(b, k)
    BY <2>4 DEF Terminates
  <2> QED
    BY <1>1, <2>3, <2>4, <2>5 DEF NoHeaderAfter
<1> QED
  BY <1>2, <1>3, <1>6, <1>7, <1>8

\* A message m ends with x before c of the read.
LEMMA EndsWhole ==
  ASSUME NEW t, NEW r, NEW n, NEW b, Cut(t, r, n, b), AtLine(t, r, n), NoHeaderAfter(b), NEW c \in 1..(n + 1),
         NEW m, NEW x, NEW h, Message(m.level, m.text \o x) \in Said,
         Owed(t, h) = Pieces(Message(m.level, m.text \o x)) \o Owed(t, r + c)
  PROVE  /\ Whole(t, r + n, Ends(m, x, Rest(b, c)).out, Ends(m, x, Rest(b, c)).multi, h)
         /\ Ends(m, x, Rest(b, c)).out \in Seq(Said)
<1>1. PICK w, e, p, M, ns : /\ w = Rest(b, c) /\ e = Ends(m, x, w) /\ p = Process(w)
                            /\ M = Message(m.level, m.text \o x) /\ ns = <<M>> \o p.out
  OBVIOUS
<1>2. PICK q, l : q = r + (c - 1) /\ l = n - (c - 1)
  OBVIOUS
<1>3. Cut(t, q, l, w) /\ AtLine(t, q, l) /\ NoHeaderAfter(w) /\ q + l = r + n /\ q + 1 = r + c
  BY <1>1, <1>2, RestIs
<1>4. Whole(t, r + n, p.out, p.multi, r + c) /\ p.out \in Seq(Said)
  <2>1. Whole(t, q + l, Process(w).out, Process(w).multi, q + 1) /\ Process(w).out \in Seq(Said)
    BY <1>3, ProcessWhole
  <2> QED
    BY <1>1, <1>3, <2>1
<1>5. e.out = ns /\ e.multi = p.multi
  BY <1>1 DEF Ends
<1>6. M \in Said /\ <<M>> \in Seq(Said) /\ Pieces(M) \in Seq(Said)
  BY <1>1, PiecesIs
<1>7. ns \in Seq(Said) /\ Normal(ns) = Pieces(M) \o Normal(p.out)
  <2>1. Normal(<<M>> \o p.out) = Normal(<<M>>) \o Normal(p.out)
    BY <1>4, <1>6, NormalConcat
  <2>2. <<M>> \o p.out \in Seq(Said)
    BY <1>4, <1>6, ConcatProperties
  <2> QED
    BY <1>1, <1>6, <2>1, <2>2, NormalOne
<1>8. t \in Seq(Tokens) /\ r + n \in Nat
  BY DEF Cut
<1>9. PICK a, ms, mu, j, R : a = Pieces(M) /\ ms = p.out /\ mu = p.multi /\ j = r + c /\ R = r + n
  OBVIOUS
<1>10. Whole(t, R, ns, mu, h)
  <2>1. /\ R \in Nat /\ ms \in Seq(Said) /\ a \in Seq(Said) /\ Normal(ns) = a \o Normal(ms)
        /\ Owed(t, h) = a \o Owed(t, j) /\ Whole(t, R, ms, mu, j)
    BY <1>1, <1>4, <1>6, <1>7, <1>8, <1>9
  <2> QED
    BY <1>8, <2>1, WholeMore
<1> QED
  BY <1>1, <1>5, <1>7, <1>9, <1>10

\* The message of the header at h, when t is read up to r.
OpenAt(t, r, m, h) ==
  /\ h \in 1..r /\ IsHeader(t[h]) /\ Multiline(t, h)
  /\ m = Message(LevelOf(t[h]), Body(t, h, r))
  /\ \A j \in (h + 1)..(r - 2) : ~Terminates(t, j)
\* A read that begins and ends at a line's end.
LineRead(t, r, n, b) ==
  Cut(t, r, n, b) /\ AtLine(t, r, n) /\ NoHeaderAfter(b) /\ r # 0 /\ t[r] = NewLine

LEMMA NewLineIs == NewLine # Colons /\ ~IsHeader(NewLine)
  BY StreamsAssumption DEF NewLine, Colons, IsHeader

LEMMA LevelIs == ASSUME NEW h, IsHeader(h) PROVE LevelOf(h) # Plain
  BY StreamsAssumption DEF IsHeader, LevelOf

\* What is known of it.
LEMMA OpenIs ==
  ASSUME NEW t, NEW r, NEW n, NEW b, LineRead(t, r, n, b), NEW m, NEW h, OpenAt(t, r, m, h)
  PROVE  /\ t \in Seq(Tokens) /\ b \in Seq(Tokens) /\ Len(b) = n /\ r \in Nat /\ n \in Nat /\ Len(t) \in Nat
         /\ r + n <= Len(t) /\ h \in Nat /\ 1 <= h /\ h < r
         /\ m.level = LevelOf(t[h]) /\ m.text = Body(t, h, r) /\ m.text \in Seq(Tokens)
         /\ Len(m.text) = r - h /\ m.text # <<>> /\ m.text[Len(m.text)] = NewLine
         /\ \A j \in (h + 1)..(r - 1) : ~Terminates(t, j)
<1>1. /\ t \in Seq(Tokens) /\ b \in Seq(Tokens) /\ Len(b) = n /\ r \in Nat /\ n \in Nat /\ Len(t) \in Nat
      /\ r + n <= Len(t) /\ t[r] = NewLine /\ r # 0
  BY DEF LineRead, Cut
<1>2. /\ h \in 1..r /\ IsHeader(t[h]) /\ Multiline(t, h) /\ m = Message(LevelOf(t[h]), Body(t, h, r))
      /\ \A j \in (h + 1)..(r - 2) : ~Terminates(t, j)
  BY DEF OpenAt
<1>3. h \in Nat /\ 1 <= h /\ h < r
  <2>1. h # r
    BY <1>1, <1>2, NewLineIs
  <2> QED
    BY <1>1, <1>2, <2>1
<1>4. m.level = LevelOf(t[h]) /\ m.text = Body(t, h, r)
  BY <1>2 DEF Message
<1>5. PICK x, k, u : x = m.text /\ k = h + 1 /\ u = Uncoloned(t, h)
  OBVIOUS
<1>5a. u \in Seq(Tokens) /\ Len(u) = Len(t) /\ u[r] = NewLine
  <2>1. h \in 1..Len(t) /\ r \in 1..Len(t)
    BY <1>1, <1>2
  <2> QED
    BY <1>1, <1>2, <1>5, <2>1, UncolonedIs
<1>6. x \in Seq(Tokens) /\ Len(x) = r - h /\ x[r - h] = u[r]
  <2>1. k \in Int /\ r \in Int /\ k <= r /\ r - k + 1 = r - h /\ r - h \in 1..(r - k + 1) /\ k + (r - h) - 1 = r
    BY <1>1, <1>3, <1>5
  <2>2. \A j \in k..r : u[j] \in Tokens
    BY <1>1, <1>3, <1>5, <1>5a
  <2>3. /\ SubSeq(u, k, r) \in Seq(Tokens) /\ Len(SubSeq(u, k, r)) = IF k <= r THEN r - k + 1 ELSE 0
        /\ \A i \in 1..(r - k + 1) : SubSeq(u, k, r)[i] = u[k + i - 1]
    BY <2>1, <2>2, SubSeqProperties
  <2>4. SubSeq(u, k, r)[r - h] = u[k + (r - h) - 1]
    BY <2>1, <2>3
  <2>5. x = SubSeq(u, k, r)
    BY <1>4, <1>5 DEF Body
  <2> QED
    BY <2>1, <2>3, <2>4, <2>5
<1>7. x # <<>>
  BY <1>1, <1>3, <1>6
<1>8. ASSUME NEW j \in (h + 1)..(r - 1) PROVE ~Terminates(t, j)
  <2>1. CASE j = r - 1
    <3>1. j + 1 = r
      BY <1>1, <2>1
    <3> QED
      BY <1>1, <3>1, NewLineIs DEF Terminates
  <2>2. CASE j # r - 1
    <3>1. j \in (h + 1)..(r - 2)
      BY <1>1, <1>3, <2>2
    <3> QED
      BY <1>2, <3>1
  <2> QED
    BY <2>1, <2>2
<1> QED
  BY <1>1, <1>3, <1>4, <1>5, <1>5a, <1>6, <1>7, <1>8

\* What a read adds to it.
Grows(t, r, n, b, m, h) == \A k \in 0..n : m.text \o SubSeq(b, 1, k) = Body(t, h, r + k)
LEMMA OpenGrows ==
  ASSUME NEW t, NEW r, NEW n, NEW b, LineRead(t, r, n, b), NEW m, NEW h, OpenAt(t, r, m, h)
  PROVE  Grows(t, r, n, b, m, h)
<1>1. /\ t \in Seq(Tokens) /\ b \in Seq(Tokens) /\ Len(b) = n /\ r \in Nat /\ n \in Nat /\ Len(t) \in Nat
      /\ r + n <= Len(t) /\ h \in Nat /\ 1 <= h /\ h < r /\ m.text = Body(t, h, r)
  BY OpenIs
<1>1a. PICK u : u = Uncoloned(t, h)
  OBVIOUS
<1>1b. Cut(u, r, n, b) /\ u \in Seq(Tokens) /\ Len(u) = Len(t)
  <2>1. h \in 1..Len(t) /\ IsHeader(t[h]) /\ Multiline(t, h) /\ Cut(t, r, n, b)
    BY <1>1 DEF OpenAt, LineRead
  <2> QED
    BY <1>1, <1>1a, <2>1, UncolonedIs, UncolonedCut
<1>2. ASSUME NEW k \in 0..n PROVE m.text \o SubSeq(b, 1, k) = Body(t, h, r + k)
  <2>1. PICK q, l : q = h + 1 /\ l = r + k
    OBVIOUS
  <2>2. SubSeq(b, 1, k) = SubSeq(u, r + 1, l)
    <3>1. SameCut(u, r, n, b)
      BY <1>1b, CutSame
    <3>2. 1 \in 1..(n + 1)
      BY <1>1
    <3> QED
      BY <2>1, <3>1, <3>2 DEF SameCut
  <2>3. q \in 1..(Len(u) + 1) /\ r \in (q - 1)..Len(u) /\ l \in r..Len(u)
    BY <1>1, <1>1b, <2>1
  <2>4. SubSeq(u, q, r) \o SubSeq(u, r + 1, l) = SubSeq(u, q, l)
    BY <1>1b, <2>3, ConcatAdjacentSubSeq
  <2>5. m.text = SubSeq(u, q, r) /\ Body(t, h, l) = SubSeq(u, q, l)
    BY <1>1, <1>1a, <2>1 DEF Body
  <2> QED
    BY <2>1, <2>2, <2>4, <2>5
<1> QED
  BY <1>2 DEF Grows

\* It ends in t at e, with what is read up to l: a newline more or less does not matter.
EndsFirst(t, r, n, e) ==
  e \in r..(r + n - 2) /\ Terminates(t, e) /\ \A j \in r..(e - 1) : ~Terminates(t, j)
EndsAs(t, h, e, l) ==
  LET M == Message(LevelOf(t[h]), Body(t, h, l)) IN M \in Said /\ Owed(t, h) = Pieces(M) \o Owed(t, e + 3)
LEMMA OpenEnds ==
  ASSUME NEW t, NEW r, NEW n, NEW b, LineRead(t, r, n, b), NEW m, NEW h, OpenAt(t, r, m, h),
         NEW e, EndsFirst(t, r, n, e)
  PROVE  EndsAs(t, h, e, e - 1) /\ EndsAs(t, h, e, e)
<1>0. e \in r..(r + n - 2) /\ Terminates(t, e) /\ \A j \in r..(e - 1) : ~Terminates(t, j)
  BY DEF EndsFirst
<1>1. /\ t \in Seq(Tokens) /\ r \in Nat /\ n \in Nat /\ Len(t) \in Nat
      /\ r + n <= Len(t) /\ h \in Nat /\ 1 <= h /\ h < r /\ \A j \in (h + 1)..(r - 1) : ~Terminates(t, j)
  BY OpenIs
<1>2. IsHeader(t[h]) /\ Multiline(t, h)
  BY DEF OpenAt
<1>3. PICK q, u, v : q = h + 1 /\ u = e - 1 /\ v = Uncoloned(t, h)
  OBVIOUS
<1>4. /\ q \in Nat \ {0} /\ e \in q..(Len(t) - 2) /\ u \in Int /\ u <= Len(t) /\ e \in Nat /\ e # 0 /\ e <= Len(t)
      /\ h \in 1..(Len(t) + 1) /\ h <= Len(t) /\ q <= e /\ e = u + 1 /\ q - 1 <= u
  BY <1>0, <1>1, <1>3
<1>5. End(t, q) = e
  <2>1. ASSUME NEW j \in q..(e - 1) PROVE ~Terminates(t, j)
    <3>1. j \in (h + 1)..(r - 1) \/ j \in r..(e - 1)
      BY <1>1, <1>3, <1>4
    <3> QED
      BY <1>0, <1>1, <3>1
  <2> QED
    BY <1>0, <1>1, <1>4, <2>1, EndThere
<1>5a. v \in Seq(Tokens) /\ Len(v) = Len(t) /\ v[e] = NewLine
  <2>1. h \in 1..Len(t) /\ e \in 1..Len(t) /\ t[e] = NewLine
    BY <1>0, <1>1, <1>4 DEF Terminates
  <2> QED
    BY <1>1, <1>2, <1>3, <2>1, UncolonedIs
<1>6. SubSeq(v, q, u) \in Seq(Tokens) /\ SubSeq(v, q, e) \in Seq(Tokens)
  BY <1>4, <1>5a, Pieced
<1>8. PICK x, y : x = SubSeq(v, q, u) /\ y = SubSeq(v, q, e)
  OBVIOUS
<1>8a. x = Body(t, h, e - 1) /\ y = Body(t, h, e)
  BY <1>3, <1>8 DEF Body
<1>7. Owed(t, h) = Pieces(Message(LevelOf(t[h]), x)) \o Owed(t, e + 3)
  <2>1. Owed(t, h) = Pieces(Message(LevelOf(t[h]), Body(t, h, End(t, h + 1) - 1))) \o Owed(t, End(t, h + 1) + 3)
    BY <1>1, <1>2, <1>3, <1>4, <1>5, OwedLine
  <2> QED
    BY <1>3, <1>5, <1>8a, <2>1
<1>9. Trimmed(y) = Trimmed(x)
  <2>1. \A j \in q..e : v[j] \in Tokens
    BY <1>1, <1>4, <1>5a
  <2>2. /\ Len(x) = (IF q <= u THEN u - q + 1 ELSE 0) /\ \A i \in 1..(u - q + 1) : x[i] = v[q + i - 1]
    <3>1. q \in Int /\ u \in Int /\ \A j \in q..u : v[j] \in Tokens
      BY <1>1, <1>4, <1>5a
    <3> QED
      BY <1>8, <3>1, SubSeqProperties
  <2>3. /\ Len(y) = (IF q <= e THEN e - q + 1 ELSE 0) /\ \A i \in 1..(e - q + 1) : y[i] = v[q + i - 1]
    BY <1>4, <1>8, <2>1, SubSeqProperties
  <2>4. Len(x) = u - q + 1 /\ Len(y) = Len(x) + 1 /\ Len(y) = e - q + 1 /\ Len(x) \in Nat
    BY <1>4, <2>2, <2>3
  <2>5. y[Len(x) + 1] = NewLine
    <3>1. PICK i : i = Len(x) + 1
      OBVIOUS
    <3>2. i \in 1..(e - q + 1) /\ q + i - 1 = e
      BY <1>4, <2>4, <3>1
    <3> QED
      BY <1>5a, <2>3, <3>1, <3>2
  <2>6. ASSUME NEW i \in 1..Len(x) PROVE y[i] = x[i]
    <3>1. i \in 1..(u - q + 1) /\ i \in 1..(e - q + 1)
      BY <1>4, <2>4
    <3> QED
      BY <2>2, <2>3, <3>1
  <2> QED
    BY <1>6, <1>8, <2>4, <2>5, <2>6, TrimmedSame
<1>10. PICK L, Mx, My : L = LevelOf(t[h]) /\ Mx = Message(L, x) /\ My = Message(L, y)
  OBVIOUS
<1>11. Mx \in Said /\ My \in Said
  BY <1>2, <1>6, <1>8, <1>10, HeaderSays
<1>12. Pieces(My) = Pieces(Mx)
  <2>1. /\ Mx = [level |-> L, text |-> x] /\ My = [level |-> L, text |-> y] /\ L # Plain
    BY <1>2, <1>10, LevelIs DEF Message
  <2>2. [Mx EXCEPT !.text = Trimmed(@)] = [level |-> L, text |-> Trimmed(x)]
    BY <2>1
  <2>3. [My EXCEPT !.text = Trimmed(@)] = [level |-> L, text |-> Trimmed(y)]
    BY <2>1
  <2>4. Mx.level # Plain /\ My.level # Plain
    BY <2>1
  <2> QED
    BY <1>9, <2>2, <2>3, <2>4 DEF Pieces
<1>13. Owed(t, h) = Pieces(Mx) \o Owed(t, e + 3)
  BY <1>7, <1>10
<1> QED
  BY <1>8a, <1>10, <1>11, <1>12, <1>13 DEF EndsAs

\* A read, when a message of several lines has not ended.
LEMMA GoesOnWhole ==
  ASSUME NEW t, NEW r, NEW n, NEW b, LineRead(t, r, n, b), NEW m, NEW h, OpenAt(t, r, m, h)
  PROVE  /\ Whole(t, r + n, GoesOn(m, b).out, GoesOn(m, b).multi, h) /\ GoesOn(m, b).out \in Seq(Said)
<1>1. /\ t \in Seq(Tokens) /\ b \in Seq(Tokens) /\ Len(b) = n /\ r \in Nat /\ n \in Nat /\ Len(t) \in Nat
      /\ r + n <= Len(t) /\ h \in Nat /\ 1 <= h /\ h < r
      /\ m.level = LevelOf(t[h]) /\ m.text = Body(t, h, r) /\ m.text \in Seq(Tokens)
      /\ m.text # <<>> /\ m.text[Len(m.text)] = NewLine
      /\ \A j \in (h + 1)..(r - 1) : ~Terminates(t, j)
  BY OpenIs
<1>2. Cut(t, r, n, b) /\ AtLine(t, r, n) /\ NoHeaderAfter(b) /\ t[r] = NewLine
  BY DEF LineRead
<1>3. \A i \in 1..n : b[i] = t[r + i]
  BY <1>2 DEF Cut
<1>4. IsHeader(t[h]) /\ Multiline(t, h)
  BY DEF OpenAt
<1>5. Len(b) > 1 /\ b[1] = Colons /\ b[2] = NewLine <=> n >= 2 /\ Terminates(t, r)
  <2>1. CASE n >= 2
    <3>1. b[1] = t[r + 1] /\ b[2] = t[r + 2]
      <4>1. 1 \in 1..n /\ 2 \in 1..n
        BY <1>1, <2>1
      <4> QED
        BY <1>3, <4>1
    <3>2. Len(b) > 1
      BY <1>1, <2>1
    <3> QED
      BY <1>2, <2>1, <3>1, <3>2 DEF Terminates
  <2>2. CASE ~(n >= 2)
    BY <1>1, <2>2
  <2> QED
    BY <2>1, <2>2
\* The three colons are cut from the newline before them.
<1>6. CASE n >= 2 /\ Terminates(t, r)
  <2>1. PICK x, w : x = <<>> /\ w = Rest(b, 3)
    OBVIOUS
  <2>2. GoesOn(m, b) = Ends(m, x, w)
    BY <1>1, <1>5, <1>6, <2>1 DEF GoesOn
  <2>3. m.text \o x = Body(t, h, r)
    BY <1>1, <2>1, ConcatEmptySeq
  <2>4. PICK M : M = Message(m.level, m.text \o x)
    OBVIOUS
  <2>5. M \in Said /\ Owed(t, h) = Pieces(M) \o Owed(t, r + 3)
    <3>1. r \in r..(r + n - 2) /\ \A j \in r..(r - 1) : ~Terminates(t, j)
      BY <1>1, <1>6
    <3>2. EndsFirst(t, r, n, r)
      BY <1>6, <3>1 DEF EndsFirst
    <3>3. M = Message(LevelOf(t[h]), Body(t, h, r))
      BY <1>1, <2>3, <2>4
    <3>4. EndsAs(t, h, r, r)
      BY <3>2, OpenEnds
    <3> QED
      BY <3>3, <3>4 DEF EndsAs
  <2>6. 3 \in 1..(n + 1)
    BY <1>1, <1>6
  <2>7. /\ Whole(t, r + n, Ends(m, x, w).out, Ends(m, x, w).multi, h)
        /\ Ends(m, x, w).out \in Seq(Said)
    BY <1>2, <2>1, <2>4, <2>5, <2>6, EndsWhole
  <2> QED
    BY <2>2, <2>7
<1>7. CASE ~(n >= 2 /\ Terminates(t, r)) /\ End(b, 1) # 0
  <2>1. PICK d : d = End(b, 1)
    OBVIOUS
  <2>2. d \in 1..(n - 2) /\ Terminates(b, d) /\ \A j \in 1..(d - 1) : ~Terminates(b, j)
    <3>1. 1 \in Nat \ {0}
      OBVIOUS
    <3>2. \/ End(b, 1) = 0
          \/ /\ End(b, 1) \in 1..(Len(b) - 2) /\ Terminates(b, End(b, 1))
             /\ \A j \in 1..(End(b, 1) - 1) : ~Terminates(b, j)
      BY <1>1, <3>1, EndIs
    <3> QED
      BY <1>1, <1>7, <2>1, <3>2
  <2>3. PICK x, w, c, e, l : x = SubSeq(b, 1, d - 1) /\ w = Rest(b, c) /\ c = d + 3 /\ e = r + d /\ l = e - 1
    OBVIOUS
  <2>4. GoesOn(m, b) = Ends(m, x, w)
    BY <1>5, <1>7, <2>1, <2>3 DEF GoesOn
  <2>5. d - 1 \in 0..n /\ l = r + (d - 1) /\ c \in 1..(n + 1) /\ e + 3 = r + c /\ e \in r..(r + n - 2) /\ n >= 2
    BY <1>1, <2>2, <2>3
  <2>6. m.text \o x = Body(t, h, l)
    <3>1. Grows(t, r, n, b, m, h)
      BY OpenGrows
    <3>2. m.text \o SubSeq(b, 1, d - 1) = Body(t, h, r + (d - 1))
      BY <2>5, <3>1 DEF Grows
    <3> QED
      BY <2>3, <2>5, <3>2
  <2>7. PICK M : M = Message(m.level, m.text \o x)
    OBVIOUS
  <2>8. M \in Said /\ Owed(t, h) = Pieces(M) \o Owed(t, e + 3)
    <3>1. Terminates(t, e)
      <4>1. d \in 1..(n - 2)
        BY <2>2
      <4> QED
        BY <1>2, <2>2, <2>3, <4>1, TerminatesShifted
    <3>2. ASSUME NEW j \in r..(e - 1) PROVE ~Terminates(t, j)
      <4>1. CASE j = r
        BY <1>7, <2>5, <4>1
      <4>2. CASE j # r
        <5>1. PICK k : k = j - r
          OBVIOUS
        <5>2. k \in 1..(d - 1) /\ k \in 1..(n - 2) /\ r + k = j
          BY <1>1, <2>2, <2>3, <4>2, <5>1
        <5>3. ~Terminates(b, k)
          BY <2>2, <5>2
        <5> QED
          BY <1>2, <5>2, <5>3, TerminatesShifted
      <4> QED
        BY <4>1, <4>2
    <3>3. M = Message(LevelOf(t[h]), Body(t, h, l)) /\ l = e - 1
      BY <1>1, <2>3, <2>6, <2>7
    <3>4. EndsFirst(t, r, n, e)
      BY <2>5, <3>1, <3>2 DEF EndsFirst
    <3>5. EndsAs(t, h, e, e - 1)
      BY <3>4, OpenEnds
    <3> QED
      BY <3>3, <3>5 DEF EndsAs
  <2>9. /\ Whole(t, r + n, Ends(m, x, w).out, Ends(m, x, w).multi, h)
        /\ Ends(m, x, w).out \in Seq(Said)
    BY <1>2, <2>3, <2>5, <2>7, <2>8, EndsWhole
  <2> QED
    BY <2>4, <2>9
<1>8. CASE ~(n >= 2 /\ Terminates(t, r)) /\ End(b, 1) = 0
  <2>1. PICK g, R : g = GoesOn(m, b) /\ R = r + n
    OBVIOUS
  <2>2. g = [out |-> <<>>, multi |-> <<Message(m.level, m.text \o b)>>]
    BY <1>5, <1>8, <2>1 DEF GoesOn
  <2>3. m.text \o b = Body(t, h, R)
    <3>1. n \in 0..n /\ SubSeq(b, 1, n) = b
      <4>1. b \in Seq(Tokens)
        BY <1>1
      <4>2. SubSeq(b, 1, Len(b)) = b
        BY <4>1, SubSeqFull
      <4> QED
        BY <1>1, <4>2
    <3>2. m.text \o SubSeq(b, 1, n) = Body(t, h, R)
      <4>1. Grows(t, r, n, b, m, h)
        BY OpenGrows
      <4> QED
        BY <2>1, <3>1, <4>1 DEF Grows
    <3> QED
      BY <3>1, <3>2
  <2>4. g.out = <<>> /\ g.multi = <<Message(LevelOf(t[h]), Body(t, h, R))>> /\ g.multi # <<>>
    BY <1>1, <2>2, <2>3
  <2>5. ASSUME NEW j \in (h + 1)..(R - 2) PROVE ~Terminates(t, j)
    <3>1. CASE j < r
      <4>1. j \in (h + 1)..(r - 1)
        BY <1>1, <3>1
      <4> QED
        BY <1>1, <4>1
    <3>2. CASE j = r
      <4>1. n >= 2
        BY <1>1, <2>1, <3>2
      <4> QED
        BY <1>8, <3>2, <4>1
    <3>3. CASE j > r
      <4>1. PICK k : k = j - r
        OBVIOUS
      <4>2. k \in 1..(n - 2) /\ r + k = j
        BY <1>1, <2>1, <3>3, <4>1
      <4>3. ~Terminates(b, k)
        <5>0. 1 \in Nat \ {0} /\ b \in Seq(Tokens) /\ ~(0 \in 1..(Len(b) - 2))
          BY <1>1
        <5>2. \/ End(b, 1) = 0 /\ \A i \in 1..(Len(b) - 2) : ~Terminates(b, i)
              \/ End(b, 1) \in 1..(Len(b) - 2)
          BY <5>0, EndIs
        <5>1. \A i \in 1..(Len(b) - 2) : ~Terminates(b, i)
          BY <1>8, <5>0, <5>2
        <5> QED
          BY <1>1, <4>2, <5>1
      <4> QED
        BY <1>2, <4>2, <4>3, TerminatesShifted
    <3>4. j \in Int /\ r \in Int
      BY <1>1
    <3> QED
      BY <3>1, <3>2, <3>3, <3>4
  <2>6. h \in 1..R /\ h \in 1..(Len(t) + 1)
    BY <1>1, <2>1
  <2>7. At(t, R, g.multi, h)
    BY <1>4, <2>4, <2>5, <2>6 DEF At
  <2>8. Normal(<<>>) \o Owed(t, h) = Owed(t, h)
    BY <1>1, <2>6, OwedOnly
  <2>9. <<>> \in Seq(Said)
    OBVIOUS
  <2> QED
    BY <2>1, <2>4, <2>6, <2>7, <2>8, <2>9 DEF Whole
<1> QED
  BY <1>6, <1>7, <1>8

-----------------------------------------------------------------------------
(* Any reads                                                                 *)

StreamInv ==
  /\ text \in Seq(Tokens) /\ read \in 0..Len(text) /\ even \in BOOLEAN
  /\ eof => read = Len(text)
  /\ even => /\ read = 0 \/ read = Len(text) \/ text[read] = NewLine
             /\ out \in Seq(Said) /\ Whole(text, read, out, multi, 1)

LEMMA StreamInit == ASSUME FlowInit PROVE StreamInv
<1>1. PICK s \in Scenes : InitStreams(s.texts)
  BY DEF FlowInit
<1>2. text \in Seq(Tokens) /\ read = 0 /\ multi = <<>> /\ out = <<>> /\ even = TRUE /\ eof = FALSE
  BY <1>1, ScenesAssumption DEF InitStreams, NoMulti
<1>3. PICK t : t = text
  OBVIOUS
<1>4. t \in Seq(Tokens) /\ Len(t) \in Nat /\ 1 \in 1..(Len(t) + 1)
  BY <1>2, <1>3
<1>5. At(t, 0, <<>>, 1)
  BY DEF At
<1>6. Normal(<<>>) \o Owed(t, 1) = Owed(t, 1)
  BY <1>4, OwedOnly
<1>7. Whole(t, 0, <<>>, <<>>, 1)
  BY <1>4, <1>5, <1>6 DEF Whole
<1> QED
  BY <1>2, <1>3, <1>4, <1>7 DEF StreamInv

\* What a read makes, after what was made before.
LEMMA ReadWhole ==
  ASSUME NEW t, NEW r, NEW n \in Nat \ {0}, NEW b, Cut(t, r, n, b), AtLine(t, r, n), NoHeaderAfter(b),
         r = 0 \/ r = Len(t) \/ t[r] = NewLine,
         NEW ms \in Seq(Said), NEW mu, Whole(t, r, ms, mu, 1),
         NEW p, p = (IF mu = NoMulti THEN Process(b) ELSE GoesOn(mu[1], b))
  PROVE  ms \o p.out \in Seq(Said) /\ Whole(t, r + n, ms \o p.out, p.multi, 1)
<1>1. PICK h \in 1..(Len(t) + 1) : At(t, r, mu, h) /\ Normal(ms) \o Owed(t, h) = Owed(t, 1)
  BY DEF Whole
<1>2. t \in Seq(Tokens) /\ r \in Nat /\ r + n \in Nat /\ r + n <= Len(t) /\ Len(t) \in Nat
  BY DEF Cut
<1>3. p.out \in Seq(Said) /\ Whole(t, r + n, p.out, p.multi, h)
  <2>1. CASE mu = NoMulti
    <3>1. h = r + 1 /\ p = Process(b)
      BY <1>1, <2>1 DEF At, NoMulti
    <3> QED
      BY <3>1, ProcessWhole
  <2>2. CASE mu # NoMulti
    <3>1. PICK m : m = Message(LevelOf(t[h]), Body(t, h, r))
      OBVIOUS
    <3>2. mu = <<m>> /\ OpenAt(t, r, m, h)
      BY <1>1, <2>2, <3>1 DEF At, OpenAt, NoMulti
    <3>3. mu[1] = m /\ p = GoesOn(m, b)
      BY <2>2, <3>2
    <3>4. r # 0 /\ r # Len(t)
      BY <1>1, <1>2, <3>2 DEF OpenAt
    <3>5. LineRead(t, r, n, b)
      BY <3>4 DEF LineRead
    <3> QED
      BY <3>2, <3>3, <3>5, GoesOnWhole
  <2> QED
    BY <2>1, <2>2
<1>4. PICK a, ns, R, o, nu : a = Normal(ms) /\ ns = ms \o p.out /\ R = r + n /\ o = p.out /\ nu = p.multi
  OBVIOUS
<1>5. a \in Seq(Said) /\ ns \in Seq(Said) /\ Normal(ns) = a \o Normal(o)
  BY <1>3, <1>4, NormalIs, NormalConcat, ConcatProperties
<1>6. Whole(t, R, ns, nu, 1)
  <2>1. R \in Nat /\ o \in Seq(Said) /\ Owed(t, 1) = a \o Owed(t, h) /\ Whole(t, R, o, nu, h)
    BY <1>1, <1>2, <1>3, <1>4
  <2> QED
    BY <1>2, <1>5, <2>1, WholeMore
<1> QED
  BY <1>4, <1>5, <1>6

LEMMA StreamNext == ASSUME StreamInv, [FlowNext]_flowVars PROVE StreamInv'
<1>1. CASE UNCHANGED streams
  BY <1>1 DEF StreamInv, streams
<1>2. CASE Eof
  BY <1>2 DEF Eof, StreamInv
<1>3. ASSUME NEW n \in 1..(Len(text) - read), Read(n) PROVE StreamInv'
  <2>1. PICK b, p, t, r : /\ b = SubSeq(text, read + 1, read + n) /\ t = text /\ r = read
                          /\ p = IF multi = NoMulti THEN Process(b) ELSE GoesOn(multi[1], b)
    OBVIOUS
  <2>2. /\ ~eof /\ r + n <= Len(t) /\ read' = r + n /\ out' = out \o p.out /\ multi' = p.multi
        /\ even' = /\ even /\ (read' = Len(t) \/ b[n] = NewLine)
                   /\ \A i \in 1..(n - 3) : Terminates(b, i) => ~IsHeader(b[i + 3])
        /\ text' = t /\ eof' = eof
    BY <1>3, <2>1 DEF Read
  <2>3. t \in Seq(Tokens) /\ r \in 0..Len(t) /\ Len(t) \in Nat /\ r \in Nat /\ n \in Nat \ {0} /\ r + n \in 0..Len(t)
    BY <1>3, <2>1, <2>2 DEF StreamInv
  <2>4. b \in Seq(Tokens) /\ Len(b) = n /\ \A i \in 1..n : b[i] = t[r + i]
    <3>1. PICK k, l : k = r + 1 /\ l = r + n
      OBVIOUS
    <3>2. k \in Int /\ l \in Int /\ k <= l /\ l - k + 1 = n /\ \A i \in k..l : t[i] \in Tokens
      BY <2>3, <3>1
    <3>3. /\ SubSeq(t, k, l) \in Seq(Tokens) /\ Len(SubSeq(t, k, l)) = IF k <= l THEN l - k + 1 ELSE 0
          /\ \A i \in 1..(l - k + 1) : SubSeq(t, k, l)[i] = t[k + i - 1]
      BY <3>2, SubSeqProperties
    <3>4. ASSUME NEW i \in 1..n PROVE k + i - 1 = r + i
      BY <2>3, <3>1
    <3>5. b = SubSeq(t, k, l)
      BY <2>1, <3>1
    <3>6. ASSUME NEW i \in 1..n PROVE b[i] = t[r + i]
      BY <3>2, <3>3, <3>4, <3>5
    <3> QED
      BY <3>2, <3>3, <3>5, <3>6
  <2>5. Cut(t, r, n, b)
    BY <2>2, <2>3, <2>4 DEF Cut
  <2>6. even' \in BOOLEAN
    BY <2>2
  <2>7. ASSUME even'
        PROVE  /\ read' = Len(t) \/ t[read'] = NewLine
               /\ out' \in Seq(Said) /\ Whole(t, r + n, out', multi', 1)
    <3>1. /\ even /\ (r + n = Len(t) \/ b[n] = NewLine)
          /\ \A i \in 1..(n - 3) : Terminates(b, i) => ~IsHeader(b[i + 3])
      BY <2>2, <2>7
    <3>2. b[n] = t[r + n]
      BY <2>3, <2>4
    <3>3. AtLine(t, r, n) /\ NoHeaderAfter(b)
      BY <2>4, <3>1, <3>2 DEF AtLine, NoHeaderAfter
    <3>4. /\ r = 0 \/ r = Len(t) \/ t[r] = NewLine
          /\ out \in Seq(Said) /\ Whole(t, r, out, multi, 1)
      BY <2>1, <3>1 DEF StreamInv
    <3>5. out \o p.out \in Seq(Said) /\ Whole(t, r + n, out \o p.out, p.multi, 1)
      BY <2>1, <2>3, <2>5, <3>3, <3>4, ReadWhole
    <3> QED
      BY <2>2, <3>1, <3>2, <3>5
  <2> QED
    BY <2>1, <2>2, <2>3, <2>6, <2>7 DEF StreamInv
<1> QED
  BY <1>1, <1>2, <1>3 DEF FlowNext, OutputStep, StreamStep, flowVars, streams

\* For any text, and however the pipe is read: when every read has ended at a line's end, the
\* messages made are, up to how plain text is cut, those of the text (stream.Consumer, consume
\* and process, input.go).
THEOREM WholeHolds == FlowSpec => []MessagesWhole
<1>1. StreamInv => MessagesWhole
  <2> SUFFICES ASSUME StreamInv, eof, even PROVE Normal(out) = Normal(Lines(text))
    BY DEF MessagesWhole
  <2>1. PICK t, r, N : t = text /\ r = read /\ N = Len(text)
    OBVIOUS
  <2>2. t \in Seq(Tokens) /\ r = N /\ N = Len(t) /\ N \in Nat /\ out \in Seq(Said) /\ Whole(t, N, out, multi, 1)
    BY <2>1 DEF StreamInv
  <2>3. PICK h \in 1..(N + 1) : At(t, N, multi, h) /\ Normal(out) \o Owed(t, h) = Owed(t, 1)
    BY <2>2 DEF Whole
  <2>4. Owed(t, h) = <<>>
    <3>1. CASE multi = <<>>
      <4>1. h = N + 1
        BY <2>3, <3>1 DEF At
      <4> QED
        BY <2>2, <4>1, OwedLine
    <3>2. CASE multi # <<>>
      <4>1. h \in 1..N /\ IsHeader(t[h]) /\ Multiline(t, h) /\ \A j \in (h + 1)..(N - 2) : ~Terminates(t, j)
        BY <2>3, <3>2 DEF At
      <4>2. PICK q : q = h + 1
        OBVIOUS
      <4>3. q \in Nat \ {0} /\ \A j \in q..(Len(t) - 2) : ~Terminates(t, j)
        BY <2>2, <4>1, <4>2
      <4>4. End(t, q) = 0
        BY <2>2, <4>3, EndIs
      <4>5. h \in 1..(Len(t) + 1) /\ h <= Len(t)
        BY <2>2, <4>1
      <4> QED
        BY <2>2, <4>1, <4>2, <4>4, <4>5, OwedLine
    <3> QED
      BY <3>1, <3>2
  <2>5. Normal(out) = Owed(t, 1)
    <3>1. Normal(out) \in Seq(Said)
      BY <2>2, NormalIs
    <3> QED
      BY <2>3, <2>4, <3>1, ConcatEmptySeq
  <2> QED
    BY <2>1, <2>5 DEF Owed, Lines
<1>2. FlowSpec => []StreamInv
  BY StreamInit, StreamNext, PTL DEF FlowSpec
<1> QED
  BY <1>1, <1>2, PTL
=============================================================================
