------------------------------ MODULE PidTable ------------------------------
(***************************************************************************)
(* Who gets the exit status of a child: registerPID, waitPID and           *)
(* processWait of base/mgr/pm.go, with the way a process is run in         *)
(* base/mgr/systemprocess.go.                                              *)
(*                                                                         *)
(* One goroutine reaps every child of the program, whoever started it, and *)
(* hands its status to the channel the table has for its pid, in a         *)
(* goroutine of its own that takes the entry out of the table afterwards.  *)
(* The processes and their pids belong to the operating system, which may  *)
(* give a pid again once it has been reaped. A channel is named after the  *)
(* process it was made for. The children that no job started, those that   *)
(* were left to the program by their parents, are the orphans.             *)
(***************************************************************************)
EXTENDS Naturals, FiniteSets

CONSTANTS
  Proc,     \* the processes
  Orphan,   \* those no job has started
  Pid,      \* the pids of the operating system
  SigCap,   \* the capacity of the channel of SIGCHLDs, 2 in the code
  NoPid, NoProc, Nobody

ASSUME PidAssumption ==
  /\ Orphan \subseteq Proc
  /\ SigCap \in Nat \ {0}
  /\ NoPid \notin Pid
  /\ NoProc \notin Proc
  /\ Nobody \notin Proc

VARIABLES
  os,      \* the process: "none", "alive", "zombie" or "reaped"
  pid,     \* its pid
  status,  \* its exit status
  mux,     \* pidsMux: the process whose registration holds it, or Nobody
  table,   \* pids: the channel for every pid
  sigs,    \* the SIGCHLDs in the channel
  reaper,  \* processWait: waits for a signal, in Wait4, or looks a child up
  reaped,  \* the child it looks up
  sender,  \* the goroutine that delivers the status of a process
  to,      \* the channel it delivers to
  closed,  \* the channels that are closed
  waiter,  \* the goroutine of run() that waits for a process
  from,    \* the channel it waits on
  result   \* what WaitPID returned

kernel == <<os, pid, status>>
signal == <<sigs, reaper, reaped>>
delivery == <<sender, to, closed>>
waiting == <<waiter, from, result>>
vars == <<kernel, mux, table, signal, delivery, waiting>>

Status == {"zero", "nonzero"}

Init ==
  /\ os = [p \in Proc |-> "none"]
  /\ pid = [p \in Proc |-> NoPid]
  /\ status = [p \in Proc |-> "none"]
  /\ mux = Nobody
  /\ table = [n \in Pid |-> NoProc]
  /\ sigs = 0
  /\ reaper = "signal"
  /\ reaped = NoProc
  /\ sender = [p \in Proc |-> "none"]
  /\ to = [p \in Proc |-> NoProc]
  /\ closed = {}
  /\ waiter = [p \in Proc |-> "none"]
  /\ from = [p \in Proc |-> NoProc]
  /\ result = [p \in Proc |-> "none"]

(***************************************************************************)
(* The operating system.                                                   *)
(***************************************************************************)
Busy == {pid[p] : p \in {q \in Proc : os[q] \in {"alive", "zombie"}}}

Fork(p) ==
  /\ os[p] = "none"
  /\ \E n \in Pid \ Busy : pid' = [pid EXCEPT ![p] = n]
  /\ os' = [os EXCEPT ![p] = "alive"]
  /\ UNCHANGED status

Inherit(p) ==
  /\ p \in Orphan
  /\ Fork(p)
  /\ UNCHANGED <<mux, table, signal, delivery, waiting>>

\* A signal that finds the channel full is dropped.
Die(p) ==
  /\ os[p] = "alive"
  /\ os' = [os EXCEPT ![p] = "zombie"]
  /\ \E st \in Status : status' = [status EXCEPT ![p] = st]
  /\ sigs' = IF sigs < SigCap THEN sigs + 1 ELSE sigs
  /\ UNCHANGED <<pid, mux, table, reaper, reaped, delivery, waiting>>

(***************************************************************************)
(* registerPID: the process is started and entered with pidsMux held.      *)
(***************************************************************************)
Spawn(p) ==
  /\ p \notin Orphan
  /\ mux = Nobody
  /\ Fork(p)
  /\ mux' = p
  /\ UNCHANGED <<table, signal, delivery, waiting>>

Register(p) ==
  /\ mux = p
  /\ table' = [table EXCEPT ![pid[p]] = p]
  /\ mux' = Nobody
  /\ waiter' = [waiter EXCEPT ![p] = "started"]
  /\ UNCHANGED <<kernel, signal, delivery, from, result>>

(***************************************************************************)
(* waitPID, from the goroutine that Run leaves behind.                     *)
(***************************************************************************)

\* Without an entry the status is WaitStatus(0).
AskNothing(p) ==
  /\ waiter[p] = "started"
  /\ mux = Nobody
  /\ table[pid[p]] = NoProc
  /\ waiter' = [waiter EXCEPT ![p] = "done"]
  /\ result' = [result EXCEPT ![p] = "zero"]
  /\ UNCHANGED <<kernel, mux, table, signal, delivery, from>>

Ask(p) ==
  /\ waiter[p] = "started"
  /\ mux = Nobody
  /\ table[pid[p]] # NoProc
  /\ from' = [from EXCEPT ![p] = table[pid[p]]]
  /\ waiter' = [waiter EXCEPT ![p] = "receiving"]
  /\ UNCHANGED <<kernel, mux, table, signal, delivery, result>>

\* A closed channel gives the zero value.
ReceiveClosed(p) ==
  /\ waiter[p] = "receiving"
  /\ from[p] \in closed
  /\ waiter' = [waiter EXCEPT ![p] = "done"]
  /\ result' = [result EXCEPT ![p] = "zero"]
  /\ UNCHANGED <<kernel, mux, table, signal, delivery, from>>

(***************************************************************************)
(* processWait.                                                            *)
(***************************************************************************)
TakeSignal ==
  /\ reaper = "signal"
  /\ sigs > 0
  /\ sigs' = sigs - 1
  /\ reaper' = "wait"
  /\ UNCHANGED <<kernel, mux, table, reaped, delivery, waiting>>

\* Wait4 blocks while there are children and none is a zombie.
Reap(p) ==
  /\ reaper = "wait"
  /\ os[p] = "zombie"
  /\ os' = [os EXCEPT ![p] = "reaped"]
  /\ reaper' = "lookup"
  /\ reaped' = p
  /\ UNCHANGED <<pid, status, mux, table, sigs, delivery, waiting>>

NoChildren ==
  /\ reaper = "wait"
  /\ \A p \in Proc : os[p] \notin {"alive", "zombie"}
  /\ reaper' = "signal"
  /\ UNCHANGED <<kernel, mux, table, sigs, reaped, delivery, waiting>>

\* Mutant: the table is read without pidsMux.
LookupUnlocked ==
  /\ reaper = "lookup"
  /\ LET ch == table[pid[reaped]] IN
       IF ch = NoProc THEN UNCHANGED <<sender, to>>
       ELSE /\ sender' = [sender EXCEPT ![reaped] = "sending"]
            /\ to' = [to EXCEPT ![reaped] = ch]
  /\ reaper' = "wait"
  /\ reaped' = NoProc
  /\ UNCHANGED <<kernel, mux, table, sigs, closed, waiting>>

\* Mutant: the entry leaves the table before its status is delivered.
LookupDeletes ==
  /\ reaper = "lookup"
  /\ mux = Nobody
  /\ LET ch == table[pid[reaped]] IN
       IF ch = NoProc THEN UNCHANGED <<sender, to, table>>
       ELSE /\ sender' = [sender EXCEPT ![reaped] = "sending"]
            /\ to' = [to EXCEPT ![reaped] = ch]
            /\ table' = [table EXCEPT ![pid[reaped]] = NoProc]
  /\ reaper' = "wait"
  /\ reaped' = NoProc
  /\ UNCHANGED <<kernel, mux, sigs, closed, waiting>>

Lookup ==
  /\ reaper = "lookup"
  /\ mux = Nobody
  /\ LET ch == table[pid[reaped]] IN
       IF ch = NoProc THEN UNCHANGED <<sender, to>>
       ELSE /\ sender' = [sender EXCEPT ![reaped] = "sending"]
            /\ to' = [to EXCEPT ![reaped] = ch]
  /\ reaper' = "wait"
  /\ reaped' = NoProc
  /\ UNCHANGED <<kernel, mux, table, sigs, closed, waiting>>

(***************************************************************************)
(* The goroutine that delivers the status of p: it needs someone to take   *)
(* it, for the channel has no buffer.                                      *)
(***************************************************************************)
Deliver(p, w) ==
  /\ sender[p] = "sending"
  /\ to[p] \notin closed
  /\ waiter[w] = "receiving"
  /\ from[w] = to[p]
  /\ result' = [result EXCEPT ![w] = status[p]]
  /\ waiter' = [waiter EXCEPT ![w] = "done"]
  /\ sender' = [sender EXCEPT ![p] = "sent"]
  /\ UNCHANGED <<kernel, mux, table, signal, to, closed, from>>

\* Two that deliver to one channel: a send on it, or a close of it, after the
\* first has closed it ends the program.
Panic(p) ==
  /\ sender[p] \in {"sending", "sent"}
  /\ to[p] \in closed
  /\ sender' = [sender EXCEPT ![p] = "panicked"]
  /\ UNCHANGED <<kernel, mux, table, signal, to, closed, waiting>>

Close(p) ==
  /\ sender[p] = "sent"
  /\ to[p] \notin closed
  /\ closed' = closed \cup {to[p]}
  /\ sender' = [sender EXCEPT ![p] = "closed"]
  /\ UNCHANGED <<kernel, mux, table, signal, to, waiting>>

Delete(p) ==
  /\ sender[p] = "closed"
  /\ mux = Nobody
  /\ table' = [table EXCEPT ![pid[p]] = NoProc]
  /\ sender' = [sender EXCEPT ![p] = "done"]
  /\ UNCHANGED <<kernel, mux, signal, to, closed, waiting>>

Waiter(p) == AskNothing(p) \/ Ask(p) \/ ReceiveClosed(p)
Reaper == TakeSignal \/ NoChildren \/ Lookup \/ \E p \in Proc : Reap(p)
Sender(p) == Panic(p) \/ Close(p) \/ Delete(p) \/ \E w \in Proc : Deliver(p, w)

Crashed == \E p \in Proc : sender[p] = "panicked"

Next ==
  /\ ~Crashed
  /\ \/ Reaper
     \/ \E p \in Proc :
          Inherit(p) \/ Die(p) \/ Spawn(p) \/ Register(p) \/ Waiter(p) \/ Sender(p)

Spec == Init /\ [][Next]_vars

\* The goroutines go on. pidsMux is contended, and a mutex of Go is not taken for
\* ever from one that waits for it. A process passes each of these steps once, so
\* one condition over all of them asks as much as one for each.
Fairness ==
  /\ SF_vars(Reaper)
  /\ SF_vars(\E p \in Proc : Register(p) \/ Waiter(p))
  /\ SF_vars(\E p \in Proc : Sender(p))

FairSpec == Spec /\ Fairness

-----------------------------------------------------------------------------
(***************************************************************************)
(* Properties.                                                             *)
(***************************************************************************)

\* Every variable holds a value the code can give it.
TypeOK ==
  /\ os \in [Proc -> {"none", "alive", "zombie", "reaped"}]
  /\ pid \in [Proc -> Pid \cup {NoPid}]
  /\ status \in [Proc -> Status \cup {"none"}]
  /\ mux \in (Proc \ Orphan) \cup {Nobody}
  /\ table \in [Pid -> (Proc \ Orphan) \cup {NoProc}]
  /\ sigs \in 0..SigCap
  /\ reaper \in {"signal", "wait", "lookup"}
  /\ reaped \in Proc \cup {NoProc}
  /\ sender \in [Proc -> {"none", "sending", "sent", "closed", "done",
                       "panicked"}]
  /\ to \in [Proc -> Proc \cup {NoProc}]
  /\ closed \subseteq Proc
  /\ waiter \in [Proc -> {"none", "started", "receiving", "done"}]
  /\ from \in [Proc -> Proc \cup {NoProc}]
  /\ result \in [Proc -> Status \cup {"none"}]

\* No other process has had the pid of p so far.
Alone(p) == \A q \in Proc \ {p} : pid[q] # pid[p]

\* As long as the pid of a process was given to no other, what WaitPID returns for
\* it is its own status, and it has exited: whatever happens to other pids, and
\* whichever goroutine comes first.
OwnStatus ==
  \A p \in Proc : result[p] # "none" /\ Alone(p) =>
    os[p] = "reaped" /\ result[p] = status[p]

\* With pids that are given again WaitPID is at least no guess: a process that had
\* this pid has exited.
SomeExit ==
  \A p \in Proc : result[p] # "none" =>
    \E q \in Proc : pid[q] = pid[p] /\ os[q] = "reaped"

\* Once a job's process has exited, its WaitPID returns, however the exit falls
\* between the steps of the registration, and whichever signals are dropped:
\* unless its pid was given to another, or the program has crashed.
WaitReturns ==
  \A p \in Proc \ Orphan :
    os[p] = "zombie" ~> result[p] # "none" \/ ~Alone(p) \/ Crashed
=============================================================================
