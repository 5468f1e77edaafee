----------------------------- MODULE JobManager -----------------------------
(***************************************************************************)
(* The process manager of 0-core: base/mgr/pm.go and base/mgr/queue.go.    *)
(*                                                                         *)
(* Callers hand commands to RunFactory, which enters a job in the jobs map *)
(* and pushes it on the queue; one dispatcher goroutine (loop) takes jobs  *)
(* from the queue's unbuffered channel and starts them; a job's goroutine  *)
(* ends in cleanUp, which takes the job out of the map, lets the next      *)
(* command of the same named queue in, and wakes the dispatcher.           *)
(*                                                                         *)
(* A Job here is one object made by newJob: it is pushed and run once. Two *)
(* jobs may carry the same command ID. The restarts inside start() are the *)
(* business of module Job.                                                 *)
(*                                                                         *)
(* jobsM and q.lock are held across a blocking channel send, so they are   *)
(* variables that name their owner. A section that never blocks while it   *)
(* holds a lock is one step, guarded by the lock being free.               *)
(***************************************************************************)
EXTENDS Naturals, Sequences, FiniteSets

CONSTANTS
  Job,       \* the job objects made during a behaviour
  Id,        \* the command ID of every job, cmd.ID
  QueueName, \* the names of the sequential queues
  Queue,     \* cmd.Queue of every job, NoQueue when it is the empty string
  Caller,    \* the job whose builtin action runs this one and waits for it
  Except,    \* the IDs Shutdown is told to leave alone
  MaxJobs,   \* mgr.MaxJobs
  NoQueue,
  Nil

ASSUME JobAssumption ==
  /\ IsFiniteSet(Job)
  /\ Nil \notin Job
  /\ NoQueue \notin QueueName
  /\ Queue \in [Job -> QueueName \cup {NoQueue}]
  /\ Caller \in [Job -> Job \cup {Nil}]
  /\ MaxJobs \in Nat \ {0}

VARIABLES
  jobs,     \* the jobs map, as the set of the jobs in it
  jobsM,    \* the job whose RunFactory holds jobsM, or Nil
  queues,   \* the list of every named queue, <<>> when the map has no entry
  qLock,    \* the job whose Push or Notify holds q.lock over a send, or Nil
  closed,   \* q.closed, and q.ch closed with it
  loop,     \* where the dispatcher goroutine is
  pc,       \* where every job is
  signaled, \* the jobs in whose signal channel a signal was put
  shutdown  \* how far Shutdown has come

vars == <<jobs, jobsM, queues, qLock, closed, loop, pc, signaled, shutdown>>

(***************************************************************************)
(* The places of a job.                                                    *)
(*   new        not yet given to RunFactory                                *)
(*   refused    RunFactory returned an error                               *)
(*   locked     RunFactory has entered it in the map, Push is next         *)
(*   offered    Push is blocked on q.ch <- job                             *)
(*   queued     in a named queue, behind another job                       *)
(*   handed     the Notify of its predecessor is blocked on q.ch <- next   *)
(*   spawned    loop has received it, start() has not run yet              *)
(*   running    start() has set running to 1                               *)
(*   exited     start() is over and Wait returns, cleanUp is next          *)
(*   deleted    cleanUp has deleted it from the map, Notify is next        *)
(*   notifying  its Notify is blocked on q.ch <- next                      *)
(*   waking     jobsCond.Broadcast is next                                 *)
(*   done       the goroutine has ended                                    *)
(***************************************************************************)
Place == {"new", "refused", "locked", "offered", "queued", "handed",
          "spawned", "running", "exited", "deleted", "notifying", "waking",
          "done"}

Started   == {"spawned", "running", "exited"}
OnChannel == {"offered", "handed"}
Pending   == {"locked", "queued"} \cup OnChannel
Resulted  == {"exited", "deleted", "notifying", "waking", "done"}

Init ==
  /\ jobs = {}
  /\ jobsM = Nil
  /\ queues = [q \in QueueName |-> <<>>]
  /\ qLock = Nil
  /\ closed = FALSE
  /\ loop = "check"
  /\ pc = [j \in Job |-> "new"]
  /\ signaled = {}
  /\ shutdown = "none"

Goto(j, place) == pc' = [pc EXCEPT ![j] = place]

(***************************************************************************)
(* RunFactory and Queue.Push. A job run by System or Internal is run from  *)
(* inside the action of its caller.                                        *)
(***************************************************************************)
Duplicate(j) == \E k \in jobs : Id[k] = Id[j]

\* Mutant: the map is not searched for the ID.
RunFactoryUnchecked(j) ==
  /\ pc[j] = "new"
  /\ \A k \in Job : Caller[j] = k => pc[k] = "running"
  /\ jobsM = Nil
  /\ jobs' = jobs \cup {j}
  /\ jobsM' = j
  /\ Goto(j, "locked")
  /\ UNCHANGED <<queues, qLock, closed, loop, signaled, shutdown>>

RunFactory(j) ==
  /\ pc[j] = "new"
  /\ \A k \in Job : Caller[j] = k => pc[k] = "running"
  /\ jobsM = Nil
  /\ \/ /\ Duplicate(j)
        /\ Goto(j, "refused")
        /\ UNCHANGED <<jobs, jobsM>>
     \/ /\ ~Duplicate(j)
        /\ jobs' = jobs \cup {j}
        /\ jobsM' = j
        /\ Goto(j, "locked")
  /\ UNCHANGED <<queues, qLock, closed, loop, signaled, shutdown>>

\* The queue is closed: RunFactory returns the error, the map keeps the job.
PushRefused(j) ==
  /\ closed
  /\ jobsM' = Nil
  /\ Goto(j, "refused")
  /\ UNCHANGED <<queues, qLock>>

\* A job without a queue, or the first of its queue, goes on the channel, and
\* both locks are kept until loop takes it.
PushSend(j) ==
  /\ ~closed
  /\ \/ Queue[j] = NoQueue /\ UNCHANGED queues
     \/ /\ Queue[j] # NoQueue
        /\ queues[Queue[j]] = <<>>
        /\ queues' = [queues EXCEPT ![Queue[j]] = <<j>>]
  /\ qLock' = j
  /\ Goto(j, "offered")
  /\ UNCHANGED jobsM

\* Mutant: every job of a queue is sent, not only the first.
PushBehindSends(j) ==
  /\ ~closed
  /\ Queue[j] # NoQueue
  /\ queues[Queue[j]] # <<>>
  /\ queues' = [queues EXCEPT ![Queue[j]] = Append(@, j)]
  /\ qLock' = j
  /\ Goto(j, "offered")
  /\ UNCHANGED jobsM

PushBehind(j) ==
  /\ ~closed
  /\ Queue[j] # NoQueue
  /\ queues[Queue[j]] # <<>>
  /\ queues' = [queues EXCEPT ![Queue[j]] = Append(@, j)]
  /\ jobsM' = Nil
  /\ Goto(j, "queued")
  /\ UNCHANGED qLock

Push(j) ==
  /\ pc[j] = "locked"
  /\ qLock = Nil
  /\ PushRefused(j) \/ PushSend(j) \/ PushBehind(j)
  /\ UNCHANGED <<jobs, closed, loop, signaled, shutdown>>

(***************************************************************************)
(* loop(). len(jobs) is read without jobsM. cleanUp broadcasts without     *)
(* jobsCond.L, so the test and the start of the wait are two steps.        *)
(***************************************************************************)
LoopCheck ==
  /\ loop = "check"
  /\ loop' = IF Cardinality(jobs) >= MaxJobs THEN "full" ELSE "recv"
  /\ UNCHANGED <<jobs, jobsM, queues, qLock, closed, pc, signaled, shutdown>>

LoopWait ==
  /\ loop = "full"
  /\ loop' = "wait"
  /\ UNCHANGED <<jobs, jobsM, queues, qLock, closed, pc, signaled, shutdown>>

\* The rendezvous on q.ch. The sender goes on: a Push returns, with
\* RunFactory, and gives both locks back; a Notify gives q.lock back.
LoopReceive(j) ==
  /\ loop = "recv"
  /\ pc[j] \in OnChannel
  /\ loop' = "check"
  /\ qLock' = Nil
  /\ \/ /\ pc[j] = "offered"
        /\ jobsM' = Nil
        /\ Goto(j, "spawned")
     \/ /\ pc[j] = "handed"
        /\ pc' = [pc EXCEPT ![j] = "spawned", ![qLock] = "waking"]
        /\ UNCHANGED jobsM
  /\ UNCHANGED <<jobs, queues, closed, signaled, shutdown>>

LoopStop ==
  /\ loop = "recv"
  /\ closed
  /\ loop' = "stopped"
  /\ UNCHANGED <<jobs, jobsM, queues, qLock, closed, pc, signaled, shutdown>>

(***************************************************************************)
(* start() seen from outside, and cleanUp.                                 *)
(***************************************************************************)
Start(j) ==
  /\ pc[j] = "spawned"
  /\ Goto(j, "running")
  /\ UNCHANGED <<jobs, jobsM, queues, qLock, closed, loop, signaled, shutdown>>

\* A job ends only when the commands its action waits for have a result.
Exit(j) ==
  /\ pc[j] = "running"
  /\ \A k \in Job : Caller[k] = j => pc[k] \in {"new", "refused"} \cup Resulted
  /\ Goto(j, "exited")
  /\ UNCHANGED <<jobs, jobsM, queues, qLock, closed, loop, signaled, shutdown>>

CleanUpDelete(j) ==
  /\ pc[j] = "exited"
  /\ jobsM = Nil
  /\ jobs' = {k \in jobs : Id[k] # Id[j]}
  /\ Goto(j, "deleted")
  /\ UNCHANGED <<jobsM, queues, qLock, closed, loop, signaled, shutdown>>

\* Nothing to do: the queue is closed, or has no list under this name.
NotifyNothing(j) ==
  /\ closed \/ Queue[j] = NoQueue
  /\ Goto(j, "waking")
  /\ UNCHANGED <<queues, qLock>>

\* Mutant: the entry goes as soon as a job ends, whatever waits behind it.
NotifyLastAlways(j) ==
  /\ ~closed
  /\ Queue[j] # NoQueue
  /\ queues[Queue[j]] # <<>>
  /\ queues' = [queues EXCEPT ![Queue[j]] = <<>>]
  /\ Goto(j, "waking")
  /\ UNCHANGED qLock

NotifyLast(j) ==
  /\ ~closed
  /\ Queue[j] # NoQueue
  /\ Len(queues[Queue[j]]) = 1
  /\ queues' = [queues EXCEPT ![Queue[j]] = <<>>]
  /\ Goto(j, "waking")
  /\ UNCHANGED qLock

\* Mutant: q.closed is not tested.
NotifyNextClosed(j) ==
  /\ Queue[j] # NoQueue
  /\ Len(queues[Queue[j]]) > 1
  /\ queues' = [queues EXCEPT ![Queue[j]] = Tail(@)]
  /\ qLock' = j
  /\ pc' = [pc EXCEPT ![j] = "notifying",
                      ![queues[Queue[j]][2]] = "handed"]

NotifyNext(j) ==
  /\ ~closed
  /\ Queue[j] # NoQueue
  /\ Len(queues[Queue[j]]) > 1
  /\ queues' = [queues EXCEPT ![Queue[j]] = Tail(@)]
  /\ qLock' = j
  /\ pc' = [pc EXCEPT ![j] = "notifying",
                      ![queues[Queue[j]][2]] = "handed"]

Notify(j) ==
  /\ pc[j] = "deleted"
  /\ qLock = Nil
  /\ NotifyNothing(j) \/ NotifyLast(j) \/ NotifyNext(j)
  /\ UNCHANGED <<jobs, jobsM, closed, loop, signaled, shutdown>>

Broadcast(j) ==
  /\ pc[j] = "waking"
  /\ loop' = IF loop = "wait" THEN "check" ELSE loop
  /\ Goto(j, "done")
  /\ UNCHANGED <<jobs, jobsM, queues, qLock, closed, signaled, shutdown>>

(***************************************************************************)
(* Kill and Shutdown. Both read the map under jobsM.RLock and never block  *)
(* while they hold it. A signal reaches a job only while it is running.    *)
(***************************************************************************)
Kill(j) ==
  /\ jobsM = Nil
  /\ j \in jobs
  /\ pc[j] = "running"
  /\ signaled' = signaled \cup {j}
  /\ UNCHANGED <<jobs, jobsM, queues, qLock, closed, loop, pc, shutdown>>

ShutdownClose ==
  /\ shutdown = "none"
  /\ qLock = Nil
  /\ closed' = TRUE
  /\ shutdown' = "term"
  /\ UNCHANGED <<jobs, jobsM, queues, qLock, loop, pc, signaled>>

TerminateAll ==
  /\ jobsM = Nil
  /\ signaled' = signaled \cup
                   {j \in jobs : Id[j] \notin Except /\ pc[j] = "running"}
  /\ UNCHANGED <<jobs, jobsM, queues, qLock, closed, loop, pc>>

ShutdownTerm ==
  /\ shutdown = "term"
  /\ TerminateAll
  /\ shutdown' = "kill"

\* Mutant: the second pass signals no one.
ShutdownKillNone ==
  /\ shutdown = "kill"
  /\ \A j \in Job : pc[j] # "spawned"
  /\ jobsM = Nil
  /\ shutdown' = "done"
  /\ UNCHANGED <<jobs, jobsM, queues, qLock, closed, loop, pc, signaled>>

\* The second pass comes five seconds later. That is long enough for every
\* goroutine the dispatcher had started to have set running.
ShutdownKill ==
  /\ shutdown = "kill"
  /\ \A j \in Job : pc[j] # "spawned"
  /\ TerminateAll
  /\ shutdown' = "done"

Shutdown == ShutdownClose \/ ShutdownTerm \/ ShutdownKill

Loop == LoopCheck \/ LoopWait \/ LoopStop \/ \E j \in Job : LoopReceive(j)

Next ==
  \/ Loop
  \/ Shutdown
  \/ \E j \in Job : \/ RunFactory(j) \/ Push(j)
                    \/ Start(j) \/ Exit(j)
                    \/ CleanUpDelete(j) \/ Notify(j) \/ Broadcast(j)
                    \/ Kill(j)

Spec == Init /\ [][Next]_vars

(***************************************************************************)
(* Fairness. Every goroutine that can go on does. jobsM and q.lock are Go  *)
(* mutexes, which hand themselves to the longest waiter: strong fairness   *)
(* for a step that waits for one. A job takes each of these steps at most  *)
(* once, so one condition over all jobs asks as much as one for each. That *)
(* a command ends is up to the command.                                    *)
(***************************************************************************)
Fairness ==
  /\ WF_vars(Loop)
  /\ SF_vars(\E j \in Job : Push(j))
  /\ SF_vars(\E j \in Job : CleanUpDelete(j))
  /\ SF_vars(\E j \in Job : Notify(j))
  /\ WF_vars(\E j \in Job : Start(j) \/ Broadcast(j))

CommandsEnd == WF_vars(\E j \in Job : Exit(j))

FairSpec == Spec /\ Fairness /\ CommandsEnd

-----------------------------------------------------------------------------
(***************************************************************************)
(* The schedule the manager implements: a job is submitted when Push puts  *)
(* it on its queue, starts when loop() receives it, finishes when cleanUp  *)
(* takes it out of the map and gives up its place in Notify.               *)
(***************************************************************************)
StatusAt(place) ==
  CASE place \in {"new", "locked"} -> "new"
    [] place = "refused" -> "refused"
    [] place \in {"offered", "queued", "handed"} -> "waiting"
    [] place \in Started -> "active"
    [] place = "deleted" -> "finished"
    [] OTHER -> "gone"

Schedule == INSTANCE JobSchedule WITH
  status <- [j \in Job |-> StatusAt(pc[j])],
  line <- queues,
  open <- ~closed

(***************************************************************************)
(* Properties.                                                             *)
(***************************************************************************)

\* Every variable holds a value the code can give it.
TypeOK ==
  /\ jobs \subseteq Job
  /\ jobsM \in Job \cup {Nil}
  /\ queues \in [QueueName -> Seq(Job)]
  /\ qLock \in Job \cup {Nil}
  /\ closed \in BOOLEAN
  /\ loop \in {"check", "full", "wait", "recv", "stopped"}
  /\ pc \in [Job -> Place]
  /\ signaled \subseteq Job
  /\ shutdown \in {"none", "term", "kill", "done"}

Active == {j \in Job : pc[j] \in Started}

\* loop() never has more than MaxJobs jobs alive at once, although it reads
\* len(jobs) without the lock and starts a job long after it has tested it.
ConcurrencyBound == Cardinality(Active) <= MaxJobs

\* Commands with the same queue name run one after the other: from the moment
\* one is received by loop() until its Notify, no other one of them is.
QueueExclusion ==
  \A j, k \in Job :
    /\ j # k
    /\ Queue[j] # NoQueue
    /\ Queue[j] = Queue[k]
    /\ pc[j] \in Started \cup {"deleted"}
    => pc[k] \notin Started \cup {"deleted"}

\* Every job a caller got a handle of can still be found under its ID until
\* cleanUp deletes it, and cleanUp deletes no other job's entry. Only a Push
\* on a closed queue leaves an entry behind with no job to remove it.
MapAccurate ==
  /\ \A j \in Job :
       pc[j] \in Pending \cup Started => j \in jobs
  /\ \A j \in jobs :
       \/ pc[j] \in Pending \cup Started
       \/ pc[j] = "refused" /\ closed
  /\ \A j, k \in jobs : Id[j] = Id[k] => j = k

\* When Shutdown is over, every job still running that it was not told to
\* spare has been sent a signal, and none is on its way to start.
ShutdownReaches ==
  shutdown = "done" =>
    \A j \in Job : pc[j] \in OnChannel \cup {"spawned", "running"}
                     => j \in signaled \/ Id[j] \in Except

\* Locks, channel and dispatcher together do what JobSchedule says: no job is
\* lost, started twice or out of turn, whatever the goroutines interleave.
ImplementsSchedule == Schedule!Spec

\* A job that entered the map is started in the end, or Shutdown came first.
SubmittedStarts ==
  \A j \in Job : pc[j] \in Pending ~> (pc[j] \notin Pending \/ closed)

\* "once this limit is reached 0-core will not pull for any new jobs ... until
\* it has at least one free job slot to fill": as jobs end, loop() goes on.
LimitIsTemporary ==
  loop = "wait" ~> loop # "wait"
=============================================================================
