---------------------------- MODULE JobSchedule -----------------------------
(***************************************************************************)
(* What the process manager promises its callers, without its locks, its   *)
(* channel and its dispatcher: a job is submitted or refused; a submitted  *)
(* one waits, starts when there is a slot and its turn in its named queue  *)
(* has come, finishes, and gives up its place in the queue. Closing the    *)
(* schedule keeps every job that waits from starting.                      *)
(*                                                                         *)
(* JobManager implements this module.                                      *)
(***************************************************************************)
EXTENDS Naturals, Sequences, FiniteSets

CONSTANTS
  Job, Id, QueueName, Queue, NoQueue,
  MaxJobs

VARIABLES
  status, \* where every job is in its life
  line,   \* the jobs of every named queue that have not given up their place
  open    \* jobs can be submitted and started

vars == <<status, line, open>>

Status == {"new", "refused", "waiting", "active", "finished", "gone"}

Init ==
  /\ status = [j \in Job |-> "new"]
  /\ line = [q \in QueueName |-> <<>>]
  /\ open = TRUE

Become(j, s) == status' = [status EXCEPT ![j] = s]

ActiveJobs == {j \in Job : status[j] = "active"}

IdInUse(j) == \E k \in Job : Id[k] = Id[j] /\ status[k] \in {"waiting", "active"}

Submit(j) ==
  /\ open
  /\ status[j] = "new"
  /\ ~IdInUse(j)
  /\ Become(j, "waiting")
  /\ line' = IF Queue[j] = NoQueue THEN line
             ELSE [line EXCEPT ![Queue[j]] = Append(@, j)]
  /\ UNCHANGED open

Refuse(j) ==
  /\ status[j] = "new"
  /\ Become(j, "refused")
  /\ UNCHANGED <<line, open>>

Start(j) ==
  /\ open
  /\ status[j] = "waiting"
  /\ Cardinality(ActiveJobs) < MaxJobs
  /\ Queue[j] # NoQueue => line[Queue[j]] # <<>> /\ Head(line[Queue[j]]) = j
  /\ Become(j, "active")
  /\ UNCHANGED <<line, open>>

Finish(j) ==
  /\ status[j] = "active"
  /\ Become(j, "finished")
  /\ UNCHANGED <<line, open>>

Leave(j) ==
  /\ status[j] = "finished"
  /\ Become(j, "gone")
  /\ line' = IF open /\ Queue[j] # NoQueue
             THEN [line EXCEPT ![Queue[j]] = Tail(@)] ELSE line
  /\ UNCHANGED open

Close ==
  /\ open' = FALSE
  /\ UNCHANGED <<status, line>>

Next ==
  \/ Close
  \/ \E j \in Job : Submit(j) \/ Refuse(j) \/ Start(j) \/ Finish(j) \/ Leave(j)

Spec == Init /\ [][Next]_vars
=============================================================================
