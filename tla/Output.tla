------------------------------- MODULE Output -------------------------------
(***************************************************************************)
(* What becomes of the messages of jobs.  The process of a job hands each  *)
(* to the loop of its job; the loop keeps the last ones in the backlog,    *)
(* has them logged, and hands them to the subscribers, one after the       *)
(* other.  A subscriber is a job itself, core.subscribe, whose process     *)
(* enrols and waits for its target; what is handed to it goes through its  *)
(* own loop.  The channels between processes and loops have no buffer.     *)
(*                                                                         *)
(* The messages are numbered as they are made; everybody has a pointer to  *)
(* the same message, with its stream flag.                                 *)
(***************************************************************************)
EXTENDS Naturals, Sequences, FiniteSets, Functions

CONSTANTS
  Jobs,
  Does,       \* of each: its target, "none": another job; its runs; whether it streams;
              \* whether what it writes to its error output are statistics without a type
  Backlog,    \* how many messages a job keeps
  Channel,    \* how many records wait for the stream logger
  MaxFailures \* how many pushes to Redis fail

ASSUME OutputAssumption ==
  /\ "none" \notin Jobs
  /\ Does \in [Jobs -> [target : Jobs \cup {"none"}, runs : Seq([out : Nat, err : Nat]),
                       stream : BOOLEAN, bad : BOOLEAN]]
  /\ Backlog \in Nat \ {0} /\ Channel \in Nat \ {0} /\ MaxFailures \in Nat

VARIABLES
  msgs,         \* the messages: the last of a run; statistics without a type; stream flag
  loop,         \* of each job: "idle", "received", "calling", "drain", "done", "ended"
  hand,         \* the message the loop has
  subscribers,
  calling,      \* the subscribers to which the message in hand still goes
  run, at,      \* of other processes: the run, and how much of both outputs is read
  proc,         \* of core.subscribe: "new", "sending", "enrolling", "waiting", "closed"
  ptr, copy,    \* what it has read: the message that is next, and the subscribers
  channel,      \* the stream logger's: pairs of job and message
  failures,
  emitted, pushed,  \* what each loop received, and what came to each queue
  replayed      \* of core.subscribe: first and last of the backlog, how many came before it
                \* enrolled, and whether it has and nobody took its place

jobvars == <<msgs, loop, hand, subscribers, calling, run, at, emitted>>
subvars == <<proc, ptr, copy, replayed>>
logvars == <<channel, failures, pushed>>
output == <<msgs, loop, hand, subscribers, calling, run, at, emitted,
            proc, ptr, copy, replayed, channel, failures, pushed>>

Here == DOMAIN loop
Target(j) == Does[j].target
Subscribes(j) == Target(j) # "none"
Fresh == [out |-> 0, err |-> 0]

InitOutput(sets) ==
  /\ \E G \in sets : loop = [j \in G |-> "idle"]
  /\ msgs = <<>>
  /\ hand = [j \in Here |-> 0]
  /\ subscribers = [j \in Here |-> <<>>] /\ calling = [j \in Here |-> <<>>]
  /\ run = [j \in Here |-> 1] /\ at = [j \in Here |-> Fresh]
  /\ proc = [j \in Here |-> "new"] /\ ptr = [j \in Here |-> 0] /\ copy = [j \in Here |-> <<>>]
  /\ channel = <<>> /\ failures = 0
  /\ emitted = [j \in Here |-> <<>>] /\ pushed = [j \in Here |-> <<>>]
  /\ replayed = [j \in Here |-> [first |-> 1, last |-> 0, since |-> 0, kept |-> FALSE]]

\* How many messages the loop has had handled, but for the last one's subscribers.
Called(j) == Len(emitted[j]) - (IF loop[j] = "received" THEN 1 ELSE 0)
LastOnes(q, n) == IF Len(q) > n THEN SubSeq(q, Len(q) - n + 1, Len(q)) ELSE q

-----------------------------------------------------------------------------
(* The loop of a job                                                         *)

\* The backlog has the last messages received: of which those before the first are dropped.
FirstKept(j) == IF Len(emitted[j]) > Backlog THEN Len(emitted[j]) - Backlog + 1 ELSE 1

\* It receives a message from whoever sends it: Append to the backlog, and the hooks.
Receives(j, m, loops) ==
  /\ loop[j] = "idle" /\ loop' = [loops EXCEPT ![j] = "received"]
  /\ hand' = [hand EXCEPT ![j] = m]
  /\ emitted' = [emitted EXCEPT ![j] = Append(@, m)]

\* Mutant: a record that finds the channel full is dropped.
DropsWhenFull(j, m, flag) ==
  channel' = IF flag /\ Len(channel) < Channel THEN Append(channel, <<j, m>>) ELSE channel

\* The stream logger has a channel, and waits when it is full.
LogRecord(j, m, flag) ==
  \/ flag /\ Len(channel) < Channel /\ channel' = Append(channel, <<j, m>>)
  \/ ~flag /\ UNCHANGED channel

\* msgCallback, and the slice of subscribers that the message will go to.  Statistics
\* without a type are an index out of range: callback recovers, and nobody gets them.
Callback(j) ==
  LET m == hand[j]
      flag == msgs[m].flag \/ Does[j].stream IN
  /\ loop[j] = "received" /\ loop' = [loop EXCEPT ![j] = "calling"]
  /\ IF msgs[m].bad THEN UNCHANGED <<msgs, channel, calling>>
     ELSE /\ msgs' = [msgs EXCEPT ![m].flag = flag]
          /\ LogRecord(j, m, flag)
          /\ calling' = [calling EXCEPT ![j] = subscribers[j]]
  /\ UNCHANGED <<hand, subscribers, run, at, emitted, subvars, failures, pushed>>

\* Mutant: the others are not called when a subscriber has ended.
StopsAtDrained(j) ==
  LET s == Head(calling[j]) IN
  /\ loop[j] = "calling" /\ calling[j] # <<>>
  /\ \/ /\ Receives(s, hand[j], loop)
        /\ calling' = [calling EXCEPT ![j] = Tail(@)]
     \/ /\ loop[s] = "drain"
        /\ calling' = [calling EXCEPT ![j] = <<>>]
        /\ UNCHANGED <<loop, hand, emitted>>
  /\ UNCHANGED <<msgs, subscribers, run, at, subvars, logvars>>

\* Mutant: what comes after the last message is not consumed.
NoDrain(j) ==
  LET s == Head(calling[j]) IN
  /\ loop[j] = "calling" /\ calling[j] # <<>>
  /\ Receives(s, hand[j], loop)
  /\ calling' = [calling EXCEPT ![j] = Tail(@)]
  /\ UNCHANGED <<msgs, subscribers, run, at, subvars, logvars>>

\* One subscriber: its loop takes the message, or drains it.  A subscriber's channel is
\* closed after the target's last message only: the panic that Call recovers from does
\* not come from there.
Call(j) ==
  LET s == Head(calling[j]) IN
  /\ loop[j] = "calling" /\ calling[j] # <<>>
  /\ \/ /\ Receives(s, hand[j], loop)
        /\ calling' = [calling EXCEPT ![j] = Tail(@)]
     \/ /\ loop[s] = "drain"
        /\ calling' = [calling EXCEPT ![j] = Tail(@)]
        /\ UNCHANGED <<loop, hand, emitted>>
  /\ UNCHANGED <<msgs, subscribers, run, at, subvars, logvars>>

\* A message with an exit flag is the last that the loop looks at.
CallEnd(j) ==
  /\ loop[j] = "calling" /\ calling[j] = <<>>
  /\ loop' = [loop EXCEPT ![j] = IF msgs[hand[j]].exit THEN "drain" ELSE "idle"]
  /\ UNCHANGED <<msgs, hand, subscribers, calling, run, at, emitted, subvars, logvars>>

\* The process has closed its channel: the next run, or the end; then cleanUp.
Runs(j) == Does[j].runs
RunEnd(j) ==
  /\ loop[j] = "drain" /\ (Subscribes(j) => proc[j] = "closed")
  /\ \/ /\ ~Subscribes(j) /\ run[j] < Len(Runs(j))
        /\ loop' = [loop EXCEPT ![j] = "idle"]
        /\ run' = [run EXCEPT ![j] = @ + 1] /\ at' = [at EXCEPT ![j] = Fresh]
     \/ /\ Subscribes(j) \/ run[j] = Len(Runs(j))
        /\ loop' = [loop EXCEPT ![j] = "done"] /\ UNCHANGED <<run, at>>
  /\ UNCHANGED <<msgs, hand, subscribers, calling, emitted, subvars, logvars>>
CleanUp(j) ==
  /\ loop[j] = "done" /\ loop' = [loop EXCEPT ![j] = "ended"]
  /\ UNCHANGED <<msgs, hand, subscribers, calling, run, at, emitted, subvars, logvars>>

-----------------------------------------------------------------------------
(* Processes.  What a new message is sent to is the loop of its own job.     *)

New(exit, bad) == msgs' = Append(msgs, [exit |-> exit, bad |-> bad, flag |-> FALSE])

\* A message of one of the two outputs of a run, each read by a goroutine of its own.
Writes(j, which) ==
  /\ ~Subscribes(j) /\ at[j][which] < Runs(j)[run[j]][which]
  /\ New(FALSE, which = "err" /\ Does[j].bad) /\ Receives(j, Len(msgs) + 1, loop)
  /\ at' = [at EXCEPT ![j][which] = @ + 1]
  /\ UNCHANGED <<subscribers, calling, run, subvars, logvars>>

\* The exit message, once the process is waited for and both outputs are read.
Exits(j) ==
  /\ ~Subscribes(j) /\ at[j] = Runs(j)[run[j]]
  /\ New(TRUE, FALSE) /\ Receives(j, Len(msgs) + 1, loop)
  /\ UNCHANGED <<subscribers, calling, run, at, subvars, logvars>>

\* core.subscribe: the job is looked up, and its backlog gone through.
Look(s) ==
  LET t == Target(s) IN
  /\ Subscribes(s) /\ proc[s] = "new"
  /\ IF loop[t] = "ended"
     THEN proc' = [proc EXCEPT ![s] = "result"] /\ UNCHANGED <<ptr, replayed>>
     ELSE /\ proc' = [proc EXCEPT ![s] = "sending"]
          /\ ptr' = [ptr EXCEPT ![s] = IF emitted[t] = <<>> THEN 0 ELSE FirstKept(t)]
          /\ LET n == FirstKept(t) IN
             replayed' = [replayed EXCEPT ![s] = [@ EXCEPT !.first = n, !.last = n - 1]]
  /\ UNCHANGED <<jobvars, copy, logvars>>

\* The element of the list after the one that was sent, none when that was removed from
\* the list in the meantime.
After(t, i) == IF i >= FirstKept(t) /\ i < Len(emitted[t]) THEN i + 1 ELSE 0
Replay(s) ==
  LET t == Target(s) IN
  /\ proc[s] = "sending" /\ ptr[s] # 0
  /\ \/ Receives(s, emitted[t][ptr[s]], loop)
     \/ loop[s] = "drain" /\ UNCHANGED <<loop, hand, emitted>>
  /\ ptr' = [ptr EXCEPT ![s] = After(t, ptr[s])]
  /\ replayed' = [replayed EXCEPT ![s].last = @ + 1]
  /\ UNCHANGED <<msgs, subscribers, calling, run, at, proc, copy, logvars>>

\* subscribers = append(subscribers, listener), without a lock: those that have enrolled
\* since the slice was read are not in it any more.
EnrolRead(s) ==
  /\ proc[s] = "sending" /\ ptr[s] = 0
  /\ proc' = [proc EXCEPT ![s] = "enrolling"]
  /\ copy' = [copy EXCEPT ![s] = subscribers[Target(s)]]
  /\ UNCHANGED <<jobvars, ptr, replayed, logvars>>
Enrol(s) ==
  LET t == Target(s) IN
  /\ proc[s] = "enrolling" /\ proc' = [proc EXCEPT ![s] = "waiting"]
  /\ subscribers' = [subscribers EXCEPT ![t] = Append(copy[s], s)]
  /\ replayed' = [u \in Here |->
        IF u = s THEN [replayed[u] EXCEPT !.since = Called(t), !.kept = TRUE]
        ELSE IF Target(u) = t /\ u \notin Range(copy[s]) THEN [replayed[u] EXCEPT !.kept = FALSE]
        ELSE replayed[u]]
  /\ UNCHANGED <<msgs, loop, hand, calling, run, at, emitted, ptr, copy, logvars>>

\* Wait returns once the target is done.
Awaits(s) ==
  /\ proc[s] = "waiting" /\ loop[Target(s)] \in {"done", "ended"}
  /\ proc' = [proc EXCEPT ![s] = "result"]
  /\ UNCHANGED <<jobvars, ptr, copy, replayed, logvars>>
Result(s) ==
  /\ proc[s] = "result" /\ proc' = [proc EXCEPT ![s] = "closed"]
  /\ \/ New(TRUE, FALSE) /\ Receives(s, Len(msgs) + 1, loop)
     \/ loop[s] = "drain" /\ UNCHANGED <<msgs, loop, hand, emitted>>
  /\ UNCHANGED <<subscribers, calling, run, at, ptr, copy, replayed, logvars>>

-----------------------------------------------------------------------------
(* The stream logger                                                         *)

\* RPush; a record whose push fails is lost.  (LTrim and LExpire, after which the queue
\* has the last of what was pushed, or nothing, are left out.)
Push ==
  /\ channel # <<>> /\ channel' = Tail(channel)
  /\ \/ pushed' = [pushed EXCEPT ![channel[1][1]] = Append(@, channel[1][2])] /\ UNCHANGED failures
     \/ failures < MaxFailures /\ failures' = failures + 1 /\ UNCHANGED pushed
  /\ UNCHANGED <<jobvars, subvars>>

Handles(j) == Callback(j) \/ Call(j) \/ CallEnd(j) \/ RunEnd(j) \/ CleanUp(j)
OfProcess(j) == Writes(j, "out") \/ Writes(j, "err") \/ Exits(j)
Subscribe(j) == Look(j) \/ Replay(j) \/ EnrolRead(j) \/ Enrol(j) \/ Awaits(j) \/ Result(j)
=============================================================================
