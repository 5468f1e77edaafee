------------------------------ MODULE Delivery ------------------------------
(***************************************************************************)
(* A command's way from a client to its answer: the client pushes it on    *)
(* the Redis list core:default, the protocol plugin takes it, flags its ID *)
(* and runs it, the job's result is stored under the ID, and the client    *)
(* reads it there.  A corex.dispatch command carries a command of its own  *)
(* over a pipe to the coreX of a container, whose answer comes back over   *)
(* a second pipe and is stored in the same way, unless the container ends. *)
(*                                                                         *)
(* What stands for what: a command's place is the step of the code that    *)
(* has it in hand; a list or pipe is the set of the commands placed on it, *)
(* so the order on it is left open; flag[id] and result[id] are the keys   *)
(* result:<id>:flag and result:<id>.  The five minutes of ReturnExpire are *)
(* far longer than the step from EXPIRE on the one key to EXPIRE on the    *)
(* other and than a finished job's clean-up: both keys lapse together, and *)
(* not before that clean-up.                                               *)
(***************************************************************************)
EXTENDS Naturals, Sequences, FiniteSets

CONSTANTS
  Cmd,       \* commands of clients for core0
  Resident,  \* commands core0 runs on its own, with no flag: services
  Inner,     \* commands carried inside a corex.dispatch
  Id, IdOf,  \* the ID of every one of them, chosen by whoever made it
  Unknown,   \* those naming a command that no plugin knows
  Dispatch,  \* those of Cmd that are a corex.dispatch
  Carries,   \* the command of Inner that each of these carries
  Asking,    \* those whose client waits for the answer
  PipeCap,   \* how many commands fit in the pipe to coreX
  Nothing

All == Cmd \cup Resident \cup Inner

ASSUME CommandAssumption ==
  /\ Cmd \cap Resident = {} /\ Cmd \cap Inner = {} /\ Resident \cap Inner = {}
  /\ IdOf \in [All -> Id]
  /\ Unknown \subseteq (Cmd \ Dispatch) \cup Inner /\ Dispatch \subseteq Cmd
  /\ Carries \in [Dispatch -> Inner]
  /\ \A c, d \in Dispatch : Carries[c] = Carries[d] => c = d
  /\ Asking \subseteq Cmd
  /\ PipeCap \in Nat \ {0}
  /\ Nothing \notin All

VARIABLES
  place,      \* which step has the command in hand
  flag,       \* "none", "set", or "expiring" once EXPIRE has been called
  result,     \* who produced the entries of the list, the newest last
  client,     \* how far the client that waits for the command has come
  forwarder,  \* the container's forward() and rewind() have been started
  container,  \* "live", "dead", "closed" (channel), "closing" (forwardChan), "gone"
  coreJobs    \* commands in the job map of coreX

vars == <<place, flag, result, client, forwarder, container, coreJobs>>
core == <<forwarder, container, coreJobs>>

Place ==
  {"new", "queued", "taken", "fresh", "flagged", "running", "dispatching", "unknown",
   "ended", "unflagged", "stored", "done",
   "held", "piped", "read", "answering", "out", "rewound",
   "dropped", "duplicate", "refused", "lost"}

\* What process() has taken from the list and is not done with: one at a time.
InHand(c) ==
  place[c] \in {"taken", "fresh", "flagged", "unknown"}
    \cup (IF c \in Unknown THEN {"unflagged"} ELSE {})

Init ==
  /\ place = [c \in All |-> IF c \in Resident THEN "running" ELSE "new"]
  /\ flag = [id \in Id |-> "none"]
  /\ result = [id \in Id |-> <<>>]
  /\ client = [c \in Cmd |-> "out"]
  /\ forwarder = FALSE
  /\ container = "live"
  /\ coreJobs = {}

Move(c, from, to) == place[c] = from /\ place' = [place EXCEPT ![c] = to]

-----------------------------------------------------------------------------
(* The three helpers of the protocol plugin that everyone calls.           *)

\* RPUSH on the flag's key: a time to live it has already got stays.
Flag(id) == flag' = [flag EXCEPT ![id] = IF @ = "none" THEN "set" ELSE @]

\* Mutant: Set that stores the result only.
UnFlagNot(c, from) ==
  /\ Move(c, from, "unflagged")
  /\ UNCHANGED <<flag, result, client, core>>

\* EXPIRE does nothing to a key that is not there.
UnFlag(c, from) ==
  /\ Move(c, from, "unflagged")
  /\ flag' = [flag EXCEPT ![IdOf[c]] = IF @ = "none" THEN @ ELSE "expiring"]
  /\ UNCHANGED <<result, client, core>>

\* setResult. A command with a job goes on to that job's cleanUp.
Store(c) ==
  /\ Move(c, "unflagged", IF c \in Unknown \cup Inner THEN "done" ELSE "stored")
  /\ result' = [result EXCEPT ![IdOf[c]] = Append(@, c)]
  /\ UNCHANGED <<flag, client, core>>

-----------------------------------------------------------------------------
(* The client, Raw and Result.                                             *)

Raw(c) ==
  /\ Move(c, "new", "queued")
  /\ client' = [client EXCEPT ![c] = IF c \in Asking THEN "pushed" ELSE "out"]
  /\ UNCHANGED <<flag, result, core>>

Turn(c, from, to) ==
  /\ client[c] = from
  /\ client' = [client EXCEPT ![c] = to]
  /\ UNCHANGED <<place, flag, core>>

\* BRPOPLPUSH of the flag onto itself answers as soon as there is one.
Accepted(c) == flag[IdOf[c]] # "none" /\ Turn(c, "pushed", "accepted") /\ UNCHANGED result

\* ... or gives up after ten seconds. The command stays on the list.
RawFails(c) == flag[IdOf[c]] = "none" /\ Turn(c, "pushed", "failed") /\ UNCHANGED result

\* Result asks for the flag first, then waits for an entry.
Exists(c) == flag[IdOf[c]] # "none" /\ Turn(c, "accepted", "waiting") /\ UNCHANGED result
Denied(c) == flag[IdOf[c]] = "none" /\ Turn(c, "accepted", "failed") /\ UNCHANGED result
WaitFails(c) == Turn(c, "waiting", "failed") /\ UNCHANGED result

\* BRPOPLPUSH of the result list onto itself: the last entry becomes the first.
Rotated(s) == <<s[Len(s)]>> \o SubSeq(s, 1, Len(s) - 1)

Read(c) ==
  /\ result[IdOf[c]] # <<>>
  /\ Turn(c, "waiting", "answered")
  /\ result' = [result EXCEPT ![IdOf[c]] = Rotated(@)]

-----------------------------------------------------------------------------
(* process(), the goroutine of the protocol plugin: one command at a time. *)

NextCommand(c) ==
  /\ \A d \in Cmd : ~InHand(d)
  /\ Move(c, "queued", "taken")
  /\ UNCHANGED <<flag, result, client, core>>

\* Mutant: duplicates are left to the map of the jobs.
CheckFlagNot(c) ==
  /\ Move(c, "taken", "fresh")
  /\ UNCHANGED <<flag, result, client, core>>

CheckFlag(c) ==
  /\ Move(c, "taken", IF flag[IdOf[c]] = "none" THEN "fresh" ELSE "dropped")
  /\ UNCHANGED <<flag, result, client, core>>

SetFlag(c) ==
  /\ Move(c, "fresh", "flagged")
  /\ Flag(IdOf[c])
  /\ UNCHANGED <<result, client, core>>

InMap(c) ==
  /\ c \in (Cmd \cup Resident) \ Unknown
  /\ place[c] \in {"running", "dispatching", "ended", "unflagged", "stored"}

\* Mutant: an unknown command is only logged too.
RunLogsUnknown(c) ==
  /\ Move(c, "flagged", IF c \in Unknown THEN "duplicate" ELSE "running")
  /\ UNCHANGED <<flag, result, client, core>>

\* mgr.Run: the router, then the map of the jobs. A duplicate is only logged.
Run(c) ==
  /\ Move(c, "flagged",
          IF c \in Unknown THEN "unknown"
          ELSE IF \E d \in All : InMap(d) /\ IdOf[d] = IdOf[c] THEN "duplicate"
          ELSE "running")
  /\ UNCHANGED <<flag, result, client, core>>

-----------------------------------------------------------------------------
(* A job of core0: its action ends, Result stores the answer, cleanUp.     *)

End(c) ==
  /\ c \in (Cmd \ Dispatch) \cup Resident
  /\ Move(c, "running", "ended")
  /\ UNCHANGED <<flag, result, client, core>>

CleanUp(c) ==
  /\ Move(c, "stored", "done")
  /\ UNCHANGED <<flag, result, client, core>>

\* The action of corex.dispatch. It reads the map of the containers ...
NoContainer(c) ==
  /\ container = "gone" /\ c \in Dispatch
  /\ Move(c, "running", "ended")
  /\ UNCHANGED <<flag, result, client, core>>

\* ... and pushToContainer flags the ID, whatever the flag was.
FlagInner(c) ==
  /\ container # "gone" /\ c \in Dispatch
  /\ place[c] = "running"
  /\ place' = [place EXCEPT ![c] = "dispatching", ![Carries[c]] = "flagged"]
  /\ Flag(IdOf[Carries[c]])
  /\ UNCHANGED <<result, client, core>>

\* dispatch(): the forwarder takes the command, five seconds pass, or the
\* channel has been closed and the send panics, which the process recovers.
Handing(c, to) ==
  /\ c \in Dispatch /\ place[c] = "dispatching"
  /\ place' = [place EXCEPT ![c] = "ended", ![Carries[c]] = to]
  /\ UNCHANGED <<flag, result, client, core>>

ForwardOpen == container \in {"live", "dead", "closed"}

Hand(c) ==
  /\ forwarder /\ ForwardOpen /\ \A i \in Inner : place[i] # "held"
  /\ Handing(c, "held")

HandFails(c) == Handing(c, "refused")

-----------------------------------------------------------------------------
(* The container: its two goroutines in core0, and coreX.                  *)

\* The end of onStart. It may come after the process has died.
StartForwarder ==
  /\ ~forwarder /\ container # "gone"
  /\ forwarder' = TRUE
  /\ UNCHANGED <<place, flag, result, client, container, coreJobs>>

Encode(i) ==
  /\ container = "live" => Cardinality({j \in Inner : place[j] = "piped"}) < PipeCap
  /\ Move(i, "held", IF container = "live" THEN "piped" ELSE "lost")
  /\ UNCHANGED <<flag, result, client, core>>

\* The main loop of coreX reads a command and runs it, one at a time.
Decode(i) ==
  /\ \A j \in Inner : place[j] # "read"
  /\ Move(i, "piped", "read")
  /\ UNCHANGED <<flag, result, client, core>>

\* mgr.Run in coreX: an unknown command is answered at once by the main loop,
\* a duplicate is only logged there too.
CoreRun(i) ==
  /\ IF i \in Unknown THEN Move(i, "read", "answering") /\ UNCHANGED coreJobs
     ELSE IF \E j \in coreJobs : IdOf[j] = IdOf[i]
          THEN Move(i, "read", "duplicate") /\ UNCHANGED coreJobs
          ELSE Move(i, "read", "running") /\ coreJobs' = coreJobs \cup {i}
  /\ UNCHANGED <<flag, result, client, forwarder, container>>

CoreEnd(i) ==
  /\ i \in Inner /\ Move(i, "running", "answering")
  /\ UNCHANGED <<flag, result, client, core>>

\* Dispatcher.Result writes to the pipe back to core0.
CoreAnswer(i) ==
  /\ Move(i, "answering", "out")
  /\ UNCHANGED <<flag, result, client, core>>

CoreCleanUp(i) ==
  /\ i \in coreJobs /\ place[i] \notin {"running", "answering"}
  /\ coreJobs' = coreJobs \ {i}
  /\ UNCHANGED <<place, flag, result, client, forwarder, container>>

\* rewind() decodes one message, and has stored it before it reads the next.
Rewind(i) ==
  /\ forwarder /\ container \in {"live", "dead"}
  /\ \A j \in Inner : place[j] \notin {"rewound", "unflagged"}
  /\ Move(i, "out", "rewound")
  /\ UNCHANGED <<flag, result, client, core>>

\* The process of coreX ends, at any time: what it had is lost, ...
Die ==
  /\ container = "live"
  /\ container' = "dead" /\ coreJobs' = {}
  /\ place' = [c \in All |->
       IF c \in Inner /\ place[c] \in {"piped", "read", "running", "answering"}
       THEN "lost" ELSE place[c]]
  /\ UNCHANGED <<flag, result, client, forwarder>>

\* ... then core0 closes the channel, what is still in the pipe goes with it, ...
CloseChannel ==
  /\ container = "dead" /\ container' = "closed"
  /\ place' = [c \in All |-> IF place[c] = "out" THEN "lost" ELSE place[c]]
  /\ UNCHANGED <<flag, result, client, forwarder, coreJobs>>

\* ... and cleanup() closes forwardChan first and forgets the container last.
CloseForward ==
  /\ container = "closed" /\ container' = "closing"
  /\ UNCHANGED <<place, flag, result, client, forwarder, coreJobs>>

UnsetContainer ==
  /\ container = "closing" /\ container' = "gone"
  /\ UNCHANGED <<place, flag, result, client, forwarder, coreJobs>>

-----------------------------------------------------------------------------
(* Redis. A result that was stored with no flag lapses on its own.         *)

Expire(id) ==
  /\ flag[id] # "set" /\ result[id] # <<>>
  /\ \A c \in Cmd \cup Resident : IdOf[c] = id => place[c] # "stored"
  /\ flag' = [flag EXCEPT ![id] = "none"]
  /\ result' = [result EXCEPT ![id] = <<>>]
  /\ UNCHANGED <<place, client, core>>

-----------------------------------------------------------------------------
Ask(c) == Exists(c) \/ Denied(c) \/ WaitFails(c) \/ Read(c)

Process(c) ==
  NextCommand(c) \/ CheckFlag(c) \/ SetFlag(c) \/ Run(c) \/ UnFlag(c, "unknown")

Work(c) ==
  End(c) \/ NoContainer(c) \/ FlagInner(c) \/ Hand(c) \/ HandFails(c)
  \/ UnFlag(c, "ended") \/ Store(c) \/ CleanUp(c)

Carry(i) ==
  Encode(i) \/ Decode(i) \/ CoreRun(i) \/ CoreEnd(i) \/ CoreAnswer(i) \/ CoreCleanUp(i)
  \/ Rewind(i) \/ UnFlag(i, "rewound")

System ==
  \/ \E c \in Cmd : Process(c)
  \/ \E c \in All : Work(c)
  \/ \E i \in Inner : Carry(i)
  \/ StartForwarder

Next ==
  \/ System
  \/ \E c \in Cmd : Raw(c) \/ Accepted(c) \/ RawFails(c) \/ Ask(c)
  \/ Die \/ CloseChannel \/ CloseForward \/ UnsetContainer
  \/ \E id \in Id : Expire(id)

Spec == Init /\ [][Next]_vars

\* Goroutines that can go on do. Every step of theirs moves a command on and none
\* moves one back, so fairness to all of them together leaves none behind. Nothing
\* makes a client push, a container end or a key lapse; that the actions behind
\* the commands return is assumed.
Fairness == WF_vars(System)

FairSpec == Spec /\ Fairness

-----------------------------------------------------------------------------
(* Properties.                                                             *)

\* The IDs that were chosen by clients for commands to core0, once or more often,
\* or for a single command to the container.
Exclusive ==
  {id \in Id : \/ \A c \in All : IdOf[c] = id => c \in Cmd
               \/ \E i \in Inner : \A c \in All : IdOf[c] = id => c = i}

\* What the two keys of an ID say of it, and the entry that a client reads next.
Status(id) == IF flag[id] = "none" THEN "free"
              ELSE IF result[id] = <<>> THEN "pending" ELSE "answered"
LastEntry(id) == IF result[id] = <<>> THEN Nothing ELSE result[id][Len(result[id])]

Mail == INSTANCE Mailbox WITH
  Id <- Exclusive,
  Producer <- All,
  status <- [id \in Exclusive |-> Status(id)],
  answer <- [id \in Exclusive |-> LastEntry(id)]

\* The flags and the lists together keep the mailbox's promise for these IDs: no
\* client is told that a job does not exist while it is on its way, a second
\* command with the ID is dropped, and the answer read is always the same one.
\* (protocol/plugin/manager.go process, Set; the README of the commands: "the
\* second one will get DROPPED".)
ImplementsMailbox == Mail!Spec

\* A flag that will never lapse belongs to a command on its way, or to one of the
\* three kinds that are never answered: a duplicate that only mgr.Run found, a
\* dispatch that timed out after the flag, and what a container took with it.
\* (pushToContainer flags before it hands over; Set calls EXPIRE.)
FlagLapses ==
  \A id \in Id : flag[id] = "set" =>
    \E c \in Cmd \cup Inner :
      /\ IdOf[c] = id
      /\ place[c] \notin {"new", "queued", "taken", "fresh", "dropped", "unflagged", "stored", "done"}

\* Every command that is pushed is answered under its ID, by itself or by the one
\* it is a duplicate of, and so is every command that a container has been handed
\* and that does not end with it.  (process, rewind, the main loop of coreX.)
Answered ==
  /\ \A c \in Cmd : IdOf[c] \in Exclusive =>
       (place[c] = "queued" ~> result[IdOf[c]] # <<>>)
  /\ \A i \in Inner : IdOf[i] \in Exclusive =>
       (place[i] = "held" ~> result[IdOf[i]] # <<>> \/ container # "live")
=============================================================================
