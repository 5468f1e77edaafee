-------------------------------- MODULE Job ---------------------------------
(***************************************************************************)
(* One job from start() to its result: base/mgr/job.go.                    *)
(*                                                                         *)
(* The job's goroutine runs the command, decides whether to run it again,  *)
(* and closes down. Beside it there is the process, which ends when it     *)
(* likes or when a signal makes it, and any number of callers of Signal,   *)
(* Unschedule and Terminate, which share the running flag, the signal      *)
(* channel and the command's flags with the goroutine without a lock.      *)
(*                                                                         *)
(* Of a process's output only the message with the exit flag matters here, *)
(* which run() takes from the channel. Time is a timer that fires. The     *)
(* process is one that Signal reaches: that of a builtin command does      *)
(* nothing, and the action runs to its end.                                *)
(***************************************************************************)
EXTENDS Naturals, Sequences

CONSTANTS
  Restarts, \* the values of max_restart
  Caller,   \* the goroutines that use the job from outside
  Call,     \* what every caller does: "signal", "unschedule" or "terminate"
  Sig,      \* the signal it sends, TERM or KILL
  SigCap,   \* the capacity of the signal channel, 5 in the code
  MaxBegun  \* bound: the runs counted, in begun and in late; more than any
            \* max_restart, so that a run too many shows

ASSUME JobCfgAssumption ==
  /\ Restarts \subseteq Nat
  /\ Call \in [Caller -> {"signal", "unschedule", "terminate"}]
  /\ Sig \in [Caller -> {"TERM", "KILL"}]
  /\ SigCap \in Nat \ {0}
  /\ MaxBegun \in Nat \ {0, 1}
  /\ \A r \in Restarts : r < MaxBegun

VARIABLES
  cmd,         \* the command's max_restart, recurring, max_time and protected
  pc,          \* where the job's goroutine is
  proc,        \* the process
  timer,       \* the timeout of this run has still to fire
  state,       \* jobresult.State of the current run
  fails,       \* start()'s runs, counted up to max_restart
  running,     \* the atomic flag
  sigs,        \* the signals in the channel
  sigsClosed,  \* the signal channel is closed
  unscheduled, \* the unschedule channel is closed
  result,      \* r.result, "none" before it is set
  at,          \* where every caller is
  begun,       \* history: the runs begun
  late         \* history: those begun with the job unscheduled and unprotected

goroutine == <<pc, proc, timer, state, fails, begun, late>>
shared == <<running, sigs, sigsClosed, unscheduled, result>>
jobvars == <<cmd, goroutine, shared, at>>

Place == {"created", "running", "returned", "backoff", "pausing", "closing",
          "stopped", "closed", "over"}
Process == {"none", "unspawned", "alive", "succeeded", "failed"}
Results == {"ERROR", "SUCCESS", "TIMEOUT"}
CallerPlace == {"idle", "unscheduled", "sending", "loaded", "sent", "dropped",
                "refused", "panicked", "done"}

JobInit ==
  /\ cmd \in [max_restart : Restarts, recurring : BOOLEAN,
              max_time : BOOLEAN, protected : BOOLEAN]
  /\ pc = "created"
  /\ proc = "none"
  /\ timer = FALSE
  /\ state = "ERROR"
  /\ fails = 0
  /\ running = FALSE
  /\ sigs = <<>>
  /\ sigsClosed = FALSE
  /\ unscheduled = FALSE
  /\ result = "none"
  /\ at = [c \in Caller |-> "idle"]
  /\ begun = 0
  /\ late = 0

Capped(n, bound) == IF n > bound THEN bound ELSE n

(***************************************************************************)
(* run(): one run of the command.                                          *)
(***************************************************************************)

\* factory and Run. When Run fails there is no process to wait for.
BeginRun ==
  /\ \/ proc' = "alive" /\ pc' = "running" /\ timer' = cmd.max_time
     \/ proc' = "unspawned" /\ pc' = "returned" /\ timer' = FALSE
  /\ state' = "ERROR"
  /\ begun' = Capped(begun + 1, MaxBegun)
  /\ late' = IF unscheduled /\ ~cmd.protected
             THEN Capped(late + 1, MaxBegun) ELSE late

\* What a signal does to the process: KILL ends it, TERM as it likes.
Signaled(sig) ==
  \/ proc = "alive" /\ proc' = "failed"
  \/ proc = "alive" /\ sig = "TERM" /\ proc' \in {"alive", "succeeded"}
  \/ proc # "alive" /\ UNCHANGED proc

\* Mutant: the timeout is noted and the process left alone.
TimeoutNoKill ==
  /\ pc = "running"
  /\ timer
  /\ timer' = FALSE
  /\ state' = "TIMEOUT"
  /\ UNCHANGED <<cmd, pc, proc, fails, begun, late, shared, at>>

TakeSignal ==
  /\ pc = "running"
  /\ sigs # <<>>
  /\ Signaled(Head(sigs))
  /\ sigs' = Tail(sigs)
  /\ UNCHANGED <<cmd, pc, timer, state, fails, begun, late,
                 running, sigsClosed, unscheduled, result, at>>

Timeout ==
  /\ pc = "running"
  /\ timer
  /\ timer' = FALSE
  /\ state' = "TIMEOUT"
  /\ Signaled("KILL")
  /\ UNCHANGED <<cmd, pc, fails, begun, late, shared, at>>

\* The message with the exit flag, and the rest of the channel behind it. Only
\* success changes the state, a timeout stays one after a failure.
TakeExit ==
  /\ pc = "running"
  /\ proc \in {"succeeded", "failed"}
  /\ state' = IF proc = "succeeded" THEN "SUCCESS" ELSE state
  /\ proc' = "none"
  /\ timer' = FALSE
  /\ pc' = "returned"
  /\ UNCHANGED <<cmd, fails, begun, late, shared, at>>

\* The process ends by itself.
ProcessExit ==
  /\ proc = "alive"
  /\ proc' \in {"succeeded", "failed"}
  /\ UNCHANGED <<cmd, pc, timer, state, fails, begun, late, shared, at>>

(***************************************************************************)
(* start(): the runs of the command, one after the other.                  *)
(***************************************************************************)
Start ==
  /\ pc = "created"
  /\ running' = TRUE
  /\ BeginRun
  /\ UNCHANGED <<cmd, fails, sigs, sigsClosed, unscheduled, result, at>>

\* A protected job comes back after the backoff, whatever else is set.
Respawn ==
  /\ pc = "returned"
  /\ cmd.protected
  /\ pc' = "backoff"
  /\ UNCHANGED <<cmd, proc, timer, state, fails, begun, late, shared, at>>

\* Mutant: a pause that does not listen to the unschedule channel.
DecideDeaf ==
  /\ pc = "returned"
  /\ ~cmd.protected
  /\ LET counts == state # "SUCCESS" /\ cmd.max_restart > 0
         again == counts /\ fails + 1 < cmd.max_restart
     IN /\ fails' = IF counts THEN Capped(fails + 1, cmd.max_restart) ELSE fails
        /\ pc' = IF again \/ cmd.recurring THEN "pausing" ELSE "closing"
  /\ UNCHANGED <<cmd, proc, timer, state, begun, late, shared, at>>

\* Mutant: one more trial than asked for.
DecideOnceMore ==
  /\ pc = "returned"
  /\ ~cmd.protected
  /\ LET counts == state # "SUCCESS" /\ cmd.max_restart > 0
         again == counts /\ fails + 1 <= cmd.max_restart
     IN /\ fails' = IF counts THEN Capped(fails + 1, cmd.max_restart) ELSE fails
        /\ pc' = IF (again \/ cmd.recurring) /\ ~unscheduled
                 THEN "pausing" ELSE "closing"
  /\ UNCHANGED <<cmd, proc, timer, state, begun, late, shared, at>>

\* The others come back while they have trials left or are recurring. When the
\* unschedule channel is closed already, the select takes it at once.
Decide ==
  /\ pc = "returned"
  /\ ~cmd.protected
  /\ LET counts == state # "SUCCESS" /\ cmd.max_restart > 0
         again == counts /\ fails + 1 < cmd.max_restart
     IN /\ fails' = IF counts THEN Capped(fails + 1, cmd.max_restart) ELSE fails
        /\ pc' = IF (again \/ cmd.recurring) /\ ~unscheduled
                 THEN "pausing" ELSE "closing"
  /\ UNCHANGED <<cmd, proc, timer, state, begun, late, shared, at>>

WaitOver ==
  /\ pc \in {"backoff", "pausing"}
  /\ BeginRun
  /\ UNCHANGED <<cmd, fails, shared, at>>

PauseCut ==
  /\ pc = "pausing"
  /\ unscheduled
  /\ pc' = "closing"
  /\ UNCHANGED <<cmd, proc, timer, state, fails, begun, late, shared, at>>

\* The deferred function, one step for every thing a caller can see.
ClearRunning ==
  /\ pc = "closing"
  /\ running' = FALSE
  /\ pc' = "stopped"
  /\ UNCHANGED <<cmd, proc, timer, state, fails, begun, late,
                 sigs, sigsClosed, unscheduled, result, at>>

CloseSignal ==
  /\ pc = "stopped"
  /\ sigsClosed' = TRUE
  /\ pc' = "closed"
  /\ UNCHANGED <<cmd, proc, timer, state, fails, begun, late,
                 running, sigs, unscheduled, result, at>>

SetResult ==
  /\ pc = "closed"
  /\ unscheduled' = TRUE
  /\ result' = state
  /\ pc' = "over"
  /\ UNCHANGED <<cmd, proc, timer, state, fails, begun, late,
                 running, sigs, sigsClosed, at>>

Goroutine ==
  \/ Start \/ TakeSignal \/ Timeout \/ TakeExit \/ Respawn \/ Decide
  \/ WaitOver \/ PauseCut \/ ClearRunning \/ CloseSignal \/ SetResult

(***************************************************************************)
(* The callers.                                                            *)
(***************************************************************************)
MoveCaller(c, place) == at' = [at EXCEPT ![c] = place]

\* Unschedule, and the first thing Terminate does.
Unschedule(c) ==
  /\ at[c] = "idle"
  /\ Call[c] \in {"unschedule", "terminate"}
  /\ unscheduled' = TRUE
  /\ MoveCaller(c, IF Call[c] = "unschedule" THEN "done" ELSE "unscheduled")
  /\ UNCHANGED <<cmd, goroutine, running, sigs, sigsClosed, result>>

\* Mutant: Terminate leaves the flag alone.
UnprotectNot(c) ==
  /\ at[c] = "unscheduled"
  /\ MoveCaller(c, "sending")
  /\ UNCHANGED <<cmd, goroutine, shared>>

Unprotect(c) ==
  /\ at[c] = "unscheduled"
  /\ cmd' = [cmd EXCEPT !.protected = FALSE]
  /\ MoveCaller(c, "sending")
  /\ UNCHANGED <<goroutine, shared>>

\* Signal reads running first ...
LoadRunning(c) ==
  /\ \/ at[c] = "idle" /\ Call[c] = "signal"
     \/ at[c] = "sending"
  /\ MoveCaller(c, IF running THEN "loaded" ELSE "refused")
  /\ UNCHANGED <<cmd, goroutine, shared>>

\* ... and then sends, or gives up when the channel is full. A send on a closed
\* channel panics.
Send(c) ==
  /\ at[c] = "loaded"
  /\ \/ /\ sigsClosed
        /\ MoveCaller(c, "panicked")
        /\ UNCHANGED sigs
     \/ /\ ~sigsClosed
        /\ Len(sigs) < SigCap
        /\ sigs' = Append(sigs, Sig[c])
        /\ MoveCaller(c, "sent")
     \/ /\ ~sigsClosed
        /\ Len(sigs) = SigCap
        /\ MoveCaller(c, "dropped")
        /\ UNCHANGED sigs
  /\ UNCHANGED <<cmd, goroutine, running, sigsClosed, unscheduled, result>>

JobNext ==
  \/ Goroutine
  \/ ProcessExit
  \/ \E c \in Caller :
       Unschedule(c) \/ Unprotect(c) \/ LoadRunning(c) \/ Send(c)

JobSpec == JobInit /\ [][JobNext]_jobvars

(***************************************************************************)
(* Fairness. The goroutine goes on, and a case of a select that stays      *)
(* ready is taken in the end: the runtime picks among the ready ones at    *)
(* random. Nothing is assumed of the process or of the callers.            *)
(***************************************************************************)
JobFairness ==
  /\ WF_jobvars(Start) /\ WF_jobvars(Respawn) /\ WF_jobvars(Decide)
  /\ WF_jobvars(WaitOver) /\ WF_jobvars(PauseCut)
  /\ WF_jobvars(ClearRunning) /\ WF_jobvars(CloseSignal) /\ WF_jobvars(SetResult)
  /\ WF_jobvars(TakeSignal) /\ WF_jobvars(Timeout) /\ WF_jobvars(TakeExit)

FairJobSpec == JobSpec /\ JobFairness

-----------------------------------------------------------------------------
(***************************************************************************)
(* Properties.                                                             *)
(***************************************************************************)

\* Every variable holds a value the code can give it.
JobTypeOK ==
  /\ cmd \in [max_restart : Restarts, recurring : BOOLEAN,
              max_time : BOOLEAN, protected : BOOLEAN]
  /\ pc \in Place
  /\ proc \in Process
  /\ timer \in BOOLEAN
  /\ state \in Results
  /\ fails \in 0..cmd.max_restart
  /\ running \in BOOLEAN
  /\ sigs \in Seq({"TERM", "KILL"}) /\ Len(sigs) <= SigCap
  /\ sigsClosed \in BOOLEAN
  /\ unscheduled \in BOOLEAN
  /\ result \in Results \cup {"none"}
  /\ at \in [Caller -> CallerPlace]
  /\ begun \in 0..MaxBegun
  /\ late \in 0..MaxBegun

\* Terminate and Unschedule stop the restarts: at most one run begins after the
\* job is unscheduled and unprotected, the one that a backoff or a pause that
\* had already begun, or the first start, leads to.
AtMostOneMoreRun == late <= 1

\* A KILL that Terminate has put in the channel ends the job, whichever run
\* takes it from the channel, and however often the job was to be restarted.
TerminateEnds ==
  \A c \in Caller :
    at[c] = "sent" /\ Call[c] = "terminate" /\ Sig[c] = "KILL" ~> pc = "over"

\* A command with a max_time does not run for ever.
TimeoutEndsRun ==
  pc = "running" /\ cmd.max_time ~> pc # "running"

\* A command that nobody touches has run once, or, when it fails every time, as
\* often as max_restart says: the count of the trials begins with the first run.
\* (job_test.go, TestJobMaxRestart; the trial counter of start.  The comment of MaxRestart
\* in command.go and docs/interacting/commands/README.md count restarts instead, which
\* would be one run more: the code does not do that.)
RunsAsAsked ==
  LET trials == IF cmd.max_restart = 0 THEN 1 ELSE cmd.max_restart
  IN pc = "over" /\ (\A c \in Caller : at[c] = "idle") =>
       begun \in 1..trials /\ (result # "SUCCESS" => begun = trials)
=============================================================================
