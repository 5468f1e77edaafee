------------------------------ MODULE Startup -------------------------------
(***************************************************************************)
(* The boot of the startup services: GetStartupTree (base/settings), the   *)
(* three slices that Bootstrap runs one after the other, RunSlice and its  *)
(* wait machine (base/mgr), and the hooks that report a service running.   *)
(*                                                                         *)
(* RunSlice handles the services of a slice one after the other and gives  *)
(* every one of them a goroutine, which waits for the services it comes    *)
(* after. What it waits for is reported from three sides that nothing      *)
(* orders: the job's goroutine at its exit or at a matching message, and a *)
(* goroutine of its own for every tick of the clock.                       *)
(*                                                                         *)
(* Release writes the verdict and then closes the channel. Here it is one  *)
(* step, for nobody reads a verdict before the first close, and what is    *)
(* written after that is seen with or without the close that follows.      *)
(***************************************************************************)
EXTENDS Integers, Sequences, Folds

CONSTANTS
  Service, \* the startup services of the configuration files
  Unknown, \* a name that no file defines
  Confs    \* the configurations to boot with

Milestone == {"init", "net", "boot"}
Name == Service \cup Milestone \cup {Unknown}
Hooks == {"match", "delay", "exit"}

ASSUME StartupAssumption ==
  /\ Service \cap (Milestone \cup {Unknown}) = {}
  /\ Confs \subseteq [after : [Service -> Seq(Name)],
                      hook : [Service -> Hooks],
                      condition : [Service -> BOOLEAN],
                      restarts : [Service -> BOOLEAN]]

VARIABLES
  conf,    \* what the files say: after, running_match or running_delay,
           \* whether the condition holds, and whether a job is run again
  tree,    \* the services of the startup tree
  weight,  \* their weights
  stage,   \* the slice that runs: 1, 2 or 3, and 4 once the boot is over
  place,   \* where RunSlice and the goroutine of every service are
  next,    \* the entry of after it waits for
  ok,      \* the verdicts it has read, taken together
  closed,  \* the channel of the service in the wait machine is closed
  verdict, \* the state in the wait machine
  job,     \* the job of the service
  success, \* how its last run ended
  tick,    \* a tick past the delay is on its way
  fired,   \* the hook that reports the service running has done so
  told,    \* the exit hook has done so
  ran      \* history: the service has been reported running

machine == <<closed, verdict, ran>>
runslice == <<place, next, ok>>
jobs == <<job, success, tick, fired, told>>
boot == <<conf, tree, weight, stage>>
vars == <<boot, runslice, machine, jobs>>

Priority == [init |-> 1, net |-> 1000, boot |-> 1000000]

(***************************************************************************)
(* The tree. A service whose dependencies lead to an unknown name or to a  *)
(* cycle is left out with an error, the others are started without it.     *)
(***************************************************************************)
SoundWithout(after) ==
  LET sound[s \in Service, chain \in SUBSET Service] ==
        /\ s \notin chain
        /\ \A i \in DOMAIN after[s] :
             \/ after[s][i] \in Milestone
             \/ /\ after[s][i] \in Service
                /\ sound[after[s][i], chain \cup {s}]
  IN sound

Sound(after) == {s \in Service : SoundWithout(after)[s, {}]}

\* The weight of a service is the sum of those it comes after.
Weight(after) ==
  LET w[s \in Service] ==
        IF after[s] = <<>> THEN Priority["boot"]
        ELSE MapThenFoldSet(+, 0,
               LAMBDA i : IF after[s][i] \in Milestone
                          THEN Priority[after[s][i]] ELSE w[after[s][i]],
               LAMBDA S : CHOOSE i \in S : TRUE,
               DOMAIN after[s])
  IN [s \in Service |-> IF s \in Sound(after) THEN w[s] ELSE 0]

\* The weights are those of the type, int64.
ASSUME WeightAssumption ==
  \A cf \in Confs : Weight(cf.after) \in [Service -> Int]

\* The slices of the boot lie between the milestones, and ToTheEnd is -1.
ToTheEnd == -1
Bound == <<Priority["init"], Priority["net"], Priority["boot"], ToTheEnd>>
Stages == 1..3
Booted == 4

SliceOf(i) ==
  {s \in tree : /\ weight[s] >= Bound[i]
                /\ weight[s] < Bound[i + 1] \/ Bound[i + 1] = ToTheEnd}

Current == IF stage = Booted THEN {} ELSE SliceOf(stage)

Init ==
  /\ conf \in Confs
  /\ tree = Sound(conf.after)
  /\ weight = Weight(conf.after)
  /\ stage = 1
  /\ place = [s \in Service |-> "out"]
  /\ next = [s \in Service |-> 1]
  /\ ok = [s \in Service |-> TRUE]
  /\ closed = [s \in Service |-> FALSE]
  /\ verdict = [s \in Service |-> FALSE]
  /\ job = [s \in Service |-> "none"]
  /\ success = [s \in Service |-> FALSE]
  /\ tick = [s \in Service |-> FALSE]
  /\ fired = [s \in Service |-> FALSE]
  /\ told = [s \in Service |-> FALSE]
  /\ ran = [s \in Service |-> FALSE]

Move(s, p) == place' = [place EXCEPT ![s] = p]

\* A second release finds the channel closed, recovers, and has still replaced
\* the verdict.
Release(s, state) ==
  /\ closed' = [closed EXCEPT ![s] = TRUE]
  /\ verdict' = [verdict EXCEPT ![s] = state]
  /\ ran' = [ran EXCEPT ![s] = @ \/ state]

(***************************************************************************)
(* RunSlice.                                                               *)
(***************************************************************************)

\* The slice is sorted by weight.
Turn(s) ==
  /\ s \in Current
  /\ place[s] = "out"
  /\ \A t \in Current : weight[t] < weight[s] => place[t] # "out"

Launch(s) ==
  /\ Turn(s)
  /\ conf.condition[s]
  /\ Move(s, "waiting")
  /\ UNCHANGED <<boot, next, ok, machine, jobs>>

\* Mutant: a skipped service is not released.
SkipSilent(s) ==
  /\ Turn(s)
  /\ ~conf.condition[s]
  /\ Move(s, "skipped")
  /\ UNCHANGED <<boot, next, ok, machine, jobs>>

Skip(s) ==
  /\ Turn(s)
  /\ ~conf.condition[s]
  /\ Move(s, "skipped")
  /\ Release(s, FALSE)
  /\ UNCHANGED <<boot, next, ok, jobs>>

Waiting(s) == place[s] = "waiting" /\ next[s] <= Len(conf.after[s])
Waited(s) == place[s] = "waiting" /\ next[s] > Len(conf.after[s])
Dependency(s) == conf.after[s][next[s]]

\* Mutant: the verdict is not looked at.
WaitBlind(s) ==
  /\ Waiting(s)
  /\ Dependency(s) \in Current => closed[Dependency(s)]
  /\ next' = [next EXCEPT ![s] = @ + 1]
  /\ UNCHANGED <<boot, place, ok, machine, jobs>>

\* The names the wait machine does not know, those of milestones and of
\* services of other slices, are passed over.
Wait(s) ==
  /\ Waiting(s)
  /\ Dependency(s) \in Current => closed[Dependency(s)]
  /\ ok' = [ok EXCEPT ![s] =
              @ /\ (Dependency(s) \in Current => verdict[Dependency(s)])]
  /\ next' = [next EXCEPT ![s] = @ + 1]
  /\ UNCHANGED <<boot, place, machine, jobs>>

GiveUp(s) ==
  /\ Waited(s)
  /\ ~ok[s]
  /\ Move(s, "blocked")
  /\ Release(s, FALSE)
  /\ UNCHANGED <<boot, next, ok, jobs>>

\* Run may refuse the job, as a duplicate or as an unknown command.
Submit(s) ==
  /\ Waited(s)
  /\ ok[s]
  /\ Move(s, "submitted")
  /\ job' = [job EXCEPT ![s] = "alive"]
  /\ UNCHANGED <<boot, next, ok, machine, success, tick, fired, told>>

Refuse(s) ==
  /\ Waited(s)
  /\ ok[s]
  /\ Move(s, "refused")
  /\ Release(s, FALSE)
  /\ UNCHANGED <<boot, next, ok, jobs>>

\* WaitAll.
SliceOver ==
  /\ stage # Booted
  /\ \A s \in Current : place[s] # "out" /\ closed[s]
  /\ stage' = stage + 1
  /\ UNCHANGED <<conf, tree, weight, runslice, machine, jobs>>

(***************************************************************************)
(* The job of a service and its hooks. Each hook acts once in its life,    *)
(* however often the job is run.                                           *)
(***************************************************************************)
Match(s) ==
  /\ job[s] = "alive"
  /\ conf.hook[s] = "match"
  /\ ~fired[s]
  /\ fired' = [fired EXCEPT ![s] = TRUE]
  /\ Release(s, TRUE)
  /\ UNCHANGED <<boot, runslice, job, success, tick, told>>

\* go hook.Tick(d), with the delay over.
Tick(s) ==
  /\ job[s] = "alive"
  /\ conf.hook[s] = "delay"
  /\ ~fired[s]
  /\ ~tick[s]
  /\ tick' = [tick EXCEPT ![s] = TRUE]
  /\ UNCHANGED <<boot, runslice, machine, job, success, fired, told>>

TickRelease(s) ==
  /\ tick[s]
  /\ tick' = [tick EXCEPT ![s] = FALSE]
  /\ fired' = [fired EXCEPT ![s] = TRUE]
  /\ Release(s, TRUE)
  /\ UNCHANGED <<boot, runslice, job, success, told>>

RunEnds(s) ==
  /\ job[s] = "alive"
  /\ job' = [job EXCEPT ![s] = "ended"]
  /\ \E b \in BOOLEAN : success' = [success EXCEPT ![s] = b]
  /\ UNCHANGED <<boot, runslice, machine, tick, fired, told>>

ExitHook(s) ==
  /\ job[s] = "ended"
  /\ job' = [job EXCEPT ![s] = "over"]
  /\ told' = [told EXCEPT ![s] = TRUE]
  /\ IF told[s] THEN UNCHANGED machine ELSE Release(s, success[s])
  /\ UNCHANGED <<boot, runslice, success, tick, fired>>

RunAgain(s) ==
  /\ job[s] = "over"
  /\ conf.restarts[s]
  /\ job' = [job EXCEPT ![s] = "alive"]
  /\ UNCHANGED <<boot, runslice, machine, success, tick, fired, told>>

RunSlice(s) == Launch(s) \/ Skip(s) \/ Wait(s) \/ GiveUp(s) \/ Submit(s) \/ Refuse(s)
Job(s) == Match(s) \/ Tick(s) \/ TickRelease(s) \/ RunEnds(s) \/ ExitHook(s) \/ RunAgain(s)

Next == SliceOver \/ \E s \in Service : RunSlice(s) \/ Job(s)

Spec == Init /\ [][Next]_vars

\* Every goroutine goes on, and the ticker of a job ticks.
Fairness ==
  /\ WF_vars(SliceOver)
  /\ \A s \in Service :
       /\ WF_vars(RunSlice(s))
       /\ WF_vars(ExitHook(s))
       /\ WF_vars(Tick(s))
       /\ WF_vars(TickRelease(s))

\* An assumption on the services, not a promise of the code: the ones that are
\* not reported by the clock end, or print what they are watched for.
ServicesAnswer ==
  \A s \in Service :
    WF_vars(conf.hook[s] # "delay" /\ ~told[s] /\ ~fired[s] /\ (Match(s) \/ RunEnds(s)))

FairSpec == Spec /\ Fairness /\ ServicesAnswer

-----------------------------------------------------------------------------
(***************************************************************************)
(* Properties.                                                             *)
(***************************************************************************)
DependenciesOf(s) == {conf.after[s][i] : i \in DOMAIN conf.after[s]} \cap Service

\* Every variable holds a value the code can give it.
TypeOK ==
  /\ conf \in Confs
  /\ tree \subseteq Service
  /\ weight = Weight(conf.after)
  /\ stage \in 1..Booted
  /\ place \in [Service -> {"out", "waiting", "skipped", "blocked", "refused",
                            "submitted"}]
  /\ next \in [Service -> Nat]
  /\ \A s \in Service : next[s] \in 1..(Len(conf.after[s]) + 1)
  /\ ok \in [Service -> BOOLEAN]
  /\ closed \in [Service -> BOOLEAN]
  /\ verdict \in [Service -> BOOLEAN]
  /\ job \in [Service -> {"none", "alive", "ended", "over"}]
  /\ success \in [Service -> BOOLEAN]
  /\ tick \in [Service -> BOOLEAN]
  /\ fired \in [Service -> BOOLEAN]
  /\ told \in [Service -> BOOLEAN]
  /\ ran \in [Service -> BOOLEAN]

\* "make sure a service won't start until its dependencies are running" (RunSlice):
\* those of the same slice have all been reported running, whatever was reported
\* of them afterwards.
DependenciesRan ==
  \A s \in Service :
    place[s] = "submitted" =>
      \A d \in DependenciesOf(s) :
        (\E i \in Stages : {s, d} \subseteq SliceOf(i)) => ran[d]

\* A service is not handled before every service of an earlier slice has been
\* reported, as running or as failed.
SlicesInOrder ==
  \A i, j \in Stages :
    i < j =>
      \A s \in SliceOf(i), t \in SliceOf(j) :
        place[t] # "out" => closed[s]

\* The boot ends, whatever is skipped, refused, broken or fails on the way.
BootEnds == <>(stage = Booted)
=============================================================================
