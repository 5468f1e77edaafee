---------------------------- MODULE HostCommands ----------------------------
(***************************************************************************)
(* What the commands on the host's network and disks have in common: each  *)
(* is one job, its handler runs in a goroutine of its own and goes from    *)
(* one system call or program to the next, and others run in between.      *)
(***************************************************************************)
EXTENDS Integers, Sequences, FiniteSets

CONSTANTS
  Cmd,       \* commands
  Does,      \* the arguments of each: a record whose field "do" names its handler
  Given,     \* the sets of commands that come together
  MaxFaults  \* how many system calls and programs may fail of their own

ASSUME CommandsAssumption ==
  /\ Given \subseteq SUBSET Cmd
  /\ \A c \in Cmd : "do" \in DOMAIN Does[c]
  /\ Cmd \cap {"free", "none"} = {}  \* of a lock and of a port that nobody has
  /\ MaxFaults \in Nat

VARIABLES
  pc,     \* where the handler of each command is
  got,    \* what it has read and will use: a sequence
  todo,   \* what its loop has still to go through: a sequence
  faults  \* how many have failed

commands == <<pc, got, todo, faults>>

Coming == DOMAIN pc  \* the commands of this behaviour
Ended(c) == pc[c] \in {"ok", "error"}

InitCommands ==
  /\ \E G \in Given : pc = [c \in G |-> "new"]
  /\ got = [c \in Coming |-> <<>>] /\ todo = [c \in Coming |-> <<>>]
  /\ faults = 0

\* A set gone through in an order that nothing depends on.
InSomeOrder(S) == CHOOSE s \in [1..Cardinality(S) -> S] : {s[i] : i \in DOMAIN s} = S

Is(c, handler) == Does[c].do = handler
Goto(c, place) == pc' = [pc EXCEPT ![c] = place]
\* A step that reads nothing to keep.
Step(c, place) == Goto(c, place) /\ UNCHANGED <<got, todo, faults>>
Reads(c, place, what) == Goto(c, place) /\ got' = [got EXCEPT ![c] = what]
                         /\ UNCHANGED <<todo, faults>>
Faulty == faults < MaxFaults /\ faults' = faults + 1
Fault(c, place) == Faulty /\ Goto(c, place) /\ UNCHANGED <<got, todo>>
=============================================================================
