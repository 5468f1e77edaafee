------------------------------ MODULE Cgroups ------------------------------
(***************************************************************************)
(* The cgroup plugin: the groups of the subsystems devices, cpuset and     *)
(* memory, which are directories of the kernel; the plugin keeps nothing.  *)
(* The root of a subsystem is the group "".  A group is the same record    *)
(* in every subsystem, of which each uses its part.                        *)
(***************************************************************************)
EXTENDS HostCommands

CONSTANTS
  Process,
  Unlimited,  \* the kernel's limit of a new group
  Machine     \* the processors, and the memory nodes, of the root

Gets == {"cgroup.reset", "cgroup.tasks", "cgroup.task-add", "cgroup.task-remove",
         "cgroup.cpuset.spec", "cgroup.memory.spec"}
ForGroup(c) == Does[c].do \in Gets \cup {"cgroup.ensure", "cgroup.remove"}

\* No command is for the root; the two that write limits name their subsystem themselves.
ASSUME CgroupsAssumption ==
  /\ Machine.cpus # {} /\ Machine.mems # {} /\ Unlimited \in Nat
  /\ \A c \in Cmd :
       /\ ForGroup(c) => {"subsystem", "name"} \subseteq DOMAIN Does[c] /\ Does[c].name # ""
       /\ Does[c].do = "cgroup.cpuset.spec" => Does[c].subsystem = "cpuset"
       /\ Does[c].do = "cgroup.memory.spec" =>
            /\ Does[c].subsystem = "memory" /\ {Does[c].mem, Does[c].swap} \subseteq Nat
            /\ Does[c].mem + Does[c].swap <= Unlimited

VARIABLES
  group,    \* of each group, <<subsystem, name>>: its limits, its processors and nodes
  member,   \* of each subsystem: the group of each process
  crossed,  \* commands during which another came for the same group
  dropped   \* commands an error of which was left aside

cgroups == <<group, member, crossed, dropped>>

Subsystems == {"devices", "cpuset", "memory"}
NewGroup == [mem |-> Unlimited, swap |-> Unlimited, cpus |-> {}, mems |-> {}]
GroupName(c) == <<Does[c].subsystem, Does[c].name>>
There(c) == GroupName(c) \in DOMAIN group
InGroup(g) == {p \in Process : g[1] \in Subsystems /\ member[g[1]][p] = g[2]}

InitCgroups ==
  /\ group = [g \in {} |-> NewGroup] /\ crossed = {} /\ dropped = {}
  /\ member = [s \in Subsystems |-> [p \in Process |-> ""]]

\* The first step of a command.
Crosses(c) ==
  LET others == {d \in Coming \ {c} : /\ ForGroup(d) /\ pc[d] # "new" /\ ~Ended(d)
                                      /\ GroupName(d) = GroupName(c)} IN
  crossed' = IF others = {} THEN crossed ELSE crossed \cup others \cup {c}
SetGroup(c, field, value) ==
  group' = IF There(c) THEN [group EXCEPT ![GroupName(c)][field] = value] ELSE group

\* The kernel may refuse whatever it is asked; here nobody looks at its answer.
Drops(c) == Faulty /\ dropped' = dropped \cup {c}
Tries(c, write) == \/ write /\ UNCHANGED <<faults, dropped>>
                   \/ Drops(c) /\ UNCHANGED group
Proceeds(c, place) == Goto(c, place) /\ UNCHANGED <<got, todo>>

-----------------------------------------------------------------------------
(* GetGroup and Get                                                          *)

\* Get: if it exists; then GetGroup, which would make it again.
GetGroup(c) ==
  /\ Does[c].do \in Gets /\ pc[c] = "new" /\ Crosses(c)
  /\ Step(c, IF There(c) THEN "stat" ELSE "error")
  /\ UNCHANGED <<group, member, dropped>>
Ensure(c) ==
  /\ Is(c, "cgroup.ensure") /\ pc[c] = "new" /\ Crosses(c)
  /\ Step(c, IF Does[c].subsystem \in Subsystems THEN "stat" ELSE "error")
  /\ UNCHANGED <<group, member, dropped>>

Then(c) == CASE Is(c, "cgroup.ensure") -> "ok" [] Is(c, "cgroup.reset") -> "reset" [] OTHER -> "got"
StatGroup(c) ==
  /\ pc[c] = "stat" /\ Step(c, IF There(c) THEN Then(c) ELSE "mkdir")
  /\ UNCHANGED cgroups
MakeGroup(c) ==
  /\ pc[c] = "mkdir"
  /\ IF There(c) THEN Step(c, "error") /\ UNCHANGED group
     ELSE Step(c, "reset") /\ group' = [g \in DOMAIN group \cup {GroupName(c)} |->
                                           IF g = GroupName(c) THEN NewGroup ELSE group[g]]
  /\ UNCHANGED <<member, crossed, dropped>>

\* Reset: of a memory group swap and then memory, of a cpuset what the root has; errors
\* are left aside, and a root that cannot be read has nothing.
MemFits(c, mem) == There(c) /\ mem <= group[GroupName(c)].swap
\* A set of processors or nodes is one of the machine's, and not taken from a group that
\* has processes.
Accepts(c, field, S) == /\ There(c) /\ S \subseteq Machine[field]
                        /\ S = {} => InGroup(GroupName(c)) = {}
Inherit(c, field) == \/ Tries(c, SetGroup(c, field, Machine[field]))
                     \/ Drops(c) /\ Accepts(c, field, {}) /\ SetGroup(c, field, {})
ResetSwap(c) == Tries(c, SetGroup(c, "swap", Unlimited))
ResetMem(c) ==
  Tries(c, IF MemFits(c, Unlimited) THEN SetGroup(c, "mem", Unlimited) ELSE UNCHANGED group)
Reset(c) ==
  /\ pc[c] = "reset" /\ Proceeds(c, "reset again")
  /\ CASE Does[c].subsystem = "memory" -> ResetSwap(c)
       [] Does[c].subsystem = "cpuset" -> Inherit(c, "cpus")
       [] OTHER -> UNCHANGED <<group, faults, dropped>>
  /\ UNCHANGED <<member, crossed>>
ResetAgain(c) ==
  /\ pc[c] = "reset again" /\ Proceeds(c, IF Is(c, "cgroup.reset") THEN "ok" ELSE Then(c))
  /\ CASE Does[c].subsystem = "memory" -> ResetMem(c)
       [] Does[c].subsystem = "cpuset" -> Inherit(c, "mems")
       [] OTHER -> UNCHANGED <<group, faults, dropped>>
  /\ UNCHANGED <<member, crossed>>

-----------------------------------------------------------------------------
(* Processes                                                                 *)

\* The kernel takes a process into a cpuset that has processors and nodes.
Takes(g) == g[1] = "cpuset" => group[g].cpus # {} /\ group[g].mems # {}
Tasks(c) ==
  /\ Is(c, "cgroup.tasks") /\ pc[c] = "got"
  /\ IF There(c) THEN Reads(c, "ok", InSomeOrder(InGroup(GroupName(c)))) ELSE Step(c, "error")
  /\ UNCHANGED cgroups
TaskAdd(c) ==
  /\ Is(c, "cgroup.task-add") /\ pc[c] = "got"
  /\ IF There(c) /\ Takes(GroupName(c))
     THEN Step(c, "ok") /\ member' = [member EXCEPT ![Does[c].subsystem][Does[c].pid] = Does[c].name]
     ELSE Step(c, "error") /\ UNCHANGED member
  /\ UNCHANGED <<group, crossed, dropped>>
\* The process goes to the root, whatever group it is in.
TaskRemove(c) ==
  /\ Is(c, "cgroup.task-remove") /\ pc[c] = "got" /\ Step(c, "ok")
  /\ member' = [member EXCEPT ![Does[c].subsystem][Does[c].pid] = ""]
  /\ UNCHANGED <<group, crossed, dropped>>

\* Remove: the processes go to the root one by one, then the directory is removed.
RemoveGroup(c) ==
  /\ Is(c, "cgroup.remove") /\ pc[c] = "new" /\ Crosses(c)
  /\ Step(c, IF There(c) THEN "tasks" ELSE "ok")
  /\ UNCHANGED <<group, member, dropped>>
RemoveTasks(c) ==
  /\ Is(c, "cgroup.remove") /\ pc[c] = "tasks"
  /\ IF There(c) THEN /\ Goto(c, "moving") /\ UNCHANGED <<got, faults>>
                      /\ todo' = [todo EXCEPT ![c] = InSomeOrder(InGroup(GroupName(c)))]
     ELSE Step(c, "error")
  /\ UNCHANGED cgroups
MoveTask(c) ==
  /\ pc[c] = "moving" /\ todo[c] # <<>> /\ todo' = [todo EXCEPT ![c] = Tail(@)]
  /\ \/ member' = [member EXCEPT ![Does[c].subsystem][Head(todo[c])] = ""] /\ UNCHANGED <<faults, dropped>>
     \/ Drops(c) /\ UNCHANGED member
  /\ UNCHANGED <<pc, got, group, crossed>>
RemoveDir(c) ==
  /\ pc[c] = "moving" /\ todo[c] = <<>>
  /\ IF There(c) /\ InGroup(GroupName(c)) = {}
     THEN Step(c, "ok") /\ group' = [g \in DOMAIN group \ {GroupName(c)} |-> group[g]]
     ELSE Step(c, "error") /\ UNCHANGED group
  /\ UNCHANGED <<member, crossed, dropped>>

-----------------------------------------------------------------------------
(* Limits                                                                    *)

CpusetSpec(c) ==
  LET field == IF pc[c] = "got" THEN "cpus" ELSE "mems"
      S == Does[c][field] IN
  /\ Is(c, "cgroup.cpuset.spec") /\ pc[c] \in {"got", "mems"}
  /\ IF S # {} /\ ~Accepts(c, field, S) THEN Step(c, "error") /\ UNCHANGED group
     ELSE /\ Step(c, IF field = "cpus" THEN "mems" ELSE "ok")
          /\ IF S = {} THEN UNCHANGED group ELSE SetGroup(c, field, S)
  /\ UNCHANGED <<member, crossed, dropped>>

\* Limit: the order of the two writes is chosen from the limits there are, for the kernel
\* wants memory not above memory and swap; errors of the writes are left aside.
Limits(c) == <<group[GroupName(c)].mem, group[GroupName(c)].swap>>
MemorySpec(c) ==
  /\ Is(c, "cgroup.memory.spec") /\ pc[c] = "got"
  /\ IF Does[c].mem = 0 THEN Step(c, "told") ELSE
     IF There(c) THEN Reads(c, "limit", Limits(c)) ELSE Step(c, "error")
  /\ UNCHANGED cgroups
\* Mutant: memory first, always.
MemoryFirst(c) == FALSE
SwapFirst(c) == got[c][2] < Does[c].mem
WriteMem(c) ==
  Tries(c, IF MemFits(c, Does[c].mem) THEN SetGroup(c, "mem", Does[c].mem) ELSE UNCHANGED group)
WriteSwap(c) ==
  LET swap == Does[c].mem + Does[c].swap
      fits == There(c) /\ group[GroupName(c)].mem <= swap IN
  Tries(c, IF fits THEN SetGroup(c, "swap", swap) ELSE UNCHANGED group)
Limit(c) ==
  /\ pc[c] = "limit" /\ Proceeds(c, "limit again")
  /\ IF SwapFirst(c) THEN WriteSwap(c) ELSE WriteMem(c)
  /\ UNCHANGED <<member, crossed>>
LimitAgain(c) ==
  /\ pc[c] = "limit again" /\ Proceeds(c, "told")
  /\ IF SwapFirst(c) THEN WriteMem(c) ELSE WriteSwap(c)
  /\ UNCHANGED <<member, crossed>>
\* What cannot be read is told as 0.
LimitsTold(c) ==
  /\ pc[c] = "told" /\ Goto(c, "ok")
  /\ \/ /\ got' = [got EXCEPT ![c] = IF There(c) THEN <<Limits(c)[1], Limits(c)[2] - Limits(c)[1]>>
                                               ELSE <<0, 0>>]
        /\ UNCHANGED <<faults, dropped>>
     \/ Drops(c) /\ got' = [got EXCEPT ![c] = <<0, 0>>]
  /\ UNCHANGED <<todo, group, member, crossed>>

-----------------------------------------------------------------------------
(* Failures that are told *)

Fails(c) ==
  \/ pc[c] \in {"mkdir", "tasks"} \/ (pc[c] = "moving" /\ todo[c] = <<>>)
  \/ pc[c] = "mems" /\ Does[c].mems # {}
  \/ pc[c] = "got" /\ CASE Is(c, "cgroup.cpuset.spec") -> Does[c].cpus # {}
                        [] Is(c, "cgroup.memory.spec") -> Does[c].mem # 0
                        [] OTHER -> TRUE
GroupFault(c) == Fails(c) /\ Fault(c, "error") /\ UNCHANGED cgroups

CgroupStep(c) ==
  \/ GetGroup(c) \/ Ensure(c) \/ StatGroup(c) \/ MakeGroup(c) \/ Reset(c) \/ ResetAgain(c)
  \/ Tasks(c) \/ TaskAdd(c) \/ TaskRemove(c) \/ RemoveGroup(c) \/ RemoveTasks(c) \/ MoveTask(c)
  \/ RemoveDir(c) \/ CpusetSpec(c) \/ MemorySpec(c) \/ Limit(c) \/ LimitAgain(c) \/ LimitsTold(c)
  \/ GroupFault(c)
=============================================================================
