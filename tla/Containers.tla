----------------------------- MODULE Containers -----------------------------
(***************************************************************************)
(* The containers plugin. A create command counts, takes an ID, enters the *)
(* container in the map and starts it; when coreX has a pid, onStart sets  *)
(* up its network; when coreX ends, or the start fails, cleanup takes down *)
(* what was set up on the host and leaves the map.  The daemon that serves *)
(* the root file system has an exit hook of its own, and nics and port     *)
(* forwards may be added to and removed from a container at any time.      *)
(*                                                                         *)
(* What stands for what: a request r is one create command and the         *)
(* container it makes.  A nic is known by its kind, at most one of each as *)
(* Validate has it for two of them; <<n, k>> in link is the pair or device *)
(* on the host that is named after container n and that nic.  conM is a    *)
(* sync.RWMutex: a reader waits while a writer holds it, and while one     *)
(* waits for it.  Commands sent to the ovs container succeed or fail.      *)
(***************************************************************************)
EXTENDS Naturals, FiniteSets

CONSTANTS
  Req,       \* create commands
  NicsOf,    \* the kinds of nics each asks for
  PortsOf,   \* the host ports each asks to be forwarded
  Op,        \* corex.nic-add, nic-remove and portforward-add commands
  AsksOf,    \* what each of these may ask for: which of the three, with a nic or a port
  Given,     \* which commands come together
  Limit,     \* containers.max_count
  MaxId,     \* what math.MaxUint16 stands for: never given
  Base,      \* of the numerals in the names of port forwards, 10 in the code
  First,     \* the last ID tried before
  Elders,    \* IDs of containers that were there before and stay
  Port, NoReq, Elder

Nic == {"default", "bridge", "vlan"}
Ids == 1..(MaxId - 1)
Asks == UNION {AsksOf[o] : o \in Op}

ASSUME ContainersAssumption ==
  /\ NicsOf \in [Req -> SUBSET Nic]
  /\ PortsOf \in [Req -> SUBSET Port]
  /\ Asks \subseteq ({"nic-add", "nic-remove"} \X Nic) \cup ({"forward-add"} \X Port)
  /\ Limit \in Nat \ {0} /\ MaxId \in Nat \ {0, 1} /\ Base \in Nat \ {0, 1}
  /\ First \in 0..MaxId /\ Elders \subseteq Ids
  /\ NoReq \notin Req /\ Elder \notin Req /\ NoReq # Elder

VARIABLES
  sequence,    \* the last ID tried, a uint16
  containers,  \* the map, from IDs
  writers,     \* requests that wait in conM.Lock
  pc,          \* where the create command is
  id,          \* the ID it was given, 0 before
  runner,      \* requests whose c.runner has been assigned
  daemon,      \* the g8ufs of the root: "none", "starting", "up", "dead"
  onSBExit,    \* where that daemon's exit hooks are
  proc,        \* coreX: "none", "running", "dead"
  onStart,     \* where the PID hook is
  cleanup,     \* where cleanup is
  nics,        \* the State of each nic, "absent" when not in Args.Nics
  link,        \* links on the host
  inside,      \* those that have been moved to coreX's namespace
  netns,       \* IDs whose namespace is mounted under /run/netns
  mounts,      \* IDs with something mounted under their root
  rules,       \* the ID a host port is forwarded to, 0 for none
  unported,    \* links on the host that were left there because ovs could not be asked
  op,          \* where each Op is
  what,        \* what it asks for and of which container, <<>> before
  crashed      \* a nil pointer in the PID hook's goroutine has ended core0

table  == <<sequence, containers, writers>>
create == <<pc, id, runner>>
flist  == <<daemon, onSBExit>>
life   == <<proc, onStart, cleanup>>
net    == <<nics, link, inside, netns, rules, unported>>
ops    == <<op, what>>
vars   == <<table, create, flist, life, net, mounts, ops, crashed>>

Pc == {"new", "refused", "counted", "numbered", "setting", "mounting", "binding",
       "prestart", "queued", "started", "failed"}
Exit == {"none", "begin", "waiting", "clean", "done", "stuck"}
Stage == {"no", "unmount", "setting", "gone"}
\* NicStateUnknown is "unknown" before preStartNetwork and "plugged" after it.
State == {"absent", "unknown", "plugged", "configured", "error", "destroyed"}

TypeOK ==
  /\ sequence \in 0..MaxId
  /\ containers \in [Ids -> Req \cup {NoReq, Elder}]
  /\ writers \subseteq Req
  /\ pc \in [Req -> Pc] /\ id \in [Req -> Ids \cup {0}] /\ runner \subseteq Req
  /\ daemon \in [Req -> {"none", "starting", "up", "dead"}]
  /\ onSBExit \in [Req -> Exit]
  /\ proc \in [Req -> {"none", "running", "dead"}]
  /\ onStart \in [Req -> {"none", "begin", "nics", "done"}]
  /\ cleanup \in [Req -> Stage]
  /\ nics \in [Req -> [Nic -> State]]
  /\ inside \subseteq link /\ unported \subseteq link /\ link \subseteq Ids \X Nic
  /\ netns \subseteq Ids /\ mounts \subseteq Ids
  /\ rules \in [Port -> Ids \cup {0}]
  /\ op \in [Op -> {"new", "found", "made", "done"}]
  /\ what \in [Op -> {<<>>} \cup (Asks \X Req)]
  /\ crashed \in BOOLEAN

\* A command that does not come is as one that has been refused.
Init ==
  /\ sequence = First
  /\ containers = [n \in Ids |-> IF n \in Elders THEN Elder ELSE NoReq] /\ writers = {}
  /\ \E G \in Given : /\ pc = [r \in Req |-> IF r \in G THEN "new" ELSE "refused"]
                    /\ op = [o \in Op |-> IF o \in G THEN "new" ELSE "done"]
  /\ what = [o \in Op |-> <<>>]
  /\ id = [r \in Req |-> 0] /\ runner = {}
  /\ daemon = [r \in Req |-> "none"] /\ onSBExit = [r \in Req |-> "none"]
  /\ proc = [r \in Req |-> "none"] /\ onStart = [r \in Req |-> "none"]
  /\ cleanup = [r \in Req |-> "no"]
  /\ nics = [r \in Req |-> [k \in Nic |-> IF k \in NicsOf[r] THEN "unknown" ELSE "absent"]]
  /\ link = {} /\ inside = {} /\ unported = {} /\ netns = {} /\ mounts = {}
  /\ rules = [p \in Port |-> 0]
  /\ crashed = FALSE

\* core0 goes on.
Alive == ~crashed /\ UNCHANGED crashed

-----------------------------------------------------------------------------
(* conM. An Op holds it for reading from its first step to its last.       *)

Readers == {o \in Op : op[o] \in {"found", "made"}}
CanRead == writers = {}

\* The write of one entry, once Lock has returned.
Write(r, entry) ==
  /\ r \in writers /\ Readers = {}
  /\ writers' = writers \ {r}
  /\ containers' = [containers EXCEPT ![id[r]] = entry]
  /\ UNCHANGED sequence

Lock(r) == writers' = writers \cup {r} /\ UNCHANGED <<sequence, containers>>

Known == {n \in Ids : containers[n] # NoReq}

Go(r, from, to) == pc[r] = from /\ pc' = [pc EXCEPT ![r] = to]

-----------------------------------------------------------------------------
(* The host's network.                                                     *)

Name(r, k) == <<id[r], k>>
OwnLinks(r) == {l \in link : l[1] = id[r]}
Unlink(gone, left) ==
  /\ link' = link \ gone /\ inside' = inside \ gone
  /\ unported' = (unported \cup left) \ gone

\* unBridge of some nics: ovs is asked first to delete the port of a vlan's link, and where
\* it cannot be asked the link is left. What is in also goes with its namespace.
UnBridge(r, kinds, also) ==
  \E left \in SUBSET ({Name(r, k) : k \in kinds \cap {"vlan"}} \cap link) :
    Unlink(({Name(r, k) : k \in kinds} \ left) \cup also, left)

\* preStartNetwork. A name that is in use makes it fail, as does, for a default
\* nic, a port that is forwarded already: those before it stay forwarded.
Plug(r, k) ==
  /\ Name(r, k) \notin link
  /\ k = "default" => \A p \in PortsOf[r] : rules[p] = 0
  /\ link' = link \cup {Name(r, k)}
  /\ rules' = [p \in Port |-> IF k = "default" /\ p \in PortsOf[r] THEN id[r] ELSE rules[p]]
  /\ nics' = [nics EXCEPT ![r][k] = "plugged"]
  /\ UNCHANGED <<inside, netns, unported>>

PlugFails(r, k) ==
  /\ link' \in {link, link \cup {Name(r, k)}}
  /\ \E some \in SUBSET {p \in PortsOf[r] : rules[p] = 0} :
       /\ some # {} => k = "default" /\ Name(r, k) \in link' \ link
       /\ rules' = [p \in Port |-> IF p \in some THEN id[r] ELSE rules[p]]
  /\ nics' = [nics EXCEPT ![r][k] = "error"]
  /\ UNCHANGED <<inside, netns, unported>>

\* postStartNetwork needs the link on the host, coreX, and its named namespace.
Attach(r, k) ==
  /\ Name(r, k) \in link \ inside /\ proc[r] = "running" /\ id[r] \in netns
  /\ inside' = inside \cup {Name(r, k)}
  /\ nics' = [nics EXCEPT ![r][k] = "configured"]
  /\ UNCHANGED <<link, netns, rules, unported>>

AttachFails(r, k) ==
  /\ \/ UNCHANGED inside
     \/ /\ Name(r, k) \in link /\ proc[r] = "running"
        /\ inside' = inside \cup {Name(r, k)}
  /\ nics' = [nics EXCEPT ![r][k] = "error"]
  /\ UNCHANGED <<link, netns, rules, unported>>

\* The name of a forward begins with "socat-container-<id>-": RemoveAll compares
\* without the last dash.
Begins(n, m) == n = m \/ \E digits \in 1..4 : m \div (Base ^ digits) = n

-----------------------------------------------------------------------------
(* The create command: createContainer and Start.                          *)

Count(r) ==
  /\ CanRead
  /\ Go(r, "new", IF Cardinality(Known) < Limit THEN "counted" ELSE "refused")
  /\ Alive /\ UNCHANGED <<table, id, runner, flist, life, net, mounts, ops>>

\* How often sequence has to be incremented, as a uint16, to become n.
Ahead(n) == ((n + MaxId - sequence) % (MaxId + 1)) + 1

\* A request that has its number but is not in the map yet, and goroutines that
\* still know the number of a container that is gone.
Pending(r) == pc[r] \in {"numbered", "setting"}
Lingering(r) ==
  onStart[r] \notin {"none", "done"} \/ onSBExit[r] \notin {"none", "done"} \/ daemon[r] = "up"

Free == Ids \ Known

\* Mutant: the next number, whoever has it.
NumberUnchecked(r) ==
  /\ CanRead
  /\ Go(r, "counted", "numbered")
  /\ sequence' = (sequence % (MaxId - 1)) + 1
  /\ id' = [id EXCEPT ![r] = sequence']
  /\ Alive /\ UNCHANGED <<containers, writers, runner, flist, life, net, mounts, ops>>

\* getNextSequence. No number comes round, 65534 containers later, before the
\* goroutines that had it are done: assumed of the speed of the program.
Number(r) ==
  /\ CanRead
  /\ Go(r, "counted", "numbered")
  /\ \E n \in Free :
       /\ \A other \in Free : Ahead(n) <= Ahead(other)
       /\ \A s \in Req : id[s] = n => ~Pending(s) /\ ~Lingering(s)
       /\ sequence' = n
       /\ id' = [id EXCEPT ![r] = n]
  /\ Alive /\ UNCHANGED <<containers, writers, runner, flist, life, net, mounts, ops>>

AwaitSet(r) ==
  /\ Go(r, "numbered", "setting") /\ Lock(r)
  /\ Alive /\ UNCHANGED <<id, runner, flist, life, net, mounts, ops>>

\* setContainer, then Start: sandbox runs g8ufs and waits for it, if it gets that far.
SetContainer(r) ==
  /\ Write(r, r)
  /\ \/ Go(r, "setting", "mounting") /\ daemon' = [daemon EXCEPT ![r] = "starting"]
     \/ Go(r, "setting", "failed") /\ UNCHANGED daemon
  /\ Alive /\ UNCHANGED <<id, runner, onSBExit, life, net, mounts, ops>>

\* "mount starts"
MountStarts(r) ==
  /\ daemon[r] = "starting" /\ daemon' = [daemon EXCEPT ![r] = "up"]
  /\ Go(r, "mounting", "binding")
  /\ mounts' = mounts \cup {id[r]}
  /\ Alive /\ UNCHANGED <<table, id, runner, onSBExit, life, net, ops>>

\* The mounts of host directories, of more flists and of coreX itself.
Bind(r) ==
  /\ \/ Go(r, "binding", "prestart") /\ mounts' = mounts \cup {id[r]}
     \/ Go(r, "binding", "failed") /\ mounts' \in {mounts, mounts \cup {id[r]}}
  /\ Alive /\ UNCHANGED <<table, id, runner, flist, life, net, ops>>

\* preStart, nic after nic; ovs is looked up in the map. A nic that was added to the
\* container before is met here too, and may have its link already.
PreStart(r, k) ==
  /\ nics[r][k] = "unknown" \/ (k \notin NicsOf[r] /\ nics[r][k] \in {"plugged", "error"})
  /\ k = "vlan" => CanRead
  /\ \/ pc[r] = "prestart" /\ Plug(r, k) /\ UNCHANGED pc
     \/ Go(r, "prestart", "failed") /\ PlugFails(r, k)
  /\ Alive /\ UNCHANGED <<table, id, runner, flist, life, mounts, ops>>

Run(r) ==
  /\ \A k \in NicsOf[r] : nics[r][k] # "unknown"
  /\ Go(r, "prestart", "queued") \/ Go(r, "prestart", "failed")
  /\ Alive /\ UNCHANGED <<table, id, runner, flist, life, net, mounts, ops>>

AssignRunner(r) ==
  /\ Go(r, "queued", "started") /\ runner' = runner \cup {r}
  /\ Alive /\ UNCHANGED <<table, id, flist, life, net, mounts, ops>>

-----------------------------------------------------------------------------
(* The job: coreX, and onStart, the PID hook in its own goroutine.         *)

Spawn(r) ==
  /\ pc[r] \in {"queued", "started"} /\ proc[r] = "none"
  /\ \/ /\ proc' = [proc EXCEPT ![r] = "running"]
        /\ onStart' = [onStart EXCEPT ![r] = "begin"]
     \/ proc' = [proc EXCEPT ![r] = "dead"] /\ UNCHANGED onStart
  /\ Alive /\ UNCHANGED <<table, create, flist, cleanup, net, mounts, ops>>

\* The namespace goes with the last process in it, unless it is mounted.
Die(r) ==
  /\ proc[r] = "running" /\ proc' = [proc EXCEPT ![r] = "dead"]
  /\ Unlink(IF id[r] \in netns THEN {} ELSE OwnLinks(r) \cap inside, {})
  /\ Alive /\ UNCHANGED <<table, create, flist, onStart, cleanup, nics, netns, rules, mounts, ops>>

HookGo(r, from, to) == onStart[r] = from /\ onStart' = [onStart EXCEPT ![r] = to]

\* onStart up to namespace() and setupLO(). It gives up when the job has no process
\* any more, and the mount fails when the process has ended.
HookBegin(r) ==
  /\ \/ /\ r \in runner /\ proc[r] = "running"
        /\ HookGo(r, "begin", "nics") \/ HookGo(r, "begin", "done")
        /\ netns' = netns \cup {id[r]} /\ UNCHANGED crashed
     \/ /\ HookGo(r, "begin", "done")
        /\ crashed' = (r \notin runner) /\ UNCHANGED netns
  /\ ~crashed
  /\ UNCHANGED <<table, create, flist, proc, cleanup, nics, link, inside, rules, unported, mounts, ops>>

\* The loop of postStartIsolatedNetworking. A nic that is added to the container
\* meanwhile may be met by it too; one that cleanup has destroyed is passed over,
\* where the code tries, fails and calls it an error.
PostStart(r, k) ==
  /\ onStart[r] = "nics" /\ nics[r][k] \in {"unknown", "plugged"}
  /\ Attach(r, k) \/ AttachFails(r, k)
  /\ Alive /\ UNCHANGED <<table, create, flist, life, mounts, ops>>

HookDone(r) ==
  /\ \A k \in NicsOf[r] : nics[r][k] \notin {"unknown", "plugged"}
  /\ HookGo(r, "nics", "done")
  /\ Alive /\ UNCHANGED <<table, create, flist, proc, cleanup, net, mounts, ops>>

-----------------------------------------------------------------------------
(* cleanup: by the creator when the start has failed, else by the exit     *)
(* hook of the job. forwardChan and the channel are closed first.          *)

CleanGo(r, from, to) == cleanup[r] = from /\ cleanup' = [cleanup EXCEPT ![r] = to]
Over(r) == pc[r] = "failed" \/ proc[r] = "dead"

\* Mutant: only what works is taken down.
UnbridgedWorking(r) == {k \in Nic : nics[r][k] = "configured"} \ {"bridge"}

\* unBridge for every nic but a bridge's.
Unbridged(r) == {k \in Nic : nics[r][k] # "absent"} \ {"bridge"}

RemoveAll(r) == {p \in Port : Begins(id[r], rules[p])}

\* destroyNetwork: the nics, for a default one the forwards, and the namespace.
DestroyNetwork(r) ==
  /\ Over(r) /\ CleanGo(r, "no", "unmount")
  /\ "vlan" \in Unbridged(r) => CanRead
  /\ UnBridge(r, Unbridged(r), OwnLinks(r) \cap inside)
  /\ nics' = [nics EXCEPT ![r] =
                [k \in Nic |-> IF k \in Unbridged(r) THEN "destroyed" ELSE @[k]]]
  /\ rules' = [p \in Port |-> IF "default" \in Unbridged(r) /\ p \in RemoveAll(r)
                              THEN 0 ELSE rules[p]]
  /\ netns' = netns \ {id[r]}
  /\ Alive /\ UNCHANGED <<table, create, flist, proc, onStart, mounts, ops>>

UnMountAll(r) ==
  /\ CleanGo(r, "unmount", "setting") /\ Lock(r)
  /\ mounts' = mounts \ {id[r]}
  /\ Alive /\ UNCHANGED <<create, flist, proc, onStart, net, ops>>

UnsetContainer(r) ==
  /\ CleanGo(r, "setting", "gone") /\ Write(r, NoReq)
  /\ Alive /\ UNCHANGED <<create, flist, proc, onStart, net, mounts, ops>>

-----------------------------------------------------------------------------
(* g8ufs, the daemon of the root flist, and its exit hooks: onSBExit, then *)
(* the hook of MountFList.                                                 *)

DaemonExit(r) ==
  /\ daemon[r] \in {"starting", "up"} /\ daemon' = [daemon EXCEPT ![r] = "dead"]
  /\ onSBExit' = [onSBExit EXCEPT ![r] = "begin"]
  /\ Alive /\ UNCHANGED <<table, create, life, net, mounts, ops>>

ExitGo(r, from, to) == onSBExit[r] = from /\ onSBExit' = [onSBExit EXCEPT ![r] = to]

\* Terminate does not wait for a container that has no runner.
Terminate(r) ==
  /\ ExitGo(r, "begin", IF r \in runner THEN "waiting" ELSE "clean")
  /\ Alive /\ UNCHANGED <<table, create, daemon, life, net, mounts, ops>>

\* The job is over when its exit hook, cleanup, is.
Waited(r) ==
  /\ cleanup[r] = "gone" /\ ExitGo(r, "waiting", "clean")
  /\ Alive /\ UNCHANGED <<table, create, daemon, life, net, mounts, ops>>

\* cleanSandbox, then MountFList's hook for a daemon that has ended before "mount
\* starts": after a failure it waits for the job whose own goroutine it runs in,
\* after success there is no error for MountFList to return.
CleanSandbox(r) ==
  /\ \/ ExitGo(r, "clean", "stuck") /\ pc[r] = "mounting" /\ UNCHANGED pc
     \/ ExitGo(r, "clean", "done") /\ Go(r, "mounting", "binding")
     \/ ExitGo(r, "clean", "done") /\ pc[r] # "mounting" /\ UNCHANGED pc
  /\ mounts' = mounts \ {id[r]}
  /\ Alive /\ UNCHANGED <<table, id, runner, daemon, life, net, ops>>

-----------------------------------------------------------------------------
(* nicAdd, nicRemove and portforwardAdd.                                   *)

OpGo(o, from, to) == op[o] = from /\ op' = [op EXCEPT ![o] = to]

Does(o) == what[o][1][1]
Arg(o) == what[o][1][2]
On(o) == what[o][2]

\* The guards of the three: Validate, the nic's state, the nic and the port.
Allowed(ask, r) ==
  CASE ask[1] = "nic-add" -> nics[r][ask[2]] \in {"absent", "destroyed"}
    [] ask[1] = "nic-remove" -> nics[r][ask[2]] = "configured"
    [] ask[1] = "forward-add" -> nics[r]["default"] # "absent"

Finds(o, r, ask) ==
  /\ ask \in AsksOf[o] /\ Allowed(ask, r)
  /\ OpGo(o, "new", "found")
  /\ what' = [what EXCEPT ![o] = <<ask, r>>]
  /\ nics' = IF ask[1] = "nic-add" THEN [nics EXCEPT ![r][ask[2]] = "unknown"] ELSE nics

Find(o) ==
  /\ CanRead
  /\ \E n \in Known \ Elders, ask \in Asks : Finds(o, containers[n], ask)
  /\ Alive /\ UNCHANGED <<table, create, flist, life, link, inside, netns, rules, unported, mounts>>

\* The map is read once more for ovs, with the lock held.
NicAddPre(o) ==
  /\ op[o] = "found" /\ Does(o) = "nic-add" /\ (Arg(o) = "vlan" => CanRead)
  /\ \/ OpGo(o, "found", "made") /\ Plug(On(o), Arg(o))
     \/ OpGo(o, "found", "done") /\ PlugFails(On(o), Arg(o))
  /\ Alive /\ UNCHANGED <<table, create, flist, life, mounts, what>>

NicAddPost(o) ==
  /\ OpGo(o, "made", "done")
  /\ Attach(On(o), Arg(o)) \/ AttachFails(On(o), Arg(o))
  /\ Alive /\ UNCHANGED <<table, create, flist, life, mounts, what>>

NicRemove(o) ==
  /\ OpGo(o, "found", "done") /\ Does(o) = "nic-remove" /\ (Arg(o) = "vlan" => CanRead)
  /\ UnBridge(On(o), {Arg(o)}, {})
  /\ nics' = [nics EXCEPT ![On(o)][Arg(o)] = "destroyed"]
  /\ Alive /\ UNCHANGED <<table, create, flist, life, netns, rules, mounts, what>>

\* SetPortForward refuses a port that is forwarded already.
ForwardAdd(o) ==
  /\ OpGo(o, "found", "done") /\ Does(o) = "forward-add"
  /\ rules' = [rules EXCEPT ![Arg(o)] = IF @ = 0 THEN id[On(o)] ELSE @]
  /\ Alive /\ UNCHANGED <<table, create, flist, life, nics, link, inside, netns, unported, mounts, what>>

-----------------------------------------------------------------------------
Creating(r) ==
  \/ Number(r) \/ AwaitSet(r) \/ SetContainer(r) \/ MountStarts(r) \/ Bind(r)
  \/ (\E k \in Nic : PreStart(r, k)) \/ Run(r) \/ AssignRunner(r)

Running(r) ==
  Spawn(r) \/ HookBegin(r) \/ (\E k \in Nic : PostStart(r, k)) \/ HookDone(r)

Cleaning(r) == DestroyNetwork(r) \/ UnMountAll(r) \/ UnsetContainer(r)

Exiting(r) == Terminate(r) \/ Waited(r) \/ CleanSandbox(r)

Operating(o) == NicAddPre(o) \/ NicAddPost(o) \/ NicRemove(o) \/ ForwardAdd(o)

System ==
  \/ \E r \in Req : Creating(r) \/ Running(r) \/ Cleaning(r) \/ Exiting(r)
  \/ \E o \in Op : Operating(o)

Environment ==
  \/ \E r \in Req : Count(r) \/ Die(r) \/ DaemonExit(r)
  \/ \E o \in Op : Find(o)

Next == System \/ Environment

Spec == Init /\ [][Next]_vars

-----------------------------------------------------------------------------
(* Properties.                                                             *)

InMap(r) == pc[r] \notin {"new", "refused", "counted", "numbered", "setting"} /\ cleanup[r] # "gone"

\* A container is in the map under its own number from setContainer until its own
\* cleanup is over, and that number is no one else's from getNextSequence on: a
\* second entry would hide a container that runs, and a number given out again too
\* early would name two sandboxes, links and sets of forwards alike, or take the
\* place of a container that was there before.
OwnNumber ==
  /\ \A n \in Elders : containers[n] = Elder
  /\ \A r \in Req : InMap(r) => containers[id[r]] = r
  /\ \A n \in Known \ Elders : InMap(containers[n]) /\ id[containers[n]] = n
  /\ \A r, s \in Req : r # s /\ Pending(r) /\ (Pending(s) \/ InMap(s)) => id[r] # id[s]

Reused(r) == \E s \in Req \ {r} : id[s] = id[r] /\ (Pending(s) \/ InMap(s))

\* A command of its own plugged in or forwarded something under the number n, and
\* a bridge's link of that number may have stayed on the host.
Adds(n) == \E o \in Op : what[o] # <<>> /\ id[On(o)] = n /\ Does(o) # "nic-remove"
Unbound(n) == \E s \in Req : id[s] = n /\ nics[s]["bridge"] \in {"plugged", "error"}

\* When cleanup is over, whichever of the creator, the PID hook, the daemon's hook
\* and the commands it overtook, nothing on the host bears the container's number,
\* however often that has been given: no mount, no named namespace, and, unless a
\* command of its own added to one of its containers, no forward and no link, but
\* the link of a bridge that coreX never got, and that of a vlan whose port ovs could
\* not be asked to delete (unBridge returns before LinkDel). The next container of that
\* number would fail on what was left.
LeavesNothing ==
  \A r \in Req : cleanup[r] = "gone" /\ ~Reused(r) =>
    /\ id[r] \notin netns /\ id[r] \notin mounts
    /\ Adds(id[r]) \/ /\ \A p \in Port : rules[p] # id[r]
                      /\ OwnLinks(r) \ unported \subseteq {Name(r, "bridge")}
                      /\ ~Unbound(id[r]) => OwnLinks(r) \subseteq unported

=============================================================================
