# 0-core: a TLA+ verification project

This directory models the program under `src/`: `core0`, the first process of a
0-OS node, and `coreX`, the first process of a container. Both take commands,
run each as a *job* and store its result. The modules here are state machines
written from the code, TLC configurations that check them on small instances,
and proofs, checked by TLAPS, that hold for every value of the constants.

All paths below are relative to the repository (`src/` left out).

## 1. The system

| component | where | state | operations | how it interacts |
|---|---|---|---|---|
| process manager | `base/mgr/pm.go`, `queue.go` | `jobs` map under `jobsM`, named queues under `q.lock`, an unbuffered channel, `jobsCond` | `RunFactory`, `loop`, `cleanUp`, `Shutdown`, `Kill` | every plugin and every command handler submits jobs here |
| job | `base/mgr/job.go`, `backoff.go` | run flag, signal channel, unschedule channel, result | `start`, `run`, `Signal`, `Terminate`, `Unschedule`, `Wait`, `Subscribe` | started by `loop`; signalled by any goroutine; ends in `cleanUp` |
| pids | `base/mgr/pm.go`, `process.go`, `systemprocess.go` | `pids` table under `pidsMux` | `registerPID`, `waitPID`, `processWait` | one reaper for every child of the program; jobs wait in it |
| startup | `base/settings/startup.go`, `tree.go`, `base/mgr/pm.go`, `waitmachine.go`, `base/pm/runnerhook.go` | weights, slices, one wait machine for each slice | `GetStartupTree`, `Slice`, `RunSlice`, `Release`, `Wait` | submits services as jobs; hooks of jobs release who waits |
| delivery | `apps/plugins/protocol`, `containers/plugin/comm.go`, `apps/coreX/{main,backend}.go`, `client/go-client/redis.go` | Redis lists and keys, pipes of a container | `process`, `Flag`, `UnFlag`, `Set`, `dispatch`, `forward`, `rewind` | from a client to a job and back, over a container's pipes too |
| containers | `apps/plugins/containers/plugin` | `containers` map and `sequence` under `conM`, each container's nics and runner | `create`, `Start`, `onStart`, `cleanup`, `nic-add`, `nic-remove`, `portforward-add`, `terminate` | jobs, `zfs` (root file system), `socat` (forwards), netlink |
| plugin manager | `apps/core0/plugin`, `apps/coreX/bootstrap/plugin.go`, `base/plugin` | plugins by name, opened or not, a store for each | `Load`, hot load, `Plugin`, store | every plugin is opened by it after those it requires |
| output and loggers | `base/stream`, `job.go`, `apps/plugins/logger` | a parser for each pipe, the backlog and subscribers of a job, a channel of 1000 records | `Consume`, the message loop, `Subscribe`, `LogRecord`, the pusher | from what a process writes to Redis and to subscribers |
| statistics | `apps/plugins/aggregator`, `monitor` | states in Redis, a cache of keys | `Aggregate`, `feed`, eviction | numbers in the messages of jobs and in `/proc` |
| firewall and forwards | `apps/plugins/nft`, `socat` | a store of opened ports, the forward of each port, reserved ports, each under a lock; the kernel's ruleset | `open_port`, `drop_port`, `SetPortForward`, `RemovePortForward`, `RemoveAll`, `Reserve`, the watcher of addresses | containers, virtual machines, bridges |
| bridges, links | `apps/plugins/base/bridge`, `ip` | netlink devices, addresses and routes; a `dnsmasq` job for each bridge | `create`, `delete`, `host_add`, `nic_add`, `ip.*` | containers, virtual machines, the firewall |
| virtual machines | `apps/plugins/kvm` | libvirt domains, `domainsInfo`, a `Sync` of channels, flist mounts | `create`, `prepare_migration_target`, `destroy`, events, `attach/detach_disk`, `add/remove_nic`, `portforward-*` | one goroutine runs libvirt's events; bridges, forwards, containers |
| files | `apps/plugins/base/fs` | a cache of descriptors, 5 minutes each | `open`, `read`, `write`, `close`, paths | no lock between a lookup and what follows |
| disks, btrfs | `apps/plugins/base/disk`, `btrfs` | the kernel's | `list`, `getinfo`, `create`, subvolumes, quotas | system programs, whose output is parsed |
| flists, backups | `apps/plugins/zfs`, `containers/plugin/{backup,flist}.go` | extracted files and `.valid` of each hash, a `g8ufs` job for each mount | `MountFList`, `MergeFList`, `backup`, `restore`, `flist_create` | containers and virtual machines are made from them |
| control groups | `apps/plugins/cgroup` | the kernel's directories | `ensure`, `remove`, `reset`, tasks, limits | containers join them |
| conditions, settings | `base/settings` | none | parse, include | startup |
| the rest | `redis-proxy`, `corectl`, clients, screen, network bring-up | | | |

`PROJECT.json` lists all of them under `components` with what is modelled, and,
under `hazards`, the places where the code is hard to test.

### What is hard, and what makes each component correct

* **Process manager.** Three kinds of goroutine (submitters, the dispatcher, the
  ends of jobs) meet over a map, named queues, an unbuffered channel and a
  condition variable; the dispatcher reads the size of the map without its lock.
  Right when: never more than `max_jobs` alive; jobs of one named queue never
  alive together and in their order; whoever was accepted is started; the map
  has exactly the jobs that are pending or alive; after `Shutdown` nothing
  starts and everything alive was told.
* **Job.** One goroutine shares `running`, the signal channel and the command's
  flags with callers and no lock. Right when: terminate and unschedule stop the
  restarts; a command left alone runs as often as it asks; a timeout ends it.
* **Pids.** The child is reaped before anyone knows who waits for it; signals
  coalesce; pids are given again. Right when: a waiter gets its own process's
  status, once it has exited.
* **Startup.** A graph of services with cycles, unknown names, unmet conditions
  and failures, and three sources of "running". Right when: nothing is submitted
  before what it comes after; slices in order; the boot ends.
* **Delivery.** IDs chosen by clients, a flag and a result with two lifetimes,
  a second process behind pipes that may die at any step. Right when: an
  accepted ID stays known until it is answered; one answer; every command
  answered unless it died with its container.
* **Containers.** Set-up, PID hook, exit hooks of two processes and commands work
  on one container, and any step may fail. Right when: a number has one owner
  from when it is given to the end of its cleanup; nothing on the host outlives
  the container.
* **Plugin manager.** Right when: opened after what it requires, once, and kept
  only when all that is open.
* **Output.** What is written is cut where the pipe happens to be read; a job
  waits for its subscribers, which are jobs; a list of subscribers is copied and
  written back without a lock. Right when: messages do not depend on the cuts;
  every subscriber and the stream's queue have each message once, in order; no
  subscriber can keep a job from ending.
* **Statistics.** A state is read, changed and written with no lock, and deleted
  by the eviction of its key. Right when: each sample is that of the values of
  its period, and no period is published twice or left out.
* **Firewall and forwards.** Lists in memory and the kernel's rules change one
  after the other, under different locks, and the program between them may fail.
  Right when: no rule is there that nobody will remove; a reserved port is not
  given away; the set of host addresses follows the host.
* **Bridges.** `create` holds a lock, `delete` lets go of it at once, and `ip.*`
  take none. Right when: no two bridges have networks that intersect; what
  `create` made is gone after `delete`.
* **Storage.** Every handler looks, waits for a program and uses what it saw,
  beside others that do the same. Right when: an open file can be reached or is
  going to be closed; who is told that an flist is there finds all of it; a
  backup was taken at rest; a quota is told of the subvolume it belongs to;
  nothing stays stopped, locked or open.
* **Control groups.** The kernel takes memory and swap one at a time and refuses
  a pair that does not fit. Right when: what `memory.spec` answers is what is in
  force; a removed group leaves nobody behind.
* **Virtual machines.** A domain may stop while `create` still looks at it; its
  end is told by an event, handled by a goroutine that every detach depends on
  and that takes the lock every detach takes; events are lost with the
  connection. Right when: what runs is known; what has ended leaves nothing;
  a detach succeeds when the guest answered, and the event loop is never stuck.

## 2. The modules

| module | models | is it proved about |
|---|---|---|
| `JobSchedule` | abstract: submit, wait for slot and turn, start, finish, close | refined by `JobManager` |
| `JobManager` | `pm.go` and `queue.go` between their locks and channel operations | `JobManagerProofs` |
| `Job` | `job.go`: `start`, `run`, and the callers of `Signal`, `Terminate`, `Unschedule` | `ServiceProofs` |
| `PidTable` | `registerPID`, `waitPID`, `processWait` and the kernel's pids | `ProcessProofs` |
| `Startup` | weights, slices, `RunSlice`, wait machine, hooks | `ServiceProofs` |
| `Mailbox` | abstract: an ID is free, pending, answered | refined by `Delivery` |
| `Delivery` | clients, Redis, protocol plugin, dispatch, coreX | `DeliveryProofs` |
| `Containers` | containers plugin, root daemon, coreX's hooks, nics and forwards | `ContainersProofs` |
| `Machines` | kvm plugin: `create` and its cleanup, libvirt's events, the `Sync`, forwards | `MachinesProofs` |
| `HostCommands` | what the commands on the host have in common: a place, what it read, what it has still to do | `HostNetworkProofs` |
| `Links`, `Firewall`, `Forwards`, `Bridges` | `ip.*`; `nft`; `socat` and the watcher of addresses; `bridge.*` | all four |
| `HostNetwork` | their composition on one set of links and one ruleset | `HostNetworkProofs` |
| `Files`, `Disks`, `Btrfs`, `Flists`, `Backups`, `Cgroups` | `filesystem.*`; `disk.*`; `btrfs.*`; `zfs`; backups and flists of containers; `cgroup.*` | all but `Disks` |
| `HostStorage` | their composition | `HostStorageProofs` |
| `Streams`, `Output`, `Statistics` | bytes to messages; messages to loops, subscribers and Redis; values to samples | `ProcessProofs` |
| `Flow` | their composition | `ProcessProofs` |
| `MC*` | the constants of the instances TLC checks | |

Operators with a comment that begins "Mutant" are alternative bodies, used to
check that a property would notice the corresponding mistake.

### State and code

**JobManager.** `jobs` is the set of entries of the map (two jobs may have one
command ID; `Id` gives it). `jobsM` and `qLock` name the owner of a lock that is
held across the blocking send in `Queue.Push` and `Notify`; a section that never
blocks with its lock held is one step. `pc[j]` is where job `j` is: in
`RunFactory` (`new`, `locked`, `offered`), behind others (`queued`), on its way
through `Notify`, received (`spawned`), running, and in `cleanUp`. `loop` is
where the dispatcher is: at its test, in `jobsCond.Wait`, at the receive.
`Caller[j]` is the job from inside which `j` is run.

**Job.** `pc` is where the job's goroutine is, `sigs` and `sigsClosed` the signal
channel, `at[c]` how far a caller is between the test of `running` and the send.
`begun` counts runs and is bounded by `MaxBegun`; `late` those that began after
the job was unscheduled and unprotected. Time is a timer that fires or not.

**PidTable.** `os`, `pid`, `status` belong to the kernel; `table` is `pids`; the
channel of an entry is named after the process it was made for; `sender` and
`waiter` are the goroutines that deliver and receive a status; `closed` the
channels that were closed.

**Startup.** `conf` is what the files say, chosen at the start from `Confs`;
`weight` is computed by the recursive function `Weight` as in `tree.go`; `place`,
`next` are a service's goroutine in `RunSlice` and which dependency it waits for;
`closed`, `verdict` the wait machine; `job`, `tick`, `fired` the job and its hooks.

**Delivery.** `place[c]` is the step that has a command in hand; `flag` and
`result` the two Redis keys of an ID; `container` how far its end has come.
In `Mailbox` an ID is free, pending or answered: the refinement maps `flag` and
`result` to that, for the IDs that only clients choose.

**Containers.** `containers`, `sequence`, and `writers` (who waits in
`conM.Lock`); `pc` the create command, `proc` coreX, `onStart` its PID hook,
`cleanup` the cleanup, `daemon` and `onSBExit` the server of the root and its
exit hook; `nics`, `link`, `inside`, `netns`, `mounts`, `rules` what is on the
host, `unported` (history) the links that `unBridge` left there. `op` are the
commands on a running container, which hold `conM` for reading from their first
step to their last. `AsksOf` says what each may ask for and `Given` which creates
and commands come together.

**Machines.** `info` is `domainsInfo`, `domain` what libvirt has, `mounts` the
mounted flists, `rules` whose a forwarded port is. `pc` is where `create` is, or
`prepare_migration_target`; its last places (`failed`, `forgotten`, `unruled`,
`over`) are the deferred `handleStopped`. `events` is libvirt's queue, and `loop`
how far the event goroutine is with the `handleStopped` of the first; `conn` is
the connection, `missed` whose end was lost with it. The Sync is `expected` (its
map), `token` and `closed` (what is in a channel), `held` (its lock was left
locked) and `on` (the channel a command reads from). `told` and `crossed` are
history: which waiting detach had an event since `Expect`, and which overlapped
another of the same device.

**HostCommands.** `Does[c]` are a command's arguments, `pc[c]` the place of its
handler between two system calls or programs, `got[c]` what it has read and will
use, `todo[c]` what its loop has left. `Given` are the sets of commands that come
together, `MaxFaults` how many calls may fail of their own.

**HostNetwork.** `links`, `addrs`, `routes` are netlink's, by index, so that a name
may be given again; `chain` the rules with their handles, as `nft` prints them;
`rules`, `reserved`, `opened` the plugins' lists and `rm`, `m`, `bm` their locks;
`host`, `lines`, `notify` the watcher; `dnsmasq`, `served` the jobs of bridges.
`left`, `undeleted`, `unset`, `deaf` and `met` are history: what a failed call, a reading
that failed or a crossing has left behind. A `delete` of a bridge goes through the lock
and then, at its place `looking`, finds its link: a `create` that begins in between is met.

**HostStorage.** `file` and `cache` are the file of a descriptor, named after the
command that opened it, and its entry; `leaving` are those out of the cache and
not closed yet. `present`, `at`, `volumes`, `subs` are disks, mounts, file systems
and subvolumes. `extracted`, `valid` and `flock` are the directory of an flist's
hash, its `.valid` and the lock on that file; `daemon` the `g8ufs` of a target.
`con`, `stopped`, `meta`, `snapshot`, `archive` belong to backups. `group` and
`member` are the kernel's; `dropped` is history: the commands that went on after an error
of a write.

**Flow.** `text` is a sequence of tokens and `read` how much of it was read, `multi`
the unfinished message, `out` the messages; `Uncolon` and `Halves` say of a token what is
left of it without its first colon, and how its last rune is cut where it has several bytes.
`loop`, `hand`, `calling` are a job's
message loop, `proc`, `ptr`, `copy` a `core.subscribe`; `channel` and `pushed` the
stream logger. `emitted` and `replayed` are history: what each loop was handed, and of
each subscriber what of the backlog it was sent, when it enrolled, and whether it has
kept its place since (`kept`). `call` is a value between its load and its save, `state` and
`points` what Redis has, `fed` the history from which the right samples follow.

## 3. What is checked

The passing runs, with the states TLC finds:

| run | instance | properties |
|---|---|---|
| `manager` | four jobs, limit two: two in one queue, one free, one run from inside another with an ID in use (327 k) | `MapAccurate`, `ShutdownReaches`, refinement of `JobSchedule` |
| `manager_live` | three jobs of one queue and one run from inside, limit out of reach (156 k) | `QueueExclusion`, `SubmittedStarts` |
| `job` | every flag of a command, three callers, up to four runs (196 k) | `AtMostOneMoreRun`, `RunsAsAsked`, `TerminateEnds`, `TimeoutEndsRun` |
| `pids` | two jobs and an orphan on two pids, room for one `SIGCHLD` (295 k) | `OwnStatus`, `WaitReturns` |
| `startup` | seven dependency graphs over three services and the milestones (348 k) | `DependenciesRan`, `BootEnds` |
| `delivery` | two commands of one ID, an unknown one, a dispatch with a service's ID (274 k) | refinement of `Mailbox`, `FlagLapses`, `Answered` |
| `containers` | five sets of containers and commands: two with one port, one of them beside one with a vlan or a bridge, two commands on one; an elder container (919 k) | `OwnNumber`, `LeavesNothing` |
| `machines` | one machine from an flist, with two detaches of its disk, a detach and an attach, or a second machine that comes from elsewhere and two forward commands on one port (165 k) | `RunningKnown`, `LeavesNothing`, `DetachTold`, `SyncFree`, `StoppedHandled` |
| `network` | nineteen sets of two to five commands, the monitor of addresses beside them, one failure (68 k) | `RulesKnown`, `ReservedApart`, `HostSetCurrent`, `NetworksApart`, `BridgeGone`, `CommandsEnd` |
| `storage` | thirty-three sets of two to four commands, one failure, a disk that is pulled out, a container that ends, an flist published anew (54 k) | `DescriptorsKept`, `MountsWhole`, `SnapshotsRight`, `QuotaOfItself`, `LimitsAsTold`, `Released` |
| `flow` | all texts of five tokens in all reads; four sets of jobs and subscribers; eight who feed statistics, alone and in pairs (653 k) | `MessagesWhole`, `SubscribersServed`, `StreamsTold`, `SamplesRight`, `OutputEnds` |

Every property has a mutant of the model that it refutes.

`network`, `storage` and `flow` answer one kind of question: what do commands
that were each written as if they were alone do to each other. Where the answer
is that they do harm, the property names the crossing in which they may
(`met`, `crossed`, `overlapped`, `revived`, `disturbed`), and TLC shows that there is no
other. Two properties compare with a reference definition instead:
`MessagesWhole` with `Lines`, which cuts the whole text at once, and
`SamplesRight` with `SampleOf`, which takes the values of a period from the
history of what was fed (`fed`), and adds, counts and compares them at once.

One run TLC must refute, a place where the code does not do what its
documentation says (quoted under `findings` in `PROJECT.json`): `manager_limit`.
At `max_jobs` the submitter blocks in `Push` with `jobsM` held, the dispatcher
waits for a job to leave, `cleanUp` waits for `jobsM`: nothing moves again.

Other disagreements, which the models contain and no run states:

* `pm.go:376`: `cleanUp` broadcasts without the condition's lock. A wake-up
  between the test of `len(jobs)` and `jobsCond.Wait` is lost, and `loop` sleeps
  with a free slot until another job ends. (`JobManager`, step `Broadcast`
  between `loop`'s `check` and `wait`.)
* `job.go:373`: `Signal` tests `running`, `start` clears it and closes the
  channel, `Signal` sends on a closed channel. (`Job`, place `panicked`.)
* `waitmachine.go:66`: a later `Release` overwrites the verdict of a failed
  service. (`Startup`, `TickRelease`.)
* `pm.go:166`: with a pid that is given again, the entry of the new process may
  be deleted, or it may receive the old status. `OwnStatus` therefore speaks of
  pids given once, `SomeExit`, which is proved, of all. (`PidTable`, `Delete`.)
* `container.go:163`: the PID hook may run before `c.runner` is assigned at
  line 136. (`Containers`, `crashed`.)
* `manager.go:436` of the containers: `max_count` is tested under one lock and
  the container entered under another. (`Containers`, `Count`.)
* `waitmachine.go:49`: a dependency in an earlier slice is not known to the wait
  machine of this one, so a service starts although what it is `after` failed or
  was skipped there, where `docs/config/startup.md:28` says that it must be considered running.
  (`Startup`, `Dependency`.)
* kvm's `sync.go:70`: `Wait` returns with the lock held when its key is missing.
  Two detaches of one device that overlap make it so; then the event loop blocks
  in `Release` and no machine's end is handled again. (`Machines`, `Wait`.)
* kvm's `events.go:15`: an event that a removal failed wakes the detach as one
  that it succeeded does. (`Machines`, `Answer`; `DetachTold` says no more than
  that something was told.)
* kvm's `manager.go:875`: when the domain has been started and reading it back
  fails, `create` forgets a machine that runs, and `kvm.list` fails for all of
  them; so it does for every machine that came from another host, for which
  `prepare_migration_target` enters no info, and whose ports make it fail after
  it has set a rule. (`Machines`, `ReadBack`, `PrepareMigrationTarget`.)
* kvm's `manager.go:784`: a `portforward-add` that looked for its machine before
  it stopped leaves its rule. (`Machines`, `ForwardSet`, `ForwardEnd`.)
* A machine that stops while the connection to libvirtd is down keeps its info,
  mount and forwards: nothing compares them with libvirt's domains when the
  connection is back. (`Machines`, `missed`.)
* `network.go:747` of the containers: when ovs cannot be asked to delete the port
  of a vlan, `unBridge` returns before it deletes the link (755), and the error is
  only logged (803). The nic is `destroyed` and the link stays on the host, unless
  it goes with coreX's namespace: a link that was not moved there is left for good,
  and the next container of that number fails on it. `LeavesNothing` excepts it
  (`unported`). (`Containers`, `UnBridge`.)
* `filesystem.go:152`: the root is removed by the daemon's exit hook while host
  directories are still being mounted under it. (Not modelled: files.)
* `manager.go:350` of the containers: `nic-add` of a vlan takes the read lock of
  the map a second time; a cleanup that waits for the lock in between
  (`unsetContainer`, 334) stops both for ever. (`Containers`, `writers`.)
* zfs' `filesystem.go:98`: the exit hook waits for its own job, although line 111
  says "wait for either of the hooks (ready or exit)": a `g8ufs` that ends before it is
  ready makes `create` and the mount wait for ever. (`Containers`, `onSBExit`;
  `Flists`, `Exits`.)
* `socat.go:203`: `RemoveAll` removes the forwards of every namespace that
  *begins* with the name it is given, although the comment at 194 speaks of one:
  the end of container 1 removes those of container 10. (`Forwards`, `Under`.)

* `job.go:334`: `max_restart` is the number of runs, so 1 never restarts, as `job_test.go:44`
  has it and as `docs/config/startup.md:39` can be read ("only max number of trials before
  giving up"). `docs/interacting/commands/README.md:37` says "How many times to restart the
  command if it exited with error", and so does `base/pm/command.go:36`: that would be one run
  more. `RunsAsAsked` states the number the test asks for. (`Job`, `Decide`.)

In the network:

* `bridge.go:520`: the `err` that the deferred clean-up looks at is shadowed, and
  a `create` whose `nftAllow` fails leaves its bridge; the path of a conflict leaves the
  rule of its index. `delete` locks and unlocks at once (616-617) and looks for its link
  after that (625), so that it may take away what a later `create` has half made. A signal to
  `dnsmasq` may be lost. (`Bridges`, `left`, `met`.)
* socat's `watch.go:56`: a line of `ip monitor` is used up although the addresses could not be
  read, and those of one link that could not be (30) count as none: the set stays wrong until
  the next line. So it does when a link becomes, or stops being, one whose addresses do
  not count (`lo`, `tun*`, `tap*`, 22-28), since a change of name gives no line of `monitor
  address`. (`Forwards`, `deaf`.)
* A rule whose source has host bits is printed by `nft` without them and never
  found again. A forward of `tcp+tcp` cannot be removed as a whole.
  `SetPortForward` ends the reservation of its port, whoever has it.

In the storage:

* `disk.go:649` asserts a type that `list` does not return: `protect` never works.
  Sectors are multiplied by the logical block size, which is wrong where that is
  not 512; a free area of size 0 has an end before its start; `spindown` takes 0,
  although its error says "1 - 240".
* `btrfs.go:341`: `IndexAny` looks for any of the characters of a message, so that
  every error reads as "no quotas". A label with a space ends the list.
* `btrfs.go:393`: quotas are matched by the id of a subvolume, which is one of its
  file system: if another is mounted at the place between the list and the
  groups, its quotas are told. (`Btrfs`, `SubvolGroups`; excepted in
  `QuotaOfItself`.)
* `fs.go:202`: a descriptor that was closed between `Get` and `Set` is entered
  again, closed. `exists` says that there is something beneath a file.
* zfs: the hash is fetched before the flist and not compared with it; `.valid`
  is written after a hole the second time and is never valid again; two files of
  one base name make every later mount extract anew under a running daemon, and
  so does a file that a failed extraction left and that the version extracted
  next does not have (`Twins` and `Leftover` in `MountsWhole`); the backend of a
  running daemon is emptied by a mount of the same flist.
* Two backups, or a backup and an `flist_create`, of one container continue each
  other's pause and remove each other's `.corex.meta`.
* cgroups: `task-remove` moves a process out of whatever group it is in; a lookup
  that crosses a `remove` makes the group again; the second of two `ensure`
  fails; a limit set between the `mkdir` and its reset is lost. `memorgy.go:79-84` drops the
  errors of both its writes, and the kernel may refuse one (below what is in use, say):
  `memory.spec` then answers without an error. That the answer tells the old limits is
  all one has; where reading them fails too (88), it tells zeros. (`Cgroups`, `dropped`.)

In what flows out of jobs:

* `input.go`: a header directly behind the end of a message of several lines is
  taken as text, where `docs/monitoring/logging.md:48-58` puts no such limit; a
  terminator or header that is split over two reads is missed; an unfinished
  message is lost at the end.
* `input.go:81-93`: `newLineOrEOF` gives where the last rune begins, and of a line with a
  header that ends without a newline the message goes up to that byte (141-152). Where the
  rune has several bytes its first one ends the message and the others are plain text of the
  stream's level, while `docs/monitoring/logging.md:45` says that what follows `8::` is the
  message. (`Streams`, `Kept`, `Lost`.)
* `input.go:23`: `^(\d+)(:{2,3})` takes a third colon where there is one: `8:::text`, the form
  of `logging.md:45` for a text that begins with a colon, begins a message of several lines
  (72-75), which takes all that is written up to a line of three colons, and is lost when there
  is none. (`Streams`, `Multiline`, `Uncoloned`.)
* `job.go:140` (its own TODO): messages during an enrolment are missed, one in
  hand may come twice; two that enrol at once, and one is lost, or, where a third
  has read the list before that, comes back when the third writes it, with a hole in
  what it receives; a subscriber ends
  at the first message that ends a run, although its target is run again; the
  stream flag of a shared message leaks to subscribers. A message of statistics
  without a type panics, and is neither streamed nor handed on. A job that
  subscribes to itself never ends.
* A failed push loses its record. Two who feed one key lose a value; a state may
  be deleted by the eviction of its key after it was touched again; a failed save
  after a push publishes a period twice.

### Bounds, and why they are enough

* *Jobs* are symmetric but for ID, queue and caller. Four cover: two that compete
  for a queue, one that competes for a slot, one that competes for an ID. What a
  larger number could add, a longer list in a queue, is in `manager_live` (three)
  and is proved for any number.
* *Runs of a job*: `MaxBegun` 4 is above every `max_restart` tried (2) plus the
  one run that `AtMostOneMoreRun` speaks of. The counters stay at it, the job
  goes on. `JobCfgAssumption` asks that it is above every `max_restart`, so that a
  run too many would show.
* *Pids*: two, so that a pid is given again while the other is in use. The
  signal channel holds one, so that signals are dropped from the second on.
* *Startup*: three services are what it takes for a chain across two slices, a
  diamond with a milestone, and a cycle beside a service outside it.
* *Delivery*: two commands of one ID show every race between flags; the pipe's
  capacity of one makes the writer wait.
* *Containers*: numbers 1 to 3, with the elder on one of them and the sequence
  at its end, so that it wraps round at the first create; two creates for every
  race on number, port, link and lock, of which one may have a vlan or a bridge; two
  commands on one container with a default nic or a vlan.
* *Machines*: what comes together is one of the sets `Given`: each is one race, on
  a device, on a device that comes back, on a port of two machines. The
  connection is lost at most once; a second loss only adds to `missed`.

* *Network and storage*: each set in `Given` is one race between two to five
  commands on one link, rule, descriptor, hash, container or group, so the sets do
  not multiply; one failure, at any step, beside them. Two failures only combine
  what one leaves. Namespaces `n1` and `n10` are there for the prefix; three ports
  so that a reservation has a choice; two versions of an flist, one published
  while the other is extracted.
* *Flow*: the texts are of a word whose last rune has two bytes, the newline, the three
  colons and the headers of both forms: a header of two colons may be followed by three, or
  end without a newline. Five tokens have a message of several lines with something before and
  after it. A backlog of two and a channel of one are full at once. Three seconds
  and periods of one and three have the end of a period in one of them only; time
  may be set back once.

Deadlock checking is off in all of them: every job ends, every container ends
and clients stop, so the models come to rest. That nobody is left waiting is
stated by the liveness properties instead.

### Fairness

Goroutines that can go on do: weak fairness of their steps. Strong fairness only
for a step that waits for a Go mutex, which hands itself to the longest waiter
(`JobManager`: `Push`, `CleanUpDelete`, `Notify`; `PidTable`: everything under
`pidsMux`). Where each step can be taken once by each actor, one condition on
their union says the same as one for each. Nothing is assumed of commands,
clients, signals or of when a process ends, except where named:

* `CommandsEnd` (`JobManager`): every job that runs ends in the end.
* `ServicesAnswer` (`Startup`): a service that is not reported by the clock ends
  or prints what it is watched for.
* `Delivery`: that an action behind a command returns.
* `Containers`: g8ufs says that the mount starts, or ends.
* `Machines`: nothing but that the event loop goes on; guests need never answer.
* `HostNetwork`, `HostStorage`: that some command goes on while one can; every
  command has finitely many steps. In `HostStorage` also that time passes and the
  janitor of the cache comes round (`Cleaning`). No disk need be pulled out, no
  daemon end or be ready.
* `Flow`: that jobs, their processes and the pusher go on (`OutputStep`): processes
  end, as commands do in `CommandsEnd`. Nothing of reads and of who feeds.

## 4. What is proved

All proofs are for arbitrary constants under the `ASSUME` of each module, which
only say what is a set of what and that limits are positive.

* **JobManagerProofs.** `IInv` = types, `LocksInv` (who owns a lock by its place,
  and a lock handed over `Notify` stays with it), `MapAccurate`, `HeadInv` (the
  busy job of a queue is at its head), `LineInv` (behind it everyone waits) and
  `SlotInv` (between the dispatcher's test and its receive a slot is free, which
  is what makes a count without the lock good enough). From it:
  `BoundHolds`, `ExclusionHolds`, `MapHolds`, `ShutdownHolds` (with
  `ShutdownInv`), and `Implements`: every step is a step of `JobSchedule` or a
  stutter.
* **ServiceProofs**, the job. `OneMoreRunAtMost`, by `LateInv`: after the late run has begun
  the job is never again at a place from which another begins. `RunsRight`, by `TrialsInv`:
  while nobody touches a command, the runs begun are the trials that `fails`
  counts and the one that runs.
* **ProcessProofs**, the pids. `OwnStatusHolds` and `SomeExitHolds`, by `SomeInv` (entries,
  senders and waiters of one pid belong together, and a closed channel means an
  exit) and `OwnInv` (for a process alone on its pid, they are its own).
* **ProcessProofs**, what flows out, for any number of subscribers and of subscribers of
  subscribers. Both theorems rest on `OutputInv`: the types, and that what was
  emitted is there to be emitted (`Known`); what a loop holds at each of its places is
  the last it was handed (`InHand`); who is on a list, on the copy of one or being called
  waits in a `core.subscribe` of that job, and is on it once.
  * `ServedCorrect`, by `ServedInv`. What a subscriber has is described by a choice of
    positions in what its target was handed. No sequence is computed: each step
    either leaves both sides (`Fits`), lengthens one (`Extended`), or hands on one
    message, and then the positions go on with the new one, which is beyond
    those before (`GoOn`). (The first form of the property, in which a subscriber has
    one unbroken piece of what was emitted, was not inductive, and TLC then found it
    false with three subscribers of one job: one that was displaced comes back with a
    third's slice. Hence `kept`, and the property now says who may miss something.)
  * `ToldCorrect`, by `ToldInv`: positions `q` of what is in the queue and `c` of what is
    in the channel, and at most `failures` that are in neither. A push moves the first of `c`
    to the end of `q` or counts a failure (`Shifted`), and a record that the channel takes
    is a new last of `c`; what another job is handed changes neither (`Recounts`).
* **ProcessProofs**, the statistics, for any values, lengths of periods, clocks, who feeds and
  what breaks. `SamplesHold`, by `StatInv`: of a key not `disturbed`, at most one feeds, and
  what is in Redis (`Made`), or what that one is about to save (`KeyInv`), is a state made
  of the values fed (`StateOf`). That is carried through one `FeedOn` by `FedOn`, whose
  parts are lemmas about histories one value longer: a value that does not count changes no
  period and no sample (`SampleStays`, `PastStays`); one that does is of the last period or
  begins one, for periods do not go back though the clock may (`PeriodsGrow`,
  `PeriodsGoOn`); in the last period it is added, counted and compared, and when it
  begins one, the sample before is ended, once, and greater than all that were
  (`FeedRight`, `PastGoesOn`). `Sum` is a recursive function; that it exists for a
  sequence of any length is itself proved (`SumsExist`).
* **ProcessProofs**, the texts, for any tokens, headers, text and reads. `WholeHolds`, by
  `StreamInv`: as long as every read ended at a line's end, the messages made, with what the
  rest of the text has to say from the header of the unfinished message on (`At`), or from
  where the reads have got to, are what all of it has to say (`Whole`). A read keeps that
  (`ReadWhole`), and at the end of the file nothing is left to say. Within a read, `MadeOf`
  goes down its lines, from the last to the first: what is made of each and of those after
  it is what is owed there (`MadeLine`, `MadeOpen`, `MadeEnded`). Where a message was not
  ended, the three colons are within the read or were cut from the newline before them, and
  in each case they are the first that the whole text has there (`OpenEnds`,
  `GoesOnWhole`). Lines and ends found in a read are those of the text, moved
  (`NextLineShifted`, `EndShifted`), and so are the bodies of messages, of which the colon that
  the header takes is the only thing that changes (`UncolonedIs`, `BodyShifted`). `LinesFrom` and `Parts` are functions that recur to
  later positions; that there is one such function is `RecursionDown`.
* **ServiceProofs**, the start. `DependenciesHold`, by `WaitInv` (what a goroutine has passed
  was reported, and its slice cannot end while it waits), and `SlicesHold`, by
  `StageInv`. Weights are taken to be integers (`WeightAssumption`): what the
  recursive function computes needs induction over data. TLC evaluates the
  assumption in the runs.
* **ContainersProofs.** `OwnNumberHolds`, by `Reserved` (the entry of a number
  that is given and not used yet is free), `Owned`, `Placed` (coreX and cleanup
  begin only after `setContainer`) and `AskKnown`. The proof first shows that
  every step moves one create command or none (`Steps`), and that only
  `Number`, `SetContainer` and `UnsetContainer` change an owner. `Number` is
  assumed not to come round to a number whose goroutines are still at work,
  65534 creations later. `LeavesNothingHolds`, by `Tidy`: every entry of each of
  the host's tables (namespaces, mounts, forwards, links) bears the number of a
  container that is in the map and whose cleanup has not come to that table yet
  (`Wired`, `Rooted`), or one that a command has added to; the link of a bridge
  may also be one that coreX never got, and that of a vlan one that `unBridge`
  left. Each table has a lemma, which rests on
  two facts of all steps: a container stays `Wired` until its own
  `DestroyNetwork` (`WiredStays`), and a number stays once it is given
  (`IdsStay`). The proof is for numbers given any number of times, which needs
  the exceptions to be about the number and not about one container of it: what
  a command has added to an earlier container of a number is still there when a
  later one is gone. The run gives no number twice.

* **MachinesProofs.** `KnownWhileRunning` and `EndsClean`, by `MachineInv`: for
  each machine `LifeOf` (how far `create` and the domain are, and that an event
  that says it stopped is true), `HostOf` (an info or mount of a machine that is
  gone has an event to come, or a missed one) and `RuleOf` (a rule has a machine
  that is known, somebody who has just forgotten it and removes the rule next, or
  a late `portforward-add`). `SuccessWasTold` and `LockIsFreed`, by `SyncInv`: a
  detach that did not overlap owns the channel of its device from `Expect` to
  `Unexpect`, with only its own message in it (`OwnChannel`); the lock can then
  not be left locked, since the key it waits for is there.

* **DeliveryProofs.** `OneCommandPerKey`, `FlagLapsesHolds` and `Implements`, by
  `IInv` = types, `Links` (a command that is carried inside a dispatch has not set
  out before the dispatch has handed it over), `OneInHand` (the one goroutine
  that takes commands has one) and `Keys`: for an ID that only clients choose, a
  command between its flag and its result is alone with its ID, its flag is set
  and the list of results empty (`Alone`). That is what makes `Set`, which
  changes the flag before it stores the result, look like one step from outside:
  in `Implements` the result entering the list is the answer of `Mailbox`, and
  each other step is a stutter or a lapse.
* **HostNetworkProofs.** First, once for all five properties: every step of the
  network moves one command or none, and which variables each plugin leaves alone
  (`NetSteps` and the `...Moves` lemmas before it).
  * `NetworksApartHolds`, by `LockedInv` (a `create` past its first step owns `bm`)
    and `ApartInv`: unless an `ip.addr.add` came (`NoneAdded`), no two bridges have
    networks that intersect, and while a `create` is between its test of the other
    addresses and its own address, the one it will add meets none (`Clear`). It
    needs `LinksOK`: indices are not given twice, and an address or a master is of
    a link that is there. (This is where the first attempt failed: the model let
    `bond0`'s addresses outlive it when the module that makes it is loaded again.
    The model was wrong, not the code, and was changed.)
  * `ReservedApartHolds`, by `ReservedInv`: what two commands have reserved is
    apart, and a command has no more than it asked for. `LowestFew` says what
    the choice of the lowest free ports gives, from the least number of a set
    (`LeastNumber`).
  * `HostSetCurrentHolds`, by `HostSetInv`: between two readings of the netlink
    channel the watcher's set is that of the last reading, short of what failed
    calls have left in or out. The property is about a watcher that is not `deaf`: whose
    last reading failed in no part, and after which no change of a name moved an
    address in or out without a line.
  * `RulesKnownHolds`, by `DnatInv` for the rules of forwards and `OpenInv` for
    those of opened ports. A rule in the chain is in the plugin's list, or its
    command is between the kernel's change and its own, with the lock (`SetPlace`,
    `RemovePlace`, `Dropping`). The handles that `nft` gives are not given twice
    (`HandlesOK`); `JoinHas` says that what `AllRules` collects from the output of
    `nft` is exactly the rules of the chain that match, for a ruleset of any size.
  * `BridgeGoneHolds`, by `GoneInv`, which has four parts. `LinkedInv`: the link that a
    command has found bears the name it was told as long as it is there, and a
    `create` whose name is not in `met` still has its link, alone of its name
    (`Undisturbed`); two creates or deletes of a name that are both inside are in
    `met`, which is what makes a step of one harmless to the other. `JobsInv`: a
    dnsmasq that runs has a link of its name or a signal that was lost, and where a
    `create` has not started it yet, or a `delete` has signalled it, only the latter
    will do (`NoJob`). `IifInv`: the rule of an index has its `create`, and that has
    failed, has its link, or a `delete` will take the rule out (`DropsIif`).
    `MasksInv`: a masquerade is of a `create` that met somebody, or whose address is
    there, and a `delete` that will take the link away has every such rule in its loop
    (`ListsAll`). This needs `NetworksApartHolds`'s invariant: a masquerade that comes
    while a `delete` goes through its list is never of the network it is about to
    take away. What goes through a set of handles gets all of it (`SortedAll`).
    (The proof found what `Meddled` had to name: `bond.del` does not ask whether the
    link is a bond, and `bond.add` deletes whatever is called `bond0`.)
* **HostStorageProofs.** Every step is one of one command, of a daemon for the
  mount that started it (`DaemonInv`), or of no command at all (`StorageSteps`);
  an invariant about the commands of one plugin then has to look at the steps of
  that plugin only, the others leave its commands as they are (`Stay`).
  * `DescriptorsKeptHolds`, by `Cached`: only the descriptor of an open that was
    answered is in the cache or on its way out (`Entered`), a handler between its
    lookup and its next step has such a descriptor, which is back in the cache
    only if it was entered again (`Holds`), and `Kept`, the property for one
    descriptor. Assumed: a read, write or close names an open of the same
    behaviour (`DescriptorsAssumption`).
  * `QuotaOfItselfHolds`, by `QuotaInv`: the id of a subvolume is below the next one
    of its file system, two of one file system that have the same id are at one
    path (`OneId`), and what was listed has this too, though what it lists may be
    deleted by then (`ListedRight`): an id comes back neither to another path nor
    by a new file system, whose numbers go on.
  * `SnapshotsRightHolds`, by `BackupsInv` and `TornInv`. A backup or an
    `flist_create` that nothing overlapped is alone with a container that runs
    (`PauseOK`): nobody else continues it, removes its `.corex.meta` or ends it.
    So each place says what has been reached (`BackupOK`): the arguments are in the
    root from the listing on, the processes stopped from `restic` on, the snapshot
    at rest from the continuation on. Whoever overlaps a command marks it in the
    same step (`FindStep`, `ContainerStep`). `TornOK` says when the archive that one
    `flist_create` alone makes can be torn.
  * `LimitsAsToldHolds`, by `GroupsInv`: two commands at work on one group are both
    marked as crossed (`CrossedOK`); a process is in a group that there is
    (`MembersOK`); memory is never above memory and swap (`GroupOK`); a cpuset
    without processors or nodes has a command that is about to give it some
    (`FilledOK`); and the limits of a command that nothing crossed are at each
    place what it has written so far (`UncrossedOK`), which is where the order of
    the two writes matters.
  * `MountsWholeHolds`, by `FlistsInv`: who extracts has the lock of the hash, and each
    file of the version it is at is written or still to do (`ExtractsOK`); a `.valid`
    that is a list passes and is of a whole version (`ValidOK`), and an flist is
    mounted, merged or served only after its `.valid` was written (`CheckedOK`,
    `DaemonOK`). Where `.valid` can never pass (`Doomed`), it never will.

The other modules also prove their type invariant; with `BoundHolds`,
`SomeExitHolds`, `SlicesHold` and `OneCommandPerKey` these are shown by the proofs
alone.

What the proofs of the host assume of its constants: that intersecting is
symmetric and a network intersects itself, that a bridge is called as bridges may be
and that the address of a create that is given one has a network
(`BridgesAssumption`); that what `nft` prints in the place of a source
with host bits is not itself such a source (`FirewallAssumption`); that ports of
forwards are within `1..Ports`, protocols a list of names, and the number of
ports to reserve an integer other than 0, which `reserve` refuses
(`ForwardsAssumption`); that no command is called as a free lock or port is
(`CommandsAssumption`); that the file systems that are there at first have
numbered their subvolumes as they go on to (`BtrfsAssumption`); that an flist has a
version and the files of one are files (`FlistsAssumption`); that what is restored
is a backup (`BackupsAssumption`); that no command is for the root of the control
groups, which has no limits to lower (`CgroupsAssumption`).

And of what flows out: that no job is called "none", and that the target of a subscriber is
of its scene (`OutputAssumption`, `ScenesAssumption`); that values are integers, lengths of
periods at least a second (`manager.go:22`), that a clock begins at 0 or later, and that
who feeds has a stage to read (`StatisticsAssumption`, `ScenesAssumption`); that a header
is a token other than the newline and the three colons, that the level of what is said
without one is told from the levels of headers, whatever its number, and that what a cut
token leaves is a word: neither a newline nor a header (`StreamsAssumption`).

Only model-checked is liveness, everywhere. What `Parts`, `LinesFrom` and `FlattenSeq`
compute is proved in `ProcessProofs` without induction theorems, as far as
`MessagesWhole` needs it.

Induction: the library's induction theorems cannot be used, but where a
definition goes through a sequence or up a range of numbers, the least
element at which it would be wrong does the same (`LeastNumber`, from
`WFMin` of the library and that `<` is well-founded on the naturals), and a set of numbers
that has 0 and each next one is all of them (`AllNumbers`).

## 5. What is left out, and why

* *Host-network containers, zerotier, macvlan and passthrough nics*: they take the
  path of the nics that are modelled, without the link on the host. *One nic of
  each kind*: what differs between two of a kind is their name. *Removal of
  files and of port forwards by command*.
* *The end of a run's messages* is one step in `Job` and a channel that closes in
  `Output`; the two are not composed, since no state of the one depends on the
  other.
* *`after: ["----"]`*: the end milestone has priority -1 and is not among the
  inputs; `Release` writes and closes in one step, see `Startup`.
* *The order of a pipe or list*: left open in `Delivery`, which only allows more.
* *Of machines*: the lists of nics and media in a `DomainInfo` (two commands that
  read, change and write one back lose an entry), definitions of domains,
  statistics, images, snapshots; that `RemoveAll` fails; that g8ufs exits before
  the domain is started, which nobody notices; that `evch` is full (100 events
  while `kvm.events` is not running block the loop); a nil map of ports in a
  `DomainInfo`, on which `setPortForward` would panic; machine numbers, whose DHCP
  entries are never removed.
* *Of the network*: what only lists; the order of rules in a chain, which no rule
  of this code depends on; `Resolve`; the network bring-up of the boot. Two texts
  that do not come back from nft as they were sent are not among the inputs of
  `Firewall.Rendered`: a subnet of one address (`nft/plugin/actions.go:29-36`) and an
  interface whose name begins with a digit (`parser.go:192`). `ifenslave` is given
  names (`ip.go:206`), which the model resolves to the links that were looked up;
  and what `br.delinf` reads of the master and its removal (`ip.go:331-335`) are one
  step of `Links.Allowed`, so that a link moved between the two is not met.
* *Of the storage*: what a file holds; the sessions of restic and the upload of an
  flist, one call each that may fail; the rules of `devices.go`.
* *Of the flow*: the console logger, which prints; trimming and expiry of lists in
  Redis; the query of samples; `trunk.go`, which nothing registers; standard input,
  which `systemprocess.go:201` writes before it returns the channel of messages, so
  that a process that fills its output first stops its job for ever.
* *Information, web, screen, corectl, the proxy, coreX' set-up*: wrappers of system
  programs and display, without state of their own.

## 6. Plan

Done: the process manager, the job, pids, startup, delivery, containers, virtual
machines, the host's network, its storage, and the flow of output.

Next, in this order:

1. `Plugins` (`apps/core0/plugin`): load in any order of the map, requirements
   opened first, a failed open and what is removed after it, hot load under the
   write lock (`actions.go:48`), an open that is tried again (`manager.go:180`).
   Abstract promise: a plugin that is kept is open, and so is what it requires.
2. Pure functions against reference definitions: conditions
   (`base/settings/condition.go`), the back-off, version parsing, includes.
3. `Router` (`coreX/router.go`, `containerprocess.go`): a composition of
   `Containers` and `Delivery`, in which the pipes live as long as the process.
4. `Containers` with `Forwards` and `Flists` in the place of its own abstractions
   of forwards and roots.

## 7. Running it

    tlc -config MCJobManager.cfg MCJobManager      # a run of section 3
    tlapm JobManagerProofs.tla                     # a module of section 4

The largest run (`containers`) takes about a minute and a half on two cores, the
proofs together about an hour on two threads.
