------------------------------ MODULE Machines ------------------------------
(***************************************************************************)
(* The kvm plugin. create mounts the flist, enters the machine in          *)
(* domainsInfo, sets up its network and has libvirt start the domain; when *)
(* anything fails, or when libvirt says that the domain has stopped, what  *)
(* was set up is taken down.  libvirt's events are handled one after the   *)
(* other by one goroutine, which also tells detach_disk and remove_nic     *)
(* that the guest has given a device up, through a Sync.                   *)
(*                                                                         *)
(* What stands for what: a machine v is one create command, or one that    *)
(* migrates to this host, and its domain; uuids are never given twice.  Of *)
(* a DomainInfo only its being there is kept, not the lists of nics and    *)
(* media that are read back into it.  A channel of the Sync is named after *)
(* the command that made it, a device stands for a pair of uuid and alias. *)
(* The kvm.events job drains evch.  A port forward is one nft rule.        *)
(***************************************************************************)
EXTENDS Naturals, Sequences

CONSTANTS
  Vm,        \* machines
  Incoming,  \* those that come from another host
  Flist,     \* those that boot from an flist
  Port,      \* ports of the host
  PortsOf,   \* those each asks to be forwarded to its default nic
  Device,    \* disks and nics that may be detached while a machine runs
  Op,        \* commands on machines that run
  Does,      \* which: "attach", "detach", "forward" or "unforward"
  On, With,  \* which machine, and the device or the port
  Given,     \* the sets of machines and commands that come together
  NoVm, NoOp

ASSUME MachinesAssumption ==
  /\ Incoming \subseteq Vm /\ Flist \subseteq Vm \ Incoming
  /\ PortsOf \in [Vm -> SUBSET Port]
  /\ Does \in [Op -> {"attach", "detach", "forward", "unforward"}]
  /\ On \in [Op -> Vm]
  /\ \A o \in Op : With[o] \in IF Does[o] \in {"attach", "detach"} THEN Device ELSE Port
  /\ \A o, q \in Op : With[o] \in Device /\ With[o] = With[q] => On[o] = On[q]
  /\ Given \subseteq SUBSET (Vm \cup Op) /\ NoVm \notin Vm /\ NoOp \notin Op

VARIABLES
  pc,        \* where create is, or prepare_migration_target
  info,      \* domainsInfo
  domain,    \* libvirt's domain: "none", "running", "gone"
  mounts,    \* machines whose flist is mounted
  rules,     \* whose a forwarded port is
  conn,      \* the connection to libvirtd, which is lost once at most
  events,    \* libvirt's events that have not been handled
  missed,    \* machines whose end was never told
  loop,      \* where the handler of the first event is
  attached,  \* devices that are attached to their machine
  asked,     \* those the guest has been asked to give up
  expected,  \* the Sync's map: the channel a device's event goes to
  token,     \* channels that hold a message
  closed,    \* channels that are closed
  held,      \* the Sync's lock has been left locked
  op,        \* where each Op is; "error" is only told from "over" after "ruled"
  on,        \* the channel it waits on
  told,      \* those that wait whose device had an event since Expect
  crossed    \* those that overlapped another detach of the same device

host  == <<info, mounts, rules>>
feed  == <<events, missed, loop>>
guest == <<attached, asked>>
sync  == <<expected, token, closed, held, on, told, crossed>>
vars  == <<pc, host, domain, conn, feed, guest, sync, op>>

Pc == {"new", "refused", "mounted", "network", "defining", "reading", "ok",
       "failed", "forgotten", "unruled", "over"}
OpPlace == {"new", "checked", "ruled", "expecting", "waiting", "receiving",
            "removed", "given up", "over", "error"}

TypeOK ==
  /\ pc \in [Vm -> Pc]
  /\ info \subseteq Vm /\ mounts \subseteq Flist /\ missed \subseteq Vm
  /\ domain \in [Vm -> {"none", "running", "gone"}]
  /\ rules \in [Port -> Vm \cup {NoVm}]
  /\ conn \in {"up", "down", "again"}
  /\ events \in Seq(({"stopped"} \X Vm) \cup ({"device"} \X Device))
  /\ loop \in {"idle", "forgotten", "unruled"} /\ (loop # "idle" => events # <<>>)
  /\ attached \subseteq Device /\ asked \subseteq Device
  /\ expected \in [Device -> Op \cup {NoOp}]
  /\ token \subseteq Op /\ closed \subseteq Op /\ held \in BOOLEAN
  /\ op \in [Op -> OpPlace] /\ on \in [Op -> Op \cup {NoOp}]
  /\ told \subseteq Op /\ crossed \subseteq Op

Init ==
  /\ \E G \in Given :
       /\ pc = [v \in Vm |-> IF v \in G THEN "new" ELSE "refused"]
       /\ op = [o \in Op |-> IF o \in G THEN "new" ELSE "over"]
  /\ info = {} /\ mounts = {} /\ rules = [p \in Port |-> NoVm]
  /\ domain = [v \in Vm |-> "none"] /\ conn = "up"
  /\ events = <<>> /\ missed = {} /\ loop = "idle"
  /\ attached = Device /\ asked = {}
  /\ expected = [d \in Device |-> NoOp]
  /\ token = {} /\ closed = {} /\ held = FALSE
  /\ on = [o \in Op |-> NoOp]
  /\ told = {} /\ crossed = {}

Connected == conn # "down"
Running(v) == domain[v] = "running" /\ Connected
Go(v, from, to) == pc[v] = from /\ pc' = [pc EXCEPT ![v] = to]
Step(o, from, to) == op[o] = from /\ op' = [op EXCEPT ![o] = to]
\* From Expect to the deferred Unexpect.
Waits(o) == op[o] \in {"expecting", "waiting", "receiving", "removed", "given up"}

(* What handleStopped does, for whoever calls it. *)
Forget(v) == info' = info \ {v} /\ UNCHANGED <<mounts, rules>>
Unrule(v) == /\ rules' = [p \in Port |-> IF rules[p] = v THEN NoVm ELSE rules[p]]
             /\ UNCHANGED <<info, mounts>>
\* The mount is busy while the domain runs from it.
FlistUnmount(v) ==
  /\ mounts' = IF domain[v] = "running" THEN mounts ELSE mounts \ {v}
  /\ UNCHANGED <<info, rules>>

-----------------------------------------------------------------------------
(* create *)

CreateRefused(v) ==
  /\ v \notin Incoming /\ Go(v, "new", "refused")
  /\ UNCHANGED <<host, domain, conn, feed, guest, sync, op>>

\* MountFList succeeds; the files of the config and boot.yaml come after it.
FlistMount(v) ==
  /\ v \in Flist /\ Go(v, "new", "mounted")
  /\ mounts' = mounts \cup {v}
  /\ UNCHANGED <<info, rules, domain, conn, feed, guest, sync, op>>

FlistConfigFails(v) ==
  /\ Go(v, "mounted", "refused")
  /\ FlistUnmount(v)
  /\ UNCHANGED <<domain, conn, feed, guest, sync, op>>

\* Mutant: the machine is not entered before its network and its domain.
EntersLate(v) ==
  /\ v \notin Incoming /\ Go(v, IF v \in Flist THEN "mounted" ELSE "new", "defining")
  /\ UNCHANGED <<host, domain, conn, feed, guest, sync, op>>

Enter(v) ==
  /\ v \notin Incoming /\ Go(v, IF v \in Flist THEN "mounted" ELSE "new", "network")
  /\ info' = info \cup {v}
  /\ UNCHANGED <<mounts, rules, domain, conn, feed, guest, sync, op>>

\* setPortForward, one port after the other.
SetForward(v, p) ==
  /\ pc[v] = "network" /\ p \in PortsOf[v] /\ rules[p] = NoVm /\ v \in info
  /\ rules' = [rules EXCEPT ![p] = v]
  /\ UNCHANGED <<pc, info, mounts, domain, conn, feed, guest, sync, op>>

\* A bridge, ovs or dnsmasq may be missing, a port taken.
NetworkFails(v) ==
  /\ Go(v, "network", "failed")
  /\ UNCHANGED <<host, domain, conn, feed, guest, sync, op>>

NetworkDone(v) ==
  /\ \A p \in PortsOf[v] : rules[p] = v
  /\ Go(v, "network", "defining")
  /\ UNCHANGED <<host, domain, conn, feed, guest, sync, op>>

DomainCreateXML(v) ==
  /\ Connected /\ Go(v, "defining", "reading")
  /\ domain' = [domain EXCEPT ![v] = "running"]
  /\ UNCHANGED <<host, conn, feed, guest, sync, op>>

DomainCreateFails(v) ==
  /\ Go(v, "defining", "failed")
  /\ UNCHANGED <<host, domain, conn, feed, guest, sync, op>>

\* getDomainStruct and getDomainInfo, for the hardware addresses.
ReadBack(v) ==
  /\ \/ Running(v) /\ v \in info /\ Go(v, "reading", "ok")
     \/ Go(v, "reading", "failed")
  /\ UNCHANGED <<host, domain, conn, feed, guest, sync, op>>

\* The deferred handleStopped.
CreatorCleans(v) ==
  /\ \/ Go(v, "failed", "forgotten") /\ v \notin Incoming /\ Forget(v)
     \/ Go(v, "forgotten", "unruled") /\ Unrule(v)
     \/ Go(v, "unruled", "over") /\ FlistUnmount(v)
  /\ UNCHANGED <<domain, conn, feed, guest, sync, op>>

(* prepare_migration_target enters no info: the first port fails, when it   *)
(* is taken, or after its rule has been set.                                *)
PrepareMigrationTarget(v) ==
  /\ v \in Incoming
  /\ \/ Go(v, "new", "failed") /\ UNCHANGED rules
     \/ PortsOf[v] = {} /\ Go(v, "new", "ok") /\ UNCHANGED rules
     \/ \E p \in PortsOf[v] : /\ rules[p] = NoVm /\ Go(v, "new", "failed")
                              /\ rules' = [rules EXCEPT ![p] = v]
  /\ UNCHANGED <<info, mounts, domain, conn, feed, guest, sync, op>>

-----------------------------------------------------------------------------
(* libvirt and the guests *)

\* The client has its answer before it has the other host migrate.
Arrive(v) ==
  /\ v \in Incoming /\ pc[v] \in {"ok", "failed"} /\ domain[v] = "none"
  /\ domain' = [domain EXCEPT ![v] = "running"]
  /\ UNCHANGED <<pc, host, conn, feed, guest, sync, op>>

\* destroy, shutdown, migrate, the guest, or the exit hook of the flist's g8ufs.
Stop(v) ==
  /\ domain[v] = "running"
  /\ domain' = [domain EXCEPT ![v] = "gone"]
  /\ IF Connected THEN events' = Append(events, <<"stopped", v>>) /\ UNCHANGED missed
                  ELSE missed' = missed \cup {v} /\ UNCHANGED events
  /\ UNCHANGED <<pc, host, conn, loop, guest, sync, op>>

\* The guest gives a device up or refuses to; the handlers of the two agree.
Answer(d) ==
  /\ d \in asked /\ asked' = asked \ {d}
  /\ \E o \in Op : With[o] = d /\ domain[On[o]] = "running"
  /\ attached' \in {attached, attached \ {d}}
  /\ events' = IF Connected THEN Append(events, <<"device", d>>) ELSE events
  /\ UNCHANGED <<pc, host, domain, conn, missed, loop, sync, op>>

\* Events that have not been handed over are lost with the connection.
Disconnect ==
  /\ conn = "up" /\ conn' = "down"
  /\ \E n \in (IF loop = "idle" THEN 0 ELSE 1)..Len(events) :
       /\ events' = SubSeq(events, 1, n)
       /\ missed' = missed \cup
            {v \in Vm : \E i \in (n + 1)..Len(events) : events[i] = <<"stopped", v>>}
  /\ UNCHANGED <<pc, host, domain, loop, guest, sync, op>>

\* getConnection, which every command calls and kvm.monitor every 30 seconds.
Reconnect ==
  /\ conn = "down" /\ conn' = "again"
  /\ UNCHANGED <<pc, host, domain, feed, guest, sync, op>>

-----------------------------------------------------------------------------
(* The goroutine that runs libvirt's event loop *)

Handled == events' = Tail(events)

HandleStopped ==
  /\ events # <<>> /\ Head(events)[1] = "stopped"
  /\ LET v == Head(events)[2] IN
       \/ loop = "idle" /\ loop' = "forgotten" /\ Forget(v) /\ UNCHANGED events
       \/ loop = "forgotten" /\ loop' = "unruled" /\ Unrule(v) /\ UNCHANGED events
       \/ loop = "unruled" /\ loop' = "idle" /\ FlistUnmount(v) /\ Handled
  /\ UNCHANGED <<pc, domain, conn, missed, guest, sync, op>>

\* Mutant: a missing key is not told from a channel, the send on nil waits for ever.
ReleasesNil ==
  /\ loop = "idle" /\ events # <<>> /\ Head(events)[1] = "device" /\ ~held
  /\ LET d == Head(events)[2] IN
       /\ expected[d] # NoOp /\ token' = token \cup {expected[d]}
       /\ told' = told \cup {o \in Op : With[o] = d /\ Waits(o)}
  /\ Handled
  /\ UNCHANGED <<pc, host, domain, conn, missed, loop, guest>>
  /\ UNCHANGED <<expected, closed, held, on, crossed, op>>

\* Mutant: the key that was served is deleted.
ReleaseDeletes ==
  /\ loop = "idle" /\ events # <<>> /\ Head(events)[1] = "device" /\ ~held
  /\ LET d == Head(events)[2] IN
       /\ token' = token \cup ({expected[d]} \ {NoOp})
       /\ expected' = [expected EXCEPT ![d] = NoOp]
       /\ told' = told \cup {o \in Op : With[o] = d /\ Waits(o)}
  /\ Handled
  /\ UNCHANGED <<pc, host, domain, conn, missed, loop, guest, closed, held, on, crossed, op>>

Release ==
  /\ loop = "idle" /\ events # <<>> /\ Head(events)[1] = "device" /\ ~held
  /\ LET d == Head(events)[2] IN
       /\ token' = token \cup ({expected[d]} \ {NoOp})
       /\ told' = told \cup {o \in Op : With[o] = d /\ Waits(o)}
  /\ Handled
  /\ UNCHANGED <<pc, host, domain, conn, missed, loop, guest>>
  /\ UNCHANGED <<expected, closed, held, on, crossed, op>>

-----------------------------------------------------------------------------
(* attach_disk, add_nic, detach_disk, remove_nic *)

Rivals(o) == {q \in Op \ {o} : With[q] = With[o] /\ Waits(q)}

\* Any of them may find, after it has looked, libvirtd or the machine gone.
Refused(o) ==
  /\ Step(o, "checked", "over")
  /\ UNCHANGED <<pc, host, domain, conn, feed, guest, sync>>

Check(o) ==
  /\ Running(On[o])
  /\ CASE Does[o] = "attach" -> With[o] \notin attached
       [] Does[o] = "detach" -> With[o] \in attached
       [] Does[o] = "forward" -> On[o] \in info
       [] Does[o] = "unforward" -> TRUE
  /\ Step(o, "new", "checked")
  /\ UNCHANGED <<pc, host, domain, conn, feed, guest, sync>>

\* AttachDeviceFlags, and what it has become is read back into the info.
AttachDevice(o) ==
  /\ Does[o] = "attach" /\ Running(On[o]) /\ With[o] \notin attached
  /\ Step(o, "checked", "over")
  /\ attached' = attached \cup {With[o]}
  /\ UNCHANGED <<pc, host, domain, conn, feed, asked, sync>>

Expect(o) ==
  /\ Does[o] = "detach" /\ ~held /\ Step(o, "checked", "expecting")
  /\ expected' = [expected EXCEPT ![With[o]] = o]
  /\ crossed' = IF Rivals(o) = {} THEN crossed ELSE crossed \cup Rivals(o) \cup {o}
  /\ UNCHANGED <<pc, host, domain, conn, feed, guest, token, closed, held, on, told>>

DetachDeviceFlags(o) ==
  /\ \/ /\ Running(On[o]) /\ With[o] \in attached /\ Step(o, "expecting", "waiting")
        /\ asked' = asked \cup {With[o]}
     \/ Step(o, "expecting", "given up") /\ UNCHANGED asked
  /\ UNCHANGED <<pc, host, domain, conn, feed, attached, sync>>

\* Wait returns with the lock held when it does not find the key.
Wait(o) ==
  /\ ~held
  /\ \/ /\ Step(o, "waiting", "receiving") /\ expected[With[o]] # NoOp
        /\ on' = [on EXCEPT ![o] = expected[With[o]]]
        /\ UNCHANGED held
     \/ /\ Step(o, "waiting", "given up") /\ expected[With[o]] = NoOp
        /\ held' = TRUE /\ UNCHANGED on
  /\ UNCHANGED <<pc, host, domain, conn, feed, guest, expected, token, closed, told, crossed>>

\* A message, or the closing of the channel, which is taken for one.
Receive(o) ==
  /\ on[o] \in token \cup closed /\ Step(o, "receiving", "removed")
  /\ token' = token \ {on[o]}
  /\ UNCHANGED <<pc, host, domain, conn, feed, guest, expected, closed, held, on, told, crossed>>

\* Mutant: the error of a timeout is dropped.
TimeoutIgnored(o) ==
  /\ Step(o, "receiving", "removed")
  /\ UNCHANGED <<pc, host, domain, conn, feed, guest, sync>>

\* After three seconds.
TimesOut(o) ==
  /\ Step(o, "receiving", "given up")
  /\ UNCHANGED <<pc, host, domain, conn, feed, guest, sync>>

\* The channels somebody may still receive from when o has left.
Reached(o) == {on[q] : q \in Op \ {o}} \cup {expected[d] : d \in Device \ {With[o]}}

\* Unexpect, and, when the device was given up, the update of the info.
Unexpect(o) ==
  /\ Step(o, "given up", "over") \/ Step(o, "removed", "over")
  /\ ~held
  /\ expected' = [expected EXCEPT ![With[o]] = NoOp]
  /\ on' = [on EXCEPT ![o] = NoOp] /\ told' = told \ {o}
  /\ closed' = ((closed \cup {expected[With[o]]}) \cap Reached(o)) \ {NoOp}
  /\ token' = token \cap Reached(o)
  /\ UNCHANGED <<pc, host, domain, conn, feed, guest, held, crossed>>

-----------------------------------------------------------------------------
(* portforward-add, portforward-remove *)

ForwardSet(o) ==
  /\ Does[o] = "forward" /\ Step(o, "checked", "ruled") /\ rules[With[o]] = NoVm
  /\ rules' = [rules EXCEPT ![With[o]] = On[o]]
  /\ UNCHANGED <<pc, info, mounts, domain, conn, feed, guest, sync>>

\* Mutant: setPortForward does not look for the info again.
ForwardTrusts(o) ==
  /\ Step(o, "ruled", "over")
  /\ UNCHANGED <<pc, host, domain, conn, feed, guest, sync>>

\* setPortForward looks for the info once more, to enter the port in it.
ForwardEnd(o) ==
  /\ IF On[o] \in info THEN Step(o, "ruled", "over") ELSE Step(o, "ruled", "error")
  /\ UNCHANGED <<pc, host, domain, conn, feed, guest, sync>>

Unforward(o) ==
  /\ Does[o] = "unforward" /\ rules[With[o]] = On[o]
  /\ Step(o, "checked", "over")
  /\ rules' = [rules EXCEPT ![With[o]] = NoVm]
  /\ UNCHANGED <<pc, info, mounts, domain, conn, feed, guest, sync>>

-----------------------------------------------------------------------------
Create(v) ==
  \/ FlistMount(v) \/ FlistConfigFails(v) \/ Enter(v)
  \/ \E p \in Port : SetForward(v, p)
  \/ NetworkFails(v) \/ NetworkDone(v) \/ DomainCreateXML(v) \/ DomainCreateFails(v)
  \/ ReadBack(v) \/ CreatorCleans(v)

Command(o) ==
  \/ AttachDevice(o) \/ Expect(o) \/ DetachDeviceFlags(o) \/ Wait(o) \/ Receive(o)
  \/ TimesOut(o) \/ Unexpect(o) \/ ForwardSet(o) \/ ForwardEnd(o) \/ Unforward(o)

EventLoop == HandleStopped \/ Release

Next ==
  \/ \E v \in Vm :
       CreateRefused(v) \/ Create(v) \/ PrepareMigrationTarget(v) \/ Arrive(v) \/ Stop(v)
  \/ \E o \in Op : Refused(o) \/ Check(o) \/ Command(o)
  \/ \E d \in Device : Answer(d)
  \/ Disconnect \/ Reconnect \/ EventLoop

\* The event loop's goroutine runs whenever it can.
Spec == Init /\ [][Next]_vars /\ WF_vars(EventLoop)

-----------------------------------------------------------------------------
\* A domain that runs is known: its info is entered before libvirt may tell of
\* it, and no event about another takes it away. It is not for a machine that
\* came from another host, nor for one whose create failed after it had been
\* started, which nobody stops: kvm.list and kvm.get fail on these.
RunningKnown ==
  \A v \in Vm \ Incoming :
    domain[v] = "running" /\ pc[v] \notin {"forgotten", "unruled", "over"} => v \in info

Pending(v) == \E i \in 1..Len(events) : events[i] = <<"stopped", v>>
Down(v) ==
  /\ pc[v] \in {"refused", "over", "ok"} \/ (v \in Incoming /\ pc[v] = "failed")
  /\ domain[v] = "gone" \/ (domain[v] = "none" /\ v \notin Incoming)
  /\ ~Pending(v) /\ v \notin missed

\* When a machine has ended, by a failure at any step of create or by stopping
\* at any moment, and its end has been handled, its info, its mount and its
\* forwards are gone, but for the rule of a portforward-add that looked for the
\* machine before it ended, and reports an error. A machine whose end the lost
\* connection did not tell keeps all of it.
LeavesNothing ==
  \A v \in Vm : Down(v) =>
    /\ v \notin info /\ v \notin mounts
    /\ \A p \in Port : rules[p] = v =>
         \E o \in Op : /\ Does[o] = "forward" /\ On[o] = v /\ With[o] = p
                       /\ op[o] \in {"ruled", "error"}

\* detach_disk and remove_nic report success only when libvirt had something to
\* tell of the device since they asked, unless two of them on one device overlap.
DetachTold ==
  \A o \in Op : Does[o] = "detach" /\ op[o] = "removed" => o \in told \cup crossed

\* The Sync's lock, which the event loop needs as well, is left locked only
\* after two detach commands of one device overlapped.
SyncFree == held => crossed # {}

\* A machine that has stopped is taken down, unless the event loop is stuck or
\* was never told.
StoppedHandled ==
  \A v \in Vm : domain[v] = "gone" /\ v \notin missed
                  ~> (v \notin info /\ v \notin mounts) \/ held \/ v \in missed
=============================================================================
