--------------------------- MODULE MachinesProofs ----------------------------
(***************************************************************************)
(* Proofs about Machines, for any machines, ports, devices and commands:   *)
(* every variable keeps its type, what runs is known, what has ended       *)
(* leaves nothing, and what the Sync promises to detach commands.          *)
(***************************************************************************)
EXTENDS Machines, SequenceTheorems, TLAPS

Event == ({"stopped"} \X Vm) \cup ({"device"} \X Device)

\* The steps of one machine's create, and those of one command.
CreateStep(v) == CreateRefused(v) \/ Create(v) \/ PrepareMigrationTarget(v)
OpStep(o) == Refused(o) \/ Check(o) \/ Command(o)

\* The first of the events that have not been handled says that v has stopped.
AtHead(v) == events # <<>> /\ Head(events) = <<"stopped", v>>

\* How far a machine's domain is when create is at some place, and what the
\* events that are to come say of it.
LifeOf(v) ==
  /\ v \in Incoming => pc[v] \in {"new", "refused", "ok", "failed"}
  /\ domain[v] # "none" =>
       pc[v] \notin (IF v \in Incoming THEN {"new", "refused"}
                     ELSE {"new", "refused", "mounted", "network", "defining"})
  /\ v \notin Incoming /\ pc[v] \in {"reading", "ok"} => domain[v] # "none"
  /\ Pending(v) \/ v \in missed => domain[v] = "gone"
  /\ AtHead(v) => Pending(v)

\* Where the info and the mount of a machine are.
HostOf(v) ==
  /\ v \notin Incoming /\ pc[v] \in {"network", "defining", "reading", "ok", "failed"} =>
       v \in info \/ domain[v] = "gone"
  /\ v \in Incoming \/ pc[v] \in {"new", "refused", "mounted", "forgotten", "unruled", "over"} =>
       v \notin info
  /\ pc[v] \in {"new", "refused"} \/ (pc[v] = "over" /\ domain[v] = "none") => v \notin mounts
  /\ domain[v] = "gone" /\ v \in info =>
       v \in missed \/ (Pending(v) /\ (AtHead(v) => loop = "idle"))
  /\ domain[v] = "gone" /\ v \in mounts => v \in missed \/ Pending(v)

\* A portforward-add that set its rule, and may have found the info gone.
Late(v, p) ==
  \E o \in Op : /\ Does[o] = "forward" /\ On[o] = v /\ With[o] = p
                /\ op[o] \in {"ruled", "error"}

\* Whoever has forgotten a machine removes its rules next; what remains is that of
\* a portforward-add, or of a machine that has been waited for.
RuleOf(v, p) ==
  rules[p] = v =>
    \/ v \in info \/ pc[v] = "forgotten" \/ (AtHead(v) /\ loop = "forgotten")
    \/ Late(v, p)
    \/ /\ v \in Incoming
       /\ domain[v] = "gone" =>
            v \in missed \/ (Pending(v) /\ (AtHead(v) => loop # "unruled"))

MachineInv == \A v \in Vm : LifeOf(v) /\ HostOf(v) /\ \A p \in Port : RuleOf(v, p)

\* Only detach commands wait for a device, only portforward-add sets a rule.
OpKnown == \A o \in Op : /\ Waits(o) => Does[o] = "detach"
                         /\ op[o] \in {"ruled", "error"} => Does[o] = "forward"

\* Of detach commands that did not overlap: each has the channel of its device to
\* itself, from Expect to Unexpect, and what is in it was put there for it.
Fresh(o) == op[o] \in {"new", "checked"}
OwnChannel(o) ==
  /\ Fresh(o) => o \notin token /\ o \notin closed
  /\ Waits(o) /\ o \notin crossed =>
       /\ expected[With[o]] = o /\ o \notin closed
       /\ \A q \in Op : q # o /\ With[q] = With[o] => ~Waits(q)
       /\ o \in token => o \in told
       /\ op[o] = "receiving" => on[o] = o
       /\ op[o] = "removed" => o \in told

\* A channel is that of a command on the device, which has been made.
Channels ==
  \A d \in Device : expected[d] # NoOp => With[expected[d]] = d /\ ~Fresh(expected[d])

SyncInv == Channels /\ SyncFree /\ \A o \in Op : OwnChannel(o)

IInv == TypeOK /\ OpKnown /\ MachineInv /\ SyncInv

\* A machine goes on to its next place.
LEMMA GoTyped ==
  ASSUME TypeOK, NEW v \in Vm, NEW from, NEW to \in Pc, Go(v, from, to)
  PROVE pc' \in [Vm -> Pc]
BY DEF Go, TypeOK

\* A command goes on to its next place.
LEMMA StepTyped ==
  ASSUME TypeOK, NEW o \in Op, NEW from, NEW to \in OpPlace, Step(o, from, to)
  PROVE op' \in [Op -> OpPlace]
BY DEF Step, TypeOK

\* What handleStopped does keeps the types of what is on the host.
LEMMA CleaningTyped ==
  ASSUME TypeOK, NEW v \in Vm, Forget(v) \/ Unrule(v) \/ FlistUnmount(v)
  PROVE info' \subseteq Vm /\ mounts' \subseteq Flist /\ rules' \in [Port -> Vm \cup {NoVm}]
<1>1. CASE Forget(v)
  BY <1>1 DEF Forget, TypeOK
<1>2. CASE Unrule(v)
  BY <1>2 DEF Unrule, TypeOK
<1>3. CASE FlistUnmount(v)
  BY <1>3 DEF FlistUnmount, TypeOK
<1> QED
  BY <1>1, <1>2, <1>3

\* The steps of create, and of prepare_migration_target, keep the types.
LEMMA CreateTyped ==
  ASSUME TypeOK, NEW v \in Vm, CreateStep(v)
  PROVE TypeOK'
<1> USE DEF vars, host, feed, guest, sync, Pc
<1>1. CASE CreateRefused(v)
  BY <1>1, GoTyped DEF CreateRefused, TypeOK
<1>2. CASE FlistMount(v)
  BY <1>2, GoTyped DEF FlistMount, TypeOK
<1>3. CASE FlistConfigFails(v)
  BY <1>3, GoTyped, CleaningTyped DEF FlistConfigFails, TypeOK
<1>4. CASE Enter(v)
  BY <1>4, GoTyped DEF Enter, TypeOK
<1>5. ASSUME NEW p \in Port, SetForward(v, p) PROVE TypeOK'
  BY <1>5 DEF SetForward, TypeOK
<1>6. CASE NetworkFails(v)
  BY <1>6, GoTyped DEF NetworkFails, TypeOK
<1>7. CASE NetworkDone(v)
  BY <1>7, GoTyped DEF NetworkDone, TypeOK
<1>8. CASE DomainCreateXML(v)
  BY <1>8, GoTyped DEF DomainCreateXML, TypeOK
<1>9. CASE DomainCreateFails(v)
  BY <1>9, GoTyped DEF DomainCreateFails, TypeOK
<1>10. CASE ReadBack(v)
  BY <1>10, GoTyped DEF ReadBack, TypeOK
<1>11. CASE CreatorCleans(v)
  BY <1>11, GoTyped, CleaningTyped DEF CreatorCleans, TypeOK
<1>12. CASE PrepareMigrationTarget(v)
  <2>1. pc' \in [Vm -> Pc]
    BY <1>12, GoTyped DEF PrepareMigrationTarget
  <2>2. rules' \in [Port -> Vm \cup {NoVm}]
    BY <1>12 DEF PrepareMigrationTarget, TypeOK
  <2> QED
    BY <1>12, <2>1, <2>2 DEF PrepareMigrationTarget, TypeOK
<1> QED
  BY <1>1, <1>2, <1>3, <1>4, <1>5, <1>6, <1>7, <1>8, <1>9, <1>10, <1>11, <1>12
     DEF CreateStep, Create

\* An event is told: it comes after the others.
LEMMA QueueTells ==
  ASSUME TypeOK, NEW e \in Event, events' = Append(events, e)
  PROVE /\ events' \in Seq(Event) /\ events' # <<>>
        /\ Len(events') = Len(events) + 1
        /\ \A i \in 1..Len(events) : events'[i] = events[i]
        /\ events'[Len(events) + 1] = e
<1>1. events \in Seq(Event)
  BY DEF TypeOK, Event
<1> QED
  BY <1>1, AppendProperties

\* An event has been handled: the others move up.
LEMMA QueueHandles ==
  ASSUME TypeOK, events # <<>>
  PROVE /\ Head(events) \in Event /\ Head(events) = events[1] /\ Len(events) \in Nat \ {0}
        /\ Handled => /\ events' \in Seq(Event) /\ Len(events') = Len(events) - 1
                      /\ \A i \in 1..Len(events') : events'[i] = events[i + 1]
<1>1. events \in Seq(Event)
  BY DEF TypeOK, Event
<1>2. Head(events) = events[1] /\ Len(events) \in Nat \ {0}
  BY <1>1
<1> QED
  BY <1>1, <1>2, HeadTailProperties DEF Handled

\* The queue is cut: the first n stay.
LEMMA QueueCut ==
  ASSUME TypeOK, NEW n \in 0..Len(events), events' = SubSeq(events, 1, n)
  PROVE /\ events' \in Seq(Event) /\ Len(events') = n /\ Len(events) \in Nat
        /\ \A i \in 1..n : events'[i] = events[i]
<1>1. events \in Seq(Event)
  BY DEF TypeOK, Event
<1>2. Len(events) \in Nat /\ \A i \in 1..Len(events) : events[i] \in Event
  BY <1>1
<1>3. n \in Int /\ \A i \in 1..n : events[i] \in Event
  BY <1>2
<1> HIDE DEF Event
<1>4. /\ SubSeq(events, 1, n) \in Seq(Event)
      /\ Len(SubSeq(events, 1, n)) = IF 1 <= n THEN n - 1 + 1 ELSE 0
      /\ \A i \in 1..n - 1 + 1 : SubSeq(events, 1, n)[i] = events[1 + i - 1]
  BY <1>3, SubSeqProperties
<1> QED
  BY <1>2, <1>4

\* Guests and libvirtd keep the types.
LEMMA WorldTyped ==
  ASSUME TypeOK, \/ \E v \in Vm : Arrive(v) \/ Stop(v)
                 \/ \E d \in Device : Answer(d)
                 \/ Disconnect \/ Reconnect
  PROVE TypeOK'
<1> USE DEF vars, host, feed, guest, sync
<1>1. ASSUME NEW v \in Vm, Arrive(v) PROVE TypeOK'
  BY <1>1 DEF Arrive, TypeOK
<1>2. ASSUME NEW v \in Vm, Stop(v) PROVE TypeOK'
  <2>1. <<"stopped", v>> \in Event
    BY DEF Event
  <2>2. events \in Seq(Event) /\ (loop # "idle" => events # <<>>) /\ missed \subseteq Vm
    BY DEF TypeOK, Event
  <2>3. ASSUME Connected PROVE events' \in Seq(Event) /\ (loop' # "idle" => events' # <<>>) /\ missed' \subseteq Vm
    <3>1. events' = Append(events, <<"stopped", v>>) /\ loop' = loop /\ missed' = missed
      BY <1>2, <2>3 DEF Stop
    <3> QED
      BY <2>1, <2>2, <3>1, QueueTells
  <2>4. ASSUME ~Connected PROVE events' \in Seq(Event) /\ (loop' # "idle" => events' # <<>>) /\ missed' \subseteq Vm
    <3>1. events' = events /\ loop' = loop /\ missed' = missed \cup {v}
      BY <1>2, <2>4 DEF Stop
    <3> QED
      BY <2>2, <3>1
  <2>5. events' \in Seq(Event) /\ (loop' # "idle" => events' # <<>>) /\ missed' \subseteq Vm
    BY <2>3, <2>4
  <2> QED
    BY <1>2, <2>5 DEF Stop, TypeOK, Event
<1>3. ASSUME NEW d \in Device, Answer(d) PROVE TypeOK'
  <2>1. <<"device", d>> \in Event
    BY DEF Event
  <2>2. events' \in Seq(Event) /\ (loop' # "idle" => events' # <<>>)
    BY <1>3, <2>1, QueueTells DEF Answer, TypeOK, Event
  <2> QED
    BY <1>3, <2>2 DEF Answer, TypeOK, Event
<1>4. CASE Disconnect
  <2>1. PICK n \in (IF loop = "idle" THEN 0 ELSE 1)..Len(events) :
          /\ events' = SubSeq(events, 1, n)
          /\ missed' = missed \cup
               {v \in Vm : \E i \in (n + 1)..Len(events) : events[i] = <<"stopped", v>>}
    BY <1>4 DEF Disconnect
  <2>2. n \in 0..Len(events) /\ (loop # "idle" => n >= 1)
    <3>1. events \in Seq(Event)
      BY DEF TypeOK, Event
    <3>2. Len(events) \in Nat
      BY <3>1
    <3> QED
      BY <2>1, <3>2
  <2>3. events' \in Seq(Event) /\ Len(events') = n
    BY <2>1, <2>2, QueueCut
  <2>4. loop # "idle" => events' # <<>>
    BY <2>2, <2>3
  <2>5. missed' \subseteq Vm
    BY <2>1 DEF TypeOK
  <2> QED
    BY <1>4, <2>3, <2>4, <2>5 DEF Disconnect, TypeOK, Event
<1>5. CASE Reconnect
  BY <1>5 DEF Reconnect, TypeOK
<1> QED
  BY <1>1, <1>2, <1>3, <1>4, <1>5

\* The event loop keeps the types.
LEMMA LoopTyped ==
  ASSUME MachinesAssumption, TypeOK, EventLoop
  PROVE TypeOK'
<1> USE DEF vars, host, feed, guest, sync
<1>1. events # <<>>
  BY DEF EventLoop, HandleStopped, Release
<1>2. Head(events) \in Event
  BY <1>1, QueueHandles
<1>3. events \in Seq(Event)
  BY DEF TypeOK, Event
<1>4. CASE HandleStopped
  <2> DEFINE v == Head(events)[2]
  <2>1. v \in Vm
    BY <1>2, <1>4 DEF Event, HandleStopped
  <2>2. \/ loop' = "forgotten" /\ Forget(v) /\ events' = events
        \/ loop' = "unruled" /\ Unrule(v) /\ events' = events
        \/ loop' = "idle" /\ FlistUnmount(v) /\ Handled
    BY <1>4 DEF HandleStopped
  <2> HIDE DEF v
  <2>3. info' \subseteq Vm /\ mounts' \subseteq Flist /\ rules' \in [Port -> Vm \cup {NoVm}]
    BY <2>1, <2>2, CleaningTyped
  <2>4. events' \in Seq(Event) /\ loop' \in {"idle", "forgotten", "unruled"}
    BY <1>1, <1>3, <2>2, QueueHandles
  <2>5. loop' # "idle" => events' # <<>>
    BY <1>1, <2>2
  <2> QED
    BY <1>4, <2>3, <2>4, <2>5 DEF HandleStopped, TypeOK, Event
<1>5. CASE Release
  <2> DEFINE d == Head(events)[2]
  <2>1. d \in Device
    BY <1>2, <1>5 DEF Event, Release
  <2>2. token' = token \cup ({expected[d]} \ {NoOp}) /\ told' \subseteq told \cup Op
    BY <1>5 DEF Release
  <2> HIDE DEF d
  <2>3. token' \subseteq Op /\ told' \subseteq Op
    BY <2>1, <2>2 DEF TypeOK
  <2>4. events' \in Seq(Event)
    BY <1>1, <1>5, QueueHandles DEF Release
  <2>5. loop = "idle"
    BY <1>5 DEF Release
  <2> QED
    BY <1>5, <2>3, <2>4, <2>5 DEF Release, TypeOK, Event
<1> QED
  BY <1>4, <1>5 DEF EventLoop

\* The steps of a command keep the types.
LEMMA OpTyped ==
  ASSUME MachinesAssumption, TypeOK, OpKnown, NEW o \in Op, OpStep(o)
  PROVE TypeOK'
<1> USE DEF vars, host, feed, guest, sync, OpPlace
<1>0. On[o] \in Vm /\ (Does[o] = "detach" \/ Does[o] = "attach" => With[o] \in Device)
                   /\ (Does[o] = "forward" \/ Does[o] = "unforward" => With[o] \in Port)
  BY DEF MachinesAssumption
<1>d. Waits(o) => With[o] \in Device
  BY <1>0 DEF OpKnown
<1>1. CASE Refused(o)
  BY <1>1, StepTyped DEF Refused, TypeOK
<1>2. CASE Check(o)
  BY <1>2, StepTyped DEF Check, TypeOK
<1>3. CASE AttachDevice(o)
  BY <1>0, <1>3, StepTyped DEF AttachDevice, TypeOK
<1>4. CASE Expect(o)
  <2>1. expected' \in [Device -> Op \cup {NoOp}] /\ crossed' \subseteq Op
    BY <1>0, <1>4 DEF Expect, TypeOK, Rivals
  <2> QED
    BY <1>4, <2>1, StepTyped DEF Expect, TypeOK
<1>5. CASE DetachDeviceFlags(o)
  <2>1. asked' \subseteq Device
    BY <1>d, <1>5 DEF DetachDeviceFlags, TypeOK, Waits, Step
  <2>2. op' \in [Op -> OpPlace]
    BY <1>5, StepTyped DEF DetachDeviceFlags
  <2> QED
    BY <1>5, <2>1, <2>2 DEF DetachDeviceFlags, TypeOK
<1>6. CASE Wait(o)
  <2>1. op' \in [Op -> OpPlace]
    BY <1>6, StepTyped DEF Wait
  <2>2. With[o] \in Device
    BY <1>d, <1>6 DEF Wait, Waits, Step
  <2>3. on' \in [Op -> Op \cup {NoOp}] /\ held' \in BOOLEAN
    BY <1>6, <2>2 DEF Wait, TypeOK
  <2> QED
    BY <1>6, <2>1, <2>3 DEF Wait, TypeOK
<1>7. CASE Receive(o)
  BY <1>7, StepTyped DEF Receive, TypeOK
<1>8. CASE TimesOut(o)
  BY <1>8, StepTyped DEF TimesOut, TypeOK
<1>9. CASE Unexpect(o)
  <2>1. op' \in [Op -> OpPlace]
    BY <1>9, StepTyped DEF Unexpect
  <2>2. With[o] \in Device
    BY <1>d, <1>9 DEF Unexpect, Waits, Step
  <2>3. expected' \in [Device -> Op \cup {NoOp}] /\ on' \in [Op -> Op \cup {NoOp}]
    BY <1>9, <2>2 DEF Unexpect, TypeOK
  <2>4. expected[With[o]] \in Op \cup {NoOp}
    BY <2>2 DEF TypeOK
  <2>5. closed' \subseteq Op /\ token' \subseteq Op /\ told' \subseteq Op
    BY <1>9, <2>4 DEF Unexpect, TypeOK
  <2> QED
    BY <1>9, <2>1, <2>3, <2>5 DEF Unexpect, TypeOK
<1>10. CASE ForwardSet(o)
  BY <1>0, <1>10, StepTyped DEF ForwardSet, TypeOK
<1>11. CASE ForwardEnd(o)
  BY <1>11, StepTyped DEF ForwardEnd, TypeOK
<1>12. CASE Unforward(o)
  BY <1>12, StepTyped DEF Unforward, TypeOK
<1> QED
  BY <1>1, <1>2, <1>3, <1>4, <1>5, <1>6, <1>7, <1>8, <1>9, <1>10, <1>11, <1>12
     DEF OpStep, Command

-----------------------------------------------------------------------------
(* Machines: what is on the host *)

\* The place of one machine changes, no other's.
LEMMA Moves ==
  ASSUME TypeOK, NEW u \in Vm, NEW from, NEW to, Go(u, from, to)
  PROVE pc[u] = from /\ pc'[u] = to /\ \A v \in Vm \ {u} : pc'[v] = pc[v]
BY DEF Go, TypeOK

\* As long as the queue stays, so does what it says.
LEMMA QueueSame ==
  ASSUME events' = events, NEW v
  PROVE Pending(v)' = Pending(v) /\ AtHead(v)' = AtHead(v)
BY DEF Pending, AtHead

\* As long as no command moves, those that are late are the same.
LEMMA LateSame ==
  ASSUME op' = op, NEW v, NEW p
  PROVE Late(v, p)' = Late(v, p)
BY DEF Late

\* A step of create changes nothing of another machine.
LEMMA CreateLocal ==
  ASSUME TypeOK, NEW u \in Vm, CreateStep(u)
  PROVE /\ events' = events /\ missed' = missed /\ loop' = loop /\ op' = op
        /\ \A v \in Vm \ {u} :
             /\ pc'[v] = pc[v] /\ domain'[v] = domain[v]
             /\ (v \in info') = (v \in info) /\ (v \in mounts') = (v \in mounts)
             /\ \A p \in Port : rules'[p] = v => rules[p] = v
<1> USE DEF host, feed, guest, sync
<1>0. Vm \cap {NoVm} = {}
  BY MachinesAssumption DEF MachinesAssumption
<1>1. CASE CreateRefused(u)
  BY <1>1, Moves DEF CreateRefused
<1>2. CASE FlistMount(u)
  BY <1>2, Moves DEF FlistMount
<1>3. CASE FlistConfigFails(u)
  BY <1>3, Moves DEF FlistConfigFails, FlistUnmount
<1>4. CASE Enter(u)
  BY <1>4, Moves DEF Enter
<1>5. ASSUME NEW p \in Port, SetForward(u, p)
      PROVE /\ events' = events /\ missed' = missed /\ loop' = loop /\ op' = op
            /\ pc' = pc /\ domain' = domain /\ info' = info /\ mounts' = mounts
            /\ \A v \in Vm \ {u}, q \in Port : rules'[q] = v => rules[q] = v
  BY <1>5 DEF SetForward, TypeOK
<1>6. CASE NetworkFails(u)
  BY <1>6, Moves DEF NetworkFails
<1>7. CASE NetworkDone(u)
  BY <1>7, Moves DEF NetworkDone
<1>8. CASE DomainCreateXML(u)
  BY <1>8, Moves DEF DomainCreateXML, TypeOK
<1>9. CASE DomainCreateFails(u)
  BY <1>9, Moves DEF DomainCreateFails
<1>10. CASE ReadBack(u)
  BY <1>10, Moves DEF ReadBack
<1>11. CASE CreatorCleans(u)
  <2>1. CASE Go(u, "failed", "forgotten") /\ u \notin Incoming /\ Forget(u)
    BY <1>11, <2>1, Moves DEF CreatorCleans, Forget
  <2>2. CASE Go(u, "forgotten", "unruled") /\ Unrule(u)
    <3>1. \A v \in Vm \ {u}, p \in Port : rules'[p] = v => rules[p] = v
      BY <1>0, <2>2 DEF Unrule
    <3> QED
      BY <1>11, <2>2, <3>1, Moves DEF CreatorCleans, Unrule
  <2>3. CASE Go(u, "unruled", "over") /\ FlistUnmount(u)
    BY <1>11, <2>3, Moves DEF CreatorCleans, FlistUnmount
  <2> QED
    BY <1>11, <2>1, <2>2, <2>3 DEF CreatorCleans
<1>12. CASE PrepareMigrationTarget(u)
  <2>1. \A v \in Vm \ {u} : pc'[v] = pc[v]
    BY <1>12, Moves DEF PrepareMigrationTarget
  <2>2. \A v \in Vm \ {u}, p \in Port : rules'[p] = v => rules[p] = v
    BY <1>12 DEF PrepareMigrationTarget, TypeOK
  <2> QED
    BY <1>12, <2>1, <2>2 DEF PrepareMigrationTarget
<1> QED
  BY <1>1, <1>2, <1>3, <1>4, <1>5, <1>6, <1>7, <1>8, <1>9, <1>10, <1>11, <1>12
     DEF CreateStep, Create

\* What holds of a machine that a step leaves alone goes on to hold.
LEMMA LeftAlone ==
  ASSUME NEW v \in Vm, LifeOf(v), HostOf(v), \A p \in Port : RuleOf(v, p),
         Pending(v)' <=> Pending(v), AtHead(v)' <=> AtHead(v),
         (v \in missed') = (v \in missed), loop' = loop, op' = op,
         pc'[v] = pc[v], domain'[v] = domain[v],
         (v \in info') = (v \in info), (v \in mounts') = (v \in mounts),
         \A p \in Port : rules'[p] = v => rules[p] = v
  PROVE LifeOf(v)' /\ HostOf(v)' /\ \A p \in Port : RuleOf(v, p)'
<1>1. \A p \in Port : Late(v, p)' = Late(v, p)
  BY LateSame
<1>2. LifeOf(v)'
  BY DEF LifeOf
<1>3. HostOf(v)'
  BY DEF HostOf
<1>4. ASSUME NEW p \in Port PROVE RuleOf(v, p)'
  BY <1>1 DEF RuleOf
<1> QED
  BY <1>2, <1>3, <1>4

\* A step of create keeps the invariant of its own machine.
LEMMA CreateOwn ==
  ASSUME MachinesAssumption, TypeOK, NEW u \in Vm, CreateStep(u),
         LifeOf(u), HostOf(u), \A p \in Port : RuleOf(u, p)
  PROVE LifeOf(u)' /\ HostOf(u)' /\ \A p \in Port : RuleOf(u, p)'
<1>1. /\ events' = events /\ missed' = missed /\ loop' = loop /\ op' = op
      /\ Pending(u)' = Pending(u) /\ AtHead(u)' = AtHead(u)
      /\ \A p \in Port : Late(u, p)' = Late(u, p)
  BY CreateLocal, QueueSame, LateSame
<1> USE DEF host, feed, guest, sync
<1>2. CASE CreateRefused(u)
  <2>1. /\ pc[u] = "new" /\ pc'[u] = "refused" /\ u \notin Incoming
        /\ UNCHANGED <<info, mounts, rules, domain>>
    BY <1>2, Moves DEF CreateRefused
  <2> QED
    BY <1>1, <2>1 DEF LifeOf, HostOf, RuleOf
<1>3. CASE FlistMount(u)
  <2>1. /\ pc[u] = "new" /\ pc'[u] = "mounted" /\ u \notin Incoming
        /\ UNCHANGED <<info, rules, domain>>
    BY <1>3, Moves DEF FlistMount, MachinesAssumption
  <2> QED
    BY <1>1, <2>1 DEF LifeOf, HostOf, RuleOf
<1>4. CASE FlistConfigFails(u)
  <2>1. /\ pc[u] = "mounted" /\ pc'[u] = "refused"
        /\ UNCHANGED <<info, rules, domain>>
        /\ mounts' = IF domain[u] = "running" THEN mounts ELSE mounts \ {u}
    BY <1>4, Moves DEF FlistConfigFails, FlistUnmount
  <2>2. u \notin Incoming /\ domain[u] = "none"
    BY <2>1 DEF LifeOf
  <2> QED
    BY <1>1, <2>1, <2>2 DEF LifeOf, HostOf, RuleOf
<1>5. CASE Enter(u)
  <2>1. /\ pc[u] \in {"new", "mounted"} /\ pc'[u] = "network" /\ u \notin Incoming
        /\ UNCHANGED <<mounts, rules, domain>> /\ u \in info'
    BY <1>5, Moves DEF Enter
  <2>2. domain[u] = "none"
    BY <2>1 DEF LifeOf
  <2> QED
    BY <1>1, <2>1, <2>2 DEF LifeOf, HostOf, RuleOf
<1>6. ASSUME NEW p \in Port, SetForward(u, p)
      PROVE LifeOf(u)' /\ HostOf(u)' /\ \A q \in Port : RuleOf(u, q)'
  <2>1. UNCHANGED <<pc, info, mounts, domain>> /\ u \in info
    BY <1>6 DEF SetForward
  <2> QED
    BY <1>1, <2>1 DEF LifeOf, HostOf, RuleOf
<1>7. CASE NetworkFails(u)
  <2>1. /\ pc[u] = "network" /\ pc'[u] = "failed"
        /\ UNCHANGED <<info, mounts, rules, domain>>
    BY <1>7, Moves DEF NetworkFails
  <2> QED
    BY <1>1, <2>1 DEF LifeOf, HostOf, RuleOf
<1>8. CASE NetworkDone(u)
  <2>1. /\ pc[u] = "network" /\ pc'[u] = "defining"
        /\ UNCHANGED <<info, mounts, rules, domain>>
    BY <1>8, Moves DEF NetworkDone
  <2> QED
    BY <1>1, <2>1 DEF LifeOf, HostOf, RuleOf
<1>9. CASE DomainCreateXML(u)
  <2>1. /\ pc[u] = "defining" /\ pc'[u] = "reading" /\ domain'[u] = "running"
        /\ UNCHANGED <<info, mounts, rules>>
    BY <1>9, Moves DEF DomainCreateXML, TypeOK
  <2>2. u \notin Incoming /\ domain[u] = "none"
    BY <2>1 DEF LifeOf
  <2> QED
    BY <1>1, <2>1, <2>2 DEF LifeOf, HostOf, RuleOf
<1>10. CASE DomainCreateFails(u)
  <2>1. /\ pc[u] = "defining" /\ pc'[u] = "failed"
        /\ UNCHANGED <<info, mounts, rules, domain>>
    BY <1>10, Moves DEF DomainCreateFails
  <2> QED
    BY <1>1, <2>1 DEF LifeOf, HostOf, RuleOf
<1>11. CASE ReadBack(u)
  <2>1. /\ pc[u] = "reading" /\ pc'[u] \in {"ok", "failed"}
        /\ UNCHANGED <<info, mounts, rules, domain>>
    BY <1>11, Moves DEF ReadBack
  <2> QED
    BY <1>1, <2>1 DEF LifeOf, HostOf, RuleOf
<1>12. CASE CreatorCleans(u)
  <2>0. domain' = domain
    BY <1>12 DEF CreatorCleans
  <2>1. CASE Go(u, "failed", "forgotten") /\ u \notin Incoming /\ Forget(u)
    <3>1. /\ pc[u] = "failed" /\ pc'[u] = "forgotten" /\ u \notin Incoming
          /\ u \notin info' /\ UNCHANGED <<mounts, rules>>
      BY <2>1, Moves DEF Forget
    <3> QED
      BY <1>1, <2>0, <3>1 DEF LifeOf, HostOf, RuleOf
  <2>2. CASE Go(u, "forgotten", "unruled") /\ Unrule(u)
    <3>1. /\ pc[u] = "forgotten" /\ pc'[u] = "unruled"
          /\ UNCHANGED <<info, mounts>>
      BY <2>2, Moves DEF Unrule
    <3>2. \A p \in Port : rules'[p] # u
      BY <2>2 DEF Unrule, MachinesAssumption
    <3> QED
      BY <1>1, <2>0, <3>1, <3>2 DEF LifeOf, HostOf, RuleOf
  <2>3. CASE Go(u, "unruled", "over") /\ FlistUnmount(u)
    <3>1. /\ pc[u] = "unruled" /\ pc'[u] = "over"
          /\ UNCHANGED <<info, rules>>
          /\ mounts' = IF domain[u] = "running" THEN mounts ELSE mounts \ {u}
      BY <2>3, Moves DEF FlistUnmount
    <3> QED
      BY <1>1, <2>0, <3>1 DEF LifeOf, HostOf, RuleOf
  <2> QED
    BY <1>12, <2>1, <2>2, <2>3 DEF CreatorCleans
<1>13. CASE PrepareMigrationTarget(u)
  <2>1. /\ pc[u] = "new" /\ pc'[u] \in {"ok", "failed"} /\ u \in Incoming
        /\ UNCHANGED <<info, mounts, domain>>
    BY <1>13, Moves DEF PrepareMigrationTarget
  <2>2. domain[u] = "none"
    BY <2>1 DEF LifeOf
  <2> QED
    BY <1>1, <2>1, <2>2 DEF LifeOf, HostOf, RuleOf
<1> QED
  BY <1>2, <1>3, <1>4, <1>5, <1>6, <1>7, <1>8, <1>9, <1>10, <1>11, <1>12, <1>13
     DEF CreateStep, Create

\* So a step of create keeps the invariant.
LEMMA CreateKeeps ==
  ASSUME MachinesAssumption, TypeOK, MachineInv, NEW u \in Vm, CreateStep(u)
  PROVE MachineInv'
<1>1. LifeOf(u)' /\ HostOf(u)' /\ \A p \in Port : RuleOf(u, p)'
  BY CreateOwn DEF MachineInv
<1>2. ASSUME NEW v \in Vm \ {u}
      PROVE LifeOf(v)' /\ HostOf(v)' /\ \A p \in Port : RuleOf(v, p)'
  <2>1. Pending(v)' = Pending(v) /\ AtHead(v)' = AtHead(v)
    BY CreateLocal, QueueSame
  <2> QED
    BY <2>1, CreateLocal, LeftAlone DEF MachineInv
<1> QED
  BY <1>1, <1>2 DEF MachineInv

\* What the queue says after an event was told: the head stays when there was one,
\* and only the machine it is about may be new in it.
LEMMA TellsOf ==
  ASSUME TypeOK, NEW e \in Event, events' = Append(events, e), NEW v
  PROVE /\ Pending(v) => Pending(v)'
        /\ Pending(v)' => Pending(v) \/ e = <<"stopped", v>>
        /\ AtHead(v)' => AtHead(v) \/ (events = <<>> /\ e = <<"stopped", v>>)
        /\ AtHead(v) => AtHead(v)'
<1>1. events \in Seq(Event) /\ Len(events) \in Nat
  BY DEF TypeOK, Event
<1>2. /\ events' \in Seq(Event) /\ events' # <<>> /\ Len(events') = Len(events) + 1
      /\ \A i \in 1..Len(events) : events'[i] = events[i]
      /\ events'[Len(events) + 1] = e
  BY QueueTells
<1>3. Pending(v) => Pending(v)'
  BY <1>1, <1>2 DEF Pending
<1>4. Pending(v)' => Pending(v) \/ e = <<"stopped", v>>
  <2>1. SUFFICES ASSUME NEW i \in 1..Len(events'), events'[i] = <<"stopped", v>>
                 PROVE Pending(v) \/ e = <<"stopped", v>>
    BY DEF Pending
  <2>2. i \in 1..Len(events) \/ i = Len(events) + 1
    BY <1>1, <1>2
  <2> QED
    BY <1>2, <2>1, <2>2 DEF Pending
<1>5. Head(events') = events'[1] /\ (events # <<>> => Head(events) = events[1] /\ 1 \in 1..Len(events))
  BY <1>1, <1>2
<1>6. events = <<>> => events'[1] = e
  BY <1>2
<1> QED
  BY <1>2, <1>3, <1>4, <1>5, <1>6 DEF AtHead

\* What it says after it was cut.
LEMMA CutOf ==
  ASSUME TypeOK, NEW n \in 0..Len(events), events' = SubSeq(events, 1, n), NEW v
  PROVE /\ Pending(v)' => Pending(v)
        /\ Pending(v) => Pending(v)' \/ \E i \in (n + 1)..Len(events) : events[i] = <<"stopped", v>>
        /\ AtHead(v)' => AtHead(v)
        /\ AtHead(v) => n = 0 \/ AtHead(v)'
<1>1. events \in Seq(Event) /\ Len(events) \in Nat
  BY DEF TypeOK, Event
<1>2. events' \in Seq(Event) /\ Len(events') = n /\ \A i \in 1..n : events'[i] = events[i]
  BY QueueCut
<1>3. Pending(v)' => Pending(v)
  BY <1>1, <1>2 DEF Pending
<1>4. Pending(v) => Pending(v)' \/ \E i \in (n + 1)..Len(events) : events[i] = <<"stopped", v>>
  <2>1. SUFFICES ASSUME NEW i \in 1..Len(events), events[i] = <<"stopped", v>>
                 PROVE Pending(v)' \/ i \in (n + 1)..Len(events)
    BY DEF Pending
  <2>2. i \in 1..n \/ i \in (n + 1)..Len(events)
    BY <1>1
  <2> QED
    BY <1>2, <2>1, <2>2 DEF Pending
<1>5. events' # <<>> => n >= 1 /\ Head(events') = events'[1]
  BY <1>1, <1>2
<1>6. n >= 1 => events # <<>> /\ events' # <<>> /\ Head(events) = events[1] /\ Head(events') = events'[1] /\ events'[1] = events[1]
  BY <1>1, <1>2
<1>7. n = 0 \/ n >= 1
  BY <1>1
<1> QED
  BY <1>3, <1>4, <1>5, <1>6, <1>7 DEF AtHead

\* What it says after its first event was handled.
LEMMA HandledOf ==
  ASSUME TypeOK, events # <<>>, Handled, NEW v
  PROVE /\ Pending(v)' => Pending(v)
        /\ Pending(v) => Pending(v)' \/ AtHead(v)
        /\ AtHead(v)' => Pending(v)'
<1>1. events \in Seq(Event) /\ Len(events) \in Nat \ {0} /\ Head(events) = events[1]
  BY QueueHandles DEF TypeOK, Event
<1>2. /\ events' \in Seq(Event) /\ Len(events') = Len(events) - 1
      /\ \A i \in 1..Len(events') : events'[i] = events[i + 1]
  BY QueueHandles
<1>3. Pending(v)' => Pending(v)
  BY <1>1, <1>2 DEF Pending
<1>4. Pending(v) => Pending(v)' \/ AtHead(v)
  <2>1. SUFFICES ASSUME NEW i \in 1..Len(events), events[i] = <<"stopped", v>>
                 PROVE Pending(v)' \/ AtHead(v)
    BY DEF Pending
  <2>2. i = 1 \/ (i - 1 \in 1..Len(events') /\ events'[i - 1] = events[i])
    BY <1>1, <1>2
  <2> QED
    BY <1>1, <2>1, <2>2 DEF Pending, AtHead
<1>5. events' # <<>> => Head(events') = events'[1] /\ 1 \in 1..Len(events')
  BY <1>2
<1> QED
  BY <1>3, <1>4, <1>5 DEF Pending, AtHead

\* A machine that arrives keeps the invariant.
LEMMA ArriveKeeps ==
  ASSUME TypeOK, MachineInv, NEW u \in Vm, Arrive(u)
  PROVE MachineInv'
<1> USE DEF host, feed, guest, sync
<1>1. /\ events' = events /\ missed' = missed /\ loop' = loop /\ op' = op
      /\ UNCHANGED <<pc, info, mounts, rules>>
      /\ u \in Incoming /\ pc[u] \in {"ok", "failed"} /\ domain[u] = "none"
      /\ domain'[u] = "running" /\ \A v \in Vm \ {u} : domain'[v] = domain[v]
  BY DEF Arrive, TypeOK
<1>2. ASSUME NEW v \in Vm PROVE LifeOf(v)' /\ HostOf(v)' /\ \A p \in Port : RuleOf(v, p)'
  <2>1. Pending(v)' = Pending(v) /\ AtHead(v)' = AtHead(v) /\ \A p \in Port : Late(v, p)' = Late(v, p)
    BY <1>1, QueueSame, LateSame
  <2>2. LifeOf(v) /\ HostOf(v) /\ \A p \in Port : RuleOf(v, p)
    BY DEF MachineInv
  <2>3. CASE v # u
    BY <1>1, <2>1, <2>2, <2>3, LeftAlone
  <2>4. CASE v = u
    BY <1>1, <2>1, <2>2, <2>4 DEF LifeOf, HostOf, RuleOf
  <2> QED
    BY <2>3, <2>4
<1> QED
  BY <1>2 DEF MachineInv

\* A machine that stops keeps it: its end is told, or the connection is down.
LEMMA StopKeeps ==
  ASSUME TypeOK, MachineInv, NEW u \in Vm, Stop(u)
  PROVE MachineInv'
<1> USE DEF host, feed, guest, sync
<1>1. /\ loop' = loop /\ op' = op /\ UNCHANGED <<pc, info, mounts, rules>>
      /\ domain[u] = "running" /\ domain'[u] = "gone"
      /\ \A v \in Vm \ {u} : domain'[v] = domain[v]
  BY DEF Stop, TypeOK
<1>2. \/ events' = Append(events, <<"stopped", u>>) /\ missed' = missed
      \/ events' = events /\ missed' = missed \cup {u}
  BY DEF Stop
<1>3. <<"stopped", u>> \in Event
  BY DEF Event
<1>4. loop # "idle" => events # <<>>
  BY DEF TypeOK
<1>5. ASSUME NEW v \in Vm PROVE LifeOf(v)' /\ HostOf(v)' /\ \A p \in Port : RuleOf(v, p)'
  <2>1. LifeOf(v) /\ HostOf(v) /\ (\A p \in Port : RuleOf(v, p)) /\ \A p \in Port : Late(v, p)' = Late(v, p)
    BY <1>1, LateSame DEF MachineInv
  <2>2. CASE events' = events /\ missed' = missed \cup {u}
    <3>1. Pending(v)' = Pending(v) /\ AtHead(v)' = AtHead(v)
      BY <2>2, QueueSame
    <3>2. CASE v # u
      BY <1>1, <2>1, <2>2, <3>1, <3>2, LeftAlone
    <3>3. CASE v = u
      BY <1>1, <2>1, <2>2, <3>1, <3>3 DEF LifeOf, HostOf, RuleOf
    <3> QED
      BY <3>2, <3>3
  <2>3. CASE events' = Append(events, <<"stopped", u>>) /\ missed' = missed
    <3>1. /\ Pending(v) => Pending(v)'
          /\ Pending(v)' => Pending(v) \/ u = v
          /\ AtHead(v)' => AtHead(v) \/ (events = <<>> /\ u = v)
          /\ AtHead(v) => AtHead(v)'
      BY <1>3, <2>3, TellsOf
    <3>2. CASE v # u
      BY <1>1, <2>1, <2>3, <3>1, <3>2, LeftAlone
    <3>3. CASE v = u
      <4>1. Pending(u)'
        <5>1. Len(events) \in Nat /\ Len(events') = Len(events) + 1
              /\ events'[Len(events) + 1] = <<"stopped", u>>
          <6>1. events \in Seq(Event)
            BY DEF TypeOK, Event
          <6> QED
            BY <6>1, <1>3, <2>3, QueueTells
        <5> QED
          BY <5>1 DEF Pending
      <4>2. ~Pending(u) /\ ~AtHead(u)
        BY <1>1, <2>1, <3>3 DEF LifeOf
      <4>3. AtHead(u)' => loop = "idle"
        BY <1>4, <3>1, <3>3, <4>2
      <4> QED
        BY <1>1, <2>1, <2>3, <3>3, <4>1, <4>2, <4>3 DEF LifeOf, HostOf, RuleOf
    <3> QED
      BY <3>2, <3>3
  <2> QED
    BY <1>2, <2>2, <2>3
<1> QED
  BY <1>5 DEF MachineInv

\* An answer of a guest, the loss of the connection and a new one keep it.
LEMMA GuestKeeps ==
  ASSUME TypeOK, MachineInv, Reconnect \/ Disconnect \/ \E d \in Device : Answer(d)
  PROVE MachineInv'
<1> USE DEF host, feed, guest, sync
<1>1. loop' = loop /\ op' = op /\ UNCHANGED <<pc, info, mounts, rules, domain>>
  BY DEF Reconnect, Disconnect, Answer
<1>2. CASE Disconnect
  <2>1. PICK n \in (IF loop = "idle" THEN 0 ELSE 1)..Len(events) :
          /\ events' = SubSeq(events, 1, n)
          /\ missed' = missed \cup
               {v \in Vm : \E i \in (n + 1)..Len(events) : events[i] = <<"stopped", v>>}
    BY <1>2 DEF Disconnect
  <2>2. n \in 0..Len(events) /\ (n = 0 => loop = "idle")
    <3>1. events \in Seq(Event)
      BY DEF TypeOK, Event
    <3>2. Len(events) \in Nat
      BY <3>1
    <3> QED
      BY <2>1, <3>2
  <2>3. ASSUME NEW v \in Vm PROVE LifeOf(v)' /\ HostOf(v)' /\ \A p \in Port : RuleOf(v, p)'
    <3>1. LifeOf(v) /\ HostOf(v) /\ (\A p \in Port : RuleOf(v, p)) /\ \A p \in Port : Late(v, p)' = Late(v, p)
      BY <1>1, LateSame DEF MachineInv
    <3>2. /\ Pending(v)' => Pending(v)
          /\ Pending(v) => Pending(v)' \/ \E i \in (n + 1)..Len(events) : events[i] = <<"stopped", v>>
          /\ AtHead(v)' => AtHead(v)
          /\ AtHead(v) => n = 0 \/ AtHead(v)'
      BY <2>1, <2>2, CutOf
    <3>3. /\ v \in missed => v \in missed'
          /\ Pending(v) => Pending(v)' \/ v \in missed'
          /\ v \in missed' => v \in missed \/ \E i \in (n + 1)..Len(events) : events[i] = <<"stopped", v>>
      BY <2>1, <3>2
    <3>4. v \in missed' => v \in missed \/ Pending(v)
      <4>1. (n + 1)..Len(events) \subseteq 1..Len(events)
        BY <2>2
      <4> QED
        BY <3>3, <4>1 DEF Pending
    <3>5. AtHead(v)' => Pending(v)'
      <4>1. events' \in Seq(Event)
        BY <2>1, <2>2, QueueCut
      <4>2. events' # <<>> => Head(events') = events'[1] /\ 1 \in 1..Len(events')
        BY <4>1
      <4> QED
        BY <4>2 DEF AtHead, Pending
    <3>6. LifeOf(v)'
      BY <1>1, <3>1, <3>2, <3>4, <3>5 DEF LifeOf
    <3>7. HostOf(v)'
      BY <1>1, <3>1, <3>2, <3>3 DEF HostOf
    <3>8. ASSUME NEW p \in Port PROVE RuleOf(v, p)'
      BY <1>1, <2>2, <3>1, <3>2, <3>3 DEF RuleOf
    <3> QED
      BY <3>6, <3>7, <3>8
  <2> QED
    BY <2>3 DEF MachineInv
<1>3. CASE Reconnect
  <2>1. events' = events /\ missed' = missed
    BY <1>3 DEF Reconnect
  <2>2. ASSUME NEW v \in Vm PROVE Pending(v)' = Pending(v) /\ AtHead(v)' = AtHead(v)
    BY <2>1, QueueSame
  <2> QED
    BY <1>1, <2>1, <2>2, LeftAlone DEF MachineInv
<1>4. ASSUME NEW d \in Device, Answer(d) PROVE MachineInv'
  <2>1. missed' = missed /\ (events' = events \/ events' = Append(events, <<"device", d>>))
    BY <1>4 DEF Answer
  <2>2. ASSUME NEW v \in Vm
        PROVE (Pending(v)' <=> Pending(v)) /\ (AtHead(v)' <=> AtHead(v))
    <3>1. CASE events' = events
      BY <3>1, QueueSame
    <3>2. CASE events' = Append(events, <<"device", d>>)
      <4>1. <<"device", d>> \in Event /\ <<"device", d>> # <<"stopped", v>>
        BY DEF Event
      <4> QED
        BY <3>2, <4>1, TellsOf
    <3> QED
      BY <2>1, <3>1, <3>2
  <2> QED
    BY <1>1, <2>1, <2>2, LeftAlone DEF MachineInv
<1> QED
  BY <1>2, <1>3, <1>4

\* What the event loop does about the first event keeps what holds of the machines
\* it is not about.
LEMMA OthersInLoop ==
  ASSUME NEW v \in Vm, LifeOf(v), HostOf(v), \A p \in Port : RuleOf(v, p),
         ~AtHead(v), Pending(v)' <=> Pending(v),
         AtHead(v)' => Pending(v)' /\ loop' = "idle",
         missed' = missed, op' = op, pc' = pc, domain' = domain,
         (v \in info') = (v \in info), (v \in mounts') = (v \in mounts),
         \A p \in Port : rules'[p] = v => rules[p] = v
  PROVE LifeOf(v)' /\ HostOf(v)' /\ \A p \in Port : RuleOf(v, p)'
<1>1. \A p \in Port : Late(v, p)' = Late(v, p)
  BY LateSame
<1>2. LifeOf(v)'
  BY DEF LifeOf
<1>3. HostOf(v)'
  BY DEF HostOf
<1>4. ASSUME NEW p \in Port PROVE RuleOf(v, p)'
  BY <1>1 DEF RuleOf
<1> QED
  BY <1>2, <1>3, <1>4

\* An event about a machine that has stopped: its info goes, then its rules, then
\* its mount, and only then the event.
LEMMA HandleStoppedKeeps ==
  ASSUME MachinesAssumption, TypeOK, MachineInv, HandleStopped
  PROVE MachineInv'
<1> USE DEF host, feed, guest, sync
<1>1. events # <<>> /\ Head(events)[1] = "stopped"
  BY DEF HandleStopped
<1>2. PICK u \in Vm : u = Head(events)[2] /\ Head(events) = <<"stopped", u>>
  <2>1. Head(events) \in Event
    BY <1>1, QueueHandles
  <2> QED
    BY <1>1, <2>1 DEF Event
<1>3. UNCHANGED <<pc, domain, missed, op>>
  BY DEF HandleStopped
<1>4. \/ loop = "idle" /\ loop' = "forgotten" /\ Forget(u) /\ events' = events
      \/ loop = "forgotten" /\ loop' = "unruled" /\ Unrule(u) /\ events' = events
      \/ loop = "unruled" /\ loop' = "idle" /\ FlistUnmount(u) /\ Handled
  BY <1>2 DEF HandleStopped
<1>5. AtHead(u) /\ \A v \in Vm \ {u} : ~AtHead(v)
  BY <1>1, <1>2 DEF AtHead
<1>6. u # NoVm /\ NoVm \notin Vm
  BY <1>2 DEF MachinesAssumption
<1>7. Pending(u) /\ domain[u] = "gone" /\ LifeOf(u) /\ HostOf(u) /\ \A p \in Port : RuleOf(u, p)
  BY <1>2, <1>5 DEF MachineInv, LifeOf
<1>8. \A p \in Port : Late(u, p)' = Late(u, p)
  BY <1>3, LateSame
<1>9. ASSUME events' = events
      PROVE \A v \in Vm : Pending(v)' = Pending(v) /\ AtHead(v)' = AtHead(v)
  BY <1>9, QueueSame
<1>10. CASE loop = "idle" /\ loop' = "forgotten" /\ Forget(u) /\ events' = events
  <2>1. info' = info \ {u} /\ UNCHANGED <<mounts, rules>>
    BY <1>10 DEF Forget
  <2>2. LifeOf(u)' /\ HostOf(u)' /\ \A p \in Port : RuleOf(u, p)'
    BY <1>2, <1>3, <1>5, <1>7, <1>8, <1>9, <1>10, <2>1 DEF LifeOf, HostOf, RuleOf
  <2>3. ASSUME NEW v \in Vm \ {u}
        PROVE LifeOf(v)' /\ HostOf(v)' /\ \A p \in Port : RuleOf(v, p)'
    BY <1>3, <1>5, <1>9, <1>10, <2>1, OthersInLoop DEF MachineInv
  <2> QED
    BY <2>2, <2>3 DEF MachineInv
<1>11. CASE loop = "forgotten" /\ loop' = "unruled" /\ Unrule(u) /\ events' = events
  <2>1. /\ UNCHANGED <<info, mounts>>
        /\ \A p \in Port : rules'[p] # u
        /\ \A v \in Vm, p \in Port : rules'[p] = v => rules[p] = v
    BY <1>6, <1>11 DEF Unrule
  <2>2. LifeOf(u)' /\ HostOf(u)' /\ \A p \in Port : RuleOf(u, p)'
    BY <1>2, <1>3, <1>5, <1>7, <1>9, <1>11, <2>1 DEF LifeOf, HostOf, RuleOf
  <2>3. ASSUME NEW v \in Vm \ {u}
        PROVE LifeOf(v)' /\ HostOf(v)' /\ \A p \in Port : RuleOf(v, p)'
    BY <1>3, <1>5, <1>9, <1>11, <2>1, OthersInLoop DEF MachineInv
  <2> QED
    BY <2>2, <2>3 DEF MachineInv
<1>12. CASE loop = "unruled" /\ loop' = "idle" /\ FlistUnmount(u) /\ Handled
  <2>1. UNCHANGED <<info, rules>> /\ mounts' = mounts \ {u}
    BY <1>7, <1>12 DEF FlistUnmount
  <2>2. ASSUME NEW v \in Vm
        PROVE /\ Pending(v)' => Pending(v)
              /\ Pending(v) => Pending(v)' \/ AtHead(v)
              /\ AtHead(v)' => Pending(v)'
    BY <1>1, <1>12, HandledOf
  <2>3. LifeOf(u)'
    BY <1>2, <1>3, <1>7, <2>2 DEF LifeOf
  <2>4. HostOf(u)'
    BY <1>2, <1>3, <1>5, <1>7, <1>12, <2>1 DEF HostOf
  <2>5. ASSUME NEW p \in Port PROVE RuleOf(u, p)'
    BY <1>2, <1>3, <1>5, <1>7, <1>8, <1>12, <2>1 DEF RuleOf
  <2>6. ASSUME NEW v \in Vm \ {u}
        PROVE LifeOf(v)' /\ HostOf(v)' /\ \A p \in Port : RuleOf(v, p)'
    BY <1>3, <1>5, <1>12, <2>1, <2>2, OthersInLoop DEF MachineInv
  <2> QED
    BY <2>3, <2>4, <2>5, <2>6 DEF MachineInv
<1> QED
  BY <1>4, <1>10, <1>11, <1>12

\* An event about a device.
LEMMA ReleaseKeeps ==
  ASSUME TypeOK, MachineInv, Release
  PROVE MachineInv'
<1> USE DEF host, feed, guest, sync
<1>1. /\ events # <<>> /\ Head(events)[1] = "device" /\ Handled /\ loop = "idle"
      /\ UNCHANGED <<pc, info, mounts, rules, domain, missed, loop, op>>
  BY DEF Release
<1>2. \A v \in Vm : ~AtHead(v)
  BY <1>1 DEF AtHead
<1>3. ASSUME NEW v \in Vm
      PROVE (Pending(v)' <=> Pending(v)) /\ (AtHead(v)' => Pending(v)')
  BY <1>1, <1>2, HandledOf
<1> QED
  BY <1>1, <1>2, <1>3, OthersInLoop DEF MachineInv

\* The place of one command changes, no other's.
LEMMA OpMoves ==
  ASSUME TypeOK, NEW o \in Op, NEW from, NEW to, Step(o, from, to)
  PROVE op[o] = from /\ op'[o] = to /\ \A q \in Op \ {o} : op'[q] = op[q]
BY DEF Step, TypeOK

\* A command that is not at the end of portforward-add leaves those that are late.
LEMMA LateKept ==
  ASSUME TypeOK, NEW o \in Op, NEW from, NEW to, Step(o, from, to),
         from \notin {"ruled", "error"}, NEW v, NEW p, Late(v, p)
  PROVE Late(v, p)'
BY OpMoves DEF Late

\* Which rules a command sets and takes away.
LEMMA OpRules ==
  ASSUME MachinesAssumption, TypeOK, NEW o \in Op, OpStep(o), NEW v \in Vm, NEW p \in Port,
         rules'[p] = v
  PROVE \/ Late(v, p)'
        \/ rules[p] = v /\ (Late(v, p) => v \in info)
<1> USE DEF host, feed, guest, sync
<1>1. ASSUME NEW from, NEW to, Step(o, from, to), from \notin {"ruled", "error"}, rules' = rules
      PROVE Late(v, p)' \/ (rules[p] = v /\ (Late(v, p) => v \in info))
  BY <1>1, LateKept
<1>2. CASE Refused(o) \/ Check(o) \/ AttachDevice(o) \/ Expect(o)
  <2>1. rules' = rules /\ (Step(o, "checked", "over") \/ Step(o, "new", "checked") \/ Step(o, "checked", "expecting"))
    BY <1>2 DEF Refused, Check, AttachDevice, Expect
  <2> QED
    BY <1>1, <2>1
<1>3. CASE DetachDeviceFlags(o) \/ Wait(o) \/ Receive(o) \/ TimesOut(o) \/ Unexpect(o)
  <2>1. /\ rules' = rules
        /\ \/ Step(o, "expecting", "waiting") \/ Step(o, "expecting", "given up")
           \/ Step(o, "waiting", "receiving") \/ Step(o, "waiting", "given up")
           \/ Step(o, "receiving", "removed") \/ Step(o, "receiving", "given up")
           \/ Step(o, "removed", "over") \/ Step(o, "given up", "over")
    BY <1>3 DEF DetachDeviceFlags, Wait, Receive, TimesOut, Unexpect
  <2> QED
    BY <1>1, <2>1
<1>4. CASE ForwardSet(o)
  <2>1. Does[o] = "forward" /\ Step(o, "checked", "ruled")
        /\ rules' = [rules EXCEPT ![With[o]] = On[o]]
    BY <1>4 DEF ForwardSet
  <2>2. CASE p = With[o]
    <3>1. v = On[o]
      BY <2>1, <2>2 DEF TypeOK
    <3> QED
      BY <2>1, <2>2, <3>1, OpMoves DEF Late
  <2>3. CASE p # With[o]
    <3>1. rules[p] = v
      BY <2>1, <2>3 DEF TypeOK
    <3> QED
      BY <2>1, <3>1, LateKept
  <2> QED
    BY <2>2, <2>3
<1>5. CASE ForwardEnd(o)
  <2>1. rules' = rules
    BY <1>5 DEF ForwardEnd
  <2>2. SUFFICES ASSUME Late(v, p), v \notin info PROVE Late(v, p)'
    BY <2>1
  <2>3. PICK q \in Op : /\ Does[q] = "forward" /\ On[q] = v /\ With[q] = p
                        /\ op[q] \in {"ruled", "error"}
    BY <2>2 DEF Late
  <2>4. CASE q = o
    <3>1. Step(o, "ruled", "error")
      BY <1>5, <2>2, <2>3, <2>4 DEF ForwardEnd
    <3>2. op'[q] = "error"
      BY <2>4, <3>1, OpMoves
    <3> QED
      BY <2>3, <3>2 DEF Late
  <2>5. CASE q # o
    <3>1. op'[q] = op[q]
      BY <1>5, <2>5, OpMoves DEF ForwardEnd
    <3> QED
      BY <2>3, <3>1 DEF Late
  <2> QED
    BY <2>4, <2>5
<1>6. CASE Unforward(o)
  <2>1. Step(o, "checked", "over") /\ rules' = [rules EXCEPT ![With[o]] = NoVm]
    BY <1>6 DEF Unforward
  <2>2. rules[p] = v
    BY <2>1 DEF TypeOK, MachinesAssumption
  <2> QED
    BY <2>1, <2>2, LateKept
<1> QED
  BY <1>2, <1>3, <1>4, <1>5, <1>6 DEF OpStep, Command

\* A step of a command keeps the invariant of the machines.
LEMMA OpKeeps ==
  ASSUME MachinesAssumption, TypeOK, MachineInv, NEW o \in Op, OpStep(o)
  PROVE MachineInv'
<1> USE DEF host, feed, guest, sync
<1>1. UNCHANGED <<pc, info, mounts, domain, missed, loop, events>>
  <2>1. CASE Refused(o) \/ Check(o) \/ AttachDevice(o) \/ Expect(o)
    BY <2>1 DEF Refused, Check, AttachDevice, Expect
  <2>2. CASE DetachDeviceFlags(o) \/ Wait(o) \/ Receive(o) \/ TimesOut(o) \/ Unexpect(o)
    BY <2>2 DEF DetachDeviceFlags, Wait, Receive, TimesOut, Unexpect
  <2>3. CASE ForwardSet(o) \/ ForwardEnd(o) \/ Unforward(o)
    BY <2>3 DEF ForwardSet, ForwardEnd, Unforward
  <2> QED
    BY <2>1, <2>2, <2>3 DEF OpStep, Command
<1>2. ASSUME NEW v \in Vm PROVE LifeOf(v)' /\ HostOf(v)' /\ \A p \in Port : RuleOf(v, p)'
  <2>1. Pending(v)' = Pending(v) /\ AtHead(v)' = AtHead(v)
    BY <1>1, QueueSame
  <2>2. LifeOf(v)'
    BY <1>1, <2>1 DEF MachineInv, LifeOf
  <2>3. HostOf(v)'
    BY <1>1, <2>1 DEF MachineInv, HostOf
  <2>4. ASSUME NEW p \in Port PROVE RuleOf(v, p)'
    BY <1>1, <2>1, OpRules DEF MachineInv, RuleOf
  <2> QED
    BY <2>2, <2>3, <2>4
<1> QED
  BY <1>2 DEF MachineInv

\* The commands go on to the places that are theirs.
LEMMA KnownKept ==
  ASSUME MachinesAssumption, TypeOK, OpKnown, NEW o \in Op, OpStep(o)
  PROVE OpKnown'
<1>1. ASSUME NEW from, NEW to, Step(o, from, to),
             to \in {"expecting", "waiting", "receiving", "removed", "given up"} => Does[o] = "detach",
             to \in {"ruled", "error"} => Does[o] = "forward"
      PROVE OpKnown'
  <2>1. op'[o] = to /\ \A q \in Op \ {o} : op'[q] = op[q]
    BY <1>1, OpMoves
  <2>2. ASSUME NEW q \in Op
        PROVE /\ op'[q] \in {"expecting", "waiting", "receiving", "removed", "given up"} => Does[q] = "detach"
              /\ op'[q] \in {"ruled", "error"} => Does[q] = "forward"
    <3>1. CASE q = o
      BY <1>1, <2>1, <3>1
    <3>2. CASE q # o
      BY <2>1, <3>2 DEF OpKnown, Waits
    <3> QED
      BY <3>1, <3>2
  <2> QED
    BY <2>2 DEF OpKnown, Waits
<1>2. CASE Refused(o) \/ Check(o) \/ AttachDevice(o) \/ Expect(o)
  BY <1>1, <1>2 DEF Refused, Check, AttachDevice, Expect
<1>3. CASE DetachDeviceFlags(o) \/ Wait(o) \/ Receive(o) \/ TimesOut(o) \/ Unexpect(o)
  <2>1. Waits(o) => Does[o] = "detach"
    BY DEF OpKnown
  <2>2. PICK from, to : Step(o, from, to) /\ to \notin {"ruled", "error"}
                        /\ from \in {"expecting", "waiting", "receiving", "removed", "given up"}
    BY <1>3 DEF DetachDeviceFlags, Wait, Receive, TimesOut, Unexpect
  <2> QED
    BY <1>1, <2>1, <2>2 DEF Waits, Step
<1>4. CASE ForwardSet(o) \/ ForwardEnd(o) \/ Unforward(o)
  <2>1. op[o] = "ruled" => Does[o] = "forward"
    BY DEF OpKnown
  <2>2. \/ Step(o, "checked", "ruled") /\ Does[o] = "forward"
        \/ Step(o, "ruled", "over") \/ Step(o, "ruled", "error") \/ Step(o, "checked", "over")
    BY <1>4 DEF ForwardSet, ForwardEnd, Unforward
  <2> QED
    BY <1>1, <2>1, <2>2 DEF Step
<1> QED
  BY <1>2, <1>3, <1>4 DEF OpStep, Command

-----------------------------------------------------------------------------
(* The Sync *)

\* A command that stays out of the Sync, or leaves off without Unexpect.
LEMMA OutOfSync ==
  ASSUME TypeOK, SyncInv, UNCHANGED sync,
         \A q \in Op : /\ Fresh(q)' => Fresh(q)
                       /\ Waits(q)' => Waits(q)
                       /\ op'[q] \in {"receiving", "removed"} => op'[q] = op[q]
  PROVE SyncInv'
<1>1. UNCHANGED <<expected, token, closed, held, on, told, crossed>>
  BY DEF sync
<1>2. Channels'
  BY <1>1 DEF SyncInv, Channels, TypeOK
<1>3. ASSUME NEW q \in Op PROVE OwnChannel(q)'
  <2>1. OwnChannel(q) /\ (Fresh(q)' => Fresh(q)) /\ (Waits(q)' => Waits(q))
    BY DEF SyncInv
  <2> QED
    BY <1>1, <2>1 DEF OwnChannel
<1> QED
  BY <1>1, <1>2, <1>3 DEF SyncInv, SyncFree

\* The same of one step of a command.
LEMMA MovesOutOfSync ==
  ASSUME TypeOK, SyncInv, NEW o \in Op, NEW from, NEW to, Step(o, from, to), UNCHANGED sync,
         to \in {"new", "checked"} => from = "new",
         to \in {"expecting", "waiting", "given up"} => Waits(o),
         to \notin {"receiving", "removed"}
  PROVE SyncInv'
<1>1. op[o] = from /\ op'[o] = to /\ \A q \in Op \ {o} : op'[q] = op[q]
  BY OpMoves
<1>2. ASSUME NEW q \in Op
      PROVE /\ Fresh(q)' => Fresh(q)
            /\ Waits(q)' => Waits(q)
            /\ op'[q] \in {"receiving", "removed"} => op'[q] = op[q]
  <2>1. CASE q = o
    BY <1>1, <2>1 DEF Fresh, Waits
  <2>2. CASE q # o
    BY <1>1, <2>2 DEF Fresh, Waits
  <2> QED
    BY <2>1, <2>2
<1> QED
  BY <1>2, OutOfSync

\* Expect makes a channel for a command, which has none, and crosses it with those
\* that wait for the same device.
LEMMA ExpectKeeps ==
  ASSUME MachinesAssumption, TypeOK, SyncInv, NEW o \in Op, Expect(o)
  PROVE SyncInv'
<1>1. op[o] = "checked" /\ op'[o] = "expecting" /\ \A q \in Op \ {o} : op'[q] = op[q]
  BY OpMoves DEF Expect
<1>2. /\ UNCHANGED <<token, closed, held, on, told>>
      /\ crossed' = IF Rivals(o) = {} THEN crossed ELSE crossed \cup Rivals(o) \cup {o}
  BY DEF Expect
<1>3. /\ With[o] \in Device /\ expected'[With[o]] = o
      /\ \A d \in Device \ {With[o]} : expected'[d] = expected[d]
  BY DEF Expect, TypeOK, MachinesAssumption
<1>4. \A q \in Op \ {o} : (Waits(q)' <=> Waits(q)) /\ (Fresh(q)' <=> Fresh(q))
  BY <1>1 DEF Waits, Fresh
<1>5. Fresh(o) /\ ~Fresh(o)'
  BY <1>1 DEF Fresh
<1>6. Channels'
  BY <1>3, <1>4, <1>5 DEF SyncInv, Channels, TypeOK
<1>7. OwnChannel(o)'
  <2>1. o \notin token /\ o \notin closed
    BY <1>5 DEF SyncInv, OwnChannel
  <2>2. o \notin crossed' => \A q \in Op : q # o /\ With[q] = With[o] => ~Waits(q)'
    BY <1>2, <1>4 DEF Rivals
  <2> QED
    BY <1>1, <1>2, <1>3, <1>5, <2>1, <2>2 DEF OwnChannel
<1>8. ASSUME NEW q \in Op \ {o} PROVE OwnChannel(q)'
  <2>1. OwnChannel(q)
    BY DEF SyncInv
  <2>2. Fresh(q)' => q \notin token' /\ q \notin closed'
    BY <1>2, <1>4, <2>1 DEF OwnChannel
  <2>3. ASSUME Waits(q)', q \notin crossed'
        PROVE /\ expected'[With[q]] = q /\ q \notin closed'
              /\ \A r \in Op : r # q /\ With[r] = With[q] => ~Waits(r)'
              /\ q \in token' => q \in told'
              /\ op'[q] = "receiving" => on'[q] = q
              /\ op'[q] = "removed" => q \in told'
    <3>1. Waits(q) /\ q \notin crossed
      BY <1>2, <1>4, <2>3
    <3>2. With[q] # With[o]
      BY <1>2, <2>3, <3>1 DEF Rivals
    <3>3. expected[With[q]] = q /\ \A r \in Op : r # q /\ With[r] = With[q] => ~Waits(r)
      BY <2>1, <3>1 DEF OwnChannel
    <3>4. \A r \in Op : r # q /\ With[r] = With[q] => ~Waits(r)'
      BY <1>4, <3>2, <3>3
    <3>5. expected'[With[q]] = expected[With[q]]
      BY <3>2 DEF Expect, TypeOK
    <3> QED
      BY <1>1, <1>2, <2>1, <3>1, <3>3, <3>4, <3>5 DEF OwnChannel
  <2> QED
    BY <2>2, <2>3 DEF OwnChannel
<1>9. SyncFree'
  BY <1>2 DEF SyncInv, SyncFree
<1> QED
  BY <1>6, <1>7, <1>8, <1>9 DEF SyncInv

\* Wait finds the channel of a command that did not overlap another.
LEMMA WaitKeeps ==
  ASSUME MachinesAssumption, TypeOK, SyncInv, NEW o \in Op, Wait(o)
  PROVE SyncInv'
<1>0. NoOp \notin Op
  BY DEF MachinesAssumption
<1> DEFINE found == /\ Step(o, "waiting", "receiving") /\ held' = held
                    /\ on' = [on EXCEPT ![o] = expected[With[o]]]
           missing == /\ Step(o, "waiting", "given up") /\ on' = on
                      /\ expected[With[o]] = NoOp
<1>f. found \/ missing
  BY DEF Wait
<1>1. /\ op[o] = "waiting" /\ op'[o] \in {"receiving", "given up"}
      /\ \A q \in Op \ {o} : op'[q] = op[q]
  <2>1. CASE found
    <3>1. Step(o, "waiting", "receiving")
      BY <2>1
    <3> QED
      BY <3>1, OpMoves
  <2>2. CASE missing
    <3>1. Step(o, "waiting", "given up")
      BY <2>2
    <3> QED
      BY <3>1, OpMoves
  <2> QED
    BY <1>f, <2>1, <2>2
<1>2. UNCHANGED <<expected, token, closed, told, crossed>>
  BY DEF Wait
<1>3. /\ op'[o] = "receiving" => on'[o] = expected[With[o]]
      /\ \A q \in Op \ {o} : on'[q] = on[q]
      /\ held' => held \/ expected[With[o]] = NoOp
  <2>1. CASE found
    <3>1. on \in [Op -> Op \cup {NoOp}]
      BY DEF TypeOK
    <3>2. on'[o] = expected[With[o]] /\ \A q \in Op \ {o} : on'[q] = on[q]
      BY <2>1, <3>1
    <3> QED
      BY <2>1, <3>2
  <2>2. CASE missing
    <3>1. op'[o] = "given up"
      BY <2>2, OpMoves
    <3> QED
      BY <2>2, <3>1
  <2> QED
    BY <1>f, <2>1, <2>2
<1>4. Waits(o) /\ \A q \in Op : (Waits(q)' <=> Waits(q)) /\ (Fresh(q)' <=> Fresh(q))
  BY <1>1 DEF Waits, Fresh
<1>5. Channels'
  BY <1>2, <1>4 DEF SyncInv, Channels, TypeOK
<1>6. o \notin crossed => expected[With[o]] = o
  BY <1>4 DEF SyncInv, OwnChannel
<1>7. SyncFree'
  BY <1>0, <1>2, <1>3, <1>6 DEF SyncInv, SyncFree
<1>8. ASSUME NEW q \in Op PROVE OwnChannel(q)'
  <2>1. OwnChannel(q)
    BY DEF SyncInv
  <2>2. CASE q = o
    BY <1>1, <1>2, <1>3, <1>4, <1>6, <2>1, <2>2 DEF OwnChannel
  <2>3. CASE q # o
    BY <1>1, <1>2, <1>3, <1>4, <2>1, <2>3 DEF OwnChannel
  <2> QED
    BY <2>2, <2>3
<1> QED
  BY <1>5, <1>7, <1>8 DEF SyncInv

\* A command that did not overlap another receives what was put in its channel for it.
LEMMA ReceiveKeeps ==
  ASSUME TypeOK, SyncInv, NEW o \in Op, Receive(o)
  PROVE SyncInv'
<1>1. op[o] = "receiving" /\ op'[o] = "removed" /\ \A q \in Op \ {o} : op'[q] = op[q]
  BY OpMoves DEF Receive
<1>2. /\ UNCHANGED <<expected, closed, held, on, told, crossed>>
      /\ token' \subseteq token /\ on[o] \in token \cup closed
  BY DEF Receive
<1>3. Waits(o) /\ \A q \in Op : (Waits(q)' <=> Waits(q)) /\ (Fresh(q)' <=> Fresh(q))
  BY <1>1 DEF Waits, Fresh
<1>4. Channels'
  BY <1>2, <1>3 DEF SyncInv, Channels, TypeOK
<1>5. o \notin crossed => o \in told
  BY <1>1, <1>2, <1>3 DEF SyncInv, OwnChannel
<1>6. ASSUME NEW q \in Op PROVE OwnChannel(q)'
  <2>1. OwnChannel(q)
    BY DEF SyncInv
  <2>2. CASE q = o
    BY <1>1, <1>2, <1>3, <1>5, <2>1, <2>2 DEF OwnChannel
  <2>3. CASE q # o
    BY <1>1, <1>2, <1>3, <2>1, <2>3 DEF OwnChannel
  <2> QED
    BY <2>2, <2>3
<1> QED
  BY <1>2, <1>4, <1>6 DEF SyncInv, SyncFree

\* Unexpect closes what is the device's channel, which is nobody's who did not
\* overlap and still waits.
LEMMA UnexpectKeeps ==
  ASSUME MachinesAssumption, TypeOK, OpKnown, SyncInv, NEW o \in Op, Unexpect(o)
  PROVE SyncInv'
<1>1. /\ op[o] \in {"given up", "removed"} /\ op'[o] = "over"
      /\ \A q \in Op \ {o} : op'[q] = op[q]
  BY OpMoves DEF Unexpect
<1>2. Waits(o) /\ ~Waits(o)' /\ ~Fresh(o)'
      /\ \A q \in Op \ {o} : (Waits(q)' <=> Waits(q)) /\ (Fresh(q)' <=> Fresh(q))
  BY <1>1 DEF Waits, Fresh
<1>3. With[o] \in Device
  BY <1>2 DEF OpKnown, MachinesAssumption
<1>4. /\ UNCHANGED <<held, crossed>>
      /\ token' \subseteq token /\ closed' \subseteq (closed \cup {expected[With[o]]}) \ {NoOp}
      /\ told' = told \ {o}
  BY DEF Unexpect
<1>5. /\ expected'[With[o]] = NoOp
      /\ \A d \in Device \ {With[o]} : expected'[d] = expected[d]
      /\ \A q \in Op \ {o} : on'[q] = on[q]
  BY <1>3 DEF Unexpect, TypeOK
<1>6. Channels'
  <2>1. SUFFICES ASSUME NEW d \in Device, expected'[d] # NoOp
                 PROVE With[expected'[d]] = d /\ ~Fresh(expected[d])' /\ expected'[d] = expected[d]
    BY DEF Channels, Fresh
  <2>2. expected'[d] = expected[d]
    BY <1>5, <2>1
  <2>3. With[expected[d]] = d /\ ~Fresh(expected[d]) /\ expected[d] \in Op
    BY <2>1, <2>2 DEF SyncInv, Channels, TypeOK
  <2>4. ~(op'[expected[d]] \in {"new", "checked"})
    BY <1>1, <2>3 DEF Fresh
  <2> QED
    BY <2>2, <2>3, <2>4 DEF Fresh
<1>7. ASSUME NEW q \in Op PROVE OwnChannel(q)'
  <2>1. OwnChannel(q)
    BY DEF SyncInv
  <2>2. CASE q = o
    BY <1>2, <2>2 DEF OwnChannel
  <2>3. CASE q # o
    <3>1. Fresh(q) => q # expected[With[o]] \/ expected[With[o]] = NoOp
      BY <1>3 DEF SyncInv, Channels
    <3>2. Fresh(q)' => q \notin token' /\ q \notin closed'
      BY <1>2, <1>4, <2>1, <2>3, <3>1 DEF OwnChannel
    <3>3. ASSUME Waits(q)', q \notin crossed'
          PROVE /\ expected'[With[q]] = q /\ q \notin closed'
                /\ \A r \in Op : r # q /\ With[r] = With[q] => ~Waits(r)'
                /\ q \in token' => q \in told'
                /\ op'[q] = "receiving" => on'[q] = q
                /\ op'[q] = "removed" => q \in told'
      <4>1. Waits(q) /\ q \notin crossed
        BY <1>2, <1>4, <2>3, <3>3
      <4>2. With[q] # With[o] /\ With[q] \in Device
        BY <1>2, <2>1, <2>3, <4>1 DEF OwnChannel, OpKnown, MachinesAssumption
      <4>3. expected[With[o]] # NoOp => expected[With[o]] # q
        BY <1>3, <4>2 DEF SyncInv, Channels
      <4>4. q \notin closed'
        BY <1>4, <2>1, <4>1, <4>3 DEF OwnChannel
      <4>5. \A r \in Op : r # q /\ With[r] = With[q] => ~Waits(r)'
        BY <1>2, <2>1, <4>1 DEF OwnChannel
      <4>6. expected'[With[q]] = q
        BY <1>5, <2>1, <4>1, <4>2 DEF OwnChannel
      <4> QED
        BY <1>1, <1>4, <1>5, <2>1, <2>3, <4>1, <4>4, <4>5, <4>6 DEF OwnChannel
    <3> QED
      BY <3>2, <3>3 DEF OwnChannel
  <2> QED
    BY <2>2, <2>3
<1> QED
  BY <1>4, <1>6, <1>7 DEF SyncInv, SyncFree

\* Release puts a message in the channel of the device: that of one who waits for it.
LEMMA ReleaseSync ==
  ASSUME MachinesAssumption, TypeOK, SyncInv, Release
  PROVE SyncInv'
<1>1. PICK d \in Device :
        /\ token' = token \cup ({expected[d]} \ {NoOp})
        /\ told' = told \cup {o \in Op : With[o] = d /\ Waits(o)}
  <2>1. events # <<>> /\ Head(events)[1] = "device"
    BY DEF Release
  <2>2. Head(events) \in Event
    BY <2>1, QueueHandles
  <2> QED
    BY <2>1, <2>2 DEF Release, Event
<1>2. UNCHANGED <<expected, closed, held, on, crossed, op>>
  BY DEF Release
<1>3. \A q \in Op : (Waits(q)' <=> Waits(q)) /\ (Fresh(q)' <=> Fresh(q))
  BY <1>2 DEF Waits, Fresh
<1>4. Channels'
  BY <1>2 DEF SyncInv, Channels, Fresh
<1>5. expected[d] # NoOp => With[expected[d]] = d /\ ~Fresh(expected[d])
  BY DEF SyncInv, Channels
<1>6. ASSUME NEW q \in Op PROVE OwnChannel(q)'
  <2>1. OwnChannel(q)
    BY DEF SyncInv
  <2>2. q \in token' => q \in token \/ (With[q] = d /\ ~Fresh(q))
    BY <1>1, <1>5
  <2>3. q \in told => q \in told'
    BY <1>1
  <2>4. Waits(q) /\ With[q] = d => q \in told'
    BY <1>1
  <2> QED
    BY <1>2, <1>3, <2>1, <2>2, <2>3, <2>4 DEF OwnChannel
<1> QED
  BY <1>2, <1>4, <1>6 DEF SyncInv, SyncFree

\* So every step of a command keeps what holds of the Sync.
LEMMA SyncKeeps ==
  ASSUME MachinesAssumption, TypeOK, OpKnown, SyncInv, NEW o \in Op, OpStep(o)
  PROVE SyncInv'
<1>1. CASE Refused(o)
  BY <1>1, MovesOutOfSync DEF Refused
<1>2. CASE Check(o)
  BY <1>2, MovesOutOfSync DEF Check
<1>3. CASE AttachDevice(o)
  BY <1>3, MovesOutOfSync DEF AttachDevice
<1>4. CASE DetachDeviceFlags(o)
  <2>1. UNCHANGED sync /\ (Step(o, "expecting", "waiting") \/ Step(o, "expecting", "given up"))
    BY <1>4 DEF DetachDeviceFlags
  <2>2. Waits(o)
    BY <2>1 DEF Step, Waits
  <2> QED
    BY <2>1, <2>2, MovesOutOfSync
<1>5. CASE TimesOut(o)
  <2>1. UNCHANGED sync /\ Step(o, "receiving", "given up")
    BY <1>5 DEF TimesOut
  <2>2. Waits(o)
    BY <2>1 DEF Step, Waits
  <2> QED
    BY <2>1, <2>2, MovesOutOfSync
<1>6. CASE ForwardSet(o)
  BY <1>6, MovesOutOfSync DEF ForwardSet
<1>7. CASE ForwardEnd(o)
  BY <1>7, MovesOutOfSync DEF ForwardEnd
<1>8. CASE Unforward(o)
  BY <1>8, MovesOutOfSync DEF Unforward
<1> QED
  BY <1>1, <1>2, <1>3, <1>4, <1>5, <1>6, <1>7, <1>8, ExpectKeeps, WaitKeeps,
     ReceiveKeeps, UnexpectKeeps
     DEF OpStep, Command

-----------------------------------------------------------------------------
(* The invariant and what follows from it *)

\* When the host starts there is no machine, and no command has waited.
LEMMA InitIInv ==
  ASSUME MachinesAssumption, Init
  PROVE IInv
<1>1. PICK G \in Given :
        /\ pc = [v \in Vm |-> IF v \in G THEN "new" ELSE "refused"]
        /\ op = [o \in Op |-> IF o \in G THEN "new" ELSE "over"]
  BY DEF Init
<1>2. events = <<>> /\ Len(events) = 0 /\ events \in Seq(({"stopped"} \X Vm) \cup ({"device"} \X Device))
  BY DEF Init
<1>3. TypeOK
  BY <1>1, <1>2 DEF Init, TypeOK, Pc, OpPlace
<1>4. OpKnown
  BY <1>1 DEF OpKnown, Waits
<1>5. \A v \in Vm : ~Pending(v) /\ ~AtHead(v)
  BY <1>2 DEF Pending, AtHead
<1>6. MachineInv
  <2>1. SUFFICES ASSUME NEW v \in Vm PROVE LifeOf(v) /\ HostOf(v) /\ \A p \in Port : RuleOf(v, p)
    BY DEF MachineInv
  <2>2. pc[v] \in {"new", "refused"} /\ domain[v] = "none" /\ v \notin info /\ v \notin mounts
        /\ v \notin missed
    BY <1>1 DEF Init
  <2>3. \A p \in Port : rules[p] # v
    BY DEF Init, MachinesAssumption
  <2> QED
    BY <1>5, <2>2, <2>3 DEF LifeOf, HostOf, RuleOf
<1>7. SyncInv
  <2>1. Channels /\ SyncFree
    BY DEF Init, Channels, SyncFree
  <2>2. ASSUME NEW o \in Op PROVE OwnChannel(o)
    BY <1>1 DEF Init, OwnChannel, Waits
  <2> QED
    BY <2>1, <2>2 DEF SyncInv
<1> QED
  BY <1>3, <1>4, <1>6, <1>7 DEF IInv

\* What is not about a command leaves what holds of the commands alone.
LEMMA CommandsLeft ==
  ASSUME TypeOK, OpKnown, SyncInv, UNCHANGED <<sync, op>>
  PROVE OpKnown' /\ SyncInv'
<1>1. op' = op /\ UNCHANGED sync
  OBVIOUS
<1>2. \A q \in Op : (Fresh(q)' <=> Fresh(q)) /\ (Waits(q)' <=> Waits(q))
  BY <1>1 DEF Fresh, Waits
<1>3. SyncInv'
  BY <1>1, <1>2, OutOfSync
<1> QED
  BY <1>1, <1>2, <1>3 DEF OpKnown

\* Every step keeps the invariant.
LEMMA NextIInv ==
  ASSUME MachinesAssumption, IInv, [Next]_vars
  PROVE IInv'
<1> USE DEF IInv
<1>1. ASSUME NEW v \in Vm, CreateStep(v) PROVE IInv'
  <2>1. UNCHANGED <<sync, op>>
    BY <1>1 DEF CreateStep, CreateRefused, Create, FlistMount, FlistConfigFails, Enter,
       SetForward, NetworkFails, NetworkDone, DomainCreateXML, DomainCreateFails, ReadBack,
       CreatorCleans, PrepareMigrationTarget
  <2> QED
    BY <1>1, <2>1, CreateTyped, CreateKeeps, CommandsLeft
<1>2. ASSUME NEW v \in Vm, Arrive(v) PROVE IInv'
  <2>1. UNCHANGED <<sync, op>>
    BY <1>2 DEF Arrive
  <2> QED
    BY <1>2, <2>1, WorldTyped, ArriveKeeps, CommandsLeft
<1>3. ASSUME NEW v \in Vm, Stop(v) PROVE IInv'
  <2>1. UNCHANGED <<sync, op>>
    BY <1>3 DEF Stop
  <2> QED
    BY <1>3, <2>1, WorldTyped, StopKeeps, CommandsLeft
<1>4. ASSUME NEW o \in Op, OpStep(o) PROVE IInv'
  BY <1>4, OpTyped, OpKeeps, KnownKept, SyncKeeps
<1>5. ASSUME Reconnect \/ Disconnect \/ \E d \in Device : Answer(d) PROVE IInv'
  <2>1. UNCHANGED <<sync, op>>
    BY <1>5 DEF Reconnect, Disconnect, Answer
  <2> QED
    BY <1>5, <2>1, WorldTyped, GuestKeeps, CommandsLeft
<1>6. CASE HandleStopped
  <2>1. UNCHANGED <<sync, op>> /\ EventLoop
    BY <1>6 DEF HandleStopped, EventLoop
  <2> QED
    BY <1>6, <2>1, LoopTyped, HandleStoppedKeeps, CommandsLeft
<1>7. CASE Release
  <2>1. op' = op /\ EventLoop
    BY <1>7 DEF Release, EventLoop
  <2>2. OpKnown'
    BY <2>1 DEF OpKnown, Waits
  <2> QED
    BY <1>7, <2>1, <2>2, LoopTyped, ReleaseKeeps, ReleaseSync
<1>8. CASE UNCHANGED vars
  <2>1. UNCHANGED <<sync, op>> /\ UNCHANGED <<pc, info, mounts, rules, domain, events, missed, loop>>
    BY <1>8 DEF vars, host, feed
  <2>2. TypeOK'
    BY <1>8 DEF vars, host, feed, guest, sync, TypeOK
  <2>3. MachineInv'
    <3>1. \A v \in Vm : Pending(v)' = Pending(v) /\ AtHead(v)' = AtHead(v)
      BY <2>1, QueueSame
    <3> QED
      BY <2>1, <3>1, LeftAlone DEF MachineInv
  <2> QED
    BY <2>1, <2>2, <2>3, CommandsLeft
<1> QED
  BY <1>1, <1>2, <1>3, <1>4, <1>5, <1>6, <1>7, <1>8 DEF Next, CreateStep, OpStep, EventLoop

\* The invariant holds in every state of every behaviour.
LEMMA Invariant == MachinesAssumption /\ Spec => []IInv
<1>1. MachinesAssumption /\ Init => IInv
  BY InitIInv
<1>2. MachinesAssumption /\ IInv /\ [Next]_vars => IInv'
  BY NextIInv
<1> QED
  BY MachinesAssumption, <1>1, <1>2, PTL DEF Spec

\* Every variable of the kvm plugin keeps its type, for any machines and commands.
THEOREM TypeCorrect == Spec => []TypeOK
<1>1. IInv => TypeOK
  BY DEF IInv
<1> QED
  BY MachinesAssumption, Invariant, <1>1, PTL

\* A machine that create made and that runs is in domainsInfo, whatever fails, stops
\* or is lost, until create's own cleaning starts.
THEOREM KnownWhileRunning == Spec => []RunningKnown
<1>1. IInv => RunningKnown
  <2>1. SUFFICES ASSUME IInv, NEW v \in Vm \ Incoming, domain[v] = "running",
                        pc[v] \notin {"forgotten", "unruled", "over"}
                 PROVE v \in info
    BY DEF RunningKnown
  <2>2. LifeOf(v) /\ HostOf(v)
    BY <2>1 DEF IInv, MachineInv
  <2>3. pc[v] \in {"reading", "ok", "failed"}
    BY <2>1, <2>2 DEF LifeOf, IInv, TypeOK, Pc
  <2> QED
    BY <2>1, <2>2, <2>3 DEF HostOf
<1> QED
  BY MachinesAssumption, Invariant, <1>1, PTL

\* When the end of a machine has been handled nothing of it is left on the host but
\* the rule of a portforward-add that came too late.
THEOREM EndsClean == Spec => []LeavesNothing
<1>1. IInv => LeavesNothing
  <2>1. SUFFICES ASSUME IInv, NEW v \in Vm, Down(v)
                 PROVE /\ v \notin info /\ v \notin mounts
                       /\ \A p \in Port : rules[p] = v => Late(v, p)
    BY DEF LeavesNothing, Late
  <2>2. LifeOf(v) /\ HostOf(v) /\ \A p \in Port : RuleOf(v, p)
    BY <2>1 DEF IInv, MachineInv
  <2>3. ~Pending(v) /\ ~AtHead(v) /\ v \notin missed
    BY <2>1, <2>2 DEF Down, LifeOf
  <2>4. v \notin info /\ v \notin mounts
    BY <2>1, <2>2, <2>3 DEF Down, LifeOf, HostOf
  <2>5. ASSUME NEW p \in Port, rules[p] = v PROVE Late(v, p)
    BY <2>1, <2>2, <2>3, <2>4, <2>5 DEF Down, RuleOf
  <2> QED
    BY <2>4, <2>5
<1> QED
  BY MachinesAssumption, Invariant, <1>1, PTL

\* detach_disk and remove_nic, when no other overlaps on the device, report success
\* only when there was an event about the device after Expect.
THEOREM SuccessWasTold == Spec => []DetachTold
<1>1. IInv => DetachTold
  <2>1. SUFFICES ASSUME IInv, NEW o \in Op, op[o] = "removed", o \notin crossed PROVE o \in told
    BY DEF DetachTold
  <2>2. OwnChannel(o) /\ Waits(o)
    BY <2>1 DEF IInv, SyncInv, Waits
  <2> QED
    BY <2>1, <2>2 DEF OwnChannel
<1> QED
  BY MachinesAssumption, Invariant, <1>1, PTL

\* Without two detach commands that overlap on one device the Sync's lock is never
\* left locked, and the event loop goes on.
THEOREM LockIsFreed == Spec => []SyncFree
<1>1. IInv => SyncFree
  BY DEF IInv, SyncInv
<1> QED
  BY MachinesAssumption, Invariant, <1>1, PTL
=============================================================================
