-------------------------- MODULE ContainersProofs ---------------------------
(***************************************************************************)
(* Proofs about Containers, for any create commands, nics, ports, commands *)
(* and limits: every variable keeps its type, the numbers of the           *)
(* containers have one owner each, and an end leaves nothing on the host.  *)
(***************************************************************************)
EXTENDS Containers, TLAPS

\* Before getNextSequence.
Early == {"new", "refused", "counted"}

\* A command that has found its container knows what it asked for, and of which.
AskKnown ==
  \A o \in Op : op[o] \in {"found", "made"} =>
    /\ what[o] \in Asks \X Req /\ pc[On(o)] \notin Early
    /\ op[o] = "made" => Does(o) = "nic-add"

\* Who has a number, and how far the create command is when coreX and cleanup are
\* on their way.
Placed ==
  \A r \in Req :
    /\ pc[r] \notin Early => id[r] \in Ids
    /\ proc[r] # "none" => pc[r] \in {"queued", "started"}
    /\ cleanup[r] # "no" => pc[r] \in {"queued", "started", "failed"}

\* The entry of a number that is given and not yet used is free.
Reserved == \A r \in Req : Pending(r) => containers[id[r]] = NoReq

\* No entry but those of the elders is an elder's.
Owned == \A n \in Known \ Elders : containers[n] \in Req

IInv == TypeOK /\ AskKnown /\ Placed /\ Reserved /\ Owned /\ OwnNumber

\* What is asked for is of a kind that has a nic or a port.
LEMMA AskTyped ==
  ASSUME AskKnown, NEW o \in Op, op[o] \in {"found", "made"}
  PROVE /\ On(o) \in Req
        /\ Does(o) \in {"nic-add", "nic-remove"} => Arg(o) \in Nic
        /\ Does(o) = "forward-add" => Arg(o) \in Port
<1>1. what[o] \in Asks \X Req
  BY DEF AskKnown
<1>2. PICK ask \in Asks, r \in Req : what[o] = <<ask, r>>
  BY <1>1
<1>3. ask \in ({"nic-add", "nic-remove"} \X Nic) \cup ({"forward-add"} \X Port)
  BY ContainersAssumption DEF ContainersAssumption
<1>4. On(o) = r /\ Does(o) = ask[1] /\ Arg(o) = ask[2]
  BY <1>2 DEF On, Does, Arg
<1> QED
  BY <1>3, <1>4

\* A create command goes on to its next place.
LEMMA GoTyped ==
  ASSUME TypeOK, NEW r \in Req, NEW from, NEW to \in Pc, Go(r, from, to)
  PROVE pc' \in [Req -> Pc]
BY DEF Go, TypeOK

\* A nic changes its state.
LEMMA NicChanges ==
  ASSUME TypeOK, NEW r \in Req, NEW k \in Nic, NEW s \in State
  PROVE [nics EXCEPT ![r][k] = s] \in [Req -> [Nic -> State]]
<1>1. nics \in [Req -> [Nic -> State]]
  BY DEF TypeOK
<1>2. [nics[r] EXCEPT ![k] = s] \in [Nic -> State]
  BY <1>1
<1> QED
  BY <1>1, <1>2

\* The host's network keeps its type when it is set up, for a container that has a
\* number.
LEMMA PlugTyped ==
  ASSUME TypeOK, NEW r \in Req, NEW k \in Nic, id[r] \in Ids,
         Plug(r, k) \/ PlugFails(r, k)
  PROVE /\ nics' \in [Req -> [Nic -> State]]
        /\ inside' \cup unported' \subseteq link' /\ link' \subseteq Ids \X Nic
        /\ netns' \subseteq Ids /\ rules' \in [Port -> Ids \cup {0}]
<1>1. Name(r, k) \in Ids \X Nic
  BY DEF Name
<1>2. nics' \in [Req -> [Nic -> State]]
  <2>1. nics' = [nics EXCEPT ![r][k] = "plugged"] \/ nics' = [nics EXCEPT ![r][k] = "error"]
    BY DEF Plug, PlugFails
  <2> QED
    BY <2>1, NicChanges DEF State
<1>3. rules' \in [Port -> Ids \cup {0}]
  BY DEF Plug, PlugFails, TypeOK
<1> QED
  BY <1>1, <1>2, <1>3 DEF Plug, PlugFails, TypeOK

LEMMA AttachTyped ==
  ASSUME TypeOK, NEW r \in Req, NEW k \in Nic, Attach(r, k) \/ AttachFails(r, k)
  PROVE /\ nics' \in [Req -> [Nic -> State]]
        /\ inside' \cup unported' \subseteq link' /\ link' \subseteq Ids \X Nic
        /\ netns' \subseteq Ids /\ rules' \in [Port -> Ids \cup {0}]
<1>1. nics' \in [Req -> [Nic -> State]]
  <2>1. nics' = [nics EXCEPT ![r][k] = "configured"] \/ nics' = [nics EXCEPT ![r][k] = "error"]
    BY DEF Attach, AttachFails
  <2>2. "configured" \in State /\ "error" \in State
    BY DEF State
  <2>3. /\ [nics EXCEPT ![r][k] = "configured"] \in [Req -> [Nic -> State]]
        /\ [nics EXCEPT ![r][k] = "error"] \in [Req -> [Nic -> State]]
    BY <2>2, NicChanges
  <2> QED
    BY <2>1, <2>3
<1> QED
  BY <1>1 DEF Attach, AttachFails, TypeOK

LEMMA TypeInit == Init => TypeOK
<1> SUFFICES ASSUME Init PROVE TypeOK
  OBVIOUS
<1>1. nics \in [Req -> [Nic -> State]]
  <2>1. \A r \in Req : [k \in Nic |-> IF k \in NicsOf[r] THEN "unknown" ELSE "absent"] \in [Nic -> State]
    BY DEF State
  <2> QED
    BY <2>1 DEF Init
<1>2. sequence \in 0..MaxId /\ containers \in [Ids -> Req \cup {NoReq, Elder}]
  BY ContainersAssumption DEF ContainersAssumption, Init
<1> QED
  BY <1>1, <1>2 DEF Init, TypeOK, Pc, Exit, Stage

\* Types, action by action.
LEMMA TypeNext == IInv /\ [Next]_vars => TypeOK'
<1> SUFFICES ASSUME IInv, [Next]_vars PROVE TypeOK'
  OBVIOUS
<1> USE DEF table, create, flist, life, net, ops, Alive
<1>a. TypeOK /\ AskKnown /\ Placed
  BY DEF IInv
<1>1. CASE UNCHANGED vars
  BY <1>a, <1>1 DEF vars, TypeOK
<1>2. ASSUME NEW r \in Req, Count(r) PROVE TypeOK'
  BY <1>a, <1>2 DEF Count, Go, TypeOK, Pc
<1>3. ASSUME NEW r \in Req, Number(r) PROVE TypeOK'
  <2>1. PICK n \in Free : sequence' = n /\ id' = [id EXCEPT ![r] = n]
    BY <1>3 DEF Number
  <2>2. n \in Ids /\ n \in 0..MaxId
    BY <2>1, ContainersAssumption DEF Free, Ids, ContainersAssumption
  <2> QED
    BY <1>a, <1>3, <2>1, <2>2 DEF Number, Go, TypeOK, Pc
<1>4. ASSUME NEW r \in Req, AwaitSet(r) PROVE TypeOK'
  BY <1>a, <1>4 DEF AwaitSet, Lock, Go, TypeOK, Pc
<1>5. ASSUME NEW r \in Req, SetContainer(r) PROVE TypeOK'
  <2>0. "mounting" \in Pc /\ "failed" \in Pc
    BY DEF Pc
  <2>1. pc' \in [Req -> Pc] /\ daemon' \in [Req -> {"none", "starting", "up", "dead"}]
    <3>1. CASE Go(r, "setting", "mounting") /\ daemon' = [daemon EXCEPT ![r] = "starting"]
      BY <1>a, <2>0, <3>1, GoTyped DEF TypeOK
    <3>2. CASE Go(r, "setting", "failed") /\ UNCHANGED daemon
      BY <1>a, <2>0, <3>2, GoTyped DEF TypeOK
    <3> QED
      BY <1>5, <3>1, <3>2 DEF SetContainer
  <2>2. containers' \in [Ids -> Req \cup {NoReq, Elder}] /\ writers' \subseteq Req
    BY <1>a, <1>5 DEF SetContainer, Write, TypeOK
  <2>3. UNCHANGED <<sequence, id, runner, onSBExit, life, net, mounts, ops, crashed>>
    BY <1>5 DEF SetContainer, Write
  <2> QED
    BY <1>a, <2>1, <2>2, <2>3 DEF TypeOK
<1>6. ASSUME NEW r \in Req, MountStarts(r) PROVE TypeOK'
  BY <1>a, <1>6 DEF MountStarts, Go, TypeOK, Pc, Placed, Early
<1>7. ASSUME NEW r \in Req, Bind(r) PROVE TypeOK'
  <2>1. mounts' \subseteq Ids
    BY <1>a, <1>7 DEF Bind, Go, TypeOK, Placed, Early
  <2>2. pc' \in [Req -> Pc]
    <3>1. "prestart" \in Pc /\ "failed" \in Pc
      BY DEF Pc
    <3>2. Go(r, "binding", "prestart") \/ Go(r, "binding", "failed")
      BY <1>7 DEF Bind
    <3> QED
      BY <1>a, <3>1, <3>2, GoTyped
  <2>3. UNCHANGED <<table, id, runner, flist, life, net, ops, crashed>>
    BY <1>7 DEF Bind
  <2> QED
    BY <1>a, <2>1, <2>2, <2>3 DEF TypeOK
<1>8. ASSUME NEW r \in Req, NEW k \in Nic, PreStart(r, k) PROVE TypeOK'
  <2>1. pc[r] = "prestart" /\ (Plug(r, k) \/ PlugFails(r, k))
    BY <1>8 DEF PreStart, Go
  <2>2. id[r] \in Ids
    BY <1>a, <2>1 DEF Placed, Early
  <2>3. pc' \in [Req -> Pc]
    BY <1>a, <1>8 DEF PreStart, Go, TypeOK, Pc
  <2> QED
    BY <1>a, <1>8, <2>1, <2>2, <2>3, PlugTyped DEF PreStart, TypeOK
<1>9. ASSUME NEW r \in Req, Run(r) PROVE TypeOK'
  BY <1>a, <1>9 DEF Run, Go, TypeOK, Pc
<1>10. ASSUME NEW r \in Req, AssignRunner(r) PROVE TypeOK'
  BY <1>a, <1>10 DEF AssignRunner, Go, TypeOK, Pc
<1>11. ASSUME NEW r \in Req, Spawn(r) PROVE TypeOK'
  <2>1. proc' \in [Req -> {"none", "running", "dead"}]
    BY <1>a, <1>11 DEF Spawn, TypeOK
  <2>2. onStart' \in [Req -> {"none", "begin", "nics", "done"}]
    BY <1>a, <1>11 DEF Spawn, TypeOK
  <2> QED
    BY <1>a, <1>11, <2>1, <2>2 DEF Spawn, TypeOK
<1>12. ASSUME NEW r \in Req, Die(r) PROVE TypeOK'
  BY <1>a, <1>12 DEF Die, Unlink, TypeOK
<1>13. ASSUME NEW r \in Req, HookBegin(r) PROVE TypeOK'
  <2>1. netns' \subseteq Ids
    BY <1>a, <1>13 DEF HookBegin, TypeOK, Placed, Early
  <2>2. onStart' \in [Req -> {"none", "begin", "nics", "done"}]
    BY <1>a, <1>13 DEF HookBegin, HookGo, TypeOK
  <2>3. crashed' \in BOOLEAN
    BY <1>a, <1>13 DEF HookBegin, TypeOK
  <2> QED
    BY <1>a, <1>13, <2>1, <2>2, <2>3 DEF HookBegin, TypeOK
<1>14. ASSUME NEW r \in Req, NEW k \in Nic, PostStart(r, k) PROVE TypeOK'
  BY <1>a, <1>14, AttachTyped DEF PostStart, TypeOK
<1>15. ASSUME NEW r \in Req, HookDone(r) PROVE TypeOK'
  BY <1>a, <1>15 DEF HookDone, HookGo, TypeOK
<1>16. ASSUME NEW r \in Req, DestroyNetwork(r) PROVE TypeOK'
  <2>1. nics' \in [Req -> [Nic -> State]]
    <3>1. [k \in Nic |-> IF k \in Unbridged(r) THEN "destroyed" ELSE nics[r][k]] \in [Nic -> State]
      BY <1>a DEF TypeOK, State
    <3> QED
      BY <1>a, <1>16, <3>1 DEF DestroyNetwork, TypeOK
  <2>2. rules' \in [Port -> Ids \cup {0}]
    BY <1>a, <1>16 DEF DestroyNetwork, TypeOK
  <2>3. inside' \cup unported' \subseteq link' /\ link' \subseteq Ids \X Nic /\ netns' \subseteq Ids
    BY <1>a, <1>16 DEF DestroyNetwork, UnBridge, Unlink, TypeOK
  <2>4. cleanup' \in [Req -> Stage]
    BY <1>a, <1>16 DEF DestroyNetwork, CleanGo, TypeOK, Stage
  <2> QED
    BY <1>a, <1>16, <2>1, <2>2, <2>3, <2>4 DEF DestroyNetwork, TypeOK
<1>17. ASSUME NEW r \in Req, UnMountAll(r) PROVE TypeOK'
  BY <1>a, <1>17 DEF UnMountAll, CleanGo, Lock, TypeOK, Stage
<1>18. ASSUME NEW r \in Req, UnsetContainer(r) PROVE TypeOK'
  BY <1>a, <1>18 DEF UnsetContainer, CleanGo, Write, TypeOK, Stage
<1>19. ASSUME NEW r \in Req, DaemonExit(r) PROVE TypeOK'
  BY <1>a, <1>19 DEF DaemonExit, TypeOK, Exit
<1>20. ASSUME NEW r \in Req, Terminate(r) PROVE TypeOK'
  BY <1>a, <1>20 DEF Terminate, ExitGo, TypeOK, Exit
<1>21. ASSUME NEW r \in Req, Waited(r) PROVE TypeOK'
  BY <1>a, <1>21 DEF Waited, ExitGo, TypeOK, Exit
<1>22. ASSUME NEW r \in Req, CleanSandbox(r) PROVE TypeOK'
  <2>1. onSBExit' \in [Req -> Exit]
    BY <1>a, <1>22 DEF CleanSandbox, ExitGo, TypeOK, Exit
  <2>2. pc' \in [Req -> Pc]
    BY <1>a, <1>22 DEF CleanSandbox, Go, TypeOK, Pc
  <2> QED
    BY <1>a, <1>22, <2>1, <2>2 DEF CleanSandbox, TypeOK
<1>23. ASSUME NEW o \in Op, Find(o) PROVE TypeOK'
  <2>0. \E n \in Known \ Elders, ask \in Asks : Finds(o, containers[n], ask)
    BY <1>23 DEF Find
  <2>1. PICK n \in Known \ Elders, ask \in Asks : Finds(o, containers[n], ask)
    BY <2>0
  <2> DEFINE r == containers[n]
  <2>2. r \in Req
    BY <2>1 DEF IInv, Owned
  <2>1a. Finds(o, r, ask)
    BY <2>1
  <2> HIDE DEF r
  <2>3. what' \in [Op -> {<<>>} \cup (Asks \X Req)]
    <3>1. <<ask, r>> \in Asks \X Req
      BY <2>2
    <3> QED
      BY <1>a, <2>1a, <3>1 DEF TypeOK, Finds
  <2>4. nics' \in [Req -> [Nic -> State]]
    <3>1. CASE ask[1] = "nic-add"
      <4>1. ask[2] \in Nic /\ "unknown" \in State
        BY <3>1, ContainersAssumption DEF ContainersAssumption, State
      <4> QED
        BY <1>a, <2>1a, <2>2, <3>1, <4>1, NicChanges DEF Finds
    <3>2. CASE ask[1] # "nic-add"
      BY <1>a, <2>1a, <3>2 DEF TypeOK, Finds
    <3> QED
      BY <3>1, <3>2
  <2>5. op' \in [Op -> {"new", "found", "made", "done"}]
    BY <1>a, <2>1a DEF Finds, OpGo, TypeOK
  <2> QED
    BY <1>a, <1>23, <2>3, <2>4, <2>5 DEF Find, TypeOK
<1>24. ASSUME NEW o \in Op, NicAddPre(o) PROVE TypeOK'
  <2>1. op[o] = "found" /\ Does(o) = "nic-add"
    BY <1>24 DEF NicAddPre
  <2>2. On(o) \in Req /\ Arg(o) \in Nic /\ id[On(o)] \in Ids
    BY <1>a, <2>1, AskTyped DEF AskKnown, Placed
  <2>3. Plug(On(o), Arg(o)) \/ PlugFails(On(o), Arg(o))
    BY <1>24 DEF NicAddPre
  <2>4. op' \in [Op -> {"new", "found", "made", "done"}]
    BY <1>a, <1>24 DEF NicAddPre, OpGo, TypeOK
  <2>5. /\ nics' \in [Req -> [Nic -> State]]
        /\ inside' \cup unported' \subseteq link' /\ link' \subseteq Ids \X Nic
        /\ netns' \subseteq Ids /\ rules' \in [Port -> Ids \cup {0}]
    BY <1>a, <2>2, <2>3, PlugTyped
  <2> QED
    BY <1>a, <1>24, <2>4, <2>5 DEF NicAddPre, TypeOK
<1>25. ASSUME NEW o \in Op, NicAddPost(o) PROVE TypeOK'
  <2>1. op[o] = "made" /\ (Attach(On(o), Arg(o)) \/ AttachFails(On(o), Arg(o)))
    BY <1>25 DEF NicAddPost, OpGo
  <2>2. On(o) \in Req /\ Arg(o) \in Nic
    BY <1>a, <2>1, AskTyped DEF AskKnown
  <2>3. /\ nics' \in [Req -> [Nic -> State]]
        /\ inside' \cup unported' \subseteq link' /\ link' \subseteq Ids \X Nic
        /\ netns' \subseteq Ids /\ rules' \in [Port -> Ids \cup {0}]
    BY <1>a, <2>1, <2>2, AttachTyped
  <2>4. op' \in [Op -> {"new", "found", "made", "done"}]
    BY <1>a, <1>25 DEF NicAddPost, OpGo, TypeOK
  <2> QED
    BY <1>a, <1>25, <2>3, <2>4 DEF NicAddPost, TypeOK
<1>26. ASSUME NEW o \in Op, NicRemove(o) PROVE TypeOK'
  <2>1. op[o] = "found" /\ Does(o) = "nic-remove"
    BY <1>26 DEF NicRemove, OpGo
  <2>2. On(o) \in Req /\ Arg(o) \in Nic /\ "destroyed" \in State
    BY <1>a, <2>1, AskTyped DEF State
  <2>3. nics' \in [Req -> [Nic -> State]]
    BY <1>a, <1>26, <2>2, NicChanges DEF NicRemove
  <2>4. op' \in [Op -> {"new", "found", "made", "done"}]
    BY <1>a, <1>26 DEF NicRemove, OpGo, TypeOK
  <2>5. inside' \cup unported' \subseteq link' /\ link' \subseteq Ids \X Nic
    BY <1>a, <1>26 DEF NicRemove, UnBridge, Unlink, TypeOK
  <2> QED
    BY <1>a, <1>26, <2>3, <2>4, <2>5 DEF NicRemove, TypeOK
<1>27. ASSUME NEW o \in Op, ForwardAdd(o) PROVE TypeOK'
  <2>1. op[o] = "found" /\ Does(o) = "forward-add"
    BY <1>27 DEF ForwardAdd, OpGo
  <2>2. On(o) \in Req /\ id[On(o)] \in Ids
    BY <1>a, <2>1, AskTyped DEF AskKnown, Placed
  <2>3. rules' \in [Port -> Ids \cup {0}]
    BY <1>a, <1>27, <2>2 DEF ForwardAdd, TypeOK
  <2>4. op' \in [Op -> {"new", "found", "made", "done"}]
    BY <1>a, <1>27 DEF ForwardAdd, OpGo, TypeOK
  <2> QED
    BY <1>a, <1>27, <2>3, <2>4 DEF ForwardAdd, TypeOK
<1> QED
  BY <1>1, <1>2, <1>3, <1>4, <1>5, <1>6, <1>7, <1>8, <1>9, <1>10, <1>11, <1>12, <1>13,
     <1>14, <1>15, <1>16, <1>17, <1>18, <1>19, <1>20, <1>21, <1>22, <1>23, <1>24, <1>25,
     <1>26, <1>27, Zenon
  DEF Next, System, Environment, Creating, Running, Cleaning, Exiting, Operating

-----------------------------------------------------------------------------
(* Who owns a number. A step moves one request, and only three move one in *)
(* or out of the map, or give a number.                                    *)

Settled == UNCHANGED <<id, containers, cleanup, proc>>

\* The create command goes on, after setContainer.
Walk(r) ==
  /\ \/ /\ pc[r] \in {"mounting", "binding", "prestart"}
        /\ \E to \in {"binding", "prestart", "queued", "failed"} : pc' = [pc EXCEPT ![r] = to]
     \/ pc[r] = "queued" /\ pc' = [pc EXCEPT ![r] = "started"]
  /\ Settled

\* coreX starts or ends.
Runs(r) ==
  /\ pc[r] \in {"queued", "started"} /\ \E p : proc' = [proc EXCEPT ![r] = p]
  /\ UNCHANGED <<pc, id, containers, cleanup>>

\* cleanup goes on, before unsetContainer.
Cleans(r) ==
  /\ Over(r) \/ cleanup[r] # "no"
  /\ cleanup[r] # "gone"
  /\ \E to \in {"unmount", "setting"} : cleanup' = [cleanup EXCEPT ![r] = to]
  /\ UNCHANGED <<pc, id, containers, proc>>

Moves(r) ==
  \/ Count(r) \/ Number(r) \/ AwaitSet(r) \/ SetContainer(r)
  \/ Walk(r) \/ Runs(r) \/ Cleans(r) \/ UnsetContainer(r)

\* Every step moves one request, or none.
LEMMA Steps ==
  ASSUME IInv, [Next]_vars
  PROVE (pc' = pc /\ Settled) \/ \E r \in Req : Moves(r)
<1> USE DEF table, create, flist, life, net, ops, Alive
<1>1. CASE UNCHANGED vars
  BY <1>1 DEF vars, Settled
<1>2. ASSUME NEW r \in Req, Creating(r) PROVE (pc' = pc /\ Settled) \/ Moves(r)
  <2>1. CASE Number(r) \/ AwaitSet(r) \/ SetContainer(r)
    BY <2>1 DEF Moves
  <2>2. CASE MountStarts(r) \/ Bind(r) \/ Run(r) \/ AssignRunner(r)
    <3>1. Walk(r)
      BY <2>2 DEF MountStarts, Bind, Run, AssignRunner, Go, Walk, Settled
    <3> QED
      BY <3>1 DEF Moves
  <2>3. ASSUME NEW k \in Nic, PreStart(r, k) PROVE (pc' = pc /\ Settled) \/ Moves(r)
    <3>1. (pc' = pc /\ Settled) \/ Walk(r)
      BY <2>3 DEF PreStart, Go, Walk, Settled
    <3> QED
      BY <3>1 DEF Moves
  <2> QED
    BY <1>2, <2>1, <2>2, <2>3 DEF Creating
<1>3. ASSUME NEW r \in Req, Running(r) PROVE (pc' = pc /\ Settled) \/ Moves(r)
  <2>1. CASE Spawn(r)
    BY <2>1 DEF Spawn, Runs, Moves
  <2>2. CASE HookBegin(r) \/ HookDone(r) \/ \E k \in Nic : PostStart(r, k)
    BY <2>2 DEF HookBegin, HookDone, PostStart, Settled
  <2> QED
    BY <1>3, <2>1, <2>2 DEF Running
<1>4. ASSUME NEW r \in Req, Cleaning(r) PROVE Moves(r)
  <2>1. CASE DestroyNetwork(r)
    BY <2>1 DEF DestroyNetwork, CleanGo, Cleans, Moves
  <2>2. CASE UnMountAll(r)
    BY <2>2 DEF UnMountAll, CleanGo, Lock, Cleans, Moves
  <2>3. CASE UnsetContainer(r)
    BY <2>3 DEF Moves
  <2> QED
    BY <1>4, <2>1, <2>2, <2>3 DEF Cleaning
<1>5. ASSUME NEW r \in Req, Exiting(r) PROVE (pc' = pc /\ Settled) \/ Moves(r)
  <2>1. CASE Terminate(r) \/ Waited(r)
    BY <2>1 DEF Terminate, Waited, Settled
  <2>2. CASE CleanSandbox(r)
    <3>1. (pc' = pc /\ Settled) \/ Walk(r)
      BY <2>2 DEF CleanSandbox, Go, Walk, Settled
    <3> QED
      BY <3>1 DEF Moves
  <2> QED
    BY <1>5, <2>1, <2>2 DEF Exiting
<1>6. ASSUME NEW o \in Op, Operating(o) PROVE pc' = pc /\ Settled
  BY <1>6 DEF Operating, NicAddPre, NicAddPost, NicRemove, ForwardAdd, Settled
<1>7. ASSUME NEW r \in Req, Count(r) \/ Die(r) \/ DaemonExit(r)
      PROVE (pc' = pc /\ Settled) \/ Moves(r)
  <2>1. CASE Count(r)
    BY <2>1 DEF Moves
  <2>2. CASE Die(r)
    BY <2>2 DEF Die, IInv, Placed, Runs, Moves
  <2>3. CASE DaemonExit(r)
    BY <2>3 DEF DaemonExit, Settled
  <2> QED
    BY <1>7, <2>1, <2>2, <2>3
<1>8. ASSUME NEW o \in Op, Find(o) PROVE pc' = pc /\ Settled
  BY <1>8 DEF Find, Settled
<1> QED
  BY <1>1, <1>2, <1>3, <1>4, <1>5, <1>6, <1>7, <1>8, Zenon DEF Next, System, Environment

\* Where the create command, coreX and cleanup are.
LEMMA PlacedNext ==
  ASSUME IInv, (pc' = pc /\ Settled) \/ \E r \in Req : Moves(r)
  PROVE Placed'
<1>a. TypeOK /\ Placed
  BY DEF IInv
<1>1. CASE pc' = pc /\ Settled
  BY <1>a, <1>1 DEF Placed, Settled
<1>2. ASSUME NEW r \in Req, Moves(r) PROVE Placed'
  <2> USE DEF create, life, Alive
  <2>1. CASE Count(r)
    BY <1>a, <2>1 DEF Count, Go, Placed, TypeOK, Early
  <2>2. CASE Number(r)
    <3>1. PICK n \in Free : id' = [id EXCEPT ![r] = n]
      BY <2>2 DEF Number
    <3>2. n \in Ids /\ pc[r] = "counted" /\ pc' = [pc EXCEPT ![r] = "numbered"]
      BY <2>2, <3>1 DEF Number, Go, Free
    <3>3. proc' = proc /\ cleanup' = cleanup
      BY <2>2 DEF Number
    <3> QED
      BY <1>a, <3>1, <3>2, <3>3 DEF Placed, TypeOK, Early
  <2>3. CASE AwaitSet(r)
    BY <1>a, <2>3 DEF AwaitSet, Go, Placed, TypeOK, Early
  <2>4. CASE SetContainer(r)
    <3>1. /\ pc[r] = "setting" /\ proc' = proc /\ cleanup' = cleanup /\ id' = id
          /\ pc' = [pc EXCEPT ![r] = "mounting"] \/ pc' = [pc EXCEPT ![r] = "failed"]
      BY <2>4 DEF SetContainer, Go
    <3> QED
      BY <1>a, <3>1 DEF Placed, TypeOK, Early
  <2>5. CASE Walk(r)
    BY <1>a, <2>5 DEF Walk, Settled, Placed, TypeOK, Early
  <2>6. CASE Runs(r)
    BY <1>a, <2>6 DEF Runs, Placed, TypeOK
  <2>7. CASE Cleans(r)
    <3>1. pc[r] \in {"queued", "started", "failed"}
      BY <1>a, <2>7 DEF Cleans, Over, Placed
    <3> QED
      BY <1>a, <2>7, <3>1 DEF Cleans, Placed, TypeOK
  <2>8. CASE UnsetContainer(r)
    <3>1. /\ cleanup[r] = "setting" /\ cleanup' = [cleanup EXCEPT ![r] = "gone"]
          /\ UNCHANGED <<pc, id, proc>>
      BY <2>8 DEF UnsetContainer, CleanGo
    <3> QED
      BY <1>a, <3>1 DEF Placed, TypeOK
  <2> QED
    BY <1>2, <2>1, <2>2, <2>3, <2>4, <2>5, <2>6, <2>7, <2>8 DEF Moves
<1> QED
  BY <1>1, <1>2

\* A step that changes no entry, no number and nobody's membership.
LEMMA Unmoved ==
  ASSUME IInv, UNCHANGED <<id, containers>>,
         \A r \in Req : (InMap(r)' <=> InMap(r)) /\ (Pending(r)' <=> Pending(r))
  PROVE Reserved' /\ Owned' /\ OwnNumber'
<1>1. Reserved' /\ Owned'
  BY DEF IInv, Reserved, Owned, Known
<1>2. \A n \in Known' \ Elders : containers'[n] \in Req
  BY <1>1 DEF Owned
<1>3. \A n \in Known \ Elders : InMap(containers[n]) /\ id[containers[n]] = n /\ containers[n] \in Req
  BY DEF IInv, OwnNumber, Owned
<1>4. \A n \in Known' \ Elders : InMap(containers[n])' /\ id'[containers'[n]] = n
  <2> SUFFICES ASSUME NEW n \in Known \ Elders PROVE InMap(containers[n])' /\ id[containers[n]] = n
    BY DEF Known
  <2> DEFINE s == containers[n]
  <2>1. s \in Req /\ InMap(s) /\ id[s] = n /\ s' = s
    BY <1>3
  <2>2. pc'[s] \notin {"new", "refused", "counted", "numbered", "setting"} /\ cleanup'[s] # "gone"
    BY <2>1 DEF InMap
  <2> QED
    BY <2>1, <2>2 DEF InMap
<1> QED
  BY <1>1, <1>4 DEF IInv, OwnNumber

\* getNextSequence gives a number that nobody has.
LEMMA NumberOwned ==
  ASSUME IInv, NEW r \in Req, Number(r)
  PROVE Reserved' /\ Owned' /\ OwnNumber'
<1> USE DEF Alive, life
<1>1. PICK n \in Free : /\ id' = [id EXCEPT ![r] = n]
                        /\ \A s \in Req : id[s] = n => ~Pending(s)
  <2>1. PICK n \in Free : /\ \A s \in Req : id[s] = n => ~Pending(s) /\ ~Lingering(s)
                          /\ id' = [id EXCEPT ![r] = n]
    BY Zenon DEF Number
  <2> QED
    BY <2>1
<1>2. /\ containers' = containers /\ cleanup' = cleanup /\ pc[r] = "counted"
      /\ pc' = [pc EXCEPT ![r] = "numbered"]
  BY DEF Number, Go
<1>3. n \in Ids /\ containers[n] = NoReq
  BY <1>1 DEF Free, Known
<1>t. pc \in [Req -> Pc] /\ id \in [Req -> Ids \cup {0}]
  BY DEF IInv, TypeOK
<1>4. ~InMap(r) /\ ~InMap(r)' /\ ~Pending(r) /\ Pending(r)' /\ id'[r] = n
  BY <1>1, <1>2, <1>t DEF InMap, Pending
<1>5. \A s \in Req : s # r => (InMap(s)' <=> InMap(s)) /\ (Pending(s)' <=> Pending(s)) /\ id'[s] = id[s]
  BY <1>1, <1>2, <1>t DEF InMap, Pending
<1>6. Reserved' /\ Owned'
  <2>1. \A s \in Req : Pending(s)' => containers'[id'[s]] = NoReq
    BY <1>2, <1>3, <1>4, <1>5 DEF IInv, Reserved
  <2> QED
    BY <1>2, <2>1 DEF IInv, Reserved, Owned, Known
<1>7. \A s \in Req : InMap(s)' => containers'[id'[s]] = s
  BY <1>2, <1>4, <1>5 DEF IInv, OwnNumber
<1>8. \A m \in Known' \ Elders : InMap(containers[m])' /\ id'[containers'[m]] = m
  <2> SUFFICES ASSUME NEW m \in Known \ Elders PROVE InMap(containers[m])' /\ id'[containers[m]] = m
    BY <1>2 DEF Known
  <2> DEFINE s == containers[m]
  <2>1. s \in Req /\ InMap(s) /\ id[s] = m
    BY DEF IInv, OwnNumber, Owned
  <2>2. s # r /\ s' = s
    BY <1>2, <1>4, <2>1
  <2>3. pc'[s] \notin {"new", "refused", "counted", "numbered", "setting"} /\ cleanup'[s] # "gone"
    BY <1>2, <1>t, <2>1, <2>2 DEF InMap
  <2> QED
    BY <1>5, <2>1, <2>2, <2>3 DEF InMap
<1>9. \A s \in Req : s # r /\ (Pending(s) \/ InMap(s)) => id[s] # n
  <2> SUFFICES ASSUME NEW s \in Req, InMap(s) PROVE id[s] # n
    BY <1>1
  <2>1. containers[id[s]] = s
    BY DEF IInv, OwnNumber
  <2> QED
    BY <1>3, <2>1, ContainersAssumption DEF ContainersAssumption
<1>10. \A s, t \in Req : s # t /\ Pending(s)' /\ (Pending(t)' \/ InMap(t)') => id'[s] # id'[t]
  BY <1>4, <1>5, <1>9 DEF IInv, OwnNumber
<1> QED
  BY <1>2, <1>6, <1>7, <1>8, <1>10 DEF IInv, OwnNumber

\* setContainer takes the entry that was free.
LEMMA SetOwned ==
  ASSUME IInv, NEW r \in Req, SetContainer(r)
  PROVE Reserved' /\ Owned' /\ OwnNumber'
<1> USE DEF Alive, life
<1>1. /\ containers' = [containers EXCEPT ![id[r]] = r]
      /\ id' = id /\ cleanup' = cleanup /\ pc[r] = "setting"
      /\ pc' = [pc EXCEPT ![r] = "mounting"] \/ pc' = [pc EXCEPT ![r] = "failed"]
  BY DEF SetContainer, Write, Go
<1>t. /\ pc \in [Req -> Pc] /\ id \in [Req -> Ids \cup {0}]
      /\ containers \in [Ids -> Req \cup {NoReq, Elder}]
      /\ NoReq \notin Req /\ Elder \notin Req /\ NoReq # Elder
  BY ContainersAssumption DEF IInv, TypeOK, ContainersAssumption
<1>2. id[r] \in Ids /\ cleanup[r] = "no" /\ Pending(r) /\ containers[id[r]] = NoReq
  BY <1>1, <1>t DEF IInv, Placed, Early, Pending, Reserved
<1>3. ~InMap(r) /\ InMap(r)' /\ ~Pending(r)'
  BY <1>1, <1>2, <1>t DEF InMap, Pending
<1>4. \A s \in Req : s # r => (InMap(s)' <=> InMap(s)) /\ (Pending(s)' <=> Pending(s))
  BY <1>1, <1>t DEF InMap, Pending
<1>5. \A s \in Req : s # r /\ (Pending(s) \/ InMap(s)) => id[s] # id[r]
  BY <1>2 DEF IInv, OwnNumber
<1>6. \A m \in Ids : m # id[r] => containers'[m] = containers[m]
  BY <1>1, <1>t
<1>7. containers'[id[r]] = r
  BY <1>1, <1>2, <1>t
<1>8. \A s \in Req : Pending(s)' \/ InMap(s)' => id[s] \in Ids
  BY <1>1, <1>2, <1>4 DEF IInv, Placed, Early, Pending, InMap
<1>9. Reserved'
  <2>1. \A s \in Req : Pending(s)' => containers'[id'[s]] = NoReq
    BY <1>1, <1>3, <1>4, <1>5, <1>6, <1>8 DEF IInv, Reserved
  <2> QED
    BY <2>1 DEF Reserved
<1>10. Owned'
  BY <1>6, <1>7, <1>t DEF IInv, Owned, Known
<1>11. \A m \in Elders : containers'[m] = Elder
  BY <1>2, <1>6, <1>t, ContainersAssumption DEF IInv, OwnNumber, ContainersAssumption
<1>12. \A s \in Req : InMap(s)' => containers'[id'[s]] = s
  BY <1>1, <1>4, <1>5, <1>6, <1>7, <1>8 DEF IInv, OwnNumber
<1>13. \A m \in Known' \ Elders : InMap(containers[m])' /\ id'[containers'[m]] = m
  <2> SUFFICES ASSUME NEW m \in Known' \ Elders
               PROVE InMap(containers[m])' /\ id'[containers'[m]] = m
    OBVIOUS
  <2> DEFINE s == containers'[m]
  <2>1. s \in Req /\ m \in Ids
    BY <1>10 DEF Owned, Known
  <2>2. id[s] = m /\ (s = r \/ InMap(s))
    <3>1. CASE m = id[r]
      BY <1>7, <3>1
    <3>2. CASE m # id[r]
      <4>1. s = containers[m] /\ m \in Known \ Elders
        BY <1>6, <2>1, <3>2 DEF Known
      <4> QED
        BY <4>1 DEF IInv, OwnNumber
    <3> QED
      BY <3>1, <3>2
  <2>3. pc'[s] \notin {"new", "refused", "counted", "numbered", "setting"} /\ cleanup'[s] # "gone"
    <3>1. CASE s = r
      BY <1>1, <1>2, <1>t, <3>1
    <3>2. CASE s # r
      BY <1>1, <1>t, <2>1, <2>2, <3>2 DEF InMap
    <3> QED
      BY <3>1, <3>2
  <2> QED
    BY <1>1, <2>2, <2>3 DEF InMap
<1>14. \A s, t \in Req : s # t /\ Pending(s)' /\ (Pending(t)' \/ InMap(t)') => id'[s] # id'[t]
  BY <1>1, <1>3, <1>4, <1>5 DEF IInv, OwnNumber
<1> QED
  BY <1>9, <1>10, <1>11, <1>12, <1>13, <1>14 DEF OwnNumber

\* unsetContainer frees the entry that is the request's own.
LEMMA UnsetOwned ==
  ASSUME IInv, NEW r \in Req, UnsetContainer(r)
  PROVE Reserved' /\ Owned' /\ OwnNumber'
<1> USE DEF Alive, create, table
<1>1. /\ containers' = [containers EXCEPT ![id[r]] = NoReq]
      /\ id' = id /\ pc' = pc /\ cleanup[r] = "setting"
      /\ cleanup' = [cleanup EXCEPT ![r] = "gone"]
  BY DEF UnsetContainer, Write, CleanGo
<1>t. /\ pc \in [Req -> Pc] /\ id \in [Req -> Ids \cup {0}] /\ cleanup \in [Req -> Stage]
      /\ containers \in [Ids -> Req \cup {NoReq, Elder}]
      /\ NoReq \notin Req /\ Elder \notin Req /\ NoReq # Elder
  BY ContainersAssumption DEF IInv, TypeOK, ContainersAssumption
<1>2. InMap(r) /\ id[r] \in Ids
  BY <1>1 DEF IInv, Placed, Early, InMap
<1>3. containers[id[r]] = r
  BY <1>2 DEF IInv, OwnNumber
<1>4. ~InMap(r)'
  BY <1>1, <1>t DEF InMap
<1>5. \A s \in Req : s # r => (InMap(s)' <=> InMap(s))
  BY <1>1, <1>t DEF InMap
<1>6. \A s \in Req : Pending(s)' <=> Pending(s)
  BY <1>1 DEF Pending
<1>7. \A m \in Ids : m # id[r] => containers'[m] = containers[m]
  BY <1>1, <1>t
<1>8. containers'[id[r]] = NoReq
  BY <1>1, <1>2, <1>t
<1>9. Reserved'
  <2>1. \A s \in Req : Pending(s) => id[s] \in Ids
    BY DEF IInv, Placed, Early, Pending
  <2>2. \A s \in Req : Pending(s)' => containers'[id'[s]] = NoReq
    BY <1>1, <1>6, <1>7, <1>8, <2>1 DEF IInv, Reserved
  <2> QED
    BY <2>2 DEF Reserved
<1>10. \A m \in Known' : m \in Known /\ m # id[r] /\ containers'[m] = containers[m]
  BY <1>7, <1>8 DEF Known
<1>11. Owned'
  BY <1>10 DEF IInv, Owned
<1>12. \A m \in Elders : containers'[m] = Elder
  BY <1>3, <1>7, <1>t, ContainersAssumption DEF IInv, OwnNumber, ContainersAssumption
<1>13. \A s \in Req : InMap(s)' => containers'[id'[s]] = s
  <2> SUFFICES ASSUME NEW s \in Req, s # r, InMap(s) PROVE containers'[id[s]] = s
    BY <1>1, <1>4, <1>5
  <2>1. containers[id[s]] = s /\ id[s] \in Ids
    BY DEF IInv, OwnNumber, Placed, Early, InMap
  <2> QED
    BY <1>3, <1>7, <2>1
<1>14. \A m \in Known' \ Elders : InMap(containers[m])' /\ id'[containers'[m]] = m
  <2> SUFFICES ASSUME NEW m \in Known' \ Elders
               PROVE InMap(containers[m])' /\ id'[containers'[m]] = m
    OBVIOUS
  <2> DEFINE s == containers'[m]
  <2>1. m \in Known \ Elders /\ m # id[r] /\ s = containers[m]
    BY <1>10
  <2>2. s \in Req /\ InMap(s) /\ id[s] = m
    BY <2>1 DEF IInv, OwnNumber, Owned
  <2>3. s # r
    BY <2>1, <2>2
  <2>4. pc'[s] \notin {"new", "refused", "counted", "numbered", "setting"} /\ cleanup'[s] # "gone"
    BY <1>1, <1>t, <2>2, <2>3 DEF InMap
  <2> QED
    BY <1>1, <2>2, <2>4 DEF InMap
<1>15. \A s, t \in Req : s # t /\ Pending(s)' /\ (Pending(t)' \/ InMap(t)') => id'[s] # id'[t]
  BY <1>1, <1>4, <1>5, <1>6 DEF IInv, OwnNumber
<1> QED
  BY <1>9, <1>11, <1>12, <1>13, <1>14, <1>15 DEF OwnNumber

\* Numbers keep their owners.
LEMMA OwnedNext ==
  ASSUME IInv, (pc' = pc /\ Settled) \/ \E r \in Req : Moves(r)
  PROVE Reserved' /\ Owned' /\ OwnNumber'
<1>t. pc \in [Req -> Pc] /\ cleanup \in [Req -> Stage]
  BY DEF IInv, TypeOK
<1>1. CASE pc' = pc /\ Settled
  <2>1. \A r \in Req : (InMap(r)' <=> InMap(r)) /\ (Pending(r)' <=> Pending(r))
    BY <1>1 DEF Settled, InMap, Pending
  <2> QED
    BY <1>1, <2>1, Unmoved DEF Settled
<1>2. ASSUME NEW r \in Req, Moves(r) PROVE Reserved' /\ Owned' /\ OwnNumber'
  <2> USE DEF create, life, Alive, table
  <2>1. CASE Number(r) \/ SetContainer(r) \/ UnsetContainer(r)
    BY <2>1, NumberOwned, SetOwned, UnsetOwned
  <2>2. CASE Count(r) \/ AwaitSet(r) \/ Walk(r)
    <3>1. UNCHANGED <<id, containers, cleanup>>
      BY <2>2 DEF Count, AwaitSet, Lock, Walk, Settled
    <3>2. \A s \in Req : (InMap(s)' <=> InMap(s)) /\ (Pending(s)' <=> Pending(s))
      BY <1>t, <2>2, <3>1 DEF Count, AwaitSet, Go, Walk, InMap, Pending
    <3> QED
      BY <3>1, <3>2, Unmoved
  <2>3. CASE Runs(r)
    <3>1. \A s \in Req : (InMap(s)' <=> InMap(s)) /\ (Pending(s)' <=> Pending(s))
      BY <2>3 DEF Runs, InMap, Pending
    <3> QED
      BY <2>3, <3>1, Unmoved DEF Runs
  <2>4. CASE Cleans(r)
    <3>1. \A s \in Req : (InMap(s)' <=> InMap(s)) /\ (Pending(s)' <=> Pending(s))
      BY <1>t, <2>4 DEF Cleans, InMap, Pending
    <3> QED
      BY <2>4, <3>1, Unmoved DEF Cleans
  <2> QED
    BY <1>2, <2>1, <2>2, <2>3, <2>4 DEF Moves
<1> QED
  BY <1>1, <1>2

-----------------------------------------------------------------------------
(* Commands on containers, and the whole.                                  *)

\* No create command goes back to before it had its number.
LEMMA NeverEarly ==
  ASSUME IInv, (pc' = pc /\ Settled) \/ \E r \in Req : Moves(r)
  PROVE \A s \in Req : pc[s] \notin Early => pc'[s] \notin Early
<1>t. pc \in [Req -> Pc]
  BY DEF IInv, TypeOK
<1>1. ASSUME NEW r \in Req, Moves(r)
      PROVE \A s \in Req : pc[s] \notin Early => pc'[s] \notin Early
  <2> USE DEF create, Early, Go, Alive
  <2>1. CASE Count(r) \/ AwaitSet(r) \/ Walk(r)
    BY <1>t, <2>1 DEF Count, AwaitSet, Walk
  <2>2. CASE Number(r)
    <3>1. pc' = [pc EXCEPT ![r] = "numbered"]
      BY <2>2 DEF Number
    <3> QED
      BY <1>t, <3>1
  <2>3. CASE SetContainer(r)
    <3>1. pc' = [pc EXCEPT ![r] = "mounting"] \/ pc' = [pc EXCEPT ![r] = "failed"]
      BY <2>3 DEF SetContainer
    <3> QED
      BY <1>t, <3>1
  <2>4. CASE Runs(r) \/ Cleans(r) \/ UnsetContainer(r)
    BY <2>4 DEF Runs, Cleans, UnsetContainer
  <2> QED
    BY <1>1, <2>1, <2>2, <2>3, <2>4 DEF Moves
<1> QED
  BY <1>1

\* A command keeps to what it has found.
LEMMA AskNext ==
  ASSUME IInv, [Next]_vars,
         \A s \in Req : pc[s] \notin Early => pc'[s] \notin Early
  PROVE AskKnown'
<1> USE DEF table, create, flist, life, net, ops, Alive
<1>a. TypeOK /\ AskKnown
  BY DEF IInv
<1>t. op \in [Op -> {"new", "found", "made", "done"}] /\ what \in [Op -> {<<>>} \cup (Asks \X Req)]
  BY DEF IInv, TypeOK
<1>0. ASSUME UNCHANGED <<op, what>> PROVE AskKnown'
  <2> SUFFICES ASSUME NEW o \in Op, op[o] \in {"found", "made"}
               PROVE /\ what[o] \in Asks \X Req /\ pc'[On(o)] \notin Early
                     /\ op[o] = "made" => Does(o) = "nic-add"
    BY <1>0 DEF AskKnown, On, Does
  <2>1. On(o) \in Req
    BY <1>a, AskTyped
  <2> QED
    BY <1>a, <2>1 DEF AskKnown
<1>1. CASE UNCHANGED vars
  BY <1>0, <1>1 DEF vars
<1>2. ASSUME NEW r \in Req,
             Creating(r) \/ Running(r) \/ Cleaning(r) \/ Exiting(r)
               \/ Count(r) \/ Die(r) \/ DaemonExit(r)
      PROVE UNCHANGED <<op, what>>
  <2>1. CASE Creating(r)
    BY <2>1 DEF Creating, Number, AwaitSet, SetContainer, MountStarts, Bind, PreStart, Run,
      AssignRunner
  <2>2. CASE Running(r)
    BY <2>2 DEF Running, Spawn, HookBegin, PostStart, HookDone
  <2>3. CASE Cleaning(r)
    BY <2>3 DEF Cleaning, DestroyNetwork, UnMountAll, UnsetContainer
  <2>4. CASE Exiting(r)
    BY <2>4 DEF Exiting, Terminate, Waited, CleanSandbox
  <2>5. CASE Count(r) \/ Die(r) \/ DaemonExit(r)
    BY <2>5 DEF Count, Die, DaemonExit
  <2> QED
    BY <1>2, <2>1, <2>2, <2>3, <2>4, <2>5
<1>3. ASSUME NEW o \in Op, Find(o) PROVE AskKnown'
  <2>0. \E n \in Known \ Elders, ask \in Asks : Finds(o, containers[n], ask)
    BY <1>3 DEF Find
  <2>1. PICK n \in Known \ Elders, ask \in Asks : Finds(o, containers[n], ask)
    BY <2>0
  <2>2. PICK r \in Req : r = containers[n]
    BY <2>1 DEF IInv, Owned
  <2>3. InMap(r)
    BY <2>1, <2>2 DEF IInv, OwnNumber
  <2>4. pc' = pc /\ pc[r] \notin Early
    BY <1>3, <2>3 DEF Find, InMap, Early
  <2>5. op' = [op EXCEPT ![o] = "found"] /\ what' = [what EXCEPT ![o] = <<ask, r>>]
    BY <2>1, <2>2 DEF Finds, OpGo
  <2> SUFFICES ASSUME NEW q \in Op, op'[q] \in {"found", "made"}
               PROVE /\ what'[q] \in Asks \X Req /\ pc[what'[q][2]] \notin Early
                     /\ op'[q] = "made" => what'[q][1][1] = "nic-add"
    BY <2>4 DEF AskKnown, On, Does
  <2>6. CASE q = o
    BY <1>t, <2>1, <2>4, <2>5, <2>6
  <2>7. CASE q # o
    BY <1>a, <1>t, <2>5, <2>7 DEF AskKnown, On, Does
  <2> QED
    BY <2>6, <2>7
<1>4. ASSUME NEW o \in Op, Operating(o) PROVE AskKnown'
  <2>1. /\ pc' = pc /\ what' = what
        /\ \/ op' = [op EXCEPT ![o] = "done"]
           \/ op' = [op EXCEPT ![o] = "made"] /\ op[o] = "found" /\ Does(o) = "nic-add"
    BY <1>4 DEF Operating, NicAddPre, NicAddPost, NicRemove, ForwardAdd, OpGo
  <2> QED
    BY <1>a, <1>t, <2>1 DEF AskKnown, On, Does
<1> QED
  BY <1>0, <1>1, <1>2, <1>3, <1>4, Zenon DEF Next, System, Environment

\* The invariant, at first and from each state to the next.
LEMMA IInvInit == Init => IInv
<1> SUFFICES ASSUME Init PROVE IInv
  OBVIOUS
<1>1. AskKnown /\ Placed
  BY DEF Init, AskKnown, Placed, Early
<1>2. Known \subseteq Elders
  BY DEF Init, Known
<1>3. \A n \in Elders : containers[n] = Elder
  BY ContainersAssumption DEF ContainersAssumption, Init
<1>4. Reserved /\ Owned /\ OwnNumber
  BY <1>2, <1>3 DEF Init, Reserved, Owned, OwnNumber, Pending, InMap
<1> QED
  BY <1>1, <1>4, TypeInit DEF IInv

LEMMA IInvNext == IInv /\ [Next]_vars => IInv'
<1> SUFFICES ASSUME IInv, [Next]_vars PROVE IInv'
  OBVIOUS
<1>1. (pc' = pc /\ Settled) \/ \E r \in Req : Moves(r)
  BY Steps
<1>2. TypeOK'
  BY TypeNext
<1>3. Placed' /\ Reserved' /\ Owned' /\ OwnNumber'
  BY <1>1, PlacedNext, OwnedNext
<1>4. AskKnown'
  BY <1>1, NeverEarly, AskNext
<1> QED
  BY <1>2, <1>3, <1>4 DEF IInv

\* Create commands, cleanups, hooks and commands keep every variable to its type.
THEOREM TypeCorrect == Spec => []TypeOK
<1>1. IInv => TypeOK
  BY DEF IInv
<1> QED
  BY <1>1, IInvInit, IInvNext, PTL DEF Spec

\* Whatever the create commands and the ends of containers overtake, a container
\* that is in the map is there under its own number, and nobody has that number too.
THEOREM OwnNumberHolds == Spec => []OwnNumber
<1>1. IInv => OwnNumber
  BY DEF IInv
<1> QED
  BY <1>1, IInvInit, IInvNext, PTL DEF Spec
-----------------------------------------------------------------------------
(* What bears a number on the host belongs to a container that is not      *)
(* cleaned up yet, or to the commands on it.                               *)

\* In the map, and its network not yet destroyed; its mounts not yet taken down.
Wired(r) == InMap(r) /\ cleanup[r] = "no"
Rooted(r) == InMap(r) /\ cleanup[r] \in {"no", "unmount"}

\* A command knows what it asked for, and of which container, from then on.
Asked ==
  \A o \in Op :
    /\ op[o] = "new" => what[o] = <<>>
    /\ what[o] # <<>> => what[o] \in Asks \X Req /\ pc[On(o)] \notin Early

\* Nothing is cleaned up while coreX runs or is still to run.
CleanedOver == \A r \in Req : cleanup[r] # "no" => Over(r)

\* A number that is not given yet is 0.
Numberless == \A r \in Req : pc[r] \in Early => id[r] = 0

NetnsOwned == \A n \in netns : \E r \in Req : id[r] = n /\ Wired(r)

MountsOwned == \A n \in mounts : \E r \in Req : id[r] = n /\ Rooted(r)

RulesOwned ==
  \A p \in Port : rules[p] = 0 \/ Adds(rules[p]) \/
    \E r \in Req : id[r] = rules[p] /\ Wired(r) /\ nics[r]["default"] # "absent"

LinksOwned ==
  \A n \in Ids, k \in Nic \ {"bridge"} : <<n, k>> \in link \ unported => Adds(n) \/
    \E r \in Req : id[r] = n /\ Wired(r) /\ nics[r][k] # "absent"

\* The link of a bridge stays, but in coreX's namespace it goes with that.
BridgesOwned ==
  \A n \in Ids : <<n, "bridge">> \in link => Adds(n) \/ Unbound(n) \/
    \E r \in Req : id[r] = n /\ Wired(r) /\ <<n, "bridge">> \in inside

Tidy ==
  /\ Asked /\ CleanedOver /\ Numberless /\ NetnsOwned /\ MountsOwned
  /\ RulesOwned /\ LinksOwned /\ BridgesOwned

\* The steps that change neither what is on the host nor how far an end is.
Aside == UNCHANGED <<proc, cleanup, net, mounts, ops>>

Touches(r) ==
  \/ MountStarts(r) \/ Bind(r) \/ (\E k \in Nic : PreStart(r, k))
  \/ Spawn(r) \/ Die(r) \/ HookBegin(r) \/ (\E k \in Nic : PostStart(r, k))
  \/ Cleaning(r) \/ CleanSandbox(r)

LEMMA Kinds ==
  ASSUME [Next]_vars
  PROVE \/ Aside
        \/ \E r \in Req : Touches(r)
        \/ \E o \in Op : Find(o) \/ Operating(o)
<1> USE DEF table, create, flist, life, net, ops
<1>1. CASE UNCHANGED vars
  BY <1>1 DEF vars, Aside
<1>2. ASSUME NEW r \in Req, Creating(r) PROVE Aside \/ Touches(r)
  BY <1>2 DEF Creating, Number, AwaitSet, SetContainer, Run, AssignRunner, Aside, Touches
<1>3. ASSUME NEW r \in Req, Running(r) PROVE Aside \/ Touches(r)
  BY <1>3 DEF Running, HookDone, Aside, Touches
<1>4. ASSUME NEW r \in Req, Exiting(r) PROVE Aside \/ Touches(r)
  BY <1>4 DEF Exiting, Terminate, Waited, Aside, Touches
<1>5. ASSUME NEW r \in Req, Cleaning(r) \/ Count(r) \/ Die(r) \/ DaemonExit(r)
      PROVE Aside \/ Touches(r)
  BY <1>5 DEF Count, DaemonExit, Aside, Touches
<1> QED
  BY <1>1, <1>2, <1>3, <1>4, <1>5, Zenon DEF Next, System, Environment

\* Once it is given, a number stays.
LEMMA IdsStay ==
  ASSUME IInv, [Next]_vars, NEW s \in Req, pc[s] \notin Early
  PROVE id'[s] = id[s] /\ pc'[s] \notin Early
<1>1. (pc' = pc /\ Settled) \/ \E r \in Req : Moves(r)
  BY Steps
<1>2. pc'[s] \notin Early
  BY <1>1, NeverEarly
<1>3. ASSUME NEW r \in Req, Moves(r) PROVE id'[s] = id[s]
  <2>1. CASE Number(r)
    <3>1. PICK n \in Free : id' = [id EXCEPT ![r] = n]
      BY <2>1 DEF Number
    <3>2. r # s
      BY <2>1 DEF Number, Go, Early
    <3> QED
      BY <3>1, <3>2 DEF IInv, TypeOK
  <2>2. CASE ~Number(r)
    BY <1>3, <2>2 DEF Moves, Count, AwaitSet, SetContainer, Walk, Settled, Runs, Cleans,
                      UnsetContainer, create
  <2> QED
    BY <2>1, <2>2
<1> QED
  BY <1>1, <1>2, <1>3 DEF Settled

\* cleanup goes on by its own three steps.
LEMMA CleanupSteps ==
  ASSUME [Next]_vars
  PROVE cleanup' = cleanup \/ \E r \in Req : Cleaning(r)
<1> USE DEF table, create, flist, life, net, ops
<1>1. ASSUME NEW r \in Req, Touches(r), ~Cleaning(r) PROVE cleanup' = cleanup
  BY <1>1 DEF Touches, MountStarts, Bind, PreStart, Spawn, Die, HookBegin, PostStart,
              CleanSandbox
<1>2. ASSUME NEW o \in Op, Find(o) \/ Operating(o) PROVE cleanup' = cleanup
  BY <1>2 DEF Find, Operating, NicAddPre, NicAddPost, NicRemove, ForwardAdd
<1> QED
  BY <1>1, <1>2, Kinds DEF Aside

\* What is over stays over.
LEMMA OverStays ==
  ASSUME IInv, [Next]_vars, NEW s \in Req, Over(s)
  PROVE Over(s)'
<1>t. /\ pc \in [Req -> Pc] /\ proc \in [Req -> {"none", "running", "dead"}]
      /\ Placed
  BY DEF IInv, TypeOK
<1>1. CASE pc[s] = "failed"
  <2>1. (pc' = pc /\ Settled) \/ \E r \in Req : Moves(r)
    BY Steps
  <2>2. ASSUME NEW r \in Req, Moves(r) PROVE pc'[s] = "failed"
    <3>1. CASE Count(r) \/ Number(r) \/ AwaitSet(r)
      BY <1>t, <1>1, <3>1 DEF Count, Number, AwaitSet, Go
    <3>2. CASE SetContainer(r)
      <4>1. \E to : Go(r, "setting", to)
        BY <3>2 DEF SetContainer
      <4> QED
        BY <1>t, <1>1, <4>1 DEF Go
    <3>3. CASE Walk(r) \/ Runs(r) \/ Cleans(r) \/ UnsetContainer(r)
      BY <1>t, <1>1, <3>3 DEF Walk, Runs, Cleans, UnsetContainer, create
    <3> QED
      BY <2>2, <3>1, <3>2, <3>3 DEF Moves
  <2> QED
    BY <1>1, <2>1, <2>2 DEF Over
<1>2. CASE proc[s] = "dead"
  <2> USE DEF table, create, flist, life, net, ops
  <2>1. ASSUME NEW r \in Req, Touches(r) PROVE proc'[s] = "dead"
    <3>1. CASE Spawn(r)
      BY <1>t, <1>2, <3>1 DEF Spawn
    <3>2. CASE Die(r)
      BY <1>t, <1>2, <3>2 DEF Die
    <3>3. CASE ~Spawn(r) /\ ~Die(r)
      BY <1>2, <2>1, <3>3
      DEF Touches, MountStarts, Bind, PreStart, HookBegin, PostStart, Cleaning,
          DestroyNetwork, UnMountAll, UnsetContainer, CleanSandbox
    <3> QED
      BY <3>1, <3>2, <3>3
  <2>2. ASSUME NEW o \in Op, Find(o) \/ Operating(o) PROVE proc' = proc
    BY <2>2 DEF Find, Operating, NicAddPre, NicAddPost, NicRemove, ForwardAdd
  <2> QED
    BY <1>2, <2>1, <2>2, Kinds DEF Aside, Over
<1> QED
  BY <1>1, <1>2 DEF Over

LEMMA CleanedNext ==
  ASSUME IInv, CleanedOver, [Next]_vars
  PROVE CleanedOver'
<1> SUFFICES ASSUME NEW s \in Req, cleanup'[s] # "no" PROVE Over(s)'
  BY DEF CleanedOver
<1>1. Over(s)
  <2>1. CASE cleanup[s] # "no"
    BY <2>1 DEF CleanedOver
  <2>2. CASE cleanup[s] = "no"
    <3>1. PICK r \in Req : Cleaning(r)
      BY <2>2, CleanupSteps
    <3>2. r = s
      BY <2>2, <3>1
      DEF IInv, TypeOK, Cleaning, DestroyNetwork, UnMountAll, UnsetContainer, CleanGo
    <3> QED
      BY <2>2, <3>1, <3>2
      DEF Cleaning, DestroyNetwork, UnMountAll, UnsetContainer, CleanGo
  <2> QED
    BY <2>1, <2>2
<1> QED
  BY <1>1, OverStays

\* A container stays wired until its network is destroyed, and rooted until its
\* mounts are taken down.
LEMMA WiredStays ==
  ASSUME IInv, [Next]_vars, NEW s \in Req
  PROVE /\ Rooted(s) => id'[s] = id[s]
        /\ Wired(s) => Rooted(s) /\ (Wired(s)' \/ DestroyNetwork(s))
        /\ Rooted(s) => Rooted(s)' \/ UnMountAll(s)
<1>t. pc \in [Req -> Pc] /\ cleanup \in [Req -> Stage]
  BY DEF IInv, TypeOK
<1> SUFFICES ASSUME Rooted(s)
             PROVE /\ id'[s] = id[s]
                   /\ cleanup[s] = "no" => Wired(s)' \/ DestroyNetwork(s)
                   /\ Rooted(s)' \/ UnMountAll(s)
  BY DEF Wired, Rooted
<1>1. pc[s] \notin Early \cup {"numbered", "setting"}
  BY DEF Rooted, InMap, Early
<1>2. id'[s] = id[s]
  BY <1>1, IdsStay
<1>3. pc'[s] \notin {"new", "refused", "counted", "numbered", "setting"}
  <2>1. (pc' = pc /\ Settled) \/ \E r \in Req : Moves(r)
    BY Steps
  <2>2. ASSUME NEW r \in Req, Moves(r)
        PROVE pc'[s] \notin {"new", "refused", "counted", "numbered", "setting"}
    <3>1. CASE Count(r) \/ Number(r) \/ AwaitSet(r)
      BY <1>t, <1>1, <3>1 DEF Count, Number, AwaitSet, Go, Early
    <3>2. CASE SetContainer(r)
      <4>1. \E to : Go(r, "setting", to)
        BY <3>2 DEF SetContainer
      <4> QED
        BY <1>t, <1>1, <4>1 DEF Go, Early
    <3>3. CASE Walk(r) \/ Runs(r) \/ Cleans(r) \/ UnsetContainer(r)
      BY <1>t, <1>1, <3>3 DEF Walk, Runs, Cleans, UnsetContainer, create, Early
    <3> QED
      BY <2>2, <3>1, <3>2, <3>3 DEF Moves
  <2> QED
    BY <1>1, <2>1, <2>2 DEF Early
<1>4. CASE cleanup'[s] = cleanup[s]
  BY <1>2, <1>3, <1>4 DEF Wired, Rooted, InMap
<1>5. CASE cleanup'[s] # cleanup[s]
  <2>1. PICK r \in Req : Cleaning(r)
    BY <1>5, CleanupSteps
  <2>2. r = s
    BY <1>t, <1>5, <2>1
    DEF Cleaning, DestroyNetwork, UnMountAll, UnsetContainer, CleanGo
  <2>3. CASE DestroyNetwork(s)
    <3>1. cleanup'[s] = "unmount"
      BY <1>t, <2>3 DEF DestroyNetwork, CleanGo
    <3> QED
      BY <1>2, <1>3, <2>3, <3>1 DEF Rooted, InMap
  <2>4. CASE UnMountAll(s)
    BY <1>2, <2>4 DEF UnMountAll, CleanGo
  <2>5. ~UnsetContainer(s)
    BY DEF UnsetContainer, CleanGo, Rooted
  <2> QED
    BY <2>1, <2>2, <2>3, <2>4, <2>5 DEF Cleaning
<1> QED
  BY <1>4, <1>5

LEMMA OpSteps ==
  ASSUME [Next]_vars
  PROVE UNCHANGED ops \/ \E o \in Op : Find(o) \/ Operating(o)
<1>1. ASSUME NEW r \in Req, Touches(r) PROVE UNCHANGED ops
  BY <1>1 DEF Touches, MountStarts, Bind, PreStart, Spawn, Die, HookBegin, PostStart,
              Cleaning, DestroyNetwork, UnMountAll, UnsetContainer, CleanSandbox, ops
<1> QED
  BY <1>1, Kinds DEF Aside

\* What is found, by a command that is new: a container in the map.
LEMMA Found ==
  ASSUME IInv, NEW o \in Op, Find(o)
  PROVE \E r \in Req, ask \in Asks : Finds(o, r, ask) /\ InMap(r)
<1>1. \E n \in Known \ Elders, ask \in Asks : Finds(o, containers[n], ask)
  BY DEF Find
<1>2. PICK n \in Known \ Elders, ask \in Asks : Finds(o, containers[n], ask)
  BY <1>1
<1>3. PICK r \in Req : r = containers[n]
  BY <1>2 DEF IInv, Owned
<1>4. InMap(r)
  BY <1>2, <1>3 DEF IInv, OwnNumber
<1>5. Finds(o, r, ask)
  BY <1>2, <1>3
<1> QED
  BY <1>4, <1>5

LEMMA WhatStays ==
  ASSUME IInv, Asked, [Next]_vars, NEW o \in Op, what[o] # <<>>
  PROVE what'[o] = what[o]
<1>1. ASSUME NEW q \in Op, Find(q) PROVE what'[o] = what[o]
  <2>1. PICK r \in Req, ask \in Asks : Finds(q, r, ask)
    BY <1>1, Found
  <2>2. q # o
    BY <2>1 DEF Finds, OpGo, Asked
  <2> QED
    BY <2>1, <2>2 DEF Finds, IInv, TypeOK
<1>2. ASSUME NEW q \in Op, Operating(q) PROVE what' = what
  BY <1>2 DEF Operating, NicAddPre, NicAddPost, NicRemove, ForwardAdd
<1> QED
  BY <1>1, <1>2, OpSteps DEF ops

LEMMA AskedNext ==
  ASSUME IInv, Asked, [Next]_vars
  PROVE Asked'
<1>t. op \in [Op -> {"new", "found", "made", "done"}] /\ what \in [Op -> {<<>>} \cup (Asks \X Req)]
  BY DEF IInv, TypeOK
<1> SUFFICES ASSUME NEW o \in Op
             PROVE /\ op'[o] = "new" => what'[o] = <<>>
                   /\ what'[o] # <<>> => /\ what'[o] \in Asks \X Req
                                         /\ pc'[what'[o][2]] \notin Early
  BY DEF Asked, On
<1>1. CASE what[o] # <<>>
  <2>1. what[o] \in Asks \X Req /\ On(o) \in Req /\ pc[On(o)] \notin Early
    BY <1>1 DEF Asked, On
  <2>2. pc'[On(o)] \notin Early /\ what'[o] = what[o]
    BY <1>1, <2>1, IdsStay, WhatStays
  <2>3. op[o] # "new"
    BY <1>1 DEF Asked
  <2>4. op'[o] # "new"
    <3>1. ASSUME NEW q \in Op, Find(q) PROVE op'[o] # "new"
      <4>1. PICK r \in Req, ask \in Asks : Finds(q, r, ask)
        BY <3>1, Found
      <4> QED
        BY <1>t, <2>3, <4>1 DEF Finds, OpGo
    <3>2. ASSUME NEW q \in Op, Operating(q) PROVE op'[o] # "new"
      BY <1>t, <2>3, <3>2 DEF Operating, NicAddPre, NicAddPost, NicRemove, ForwardAdd, OpGo
    <3> QED
      BY <2>3, <3>1, <3>2, OpSteps DEF ops
  <2> QED
    BY <2>1, <2>2, <2>4 DEF On
<1>2. CASE what[o] = <<>>
  <2>1. ASSUME NEW q \in Op, Find(q)
        PROVE /\ op'[o] = "new" => what'[o] = <<>>
              /\ what'[o] # <<>> => /\ what'[o] \in Asks \X Req
                                    /\ pc'[what'[o][2]] \notin Early
    <3>1. PICK r \in Req, ask \in Asks : Finds(q, r, ask) /\ InMap(r)
      BY <2>1, Found
    <3>2. CASE q = o
      <4>1. what'[o] = <<ask, r>> /\ op'[o] = "found"
        BY <1>t, <3>1, <3>2 DEF Finds, OpGo
      <4>2. pc'[r] \notin Early
        BY <3>1, IdsStay DEF InMap, Early
      <4> QED
        BY <4>1, <4>2
    <3>3. CASE q # o
      BY <1>t, <1>2, <3>1, <3>3 DEF Finds, OpGo
    <3> QED
      BY <3>2, <3>3
  <2>2. ASSUME NEW q \in Op, Operating(q) PROVE what' = what
    BY <2>2 DEF Operating, NicAddPre, NicAddPost, NicRemove, ForwardAdd
  <2> QED
    BY <1>2, <2>1, <2>2, OpSteps DEF ops
<1> QED
  BY <1>1, <1>2

LEMMA AddsStays ==
  ASSUME IInv, Asked, [Next]_vars, NEW n, Adds(n)
  PROVE Adds(n)'
<1>1. PICK o \in Op : what[o] # <<>> /\ id[On(o)] = n /\ Does(o) # "nic-remove"
  BY DEF Adds
<1>2. On(o) \in Req /\ pc[On(o)] \notin Early
  BY <1>1 DEF Asked, On
<1>3. what'[o] = what[o] /\ id'[On(o)] = n
  BY <1>1, <1>2, IdsStay, WhatStays
<1> QED
  BY <1>1, <1>3 DEF Adds, On, Does

\* Nics only come and change.
LEMMA NicSteps ==
  ASSUME IInv, [Next]_vars
  PROVE \/ nics' = nics
        \/ \E r \in Req, k \in Nic, s \in State \ {"absent"} : nics' = [nics EXCEPT ![r][k] = s]
        \/ \E r \in Req : DestroyNetwork(r)
<1> USE DEF net
<1>s. {"unknown", "plugged", "configured", "error", "destroyed"} = State \ {"absent"}
  BY DEF State
<1> DEFINE Edit(r, k) == \E s \in State \ {"absent"} : nics' = [nics EXCEPT ![r][k] = s]
<1>p. ASSUME NEW r, NEW k, Plug(r, k) \/ PlugFails(r, k) PROVE Edit(r, k)
  <2>1. nics' = [nics EXCEPT ![r][k] = "plugged"] \/ nics' = [nics EXCEPT ![r][k] = "error"]
    BY <1>p DEF Plug, PlugFails
  <2> QED
    BY <1>s, <2>1
<1>q. ASSUME NEW r, NEW k, Attach(r, k) \/ AttachFails(r, k) PROVE Edit(r, k)
  <2>1. nics' = [nics EXCEPT ![r][k] = "configured"] \/ nics' = [nics EXCEPT ![r][k] = "error"]
    BY <1>q DEF Attach, AttachFails
  <2> QED
    BY <1>s, <2>1
<1>1. ASSUME NEW r \in Req, Touches(r)
      PROVE nics' = nics \/ (\E k \in Nic : Edit(r, k)) \/ DestroyNetwork(r)
  <2>1. ASSUME NEW k \in Nic, PreStart(r, k) PROVE Edit(r, k)
    BY <2>1, <1>p DEF PreStart
  <2>2. ASSUME NEW k \in Nic, PostStart(r, k) PROVE Edit(r, k)
    BY <2>2, <1>q DEF PostStart
  <2>3. CASE MountStarts(r) \/ Bind(r) \/ Spawn(r) \/ Die(r) \/ HookBegin(r)
               \/ UnMountAll(r) \/ UnsetContainer(r) \/ CleanSandbox(r)
    BY <2>3 DEF MountStarts, Bind, Spawn, Die, HookBegin, UnMountAll, UnsetContainer,
                CleanSandbox
  <2> QED
    BY <1>1, <2>1, <2>2, <2>3 DEF Touches, Cleaning
<1>2. ASSUME NEW o \in Op, Find(o) PROVE nics' = nics \/ \E r \in Req, k \in Nic : Edit(r, k)
  <2>1. PICK r \in Req, ask \in Asks : Finds(o, r, ask)
    BY <1>2, Found
  <2>2. CASE ask[1] = "nic-add"
    <3>1. ask[2] \in Nic
      BY <2>2, ContainersAssumption DEF ContainersAssumption
    <3>2. nics' = [nics EXCEPT ![r][ask[2]] = "unknown"]
      BY <2>1, <2>2 DEF Finds
    <3> QED
      BY <1>s, <3>1, <3>2
  <2>3. CASE ask[1] # "nic-add"
    BY <2>1, <2>3 DEF Finds
  <2> QED
    BY <2>2, <2>3
<1>3. ASSUME NEW o \in Op, Operating(o)
      PROVE nics' = nics \/ \E r \in Req, k \in Nic : Edit(r, k)
  <2>1. op[o] \in {"found", "made"}
    BY <1>3 DEF Operating, NicAddPre, NicAddPost, NicRemove, ForwardAdd, OpGo
  <2>2. On(o) \in Req /\ (Does(o) \in {"nic-add", "nic-remove"} => Arg(o) \in Nic)
    BY <2>1, AskTyped DEF IInv
  <2>3. CASE NicAddPre(o)
    BY <2>2, <2>3, <1>p DEF NicAddPre
  <2>4. CASE NicAddPost(o)
    <3>1. Does(o) = "nic-add"
      BY <2>4 DEF NicAddPost, OpGo, IInv, AskKnown
    <3> QED
      BY <2>2, <2>4, <3>1, <1>q DEF NicAddPost
  <2>5. CASE NicRemove(o)
    <3>1. nics' = [nics EXCEPT ![On(o)][Arg(o)] = "destroyed"] /\ Does(o) = "nic-remove"
      BY <2>5 DEF NicRemove
    <3> QED
      BY <1>s, <2>2, <3>1
  <2>6. CASE ForwardAdd(o)
    BY <2>6 DEF ForwardAdd
  <2> QED
    BY <1>3, <2>3, <2>4, <2>5, <2>6 DEF Operating
<1> QED
  BY <1>1, <1>2, <1>3, Kinds, Zenon DEF Aside

LEMMA NicsStay ==
  ASSUME IInv, [Next]_vars, NEW r \in Req, NEW k \in Nic, nics[r][k] # "absent"
  PROVE nics'[r][k] # "absent"
<1>t. nics \in [Req -> [Nic -> State]]
  BY DEF IInv, TypeOK
<1>1. ASSUME NEW q \in Req, NEW j \in Nic, NEW s \in State \ {"absent"},
             nics' = [nics EXCEPT ![q][j] = s]
      PROVE nics'[r][k] # "absent"
  BY <1>t, <1>1
<1>2. ASSUME NEW q \in Req, DestroyNetwork(q) PROVE nics'[r][k] # "absent"
  BY <1>t, <1>2 DEF DestroyNetwork
<1> QED
  BY <1>1, <1>2, NicSteps

\* Of a container that is not over, or still to be set up, nothing is cleaned yet.
LEMMA LiveWired ==
  ASSUME IInv, CleanedOver, NEW r \in Req,
         proc[r] = "running" \/ pc[r] \in {"mounting", "binding", "prestart"}
  PROVE Wired(r) /\ Rooted(r) /\ ~Over(r)
<1>1. ~Over(r)
  BY DEF IInv, Placed, Over
<1>2. cleanup[r] = "no"
  BY <1>1 DEF CleanedOver
<1>3. pc[r] \notin {"new", "refused", "counted", "numbered", "setting"}
  BY DEF IInv, Placed
<1> QED
  BY <1>1, <1>2, <1>3 DEF Wired, Rooted, InMap

\* A namespace is mounted by the hook of a container whose coreX runs, and goes with
\* destroyNetwork.
LEMMA NetnsNext ==
  ASSUME IInv, CleanedOver, NetnsOwned, [Next]_vars
  PROVE NetnsOwned'
<1> USE DEF table, create, flist, life, net, ops
<1>1. \A n \in netns' : n \in netns \/ \E r \in Req : n = id[r] /\ HookBegin(r) /\ proc[r] = "running"
  <2>1. ASSUME NEW r \in Req, Touches(r)
        PROVE \A n \in netns' : n \in netns \/ (n = id[r] /\ HookBegin(r) /\ proc[r] = "running")
    <3>1. CASE HookBegin(r)
      BY <3>1 DEF HookBegin
    <3>2. ASSUME NEW k \in Nic, PreStart(r, k) \/ PostStart(r, k) PROVE netns' = netns
      BY <3>2 DEF PreStart, PostStart, Plug, PlugFails, Attach, AttachFails
    <3>3. CASE DestroyNetwork(r)
      BY <3>3 DEF DestroyNetwork
    <3>4. CASE MountStarts(r) \/ Bind(r) \/ Spawn(r) \/ Die(r)
                 \/ UnMountAll(r) \/ UnsetContainer(r) \/ CleanSandbox(r)
      BY <3>4 DEF MountStarts, Bind, Spawn, Die, UnMountAll, UnsetContainer, CleanSandbox
    <3> QED
      BY <2>1, <3>1, <3>2, <3>3, <3>4 DEF Touches, Cleaning
  <2>2. ASSUME NEW o \in Op, Find(o) \/ Operating(o) PROVE netns' = netns
    BY <2>2 DEF Find, Operating, NicAddPre, NicAddPost, NicRemove, ForwardAdd,
                Plug, PlugFails, Attach, AttachFails
  <2> QED
    BY <2>1, <2>2, Kinds DEF Aside
<1>2. \A r : DestroyNetwork(r) => id[r] \notin netns'
  BY DEF DestroyNetwork
<1> SUFFICES ASSUME NEW n \in netns' PROVE \E r \in Req : id'[r] = n /\ Wired(r)'
  BY DEF NetnsOwned
<1>3. \E r \in Req : id[r] = n /\ Wired(r)
  BY <1>1, LiveWired DEF NetnsOwned
<1>4. PICK r \in Req : id[r] = n /\ Wired(r)
  BY <1>3
<1>5. ~DestroyNetwork(r)
  BY <1>2, <1>4
<1>6. id'[r] = n /\ Wired(r)'
  BY <1>4, <1>5, WiredStays
<1> QED
  BY <1>6

\* So with the mounts under the root, and UnMountAll.
LEMMA MountsNext ==
  ASSUME IInv, CleanedOver, MountsOwned, [Next]_vars
  PROVE MountsOwned'
<1> USE DEF table, create, flist, life, net, ops
<1>1. \A n \in mounts' : n \in mounts \/ \E r \in Req : n = id[r] /\ pc[r] \in {"mounting", "binding"}
  <2>1. ASSUME NEW r \in Req, Touches(r)
        PROVE \A n \in mounts' : n \in mounts \/ (n = id[r] /\ pc[r] \in {"mounting", "binding"})
    <3>1. CASE MountStarts(r) \/ Bind(r)
      BY <3>1 DEF MountStarts, Bind, Go
    <3>2. ASSUME NEW k \in Nic, PreStart(r, k) \/ PostStart(r, k) PROVE mounts' = mounts
      BY <3>2 DEF PreStart, PostStart
    <3>3. CASE UnMountAll(r) \/ CleanSandbox(r)
      BY <3>3 DEF UnMountAll, CleanSandbox
    <3>4. CASE Spawn(r) \/ Die(r) \/ HookBegin(r) \/ DestroyNetwork(r) \/ UnsetContainer(r)
      BY <3>4 DEF Spawn, Die, HookBegin, DestroyNetwork, UnsetContainer
    <3> QED
      BY <2>1, <3>1, <3>2, <3>3, <3>4 DEF Touches, Cleaning
  <2>2. ASSUME NEW o \in Op, Find(o) \/ Operating(o) PROVE mounts' = mounts
    BY <2>2 DEF Find, Operating, NicAddPre, NicAddPost, NicRemove, ForwardAdd
  <2> QED
    BY <2>1, <2>2, Kinds DEF Aside
<1>2. \A r : UnMountAll(r) => id[r] \notin mounts'
  BY DEF UnMountAll
<1> SUFFICES ASSUME NEW n \in mounts' PROVE \E r \in Req : id'[r] = n /\ Rooted(r)'
  BY DEF MountsOwned
<1>3. \E r \in Req : id[r] = n /\ Rooted(r)
  BY <1>1, LiveWired DEF MountsOwned
<1>4. PICK r \in Req : id[r] = n /\ Rooted(r)
  BY <1>3
<1>5. ~UnMountAll(r)
  BY <1>2, <1>4
<1>6. id'[r] = n /\ Rooted(r)'
  BY <1>4, <1>5, WiredStays
<1> QED
  BY <1>6

\* What a command adds bears the number of the container it has found.
LEMMA Adding ==
  ASSUME IInv, NEW o \in Op, op[o] \in {"found", "made"}, Does(o) # "nic-remove"
  PROVE Adds(id[On(o)])
<1>1. what[o] \in Asks \X Req
  BY DEF IInv, AskKnown
<1>2. what[o] # <<>>
  BY <1>1
<1> QED
  BY <1>2 DEF Adds

\* A port is forwarded to a container that is being plugged in, or by a command;
\* destroyNetwork clears the forwards of a default nic.
LEMMA RulesNext ==
  ASSUME IInv, Asked, CleanedOver, RulesOwned, [Next]_vars
  PROVE RulesOwned'
<1> USE DEF table, create, flist, life, net, ops
<1>t. rules \in [Port -> Ids \cup {0}] /\ nics \in [Req -> [Nic -> State]]
  BY DEF IInv, TypeOK
<1> SUFFICES ASSUME NEW p \in Port, NEW m, rules'[p] = m, m # 0, ~Adds(m)'
             PROVE \E r \in Req : /\ id'[r] = m /\ Wired(r)'
                                  /\ nics'[r]["default"] # "absent"
  BY DEF RulesOwned, Adds
<1>1. \/ rules'[p] = rules[p]
      \/ \E r \in Req : PreStart(r, "default") /\ rules'[p] = id[r]
  <2>1. ASSUME NEW r \in Req, NEW k \in Nic, PreStart(r, k)
        PROVE rules'[p] = rules[p] \/ (k = "default" /\ rules'[p] = id[r])
    <3>1. CASE Plug(r, k)
      BY <1>t, <3>1 DEF Plug
    <3>2. CASE PlugFails(r, k)
      <4>1. PICK some \in SUBSET {q \in PortsOf[r] : rules[q] = 0} :
              /\ some # {} => k = "default" /\ Name(r, k) \in link' \ link
              /\ rules' = [q \in Port |-> IF q \in some THEN id[r] ELSE rules[q]]
        BY <3>2 DEF PlugFails
      <4> QED
        BY <1>t, <4>1
    <3> QED
      BY <2>1, <3>1, <3>2 DEF PreStart
  <2>2. ASSUME NEW r \in Req, Touches(r), \A k \in Nic : ~PreStart(r, k)
        PROVE rules'[p] = rules[p]
    <3>1. ASSUME NEW k \in Nic, PostStart(r, k) PROVE rules' = rules
      BY <3>1 DEF PostStart, Attach, AttachFails
    <3>2. CASE DestroyNetwork(r)
      BY <1>t, <3>2 DEF DestroyNetwork
    <3>3. CASE MountStarts(r) \/ Bind(r) \/ Spawn(r) \/ Die(r) \/ HookBegin(r)
                 \/ UnMountAll(r) \/ UnsetContainer(r) \/ CleanSandbox(r)
      BY <3>3 DEF MountStarts, Bind, Spawn, Die, HookBegin, UnMountAll, UnsetContainer,
                  CleanSandbox
    <3> QED
      BY <2>2, <3>1, <3>2, <3>3 DEF Touches, Cleaning
  <2>3. ASSUME NEW o \in Op, NicAddPre(o) \/ ForwardAdd(o) PROVE rules'[p] = rules[p]
    <3>1. op[o] = "found" /\ Does(o) # "nic-remove"
      BY <2>3 DEF NicAddPre, ForwardAdd, OpGo
    <3>2. m # id[On(o)]
      BY <3>1, Adding, AddsStays
    <3>3. CASE ForwardAdd(o)
      BY <1>t, <3>2, <3>3 DEF ForwardAdd
    <3>4. CASE NicAddPre(o)
      <4>1. \A q \in Port : rules'[q] = rules[q] \/ rules'[q] = id[On(o)]
        BY <1>t, <3>4 DEF NicAddPre, Plug, PlugFails
      <4> QED
        BY <3>2, <4>1
    <3> QED
      BY <2>3, <3>3, <3>4
  <2>4. ASSUME NEW o \in Op, Find(o) \/ NicAddPost(o) \/ NicRemove(o) PROVE rules' = rules
    BY <2>4 DEF Find, NicAddPost, NicRemove, Attach, AttachFails
  <2> QED
    BY <2>1, <2>2, <2>3, <2>4, Kinds DEF Aside, Operating, Nic
<1>2. CASE rules'[p] = rules[p]
  <2>1. ~Adds(rules[p])
    BY <1>2, AddsStays DEF Adds
  <2>2. PICK r \in Req : id[r] = rules[p] /\ Wired(r) /\ nics[r]["default"] # "absent"
    BY <1>2, <2>1 DEF RulesOwned
  <2>3. ~DestroyNetwork(r)
    <3> SUFFICES ASSUME DestroyNetwork(r) PROVE FALSE
      OBVIOUS
    <3>1. "default" \in Unbridged(r) /\ p \in RemoveAll(r)
      BY <2>2 DEF Unbridged, RemoveAll, Begins, Nic
    <3>2. rules'[p] = 0
      BY <3>1 DEF DestroyNetwork
    <3> QED
      BY <3>2
  <2>4. id'[r] = rules'[p] /\ Wired(r)'
    BY <1>2, <2>2, <2>3, WiredStays
  <2>5. nics'[r]["default"] # "absent"
    BY <2>2, NicsStay DEF Nic
  <2> QED
    BY <2>4, <2>5
<1>3. ASSUME NEW r \in Req, PreStart(r, "default"), rules'[p] = id[r]
      PROVE id'[r] = rules'[p] /\ Wired(r)' /\ nics'[r]["default"] # "absent"
  <2>1. Wired(r) /\ ~Over(r)
    BY <1>3, LiveWired DEF PreStart, Go
  <2>2. id'[r] = rules'[p] /\ Wired(r)'
    BY <1>3, <2>1, WiredStays DEF DestroyNetwork
  <2>3. nics' = [nics EXCEPT ![r]["default"] = "plugged"]
        \/ nics' = [nics EXCEPT ![r]["default"] = "error"]
    BY <1>3 DEF PreStart, Plug, PlugFails
  <2>4. nics'[r]["default"] # "absent"
    BY <1>t, <2>3 DEF Nic
  <2> QED
    BY <2>2, <2>4
<1> QED
  BY <1>1, <1>2, <1>3

\* A link of another nic than a bridge is made by its container or by a command, and
\* goes with destroyNetwork.
LEMMA LinksStep ==
  ASSUME IInv, Asked, [Next]_vars, NEW n \in Ids, NEW k \in Nic,
         <<n, k>> \in link' \ link
  PROVE Adds(n)' \/ \E r \in Req : PreStart(r, k) /\ id[r] = n
<1> USE DEF table, create, flist, life, net, ops
<1>1. ASSUME NEW r \in Req, NEW j \in Nic, Plug(r, j) \/ PlugFails(r, j)
      PROVE n = id[r] /\ k = j
  BY <1>1 DEF Plug, PlugFails, Name
<1>2. ASSUME NEW r \in Req, Touches(r) PROVE PreStart(r, k) /\ id[r] = n
  <2>1. ASSUME NEW j \in Nic, PreStart(r, j) PROVE PreStart(r, k) /\ id[r] = n
    BY <1>1, <2>1 DEF PreStart
  <2>2. ~(\E j \in Nic : PostStart(r, j))
    BY DEF PostStart, Attach, AttachFails
  <2>3. ~Die(r) /\ ~DestroyNetwork(r)
    BY DEF Die, DestroyNetwork, UnBridge, Unlink
  <2>4. ~(MountStarts(r) \/ Bind(r) \/ Spawn(r) \/ HookBegin(r)
            \/ UnMountAll(r) \/ UnsetContainer(r) \/ CleanSandbox(r))
    BY DEF MountStarts, Bind, Spawn, HookBegin, UnMountAll, UnsetContainer, CleanSandbox
  <2> QED
    BY <1>2, <2>1, <2>2, <2>3, <2>4 DEF Touches, Cleaning
<1>3. ASSUME NEW o \in Op, Find(o) \/ Operating(o) PROVE Adds(n)'
  <2>1. CASE NicAddPre(o)
    <3>1. op[o] = "found" /\ Does(o) = "nic-add"
      BY <2>1 DEF NicAddPre
    <3>2. On(o) \in Req /\ Arg(o) \in Nic
      BY <3>1, AskTyped DEF IInv
    <3>3. n = id[On(o)]
      BY <1>1, <2>1, <3>2 DEF NicAddPre
    <3> QED
      BY <3>1, <3>3, Adding, AddsStays
  <2>2. ~(Find(o) \/ NicAddPost(o) \/ ForwardAdd(o))
    BY DEF Find, NicAddPost, ForwardAdd, Attach, AttachFails
  <2>3. ~NicRemove(o)
    BY DEF NicRemove, UnBridge, Unlink
  <2> QED
    BY <1>3, <2>1, <2>2, <2>3 DEF Operating
<1> QED
  BY <1>2, <1>3, Kinds DEF Aside

\* A link that stays on the host stays in the namespace it was moved to, and where it was
\* left for want of ovs it is known as such.
LEMMA PlacesStay ==
  ASSUME [Next]_vars, NEW l, l \in link'
  PROVE /\ l \in inside => l \in inside'
        /\ l \in unported => l \in unported'
<1> DEFINE Stays == (l \in inside => l \in inside') /\ (l \in unported => l \in unported')
<1> USE DEF table, create, flist, life, net, ops
<1>1. ASSUME NEW r \in Req, Touches(r) PROVE Stays
  <2>1. ASSUME NEW k \in Nic, PreStart(r, k) \/ PostStart(r, k) PROVE Stays
    BY <2>1 DEF PreStart, PostStart, Plug, PlugFails, Attach, AttachFails
  <2>2. CASE Die(r) \/ DestroyNetwork(r)
    BY <2>2 DEF Die, DestroyNetwork, UnBridge, Unlink
  <2>3. CASE MountStarts(r) \/ Bind(r) \/ Spawn(r) \/ HookBegin(r)
               \/ UnMountAll(r) \/ UnsetContainer(r) \/ CleanSandbox(r)
    BY <2>3 DEF MountStarts, Bind, Spawn, HookBegin, UnMountAll, UnsetContainer, CleanSandbox
  <2> QED
    BY <1>1, <2>1, <2>2, <2>3 DEF Touches, Cleaning
<1>2. ASSUME NEW o \in Op, Find(o) \/ Operating(o) PROVE Stays
  BY <1>2 DEF Find, Operating, NicAddPre, NicAddPost, NicRemove, ForwardAdd,
              Plug, PlugFails, Attach, AttachFails, UnBridge, Unlink
<1> QED
  BY <1>1, <1>2, Kinds DEF Aside

LEMMA LinksNext ==
  ASSUME IInv, Asked, CleanedOver, LinksOwned, [Next]_vars
  PROVE LinksOwned'
<1>t. nics \in [Req -> [Nic -> State]]
  BY DEF IInv, TypeOK
<1> SUFFICES ASSUME NEW n \in Ids, NEW k \in Nic \ {"bridge"},
                    <<n, k>> \in link', <<n, k>> \notin unported', ~Adds(n)'
             PROVE \E r \in Req : id'[r] = n /\ Wired(r)' /\ nics'[r][k] # "absent"
  BY DEF LinksOwned
<1>1. CASE <<n, k>> \in link
  <2>1. ~Adds(n) /\ <<n, k>> \notin unported
    BY AddsStays, PlacesStay
  <2>2. PICK r \in Req : id[r] = n /\ Wired(r) /\ nics[r][k] # "absent"
    BY <1>1, <2>1 DEF LinksOwned
  <2>3. ~DestroyNetwork(r)
    <3>1. k \in Unbridged(r) /\ Name(r, k) = <<n, k>>
      BY <2>2 DEF Unbridged, Name
    <3> QED
      BY <3>1 DEF DestroyNetwork, UnBridge, Unlink
  <2>4. id'[r] = n /\ Wired(r)' /\ nics'[r][k] # "absent"
    BY <2>2, <2>3, WiredStays, NicsStay
  <2> QED
    BY <2>4
<1>2. CASE <<n, k>> \notin link
  <2>1. PICK r \in Req : PreStart(r, k) /\ id[r] = n
    BY <1>2, LinksStep
  <2>2. Wired(r) /\ ~Over(r)
    BY <2>1, LiveWired DEF PreStart, Go
  <2>3. id'[r] = n /\ Wired(r)'
    BY <2>1, <2>2, WiredStays DEF DestroyNetwork
  <2>4. nics' = [nics EXCEPT ![r][k] = "plugged"] \/ nics' = [nics EXCEPT ![r][k] = "error"]
    BY <2>1 DEF PreStart, Plug, PlugFails
  <2>5. nics'[r][k] # "absent"
    BY <1>t, <2>4
  <2> QED
    BY <2>3, <2>5
<1> QED
  BY <1>1, <1>2

\* No container has a number before getNextSequence gives it one.
LEMMA NumberlessNext ==
  ASSUME IInv, Numberless, [Next]_vars
  PROVE Numberless'
<1> SUFFICES ASSUME NEW s \in Req, pc'[s] \in Early PROVE id'[s] = 0
  BY DEF Numberless
<1>1. pc[s] \in Early
  BY IdsStay
<1>2. id[s] = 0
  BY <1>1 DEF Numberless
<1>3. (pc' = pc /\ Settled) \/ \E r \in Req : Moves(r)
  BY Steps
<1>4. ASSUME NEW r \in Req, Moves(r) PROVE id'[s] = id[s]
  <2>1. CASE Number(r)
    <3>1. PICK n \in Free : id' = [id EXCEPT ![r] = n]
      BY <2>1 DEF Number
    <3>2. pc' = [pc EXCEPT ![r] = "numbered"]
      BY <2>1 DEF Number, Go
    <3>3. r # s
      BY <3>2 DEF Early, IInv, TypeOK
    <3> QED
      BY <3>1, <3>3 DEF IInv, TypeOK
  <2>2. CASE ~Number(r)
    BY <1>4, <2>2 DEF Moves, Count, AwaitSet, SetContainer, Walk, Settled, Runs, Cleans,
                      UnsetContainer, create
  <2> QED
    BY <2>1, <2>2
<1> QED
  BY <1>2, <1>3, <1>4 DEF Settled

\* A bridge's nic is no longer pending only once coreX has the link, which then goes
\* with the namespace, or a command has removed it.
LEMMA UnboundStep ==
  ASSUME IInv, Asked, CleanedOver, [Next]_vars, NEW s \in Req, NEW n \in Ids, id[s] = n,
         nics[s]["bridge"] \in {"plugged", "error"},
         <<n, "bridge">> \in link', ~Adds(n)'
  PROVE \/ nics'[s]["bridge"] \in {"plugged", "error"}
        \/ Wired(s) /\ ~DestroyNetwork(s) /\ <<n, "bridge">> \in inside'
<1> USE DEF table, create, flist, life, net, ops
<1>t. nics \in [Req -> [Nic -> State]]
  BY DEF IInv, TypeOK
<1> DEFINE still == nics'[s]["bridge"] \in {"plugged", "error"}
<1>p. ASSUME NEW r \in Req, NEW k \in Nic, Plug(r, k) \/ PlugFails(r, k) PROVE still
  <2>1. nics' = [nics EXCEPT ![r][k] = "plugged"] \/ nics' = [nics EXCEPT ![r][k] = "error"]
    BY <1>p DEF Plug, PlugFails
  <2> QED
    BY <1>t, <2>1 DEF Nic
<1>1. ASSUME NEW r \in Req, Touches(r)
      PROVE still \/ (Wired(s) /\ ~DestroyNetwork(s) /\ <<n, "bridge">> \in inside')
  <2>1. ASSUME NEW k \in Nic, PreStart(r, k) PROVE still
    BY <1>p, <2>1 DEF PreStart
  <2>2. ASSUME NEW k \in Nic, PostStart(r, k)
        PROVE still \/ (Wired(s) /\ ~DestroyNetwork(s) /\ <<n, "bridge">> \in inside')
    <3>1. CASE AttachFails(r, k)
      <4>1. nics' = [nics EXCEPT ![r][k] = "error"]
        BY <3>1 DEF AttachFails
      <4> QED
        BY <1>t, <4>1 DEF Nic
    <3>2. CASE Attach(r, k) /\ r = s /\ k = "bridge"
      <4>1. Wired(s) /\ ~Over(s)
        BY <3>2, LiveWired DEF Attach
      <4>2. <<n, "bridge">> \in inside'
        BY <3>2 DEF Attach, Name
      <4> QED
        BY <4>1, <4>2 DEF DestroyNetwork
    <3>3. CASE Attach(r, k) /\ ~(r = s /\ k = "bridge")
      <4>1. nics' = [nics EXCEPT ![r][k] = "configured"]
        BY <3>3 DEF Attach
      <4> QED
        BY <1>t, <3>3, <4>1 DEF Nic
    <3> QED
      BY <2>2, <3>1, <3>2, <3>3 DEF PostStart
  <2>3. CASE DestroyNetwork(r)
    <3>1. nics' = [nics EXCEPT ![r] =
                     [k \in Nic |-> IF k \in Unbridged(r) THEN "destroyed" ELSE @[k]]]
      BY <2>3 DEF DestroyNetwork
    <3>2. "bridge" \notin Unbridged(r)
      BY DEF Unbridged
    <3> QED
      BY <1>t, <3>1, <3>2 DEF Nic
  <2>4. CASE MountStarts(r) \/ Bind(r) \/ Spawn(r) \/ Die(r) \/ HookBegin(r)
               \/ UnMountAll(r) \/ UnsetContainer(r) \/ CleanSandbox(r)
    BY <2>4 DEF MountStarts, Bind, Spawn, Die, HookBegin, UnMountAll, UnsetContainer,
                CleanSandbox
  <2> QED
    BY <1>1, <2>1, <2>2, <2>3, <2>4 DEF Touches, Cleaning
<1>2. ASSUME NEW o \in Op, Find(o) PROVE still
  <2>1. PICK r \in Req, ask \in Asks : Finds(o, r, ask)
    BY <1>2, Found
  <2>2. CASE ask[1] = "nic-add"
    <3>1. nics' = [nics EXCEPT ![r][ask[2]] = "unknown"]
      BY <2>1, <2>2 DEF Finds
    <3>2. ~(r = s /\ ask[2] = "bridge")
      BY <2>1, <2>2 DEF Finds, Allowed
    <3>3. ask[2] \in Nic
      BY <2>2, ContainersAssumption DEF ContainersAssumption
    <3> QED
      BY <1>t, <3>1, <3>2, <3>3 DEF Nic
  <2>3. CASE ask[1] # "nic-add"
    BY <2>1, <2>3 DEF Finds
  <2> QED
    BY <2>2, <2>3
<1>3. ASSUME NEW o \in Op, Operating(o) PROVE still
  <2>1. op[o] \in {"found", "made"}
    BY <1>3 DEF Operating, NicAddPre, NicAddPost, NicRemove, ForwardAdd, OpGo
  <2>2. On(o) \in Req /\ (Does(o) \in {"nic-add", "nic-remove"} => Arg(o) \in Nic)
    BY <2>1, AskTyped DEF IInv
  <2>3. Does(o) # "nic-remove" => On(o) # s
    BY <2>1, Adding, AddsStays
  <2>4. CASE NicAddPre(o)
    BY <1>p, <2>2, <2>4 DEF NicAddPre
  <2>5. CASE NicAddPost(o)
    <3>1. On(o) # s
      BY <2>3, <2>5 DEF NicAddPost, OpGo, IInv, AskKnown
    <3>2. \/ nics' = [nics EXCEPT ![On(o)][Arg(o)] = "configured"]
          \/ nics' = [nics EXCEPT ![On(o)][Arg(o)] = "error"]
      BY <2>5 DEF NicAddPost, Attach, AttachFails
    <3> QED
      BY <1>t, <2>2, <3>1, <3>2
  <2>6. CASE NicRemove(o)
    <3>1. Does(o) = "nic-remove" /\ nics' = [nics EXCEPT ![On(o)][Arg(o)] = "destroyed"]
      BY <2>6 DEF NicRemove
    <3>2. ~(On(o) = s /\ Arg(o) = "bridge")
      BY <2>6 DEF NicRemove, UnBridge, Unlink, Name
    <3> QED
      BY <1>t, <2>2, <3>1, <3>2 DEF Nic
  <2>7. CASE ForwardAdd(o)
    BY <2>7 DEF ForwardAdd
  <2> QED
    BY <1>3, <2>4, <2>5, <2>6, <2>7 DEF Operating
<1> QED
  BY <1>1, <1>2, <1>3, Kinds DEF Aside

\* The link of a bridge is there as long as its nic is pending, or coreX has it.
LEMMA BridgesNext ==
  ASSUME IInv, Asked, CleanedOver, Numberless, BridgesOwned, [Next]_vars
  PROVE BridgesOwned'
<1>t. nics \in [Req -> [Nic -> State]]
  BY DEF IInv, TypeOK
<1>n. \A n \in Ids : n # 0
  BY DEF Ids
<1> SUFFICES ASSUME NEW n \in Ids, <<n, "bridge">> \in link', ~Adds(n)'
             PROVE \/ \E s \in Req : id'[s] = n /\ nics'[s]["bridge"] \in {"plugged", "error"}
                   \/ \E r \in Req : id'[r] = n /\ Wired(r)' /\ <<n, "bridge">> \in inside'
  BY DEF BridgesOwned, Unbound
<1>1. CASE <<n, "bridge">> \notin link
  <2>1. PICK r \in Req : PreStart(r, "bridge") /\ id[r] = n
    BY <1>1, LinksStep DEF Nic
  <2>2. id'[r] = n
    BY <2>1, LiveWired, WiredStays DEF PreStart, Go
  <2>3. \/ nics' = [nics EXCEPT ![r]["bridge"] = "plugged"]
        \/ nics' = [nics EXCEPT ![r]["bridge"] = "error"]
    BY <2>1 DEF PreStart, Plug, PlugFails
  <2>4. nics'[r]["bridge"] \in {"plugged", "error"}
    BY <1>t, <2>3 DEF Nic
  <2> QED
    BY <2>2, <2>4
<1>2. CASE <<n, "bridge">> \in link /\ Unbound(n)
  <2>1. PICK s \in Req : id[s] = n /\ nics[s]["bridge"] \in {"plugged", "error"}
    BY <1>2 DEF Unbound
  <2>2. pc[s] \notin Early
    BY <1>n, <2>1 DEF Numberless
  <2>3. id'[s] = n
    BY <2>1, <2>2, IdsStay
  <2>4. CASE nics'[s]["bridge"] \in {"plugged", "error"}
    BY <2>3, <2>4
  <2>5. CASE nics'[s]["bridge"] \notin {"plugged", "error"}
    <3>1. Wired(s) /\ ~DestroyNetwork(s) /\ <<n, "bridge">> \in inside'
      BY <2>1, <2>5, UnboundStep
    <3>2. Wired(s)'
      BY <3>1, WiredStays
    <3> QED
      BY <2>3, <3>1, <3>2
  <2> QED
    BY <2>4, <2>5
<1>3. CASE <<n, "bridge">> \in link /\ ~Unbound(n)
  <2>1. ~Adds(n)
    BY AddsStays
  <2>2. PICK r \in Req : id[r] = n /\ Wired(r) /\ <<n, "bridge">> \in inside
    BY <1>3, <2>1 DEF BridgesOwned
  <2>3. ~DestroyNetwork(r)
    <3>1. <<n, "bridge">> \in OwnLinks(r) \cap inside
      BY <1>3, <2>2 DEF OwnLinks
    <3> QED
      BY <3>1 DEF DestroyNetwork, UnBridge, Unlink
  <2>4. id'[r] = n /\ Wired(r)'
    BY <2>2, <2>3, WiredStays
  <2>5. <<n, "bridge">> \in inside'
    BY <1>3, <2>2, PlacesStay
  <2> QED
    BY <2>4, <2>5
<1> QED
  BY <1>1, <1>2, <1>3

LEMMA TidyInit == Init => Tidy
BY ContainersAssumption
DEF ContainersAssumption, Init, Tidy, Asked, CleanedOver, NetnsOwned, MountsOwned,
    RulesOwned, LinksOwned, BridgesOwned, Numberless

LEMMA TidyNext == IInv /\ Tidy /\ [Next]_vars => Tidy'
BY AskedNext, CleanedNext, NumberlessNext, NetnsNext, MountsNext, RulesNext, LinksNext,
   BridgesNext
DEF Tidy

\* What is left on the host by a container of any number, however often the number
\* has been given, when its cleanup is over (cleanup, destroyNetwork, unMountAll).
THEOREM LeavesNothingHolds == Spec => []LeavesNothing
<1>1. IInv /\ Tidy => LeavesNothing
  <2> SUFFICES ASSUME IInv, Tidy, NEW r \in Req, cleanup[r] = "gone", ~Reused(r)
               PROVE /\ id[r] \notin netns /\ id[r] \notin mounts
                     /\ Adds(id[r]) \/ /\ \A p \in Port : rules[p] # id[r]
                                       /\ OwnLinks(r) \ unported \subseteq {Name(r, "bridge")}
                                       /\ ~Unbound(id[r]) => OwnLinks(r) \subseteq unported
    BY DEF LeavesNothing
  <2>1. \A s \in Req : id[s] = id[r] => ~Wired(s) /\ ~Rooted(s)
    BY DEF Reused, Wired, Rooted, InMap
  <2>2. id[r] \in Ids /\ id[r] # 0
    BY DEF IInv, Placed, Early, Ids
  <2>3. id[r] \notin netns /\ id[r] \notin mounts
    BY <2>1 DEF Tidy, NetnsOwned, MountsOwned
  <2>4. ASSUME ~Adds(id[r]), NEW p \in Port PROVE rules[p] # id[r]
    BY <2>1, <2>2, <2>4 DEF Tidy, RulesOwned
  <2>5. ASSUME ~Adds(id[r]), NEW l \in OwnLinks(r) \ unported
        PROVE l = Name(r, "bridge") /\ Unbound(id[r])
    <3>1. l \in link \ unported /\ l[1] = id[r]
      BY DEF OwnLinks
    <3>2. PICK k \in Nic : l = <<id[r], k>>
      BY <3>1 DEF IInv, TypeOK
    <3>3. k = "bridge"
      BY <2>1, <2>2, <2>5, <3>1, <3>2 DEF Tidy, LinksOwned
    <3>4. Unbound(id[r])
      BY <2>1, <2>2, <2>5, <3>1, <3>2, <3>3 DEF Tidy, BridgesOwned
    <3> QED
      BY <3>2, <3>3, <3>4 DEF Name
  <2> QED
    BY <2>3, <2>4, <2>5
<1> QED
  BY <1>1, IInvInit, IInvNext, TidyInit, TidyNext, PTL DEF Spec
=============================================================================
