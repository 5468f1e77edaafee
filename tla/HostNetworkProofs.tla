------------------------- MODULE HostNetworkProofs --------------------------
(***************************************************************************)
(* What holds of the commands on the host's network, for any commands that *)
(* come together and any number of faults.  The lemma NetSteps sorts the   *)
(* steps by the plugin that takes them: what a plugin does is followed     *)
(* step by step where an invariant is about it, and elsewhere only in what *)
(* it leaves alone.                                                        *)
(***************************************************************************)
EXTENDS HostNetwork, FiniteSetTheorems, SequenceTheorems,
        WellFoundedInduction, TLAPS

-----------------------------------------------------------------------------
(* Commands *)

\* Every command has a place, what it has read and what it has still to go through.
CommandsOK == /\ pc = [c \in Coming |-> pc[c]]
              /\ got = [c \in Coming |-> got[c]] /\ todo = [c \in Coming |-> todo[c]]

\* A step moves at most this command.
MovesOnly(c) ==
  /\ Coming' = Coming /\ CommandsOK'
  /\ \A d \in Coming \ {c} : pc'[d] = pc[d] /\ got'[d] = got[d] /\ todo'[d] = todo[d]

LEMMA MovesBy ==
  ASSUME CommandsOK, NEW c \in Coming,
         \/ UNCHANGED pc
         \/ \E p : pc' = [pc EXCEPT ![c] = p],
         \/ UNCHANGED got
         \/ \E v : got' = [got EXCEPT ![c] = v],
         \/ UNCHANGED todo
         \/ \E v : todo' = [todo EXCEPT ![c] = v]
  PROVE  MovesOnly(c)
<1>1. Coming' = Coming /\ \A d \in Coming \ {c} : pc'[d] = pc[d]
  BY DEF CommandsOK, Coming
<1>2. \A d \in Coming \ {c} : got'[d] = got[d]
  BY DEF CommandsOK
<1>3. \A d \in Coming \ {c} : todo'[d] = todo[d]
  BY DEF CommandsOK
<1>4. pc' = [d \in Coming' |-> pc'[d]]
  BY <1>1 DEF CommandsOK, Coming
<1>5. got' = [d \in Coming' |-> got'[d]]
  BY <1>1 DEF CommandsOK
<1>6. todo' = [d \in Coming' |-> todo'[d]]
  BY <1>1 DEF CommandsOK
<1> QED BY <1>1, <1>2, <1>3, <1>4, <1>5, <1>6 DEF CommandsOK, MovesOnly

LEMMA StepMoves ==
  ASSUME CommandsOK, NEW c \in Coming, NEW p
  PROVE  /\ Step(c, p) => MovesOnly(c) /\ pc'[c] = p /\ UNCHANGED <<got, todo>>
         /\ Fault(c, p) => MovesOnly(c) /\ pc'[c] = p /\ UNCHANGED <<got, todo>>
         /\ \A what : Reads(c, p, what) =>
              MovesOnly(c) /\ pc'[c] = p /\ got'[c] = what /\ UNCHANGED todo
<1>1. ASSUME Step(c, p) \/ Fault(c, p) PROVE MovesOnly(c) /\ pc'[c] = p /\ UNCHANGED <<got, todo>>
  <2>1. pc' = [pc EXCEPT ![c] = p] /\ UNCHANGED <<got, todo>>
    BY <1>1 DEF Step, Fault, Goto
  <2> QED BY <2>1, MovesBy DEF Coming
<1>2. ASSUME NEW what, Reads(c, p, what)
      PROVE  MovesOnly(c) /\ pc'[c] = p /\ got'[c] = what /\ UNCHANGED todo
  <2>1. pc' = [pc EXCEPT ![c] = p] /\ got' = [got EXCEPT ![c] = what] /\ UNCHANGED todo
    BY <1>2 DEF Reads, Goto
  <2>2. MovesOnly(c)
    BY <2>1, MovesBy
  <2> QED BY <2>1, <2>2 DEF CommandsOK, Coming
<1> QED BY <1>1, <1>2
LinkDo == {"br.add", "bond.add", "br.del", "br.addinf", "br.delinf", "nic.add", "nic.remove",
  "link.up", "link.down", "link.name", "link.mtu", "addr.add", "addr.del",
  "route.add", "route.del", "bond.del"}
SocatDo == {"socat.set", "socat.remove", "socat.removeall", "socat.reserve"}
BridgeDo == {"create", "delete", "host.add"}
FirewallDo == {"nft.open", "nft.drop"}

LEMMA LinkMoves ==
  ASSUME CommandsOK, NEW c \in Coming, LinkStep(c)
  PROVE  MovesOnly(c) /\ Does[c].do \in LinkDo
<1>1. CASE LookUp(c) \/ LookUpFails(c) \/ OneCall(c)
  BY <1>1, StepMoves DEF LookUp, LookUpFails, OneCall, OneShot, LinkDo
<1>2. CASE Filter(c)
  BY <1>2, StepMoves DEF Filter, Is, LinkDo
<1>3. CASE BrAdd(c) \/ BrAddHwAddr(c) \/ BondLinkAdd(c) \/ BondEnslave(c)
  BY <1>3, StepMoves DEF BrAdd, BrAddHwAddr, BondLinkAdd, BondEnslave, Is, LinkDo
<1>4. CASE InitBonding(c)
  BY <1>4, MovesBy DEF InitBonding, Goto, Is, LinkDo
<1>5. CASE BondSlave(c)
  <2>1. CASE Step(c, "error") \/ Fault(c, "error")
    BY <1>5, <2>1, StepMoves DEF BondSlave, Is, LinkDo
  <2>2. CASE \E i : /\ Goto(c, "slaves") /\ got' = [got EXCEPT ![c] = Append(@, i)]
                    /\ todo' = [todo EXCEPT ![c] = Tail(@)]
    BY <1>5, <2>2, MovesBy DEF BondSlave, Goto, Is, LinkDo
  <2> QED BY <1>5, <2>1, <2>2 DEF BondSlave
<1> QED BY <1>1, <1>2, <1>3, <1>4, <1>5 DEF LinkStep

LEMMA DropMoves ==
  ASSUME CommandsOK, NEW c \in Coming
  PROVE  /\ Drop(c) => MovesOnly(c) /\ UNCHANGED <<pc, got>>
         /\ \A bodies, p : FindRules(c, bodies, p) => MovesOnly(c) /\ pc'[c] = p /\ UNCHANGED got
         /\ \A bodies, p : FindFails(c, bodies, p) => MovesOnly(c) /\ pc'[c] = p /\ UNCHANGED <<got, todo>>
<1>1. ASSUME Drop(c) PROVE MovesOnly(c) /\ UNCHANGED <<pc, got>>
  BY <1>1, MovesBy DEF Drop
<1>2. ASSUME NEW bodies, NEW p, FindRules(c, bodies, p)
      PROVE  MovesOnly(c) /\ pc'[c] = p /\ UNCHANGED got
  <2>1. pc' = [pc EXCEPT ![c] = p] /\ UNCHANGED got
    BY <1>2 DEF FindRules, Goto
  <2>2. MovesOnly(c)
    BY <1>2, <2>1, MovesBy DEF FindRules
  <2> QED BY <2>1, <2>2 DEF Coming
<1>3. ASSUME NEW bodies, NEW p, FindFails(c, bodies, p)
      PROVE  MovesOnly(c) /\ pc'[c] = p /\ UNCHANGED <<got, todo>>
  BY <1>3, StepMoves DEF FindFails
<1> QED BY <1>1, <1>2, <1>3

LEMMA FirewallMoves ==
  ASSUME CommandsOK, NEW c \in Coming, FirewallStep(c)
  PROVE  MovesOnly(c) /\ Does[c].do \in FirewallDo
<1>1. CASE OpenPort(c) \/ OpenApply(c) \/ DropPort(c)
  BY <1>1, StepMoves DEF OpenPort, OpenApply, DropPort, Is, FirewallDo
<1>2. CASE DropPortFind(c)
  BY <1>2, DropMoves DEF DropPortFind, Is, FirewallDo
<1>3. CASE DropPortDrop(c)
  <2>1. CASE Goto(c, "error") /\ UNCHANGED <<got, todo>>
    BY <1>3, <2>1, MovesBy DEF DropPortDrop, Goto, Is, FirewallDo
  <2> QED BY <1>3, <2>1, DropMoves, StepMoves DEF DropPortDrop, Is, FirewallDo
<1> QED BY <1>1, <1>2, <1>3 DEF FirewallStep

LEMMA ForwardMoves ==
  ASSUME CommandsOK, NEW c \in Coming, ForwardStep(c)
  PROVE  MovesOnly(c) /\ Does[c].do \in SocatDo
<1>1. CASE SetPortForward(c) \/ SetApply(c)
  BY <1>1, StepMoves DEF SetPortForward, SetApply, Is, SocatDo
<1>2. CASE RemovePortForward(c) \/ RemoveAll(c)
  BY <1>2, StepMoves DEF RemovePortForward, RemoveAll, Is, SocatDo
<1>3. CASE RemoveFind(c)
  BY <1>3, DropMoves DEF RemoveFind, Removes, Is, SocatDo
<1>4. CASE RemoveDrop(c)
  <2>1. CASE Goto(c, "error") /\ UNCHANGED <<got, todo>>
    BY <1>4, <2>1, MovesBy DEF RemoveDrop, Removes, Goto, Is, SocatDo
  <2> QED BY <1>4, <2>1, DropMoves, StepMoves DEF RemoveDrop, Removes, Is, SocatDo
<1>5. CASE ReserveList(c) \/ Reserve(c)
  BY <1>5, StepMoves DEF ReserveList, Reserve, Is, SocatDo
<1> QED BY <1>1, <1>2, <1>3, <1>4, <1>5 DEF ForwardStep

LEMMA BridgeMoves ==
  ASSUME CommandsOK, NEW c \in Coming, BridgeStep(c)
  PROVE  MovesOnly(c) /\ Does[c].do \in BridgeDo
<1>1. CASE Create(c) \/ CreateUp(c) \/ CreateAllow(c)
  BY <1>1, StepMoves DEF Create, CreateUp, CreateAllow, Is, BridgeDo
<1>2. CASE CreateConflict(c) \/ CreateAddr(c) \/ CreateDnsmasq(c)
  BY <1>2, StepMoves DEF CreateConflict, CreateAddr, CreateDnsmasq, Is, BridgeDo
<1>3. CASE CreateNat(c) \/ CreateDone(c)
  BY <1>3, StepMoves DEF CreateNat, CreateDone, Is, BridgeDo
<1>4. CASE Delete(c) \/ DeleteFind(c) \/ DeleteSignal(c) \/ DeleteAddrs(c)
  BY <1>4, StepMoves DEF Delete, DeleteFind, DeleteSignal, DeleteAddrs, Is, BridgeDo
<1>5. CASE DeleteUnsetNat(c) \/ DeleteUnNft(c)
  <2>1. CASE Fault(c, "error") \/ Fault(c, "ok")
    BY <1>5, <2>1, StepMoves DEF DeleteUnsetNat, DeleteUnNft, Is, BridgeDo
  <2>2. CASE \E p, v : Goto(c, p) /\ UNCHANGED got /\ todo' = [todo EXCEPT ![c] = v]
    BY <1>5, <2>2, MovesBy DEF DeleteUnsetNat, DeleteUnNft, Goto, Is, BridgeDo
  <2> QED BY <1>5, <2>1, <2>2 DEF DeleteUnsetNat, DeleteUnNft
<1>6. CASE DeleteDrop(c)
  <2>1. CASE todo' = [todo EXCEPT ![c] = Tail(@)] /\ UNCHANGED <<pc, got>>
    BY <1>6, <2>1, MovesBy DEF DeleteDrop, Is, BridgeDo
  <2> QED BY <1>6, <2>1, DropMoves DEF DeleteDrop, Is, BridgeDo
<1>7. CASE DeleteLink(c) \/ DeleteDone(c) \/ HostAdd(c)
  BY <1>7, StepMoves DEF DeleteLink, DeleteDone, HostAdd, Is, BridgeDo
<1>8. CASE HostAddWrite(c)
  BY <1>8, StepMoves DEF HostAddWrite, Is, BridgeDo
<1> QED BY <1>1, <1>2, <1>3, <1>4, <1>5, <1>6, <1>7, <1>8 DEF BridgeStep

-----------------------------------------------------------------------------
(* The steps of the host's network, and what each leaves alone *)

LEMMA NetSteps ==
  ASSUME CommandsOK, [NetNext]_netvars
  PROVE  \/ \E c \in Coming : /\ MovesOnly(c) /\ ~Ended(c)
                              /\ \/ /\ LinkStep(c) /\ Told /\ Does[c].do \in LinkDo
                                    /\ UNCHANGED <<nft, socat, bridges>>
                                 \/ /\ FirewallStep(c) /\ Does[c].do \in FirewallDo
                                    /\ UNCHANGED <<net, socat, watch, bridges>>
                                 \/ /\ ForwardStep(c) /\ Does[c].do \in SocatDo
                                    /\ UNCHANGED <<net, watch, bridges>>
                                 \/ /\ BridgeStep(c) /\ Told /\ Does[c].do \in BridgeDo
                                    /\ UNCHANGED socat
         \/ /\ CommandsOK' /\ UNCHANGED <<pc, got, todo, net, nft>>
            /\ \/ /\ \E p \in 1..Ports : Expire(p) \/ ServiceStarts(p)
                  /\ UNCHANGED <<watch, bridges>>
               \/ Watch /\ UNCHANGED <<socat, bridges>>
               \/ (\E b \in Bridge : DnsmasqEnds(b)) /\ UNCHANGED <<socat, watch>>
               \/ UNCHANGED <<socat, watch, bridges>>
<1>1. ASSUME NEW c \in Coming, NetCommand(c)
      PROVE  /\ MovesOnly(c) /\ ~Ended(c)
             /\ \/ /\ LinkStep(c) /\ Told /\ Does[c].do \in LinkDo
                   /\ UNCHANGED <<nft, socat, bridges>>
                \/ /\ FirewallStep(c) /\ Does[c].do \in FirewallDo
                   /\ UNCHANGED <<net, socat, watch, bridges>>
                \/ /\ ForwardStep(c) /\ Does[c].do \in SocatDo
                   /\ UNCHANGED <<net, watch, bridges>>
                \/ /\ BridgeStep(c) /\ Told /\ Does[c].do \in BridgeDo
                   /\ UNCHANGED socat
  BY <1>1, LinkMoves, FirewallMoves, ForwardMoves, BridgeMoves DEF NetCommand
<1>2. ASSUME UNCHANGED <<pc, got, todo>> PROVE CommandsOK'
  BY <1>2 DEF CommandsOK, Coming
<1>3. ASSUME NEW p \in 1..Ports, Expire(p) \/ ServiceStarts(p)
      PROVE  UNCHANGED <<pc, got, todo, nft>>
  BY <1>3 DEF Expire, ServiceStarts, commands
<1>4. ASSUME NEW b \in Bridge, DnsmasqEnds(b)
      PROVE  UNCHANGED <<pc, got, todo, net, nft>>
  BY <1>4 DEF DnsmasqEnds
<1>5. CASE UNCHANGED netvars
  BY <1>2, <1>5 DEF netvars, commands
<1>6. CASE NetNext
  BY <1>1, <1>2, <1>3, <1>4, <1>6 DEF NetNext
<1> QED BY <1>5, <1>6

-----------------------------------------------------------------------------
(* Reservations *)

\* The least-number principle, of a set.
LEMMA LeastNumber ==
  ASSUME NEW T \in SUBSET Nat, T # {}
  PROVE  \E n \in T : \A k \in T : n <= k
<1> DEFINE R == OpToRel(<, Nat)
<1>1. IsWellFoundedOn(R, Nat)
  BY NatLessThanWellFounded
<1> HIDE DEF R
<1>2. \E n \in T : \A k \in T : ~(<<k, n>> \in R)
  BY <1>1, WFMin
<1>3. \A x, y \in Nat : <<x, y>> \in R <=> x < y
  BY DEF R, OpToRel
<1>4. \E n \in T : \A k \in T : k \in Nat /\ n \in Nat /\ ~(k < n)
  BY <1>2, <1>3
<1> QED BY <1>4

\* Of the ports found no more are taken than were asked for.
LEMMA LowestFew ==
  ASSUME NEW N \in Nat, NEW S \in SUBSET (1..N), NEW n \in Int
  PROVE  Lowest(S, n) = {} \/ Cardinality(Lowest(S, n)) <= n
<1> DEFINE L == Lowest(S, n)
<1> SUFFICES ASSUME L # {} PROVE Cardinality(L) <= n
  OBVIOUS
<1>1. L \subseteq S /\ \A p \in L : Cardinality({q \in S : q < p}) < n
  BY DEF Lowest
<1> DEFINE T == {N - p : p \in L}
<1> HIDE DEF L
<1>2. T \in SUBSET Nat /\ T # {}
  <2>1. \A p \in L : p \in 1..N
    BY <1>1
  <2>2. \A p \in L : N - p \in Nat
    BY <2>1
  <2> QED BY <2>2
<1>3. PICK t \in T : \A k \in T : t <= k
  BY <1>2, LeastNumber
<1>4. PICK p \in L : t = N - p
  BY <1>3
<1>5. ASSUME NEW q \in L PROVE q <= p
  <2>1. N - q \in T /\ q \in 1..N /\ p \in 1..N
    BY <1>1, <1>4
  <2>2. N - p <= N - q
    BY <1>3, <1>4, <2>1
  <2> QED BY <2>1, <2>2
<1> DEFINE B == {q \in S : q < p}
<1>6. L \subseteq B \cup {p} /\ p \notin B
  BY <1>1, <1>4, <1>5
<1>7. IsFiniteSet(B)
  <2>1. IsFiniteSet(1..N)
    BY FS_Interval
  <2> QED BY <2>1, FS_Subset
<1>8. IsFiniteSet(B \cup {p}) /\ Cardinality(B \cup {p}) = Cardinality(B) + 1 /\ Cardinality(B) \in Nat
  BY <1>6, <1>7, FS_AddElement, FS_CardinalityType
<1>9. IsFiniteSet(L) /\ Cardinality(L) <= Cardinality(B \cup {p}) /\ Cardinality(L) \in Nat
  BY <1>6, <1>8, FS_Subset, FS_CardinalityType
<1>10. Cardinality(B) < n
  BY <1>1, <1>4
<1> QED BY <1>8, <1>9, <1>10

Mine(c) == {p \in 1..Ports : reserved[p] = c}
Few(c) == Mine(c) = {} \/ Cardinality(Mine(c)) <= Does[c].n

\* A reserve has no port before it is answered, and not too many afterwards.
Reserving(c) ==
  Is(c, "socat.reserve") => /\ ~Ended(c) => Mine(c) = {}
                            /\ pc[c] = "ok" => Few(c)

Maps == /\ rules = [p \in 1..Ports |-> rules[p]]
        /\ reserved = [p \in 1..Ports |-> reserved[p]]
Apart == \A p \in 1..Ports : reserved[p] # "none" => rules[p] = NoForward

ReservedInv ==
  /\ CommandsOK /\ Coming \in Given /\ Maps /\ Apart
  /\ \A c \in Coming : Reserving(c)

LEMMA Others == ASSUME Coming \in Given PROVE \A c \in Coming : c \in Cmd /\ c \notin {"free", "none"}
BY CommandsAssumption

LEMMA FewStays ==
  ASSUME NEW c, Few(c), Does[c].n \in Int, Mine(c)' \subseteq Mine(c)
  PROVE  Few(c)'
<1>1. IsFiniteSet(Mine(c))
  <2>1. IsFiniteSet(1..Ports)
    BY FS_Interval, ForwardsAssumption
  <2>2. Mine(c) \subseteq 1..Ports
    BY DEF Mine
  <2> QED BY <2>1, <2>2, FS_Subset
<1>2. Cardinality(Mine(c)') <= Cardinality(Mine(c)) /\ Cardinality(Mine(c)) \in Nat /\ Cardinality(Mine(c)') \in Nat
  BY <1>1, FS_Subset, FS_CardinalityType
<1>3. CASE Mine(c) = {}
  BY <1>3 DEF Few
<1>4. CASE Mine(c) # {}
  <2>1. Cardinality(Mine(c)) <= Does[c].n
    BY <1>4 DEF Few
  <2>2. Cardinality(Mine(c)') <= Does[c].n
    BY <1>2, <2>1
  <2> QED BY <2>2 DEF Few
<1> QED BY <1>3, <1>4

LEMMA ReservingStays ==
  ASSUME Coming \in Given, NEW c \in Coming, Reserving(c), Mine(c)' \subseteq Mine(c), pc'[c] = pc[c]
  PROVE  Reserving(c)'
<1>1. Is(c, "socat.reserve") => Does[c].n \in Int
  BY ForwardsAssumption, Others DEF Is
<1> QED BY <1>1, FewStays DEF Reserving, Is, Ended

\* A step that reserves nothing and forwards nothing.
LEMMA ReservedElsewhere ==
  ASSUME ReservedInv, CommandsOK', Coming' = Coming, UNCHANGED <<rules, reserved>>,
         \A c \in Coming : Is(c, "socat.reserve") => pc'[c] = pc[c]
  PROVE  ReservedInv'
<1>1. \A c \in Coming : Mine(c)' = Mine(c)
  BY DEF Mine
<1>2. \A c \in Coming : Reserving(c)'
  BY <1>1, ReservingStays DEF ReservedInv, Reserving
<1> QED BY <1>2 DEF ReservedInv, Maps, Apart

LEMMA ReservedForward ==
  ASSUME ReservedInv, NEW c \in Coming, ~Ended(c), MovesOnly(c), ForwardStep(c)
  PROVE  ReservedInv'
<1>1. CommandsOK' /\ Coming' = Coming /\ \A d \in Coming \ {c} : pc'[d] = pc[d]
  BY DEF MovesOnly
<1>2. CASE SetPortForward(c) \/ RemovePortForward(c) \/ RemoveAll(c) \/ RemoveFind(c)
  <2>1. UNCHANGED <<rules, reserved>>
    BY <1>2 DEF SetPortForward, RemovePortForward, RemoveAll, RemoveFind, socat
  <2>2. ~Is(c, "socat.reserve")
    BY <1>2 DEF SetPortForward, RemovePortForward, RemoveAll, RemoveFind, Removes, Is
  <2> QED BY <1>1, <2>1, <2>2, ReservedElsewhere
<1>3. CASE SetApply(c) \/ RemoveDrop(c)
  <2>1. ~Is(c, "socat.reserve")
    BY <1>3 DEF SetApply, RemoveDrop, Removes, Is
  <2>2. Maps' /\ Apart' /\ \A p \in 1..Ports : reserved'[p] \in {reserved[p], "none"}
    BY <1>3 DEF SetApply, RemoveDrop, ReservedInv, Maps, Apart
  <2>3. \A d \in Coming : Mine(d)' \subseteq Mine(d)
    BY <2>2, Others DEF Mine, ReservedInv
  <2>4. \A d \in Coming : Reserving(d)'
    BY <1>1, <2>1, <2>3, ReservingStays DEF ReservedInv, Reserving, Is
  <2> QED BY <1>1, <2>2, <2>4 DEF ReservedInv
<1>4. CASE ReserveList(c)
  <2>1. UNCHANGED <<rules, reserved>> /\ pc'[c] = "listed"
    BY <1>4, StepMoves DEF ReserveList, socat, ReservedInv
  <2>2. \A d \in Coming : Mine(d)' = Mine(d)
    BY <2>1 DEF Mine
  <2>3. Reserving(c)'
    BY <2>1, <2>2 DEF Reserving, ReservedInv, Ended
  <2>4. \A d \in Coming : Reserving(d)'
    BY <1>1, <2>2, <2>3, ReservingStays DEF ReservedInv
  <2> QED BY <1>1, <2>1, <2>4 DEF ReservedInv, Maps, Apart
<1>5. CASE Reserve(c)
  <2> DEFINE found == Lowest(Free(c), Does[c].n)
  <2>1. /\ reserved' = [p \in 1..Ports |-> IF p \in found THEN c ELSE reserved[p]]
        /\ rules' = rules /\ Is(c, "socat.reserve")
    BY <1>5 DEF Reserve
  <2>2. pc'[c] \in {"ok", "error"}
    BY <1>5, StepMoves DEF Reserve, ReservedInv
  <2>3. Free(c) \in SUBSET (1..Ports) /\ \A p \in Free(c) : rules[p] = NoForward /\ reserved[p] = "none"
    BY DEF Free
  <2>4. found \subseteq Free(c)
    BY DEF Lowest
  <2>5. found = {} \/ Cardinality(found) <= Does[c].n
    <3>1. Does[c].n \in Int /\ Ports \in Nat
      BY <2>1, ForwardsAssumption, Others DEF ReservedInv, Is
    <3> QED BY <2>3, <3>1, LowestFew
  <2> HIDE DEF found
  <2>6. Mine(c) = {} /\ c # "none"
    BY <2>1, Others DEF ReservedInv, Reserving
  <2>7. Mine(c)' = found
    BY <2>1, <2>3, <2>4, <2>6 DEF Mine
  <2>8. \A d \in Coming \ {c} : Mine(d)' = Mine(d)
    BY <2>1, <2>3, <2>4, Others DEF Mine, ReservedInv
  <2>9. Maps' /\ Apart'
    BY <2>1, <2>3, <2>4 DEF ReservedInv, Maps, Apart
  <2>10. Reserving(c)'
    BY <2>2, <2>5, <2>7 DEF Reserving, Few, Ended
  <2>11. \A d \in Coming : Reserving(d)'
    BY <1>1, <2>8, <2>10, ReservingStays DEF ReservedInv
  <2> QED BY <1>1, <2>9, <2>11 DEF ReservedInv
<1> QED BY <1>2, <1>3, <1>4, <1>5 DEF ForwardStep

LEMMA ReservedStep == ReservedInv /\ [NetNext]_netvars => ReservedInv'
<1> SUFFICES ASSUME ReservedInv, [NetNext]_netvars PROVE ReservedInv'
  OBVIOUS
<1>1. CommandsOK
  BY DEF ReservedInv
<1>2. ASSUME NEW c \in Coming, MovesOnly(c), UNCHANGED socat, Does[c].do \notin SocatDo
      PROVE  ReservedInv'
  BY <1>2, ReservedElsewhere DEF MovesOnly, socat, SocatDo, Is
<1>3. ASSUME NEW c \in Coming, ~Ended(c), MovesOnly(c), ForwardStep(c) PROVE ReservedInv'
  BY <1>3, ReservedForward
<1>4. ASSUME CommandsOK', UNCHANGED <<pc, got, todo>>, UNCHANGED socat PROVE ReservedInv'
  BY <1>4, ReservedElsewhere DEF Coming, socat
<1>5. ASSUME CommandsOK', UNCHANGED <<pc, got, todo>>,
             NEW p \in 1..Ports, Expire(p) \/ ServiceStarts(p)
      PROVE  ReservedInv'
  <2>1. rules' = rules /\ Coming' = Coming
    BY <1>5 DEF Expire, ServiceStarts, Coming
  <2>2. Maps' /\ Apart' /\ \A q \in 1..Ports : reserved'[q] \in {reserved[q], "none"}
    BY <1>5, <2>1 DEF Expire, ServiceStarts, ReservedInv, Maps, Apart
  <2>3. \A d \in Coming : Mine(d)' \subseteq Mine(d)
    BY <2>2, Others DEF Mine, ReservedInv
  <2>4. \A d \in Coming : Reserving(d)'
    BY <1>5, <2>3, ReservingStays DEF ReservedInv
  <2> QED BY <1>5, <2>1, <2>2, <2>4 DEF ReservedInv
<1>6. LinkDo \cap SocatDo = {} /\ FirewallDo \cap SocatDo = {} /\ BridgeDo \cap SocatDo = {}
  BY DEF LinkDo, FirewallDo, BridgeDo, SocatDo
<1> QED BY <1>1, <1>2, <1>3, <1>4, <1>5, <1>6, NetSteps

LEMMA CommandsInit ==
  ASSUME InitCommands
  PROVE  CommandsOK /\ Coming \in Given /\ \A c \in Coming : pc[c] = "new" /\ got[c] = <<>> /\ todo[c] = <<>>
<1>1. PICK G \in Given : pc = [c \in G |-> "new"]
  BY DEF InitCommands
<1>2. Coming = G
  BY <1>1 DEF Coming
<1> QED BY <1>1, <1>2 DEF InitCommands, CommandsOK

\* No port is both reserved and forwarded, whoever forwards and reserves beside each
\* other, and no reserve has more ports than it asked for (socat.go Reserve,
\* SetPortForward).
THEOREM ReservedApartHolds == NetSpec => []ReservedApart
<1>1. NetInit => ReservedInv
  <2> SUFFICES ASSUME NetInit PROVE ReservedInv
    OBVIOUS
  <2>1. CommandsOK /\ Coming \in Given /\ \A c \in Coming : pc[c] = "new"
    BY CommandsInit DEF NetInit
  <2>2. Maps /\ \A p \in 1..Ports : reserved[p] = "none"
    BY DEF NetInit, InitForwards, Maps
  <2>3. \A c \in Coming : Mine(c) = {}
    BY <2>1, <2>2, Others DEF Mine
  <2> QED BY <2>1, <2>2, <2>3 DEF ReservedInv, Apart, Reserving, Few
<1>2. ReservedInv => ReservedApart
  BY DEF ReservedInv, Apart, Reserving, Few, Mine, ReservedApart
<1> QED BY <1>1, <1>2, ReservedStep, PTL DEF NetSpec


-----------------------------------------------------------------------------
(* Links and addresses *)

\* Every link has an index, a name and a kind, and no index is above those given.
LinksOK == /\ fresh \in Nat
           /\ \A l \in links : {"index", "name", "kind"} \subseteq DOMAIN l
                               /\ l.index \in Nat /\ l.index < fresh
           /\ \A a \in addrs : a.index \in Nat /\ a.index < fresh
HasKind(i, k) == \E l \in links : l.index = i /\ l.kind = k

\* A link keeps its index and its kind as long as it has an address.
KeepsKinds == \A a \in addrs \cap addrs' : \A k : HasKind(a.index, k)' <=> HasKind(a.index, k)
Same2(l, k) == l.index = k.index /\ l.kind = k.kind /\ DOMAIN l = DOMAIN k
Alike == /\ \A l \in links : \E k \in links' : Same2(l, k)
         /\ \A l \in links' : \E k \in links : Same2(l, k)

LEMMA AlikeKeeps ==
  ASSUME LinksOK, Alike, fresh' = fresh, addrs' \subseteq addrs
  PROVE  LinksOK' /\ KeepsKinds
<1>1. LinksOK'
  BY DEF LinksOK, Alike, Same2
<1>2. ASSUME NEW i, NEW k PROVE HasKind(i, k)' <=> HasKind(i, k)
  BY DEF HasKind, Alike, Same2
<1> QED BY <1>1, <1>2 DEF KeepsKinds

LEMMA LinkCalls ==
  ASSUME LinksOK
  PROVE  /\ \A n, k : LinkAdd(n, k) => LinksOK' /\ KeepsKinds /\ addrs' = addrs
         /\ \A S : LinksGone(S) => LinksOK' /\ KeepsKinds /\ addrs' \subseteq addrs
         /\ \A i, b : SetUp(i, b) \/ SetMaster(i, b) \/ SetMTU(i, b) \/ SetName(i, b) =>
              LinksOK' /\ KeepsKinds /\ addrs' = addrs
         /\ \A i : SetDown(i) => LinksOK' /\ KeepsKinds /\ addrs' = addrs
         /\ \A i, ip : AddrAdd(i, ip) /\ Exists(i) => LinksOK' /\ KeepsKinds
         /\ UNCHANGED <<links, fresh>> /\ addrs' \subseteq addrs => LinksOK' /\ KeepsKinds
<1>1. ASSUME NEW n, NEW k, LinkAdd(n, k) PROVE LinksOK' /\ KeepsKinds /\ addrs' = addrs
  <2> DEFINE new == Plain(fresh, n, k)
  <2>1. new.index = fresh /\ {"index", "name", "kind"} \subseteq DOMAIN new
    BY DEF Plain
  <2> HIDE DEF new
  <2>2. links' = links \cup {new} /\ fresh' = fresh + 1 /\ addrs' = addrs
    BY <1>1 DEF LinkAdd, new
  <2>3. LinksOK'
    BY <2>1, <2>2 DEF LinksOK
  <2>4. \A a \in addrs : a.index # fresh
    BY DEF LinksOK
  <2>5. KeepsKinds
    BY <2>1, <2>2, <2>4 DEF KeepsKinds, HasKind
  <2> QED BY <2>2, <2>3, <2>5
<1>2. ASSUME NEW S, LinksGone(S) PROVE LinksOK' /\ KeepsKinds /\ addrs' \subseteq addrs
  <2> DEFINE Put(l) == [l EXCEPT !.master = IF @ \in S THEN 0 ELSE @]
  <2>1. \A l \in links : Same2(l, Put(l))
    BY DEF LinksOK, Same2
  <2> HIDE DEF Put
  <2>2. /\ links' = {Put(l) : l \in {k \in links : k.index \notin S}}
        /\ addrs' = {a \in addrs : a.index \notin S} /\ fresh' = fresh
    BY <1>2 DEF LinksGone, Put
  <2>3. \A l \in links' : \E k \in links : Same2(l, k) /\ k.index \notin S
    BY <2>1, <2>2 DEF Same2
  <2>4. LinksOK'
    BY <2>2, <2>3 DEF LinksOK, Same2
  <2>5. \A l \in links : l.index \notin S => Put(l) \in links'
    BY <2>2
  <2>6. KeepsKinds
    <3> SUFFICES ASSUME NEW a \in addrs', NEW k PROVE HasKind(a.index, k)' <=> HasKind(a.index, k)
      BY DEF KeepsKinds
    <3>1. a.index \notin S
      BY <2>2
    <3> QED BY <2>1, <2>3, <2>5, <3>1 DEF HasKind, Same2
  <2> QED BY <2>2, <2>4, <2>6
<1>3. ASSUME NEW i, NEW b, SetUp(i, b) \/ SetMaster(i, b) \/ SetMTU(i, b) \/ SetName(i, b)
      PROVE  LinksOK' /\ KeepsKinds /\ addrs' = addrs
  <2>1. CASE SetUp(i, b)
    <3>1. Alike
      BY <2>1 DEF SetUp, ChangeLink, Alike, Same2, LinksOK
    <3> QED BY <2>1, <3>1, AlikeKeeps DEF SetUp, ChangeLink
  <2>2. CASE SetMaster(i, b)
    <3>1. Alike
      BY <2>2 DEF SetMaster, ChangeLink, Alike, Same2, LinksOK
    <3> QED BY <2>2, <3>1, AlikeKeeps DEF SetMaster, ChangeLink
  <2>3. CASE SetMTU(i, b)
    <3>1. Alike
      BY <2>3 DEF SetMTU, ChangeLink, Alike, Same2, LinksOK
    <3> QED BY <2>3, <3>1, AlikeKeeps DEF SetMTU, ChangeLink
  <2>4. CASE SetName(i, b)
    <3>1. Alike
      BY <2>4 DEF SetName, ChangeLink, Alike, Same2, LinksOK
    <3> QED BY <2>4, <3>1, AlikeKeeps DEF SetName, ChangeLink
  <2> QED BY <1>3, <2>1, <2>2, <2>3, <2>4
<1>4. ASSUME NEW i, SetDown(i) PROVE LinksOK' /\ KeepsKinds /\ addrs' = addrs
  <2>1. Alike
    BY <1>4 DEF SetDown, Alike, Same2, LinksOK
  <2> QED BY <1>4, <2>1, AlikeKeeps DEF SetDown
<1>5. ASSUME NEW i, NEW ip, AddrAdd(i, ip), Exists(i) PROVE LinksOK' /\ KeepsKinds
  <2>1. i \in Nat /\ i < fresh
    BY <1>5 DEF Exists, LinksOK
  <2> QED BY <1>5, <2>1 DEF AddrAdd, LinksOK, KeepsKinds, HasKind
<1>6. ASSUME UNCHANGED <<links, fresh>>, addrs' \subseteq addrs PROVE LinksOK' /\ KeepsKinds
  BY <1>6 DEF LinksOK, KeepsKinds, HasKind
<1> QED BY <1>1, <1>2, <1>3, <1>4, <1>5, <1>6

LEMMA LinkStepKeeps ==
  ASSUME LinksOK, NEW c, LinkStep(c)
  PROVE  LinksOK' /\ KeepsKinds /\ (addrs' \subseteq addrs \/ Is(c, "addr.add"))
<1>0. UNCHANGED net => LinksOK' /\ KeepsKinds /\ addrs' \subseteq addrs
  BY DEF net, LinksOK, KeepsKinds, HasKind
<1>1. CASE LookUp(c) \/ LookUpFails(c) \/ Filter(c)
  BY <1>0, <1>1 DEF LookUp, LookUpFails, Filter
<1>2. CASE OneCall(c)
  <2>1. CASE UNCHANGED net
    BY <1>0, <2>1
  <2>2. CASE Allowed(c) /\ Call(c) /\ OneShot(c)
    <3> DEFINE i == got[c][1]
    <3>1. CASE Does[c].do \in {"br.del", "bond.del"}
      <4>1. LinkDel(i)
        BY <2>2, <3>1 DEF Call, Is
      <4> QED BY <4>1, LinkCalls DEF LinkDel
    <3>2. CASE Does[c].do \in {"br.addinf", "nic.add", "br.delinf", "nic.remove"}
      <4>1. \E j, n : SetMaster(j, n)
        BY <2>2, <3>2 DEF Call, Is
      <4> QED BY <4>1, LinkCalls
    <3>3. CASE Does[c].do = "link.up"
      <4>1. SetUp(i, TRUE)
        BY <2>2, <3>3 DEF Call, Is
      <4> QED BY <4>1, LinkCalls
    <3>4. CASE Does[c].do = "link.down"
      <4>1. SetDown(i)
        BY <2>2, <3>4 DEF Call, Is
      <4> QED BY <4>1, LinkCalls
    <3>5. CASE Does[c].do \in {"link.name", "link.mtu"}
      <4>1. \E n : SetName(i, n) \/ SetMTU(i, n)
        BY <2>2, <3>5 DEF Call, Is
      <4> QED BY <4>1, LinkCalls
    <3>6. CASE Does[c].do = "addr.add"
      <4>1. AddrAdd(i, Does[c].ip)
        BY <2>2, <3>6 DEF Call, Is
      <4>2. Exists(i)
        BY <2>2, <3>6 DEF Allowed, Names
      <4> QED BY <3>6, <4>1, <4>2, LinkCalls DEF Is
    <3>7. CASE Does[c].do = "addr.del"
      <4>1. addrs' \subseteq addrs /\ UNCHANGED <<links, fresh>>
        BY <2>2, <3>7 DEF Call, Is
      <4> QED BY <4>1, LinkCalls
    <3>8. CASE Does[c].do \in {"route.add", "route.del"}
      <4>1. Route(c, i)
        BY <2>2, <3>8 DEF Call, Is
      <4>2. addrs' \subseteq addrs /\ UNCHANGED <<links, fresh>>
        BY <4>1 DEF Route
      <4> QED BY <4>2, LinkCalls
    <3> QED BY <2>2, <3>1, <3>2, <3>3, <3>4, <3>5, <3>6, <3>7, <3>8 DEF OneShot
  <2> QED BY <1>2, <2>1, <2>2 DEF OneCall
<1>3. CASE BrAdd(c) \/ BondLinkAdd(c)
  <2>1. UNCHANGED net \/ \E n, k : LinkAdd(n, k)
    BY <1>3 DEF BrAdd, BondLinkAdd
  <2> QED BY <1>0, <2>1, LinkCalls
<1>4. CASE BrAddHwAddr(c) \/ InitBonding(c)
  <2>1. UNCHANGED net \/ \E S : LinksGone(S)
    BY <1>4 DEF BrAddHwAddr, InitBonding, LinkDel
  <2> QED BY <1>0, <2>1, LinkCalls
<1>5. CASE BondSlave(c)
  <2>1. CASE UNCHANGED net \/ \E i, n : SetMTU(i, n)
    BY <1>0, <2>1, LinkCalls
  <2>2. CASE \E i : links' = {IF l.index = i THEN [l EXCEPT !.mtu = Does[c].mtu, !.up = TRUE]
                              ELSE l : l \in links} /\ UNCHANGED <<addrs, fresh>>
    <3> DEFINE Put(l) == [l EXCEPT !.mtu = Does[c].mtu, !.up = TRUE]
    <3>1. \A l \in links : Same2(l, Put(l))
      BY DEF LinksOK, Same2
    <3>2. PICK i : links' = {IF l.index = i THEN Put(l) ELSE l : l \in links}
      BY <2>2
    <3> HIDE DEF Put
    <3>3. Alike
      BY <3>1, <3>2 DEF Alike, Same2
    <3> QED BY <2>2, <3>3, AlikeKeeps
  <2> QED BY <1>5, <2>1, <2>2 DEF BondSlave, ChangeLink
<1>6. CASE BondEnslave(c)
  <2> DEFINE bond == got[c][Len(got[c])]
             slaves == {got[c][k] : k \in 1..(Len(got[c]) - 1)}
  <2>1. CASE UNCHANGED net \/ \E i, n : SetUp(i, n)
    BY <1>0, <2>1, LinkCalls
  <2>2. CASE /\ links' = {IF l.index = bond THEN [l EXCEPT !.up = TRUE]
                          ELSE IF l.index \in slaves THEN [l EXCEPT !.master = bond] ELSE l :
                            l \in links}
             /\ UNCHANGED <<addrs, fresh>>
    <3> HIDE DEF bond, slaves
    <3> DEFINE Put(l) == IF l.index = bond THEN [l EXCEPT !.up = TRUE]
                         ELSE IF l.index \in slaves THEN [l EXCEPT !.master = bond] ELSE l
    <3>1. \A l \in links : Same2(l, Put(l))
      BY DEF LinksOK, Same2
    <3>2. links' = {Put(l) : l \in links}
      BY <2>2
    <3> HIDE DEF Put
    <3>3. Alike
      BY <3>1, <3>2 DEF Alike, Same2
    <3> QED BY <2>2, <3>3, AlikeKeeps
  <2> QED BY <1>6, <2>1, <2>2 DEF BondEnslave
<1> QED BY <1>1, <1>2, <1>3, <1>4, <1>5, <1>6 DEF LinkStep

LEMMA BridgeStepKeeps ==
  ASSUME LinksOK, NEW c, BridgeStep(c)
  PROVE  LinksOK' /\ KeepsKinds /\ (addrs' \subseteq addrs \/ CreateAddr(c))
<1>0. UNCHANGED net => LinksOK' /\ KeepsKinds /\ addrs' \subseteq addrs
  BY DEF net, LinksOK, KeepsKinds, HasKind
<1>1. ASSUME Undo(c) PROVE LinksOK' /\ KeepsKinds /\ addrs' \subseteq addrs
  BY <1>0, <1>1, LinkCalls DEF Undo, LinkDel
<1>2. CASE Create(c) \/ CreateUp(c) \/ CreateConflict(c)
  <2>1. UNCHANGED net \/ Undo(c) \/ (\E n, k : LinkAdd(n, k)) \/ \E i, b : SetUp(i, b)
    BY <1>2 DEF Create, CreateUp, CreateConflict
  <2> QED BY <1>0, <1>1, <2>1, LinkCalls
<1>3. CASE CreateAddr(c)
  <2>1. UNCHANGED net \/ Undo(c) \/ \E i, ip : Exists(i) /\ AddrAdd(i, ip)
    BY <1>3 DEF CreateAddr
  <2> QED BY <1>0, <1>1, <1>3, <2>1, LinkCalls
<1>4. CASE CreateDnsmasq(c) \/ CreateNat(c) \/ DeleteLink(c)
  <2>1. UNCHANGED net \/ Undo(c) \/ \E i : LinkDel(i)
    BY <1>4 DEF CreateDnsmasq, CreateNat, DeleteLink
  <2> QED BY <1>0, <1>1, <2>1, LinkCalls DEF LinkDel
<1>5. CASE \/ CreateAllow(c) \/ CreateDone(c) \/ Delete(c) \/ DeleteFind(c) \/ DeleteSignal(c) \/ DeleteAddrs(c)
           \/ DeleteUnsetNat(c) \/ DeleteDrop(c) \/ DeleteUnNft(c) \/ DeleteDone(c)
           \/ HostAdd(c) \/ HostAddWrite(c)
  <2>1. UNCHANGED net
    BY <1>5 DEF CreateAllow, CreateDone, Delete, DeleteFind, DeleteSignal, DeleteAddrs, DeleteUnsetNat,
                DeleteDrop, DeleteUnNft, DeleteDone, HostAdd, HostAddWrite
  <2> QED BY <1>0, <2>1
<1> QED BY <1>2, <1>3, <1>4, <1>5 DEF BridgeStep

LEMMA LinksStart == NetInit => LinksOK
<1> SUFFICES ASSUME NetInit PROVE LinksOK
  OBVIOUS
<1>1. /\ links = {Plain(i, Wires[i], "device") : i \in DOMAIN Wires}
      /\ addrs = {} /\ fresh = Len(Wires) + 1
  BY DEF NetInit, InitLinks
<1>2. DOMAIN Wires = 1..Len(Wires) /\ Len(Wires) \in Nat
  BY LinksAssumption
<1>3. \A i \in DOMAIN Wires : LET l == Plain(i, Wires[i], "device")
                              IN  {"index", "name", "kind"} \subseteq DOMAIN l /\ l.index = i
  BY DEF Plain
<1> QED BY <1>1, <1>2, <1>3 DEF LinksOK

-----------------------------------------------------------------------------
(* Networks *)

Disjoint == \A a, b \in addrs : a # b => <<a.ip, b.ip>> \notin Overlaps
\* What conflict has found stays so until the address is added.
Clear(c) == Is(c, "create") /\ pc[c] = "adding" =>
              \A a \in addrs : <<a.ip, Does[c].ip>> \notin Overlaps
Creating(c) == Is(c, "create") /\ pc[c] # "new" /\ ~Ended(c)
NoneAdded == \A c \in Coming : ~Named(c, {"addr.add"})

LockedInv == CommandsOK /\ Coming \in Given /\ \A c \in Coming : Creating(c) => bm = c
ApartInv ==
  /\ LockedInv /\ LinksOK
  /\ NoneAdded => Disjoint /\ \A c \in Coming : Clear(c)

LEMMA CreateStart ==
  ASSUME CommandsOK, NEW c \in Coming, Create(c)
  PROVE  pc[c] = "new" /\ bm = "free" /\ (pc'[c] = "error" \/ (pc'[c] = "made" /\ bm' = c))
<1>1. CASE Index(Does[c].name) # {}
  <2>1. Step(c, "error") /\ pc[c] = "new" /\ bm = "free"
    BY <1>1 DEF Create
  <2>2. pc'[c] = "error"
    BY <2>1, StepMoves
  <2> QED BY <2>1, <2>2
<1>2. CASE Index(Does[c].name) = {}
  <2>1. Reads(c, "made", <<fresh>>) /\ bm' = c /\ pc[c] = "new" /\ bm = "free"
    BY <1>2 DEF Create
  <2>2. pc'[c] = "made"
    BY <2>1, StepMoves
  <2> QED BY <2>1, <2>2
<1> QED BY <1>1, <1>2

LEMMA CreateUps ==
  ASSUME CommandsOK, NEW c \in Coming, CreateUp(c)
  PROVE  pc[c] = "made" /\ (pc'[c] = "error" \/ (pc'[c] = "allowing" /\ bm' = bm))
<1>1. /\ pc[c] = "made"
      /\ (Step(c, "allowing") /\ UNCHANGED bm) \/ Step(c, "error") \/ Fault(c, "error")
  BY DEF CreateUp
<1> QED BY <1>1, StepMoves

LEMMA CreateAllowed ==
  ASSUME CommandsOK, NEW c \in Coming, CreateAllow(c)
  PROVE  pc[c] = "allowing" /\ (pc'[c] = "error" \/ (pc'[c] \in {"done", "addressing"} /\ bm' = bm))
<1>1. CASE Step(c, IF Does[c].mode = "none" THEN "done" ELSE "addressing") /\ bm' = bm
  <2>1. pc'[c] = IF Does[c].mode = "none" THEN "done" ELSE "addressing"
    BY <1>1, StepMoves
  <2> QED BY <1>1, <2>1 DEF CreateAllow
<1>2. CASE Step(c, "error") \/ Fault(c, "error")
  <2>1. pc'[c] = "error"
    BY <1>2, StepMoves
  <2> QED BY <2>1 DEF CreateAllow
<1> QED BY <1>1, <1>2 DEF CreateAllow

\* One create at a time is past its start, and it keeps the lock up to its end.
LEMMA CreateLocked ==
  ASSUME LockedInv, NEW c \in Coming, ~Ended(c), MovesOnly(c), BridgeStep(c)
  PROVE  /\ \/ ~Is(c, "create") /\ bm' = bm
            \/ Is(c, "create") /\ pc'[c] # "new" /\ \A d \in Coming \ {c} : ~Creating(d)
         /\ LockedInv'
<1>0. Coming' = Coming /\ CommandsOK' /\ \A d \in Coming \ {c} : pc'[d] = pc[d]
  BY DEF MovesOnly
<1>a. CommandsOK
  BY DEF LockedInv
<1>1. CASE Is(c, "create")
  <2>1. /\ pc[c] # "new" \/ bm = "free"
        /\ pc'[c] # "new" /\ pc'[c] \notin {"ok", "error"} => bm' = c \/ (bm' = bm /\ pc[c] # "new")
    <3>0. CASE Create(c)
      BY <1>a, <3>0, CreateStart
    <3>1. CASE CreateUp(c)
      BY <3>1, <1>a, CreateUps
    <3>4. CASE CreateAllow(c)
      BY <3>4, <1>a, CreateAllowed
    <3>2. CASE CreateConflict(c) \/ CreateAddr(c) \/ CreateDnsmasq(c)
      BY <3>2, <1>a, StepMoves DEF CreateConflict, CreateAddr, CreateDnsmasq
    <3>3. CASE CreateNat(c) \/ CreateDone(c)
      BY <3>3, <1>a, StepMoves DEF CreateNat, CreateDone
    <3> QED BY <1>1, <3>0, <3>1, <3>2, <3>3, <3>4 DEF BridgeStep, Delete, DeleteFind, DeleteSignal, DeleteAddrs,
              DeleteUnsetNat, DeleteDrop, DeleteLink, DeleteUnNft, DeleteDone, HostAdd, HostAddWrite, Is
  <2>2. pc'[c] # "new"
    <3>0. CASE Create(c)
      BY <1>a, <3>0, CreateStart
    <3>1. CASE CreateUp(c)
      BY <3>1, <1>a, CreateUps
    <3>4. CASE CreateAllow(c)
      BY <3>4, <1>a, CreateAllowed
    <3>2. CASE CreateConflict(c) \/ CreateAddr(c) \/ CreateDnsmasq(c)
      BY <3>2, <1>a, StepMoves DEF CreateConflict, CreateAddr, CreateDnsmasq
    <3>3. CASE CreateNat(c) \/ CreateDone(c)
      BY <3>3, <1>a, StepMoves DEF CreateNat, CreateDone
    <3> QED BY <1>1, <3>0, <3>1, <3>2, <3>3, <3>4 DEF BridgeStep, Delete, DeleteFind, DeleteSignal, DeleteAddrs,
              DeleteUnsetNat, DeleteDrop, DeleteLink, DeleteUnNft, DeleteDone, HostAdd, HostAddWrite, Is
  <2>3. \A d \in Coming \ {c} : ~Creating(d)
    BY <1>1, <2>1, Others DEF LockedInv, Creating
  <2>4. Creating(c)' => bm' = c
    BY <1>1, <2>1 DEF Creating, Ended, LockedInv
  <2> QED BY <1>0, <1>1, <2>2, <2>3, <2>4 DEF LockedInv, Creating, Ended, Is
<1>2. CASE ~Is(c, "create")
  <2>1. bm' = bm
    BY <1>2 DEF BridgeStep, Create, CreateUp, CreateAllow, CreateConflict, CreateAddr, CreateDnsmasq,
       CreateNat, CreateDone, Delete, DeleteFind, DeleteSignal, DeleteAddrs, DeleteUnsetNat,
       DeleteDrop, DeleteLink, DeleteUnNft, DeleteDone, HostAdd, HostAddWrite, bridges
  <2> QED BY <1>0, <1>2, <2>1 DEF LockedInv, Creating, Ended, Is
<1> QED BY <1>1, <1>2

LEMMA LockedElsewhere ==
  ASSUME LockedInv, CommandsOK', Coming' = Coming, bm' = bm,
         \A c \in Coming : Is(c, "create") => pc'[c] = pc[c]
  PROVE  LockedInv'
BY DEF LockedInv, Creating, Ended, Is

LEMMA ApartElsewhere ==
  ASSUME ApartInv, LockedInv', LinksOK', Coming' = Coming, NoneAdded => addrs' \subseteq addrs,
         \A c \in Coming : Is(c, "create") => pc'[c] = pc[c]
  PROVE  ApartInv'
<1>1. NoneAdded' = NoneAdded
  BY DEF NoneAdded, Named
<1>2. ASSUME NoneAdded PROVE Disjoint' /\ \A c \in Coming : Clear(c)'
  BY <1>2 DEF ApartInv, Disjoint, Clear, Is
<1> QED BY <1>1, <1>2 DEF ApartInv

LEMMA ApartBridge ==
  ASSUME ApartInv, NEW c \in Coming, ~Ended(c), MovesOnly(c), BridgeStep(c)
  PROVE  ApartInv'
<1>0. Coming' = Coming /\ CommandsOK' /\ \A d \in Coming \ {c} : pc'[d] = pc[d]
  BY DEF MovesOnly
<1>a. CommandsOK
  BY DEF ApartInv, LockedInv
<1>1. LockedInv' /\ LinksOK' /\ (addrs' \subseteq addrs \/ CreateAddr(c))
  BY CreateLocked, BridgeStepKeeps DEF ApartInv
<1>2. CASE ~Is(c, "create")
  <2>1. ~CreateAddr(c)
    BY <1>2 DEF CreateAddr
  <2> QED BY <1>0, <1>1, <1>2, <2>1, ApartElsewhere
<1>3. CASE Is(c, "create")
  <2>1. \A d \in Coming \ {c} : ~Creating(d)
    BY <1>3, CreateLocked DEF ApartInv
  <2>2. \A d \in Coming \ {c} : Clear(d)'
    BY <1>0, <2>1 DEF Clear, Creating, Ended, Is
  <2>3. pc'[c] = "adding" => CreateConflict(c)
    <3>0. CASE Create(c)
      BY <1>a, <3>0, CreateStart
    <3>1. CASE CreateUp(c)
      BY <3>1, <1>a, CreateUps
    <3>4. CASE CreateAllow(c)
      BY <3>4, <1>a, CreateAllowed
    <3>2. CASE CreateAddr(c) \/ CreateDnsmasq(c)
      BY <3>2, <1>a, StepMoves DEF CreateAddr, CreateDnsmasq
    <3>3. CASE CreateNat(c) \/ CreateDone(c)
      BY <3>3, <1>a, StepMoves DEF CreateNat, CreateDone
    <3> QED BY <1>3, <3>0, <3>1, <3>2, <3>3, <3>4 DEF BridgeStep, Delete, DeleteFind, DeleteSignal, DeleteAddrs,
              DeleteUnsetNat, DeleteDrop, DeleteLink, DeleteUnNft, DeleteDone, HostAdd, HostAddWrite, Is
  <2>4. Clear(c)'
    <3>1. CASE pc'[c] = "adding"
      <4>1. ~MayConflict(Does[c].ip) /\ UNCHANGED net
        BY <2>3, <3>1, StepMoves DEF CreateConflict, ApartInv, LockedInv
      <4> QED BY <4>1 DEF MayConflict, Clear, net
    <3> QED BY <3>1 DEF Clear
  <2>5. NoneAdded => Disjoint'
    <3>1. CASE addrs' \subseteq addrs
      BY <3>1 DEF ApartInv, Disjoint
    <3>2. CASE CreateAddr(c) /\ AddrAdd(got[c][1], Does[c].ip)
      <4> DEFINE new == [index |-> got[c][1], ip |-> Does[c].ip]
      <4>1. addrs' = addrs \cup {new} /\ new.ip = Does[c].ip /\ pc[c] = "adding"
        BY <3>2 DEF AddrAdd, CreateAddr
      <4> HIDE DEF new
      <4>2. ASSUME NoneAdded, NEW a \in addrs
            PROVE  <<a.ip, new.ip>> \notin Overlaps /\ <<new.ip, a.ip>> \notin Overlaps
        <5>1. <<a.ip, new.ip>> \notin Overlaps
          BY <1>3, <4>1, <4>2 DEF ApartInv, Clear
        <5>2. <<new.ip, a.ip>> \in Overlaps => <<a.ip, new.ip>> \in Overlaps
          BY BridgesAssumption
        <5> QED BY <5>1, <5>2
      <4> QED BY <4>1, <4>2 DEF ApartInv, Disjoint
    <3>3. CASE CreateAddr(c) /\ ~AddrAdd(got[c][1], Does[c].ip)
      <4>1. UNCHANGED net \/ Undo(c)
        BY <3>3 DEF CreateAddr
      <4>2. addrs' \subseteq addrs
        BY <4>1, LinkCalls DEF ApartInv, Undo, LinkDel, net
      <4> QED BY <3>1, <4>2
    <3> QED BY <1>1, <3>1, <3>2, <3>3
  <2>6. NoneAdded' = NoneAdded
    BY <1>0 DEF NoneAdded, Named
  <2> QED BY <1>0, <1>1, <2>2, <2>4, <2>5, <2>6 DEF ApartInv
<1> QED BY <1>2, <1>3

LEMMA ApartStep == ApartInv /\ [NetNext]_netvars => ApartInv'
<1> SUFFICES ASSUME ApartInv, [NetNext]_netvars PROVE ApartInv'
  OBVIOUS
<1>1. CommandsOK /\ LockedInv /\ LinksOK
  BY DEF ApartInv, LockedInv
<1>2. ASSUME UNCHANGED net PROVE LinksOK' /\ addrs' = addrs
  BY <1>1, <1>2, LinkCalls DEF net
<1>3. ASSUME NEW c \in Coming, MovesOnly(c), LinkStep(c), Does[c].do \in LinkDo, UNCHANGED bridges
      PROVE  ApartInv'
  <2>1. Coming' = Coming /\ CommandsOK' /\ \A d \in Coming : Is(d, "create") => pc'[d] = pc[d]
    BY <1>3 DEF MovesOnly, LinkDo, Is
  <2>2. LockedInv'
    BY <1>1, <1>3, <2>1, LockedElsewhere DEF bridges
  <2>3. NoneAdded => addrs' \subseteq addrs
    BY <1>1, <1>3, LinkStepKeeps DEF NoneAdded, Named, Is
  <2> QED BY <1>1, <1>3, <2>1, <2>2, <2>3, LinkStepKeeps, ApartElsewhere
<1>4. ASSUME NEW c \in Coming, MovesOnly(c), Does[c].do \in FirewallDo \cup SocatDo,
             UNCHANGED <<net, bridges>>
      PROVE  ApartInv'
  <2>1. Coming' = Coming /\ CommandsOK' /\ \A d \in Coming : Is(d, "create") => pc'[d] = pc[d]
    BY <1>4 DEF MovesOnly, FirewallDo, SocatDo, Is
  <2>2. LockedInv'
    BY <1>1, <1>4, <2>1, LockedElsewhere DEF bridges
  <2> QED BY <1>2, <1>4, <2>1, <2>2, ApartElsewhere
<1>5. ASSUME NEW c \in Coming, MovesOnly(c), ~Ended(c), BridgeStep(c) PROVE ApartInv'
  BY <1>5, ApartBridge
<1>6. ASSUME CommandsOK', UNCHANGED <<pc, net, bm>> PROVE ApartInv'
  <2>1. Coming' = Coming
    BY <1>6 DEF Coming
  <2>2. LockedInv'
    BY <1>1, <1>6, <2>1, LockedElsewhere
  <2> QED BY <1>2, <1>6, <2>1, <2>2, ApartElsewhere
<1>7. \A b \in Bridge : DnsmasqEnds(b) => bm' = bm
  BY DEF DnsmasqEnds
<1>8. UNCHANGED bridges => bm' = bm
  BY DEF bridges
<1> QED BY <1>1, <1>3, <1>4, <1>5, <1>6, <1>7, <1>8, NetSteps

\* No two addresses have networks that intersect, as long as ip.addr.add adds none: the
\* test of a create and its address are not parted by another's (bridge.go conflict,
\* bridgeStaticNetworking, create).
THEOREM NetworksApartHolds == NetSpec => []NetworksApart
<1>1. NetInit => ApartInv
  <2> SUFFICES ASSUME NetInit PROVE ApartInv
    OBVIOUS
  <2>1. CommandsOK /\ Coming \in Given /\ \A c \in Coming : pc[c] = "new"
    BY CommandsInit DEF NetInit
  <2>2. addrs = {}
    BY DEF NetInit, InitLinks
  <2> QED BY <2>1, <2>2, LinksStart DEF ApartInv, LockedInv, Creating, Clear, Disjoint
<1>2. ApartInv => NetworksApart
  BY DEF ApartInv, NetworksApart, NoneAdded, Disjoint
<1> QED BY <1>1, <1>2, ApartStep, PTL DEF NetSpec

-----------------------------------------------------------------------------
(* The set of the host's addresses *)

NotifyOK == /\ lines \in Nat
            /\ notify = [busy |-> notify.busy, gone |-> notify.gone, ips |-> notify.ips]
            /\ notify.busy => notify.ips = current
            /\ ~notify.busy => notify.gone = {}
\* What is heard is current; what is neither current nor on its way out was not deleted.
HostSetInv ==
  /\ CommandsOK /\ LinksOK /\ NotifyOK
  /\ lines = 0 /\ ~deaf => current = CurrentIPs
  /\ host \subseteq current \cup undeleted \cup notify.gone
  /\ ~notify.busy => unset \/ current \subseteq host

LEMMA HostSetTold ==
  ASSUME HostSetInv, CommandsOK', LinksOK', Told
  PROVE  HostSetInv'
<1> DEFINE heard == monitor /\ addrs' # addrs
<1>1. /\ lines' = IF heard THEN lines + 1 ELSE lines
      /\ deaf' = (deaf \/ (~heard /\ CurrentIPs' # CurrentIPs))
      /\ UNCHANGED <<host, current, notify, undeleted, unset>>
  BY DEF Told
<1> HIDE DEF heard
<1>2. lines' \in Nat /\ (heard => lines' # 0) /\ (~heard => lines' = lines)
  BY <1>1 DEF HostSetInv, NotifyOK
<1>3. (lines = 0 /\ ~deaf => current = CurrentIPs)'
  BY <1>1, <1>2 DEF HostSetInv
<1> QED BY <1>1, <1>2, <1>3 DEF HostSetInv, NotifyOK

\* What the handler of a line does when it has read ips, and so whatever those are.
LEMMA HostSetNoted ==
  ASSUME HostSetInv, CommandsOK', LinksOK', NEW ips, Noted(ips), ~notify.busy,
         lines > 0, lines' = lines - 1, UNCHANGED <<host, undeleted>>,
         deaf' \/ ips = CurrentIPs'
  PROVE  HostSetInv'
<1>1. /\ notify' = [busy |-> TRUE, gone |-> current \ ips, ips |-> ips] /\ current' = ips
  BY DEF Noted
<1>2. notify'.busy = TRUE /\ notify'.gone = current \ ips /\ notify'.ips = ips
  BY <1>1
<1>3. NotifyOK'
  BY <1>1, <1>2 DEF HostSetInv, NotifyOK
<1>4. (host \subseteq current \cup undeleted \cup notify.gone)'
  BY <1>1, <1>2 DEF HostSetInv, NotifyOK
<1> QED BY <1>1, <1>2, <1>3, <1>4 DEF HostSetInv

LEMMA HostSetWatch ==
  ASSUME HostSetInv, CommandsOK', UNCHANGED net, Watch
  PROVE  HostSetInv'
<1>1. LinksOK' /\ CurrentIPs' = CurrentIPs
  BY DEF HostSetInv, LinksOK, net, CurrentIPs, Counted, IPsOf
<1>2. CASE NotifyRead
  <2>1. ~notify.busy /\ lines > 0 /\ lines' = lines - 1 /\ UNCHANGED <<host, undeleted, unset>>
    BY <1>2 DEF NotifyRead
  <2>2. CASE Noted(CurrentIPs)
    BY <1>1, <2>1, <2>2, HostSetNoted
  <2>3. CASE deaf' /\ \E l \in Counted : Noted(IPsOf(Counted \ {l}))
    <3>1. PICK l \in Counted : Noted(IPsOf(Counted \ {l}))
      BY <2>3
    <3> QED BY <1>1, <2>1, <2>3, <3>1, HostSetNoted
  <2>4. CASE deaf' /\ UNCHANGED <<notify, current>>
    <3>1. lines' \in Nat
      BY <2>1 DEF HostSetInv, NotifyOK
    <3> QED BY <1>1, <2>1, <2>4, <3>1 DEF HostSetInv, NotifyOK
  <2> QED BY <1>2, <2>2, <2>3, <2>4 DEF NotifyRead
<1>3. CASE \E ip \in Host : NotifyDelete(ip)
  <2>1. PICK ip \in Host : NotifyDelete(ip)
    BY <1>3
  <2>2. ip \in notify.gone /\ notify' = [notify EXCEPT !.gone = @ \ {ip}]
        /\ UNCHANGED <<current, lines, deaf>>
    BY <2>1 DEF NotifyDelete
  <2>3. notify.busy /\ notify'.busy /\ notify'.gone = notify.gone \ {ip} /\ NotifyOK'
    BY <2>2 DEF HostSetInv, NotifyOK
  <2>4. (host \subseteq current \cup undeleted \cup notify.gone)'
    BY <2>1, <2>2, <2>3 DEF HostSetInv, NotifyDelete
  <2> QED BY <1>1, <2>2, <2>3, <2>4 DEF HostSetInv
<1>4. CASE NotifySet
  <2>1. notify.busy /\ notify.gone = {} /\ notify' = Idle /\ UNCHANGED <<current, lines, deaf>>
        /\ notify.ips = current /\ undeleted' = undeleted \ current
    BY <1>4 DEF NotifySet, HostSetInv, NotifyOK
  <2>2. ~notify'.busy /\ notify'.gone = {} /\ NotifyOK'
    BY <2>1 DEF Idle, HostSetInv, NotifyOK
  <2>3. (unset \/ current \subseteq host)' /\ (host' = host \/ host' = host \cup current)
    BY <1>4, <2>1 DEF NotifySet
  <2>4. (host \subseteq current \cup undeleted \cup notify.gone)'
    BY <2>1, <2>2, <2>3 DEF HostSetInv
  <2> QED BY <1>1, <2>1, <2>2, <2>3, <2>4 DEF HostSetInv
<1>5. CASE MonitorDies \/ MonitorStarts
  BY <1>1, <1>5 DEF MonitorDies, MonitorStarts, HostSetInv, NotifyOK
<1> QED BY <1>2, <1>3, <1>4, <1>5 DEF Watch

LEMMA HostSetStep == HostSetInv /\ [NetNext]_netvars => HostSetInv'
<1> SUFFICES ASSUME HostSetInv, [NetNext]_netvars PROVE HostSetInv'
  OBVIOUS
<1>1. CommandsOK /\ LinksOK
  BY DEF HostSetInv
<1>2. ASSUME CommandsOK', UNCHANGED <<net, watch>> PROVE HostSetInv'
  <2>1. LinksOK' /\ CurrentIPs' = CurrentIPs
    BY <1>1, <1>2 DEF LinksOK, net, CurrentIPs, Counted, IPsOf
  <2> QED BY <1>2, <2>1 DEF HostSetInv, NotifyOK, net, watch
<1>3. ASSUME NEW c \in Coming, MovesOnly(c), LinkStep(c) \/ BridgeStep(c), Told PROVE HostSetInv'
  BY <1>1, <1>3, LinkStepKeeps, BridgeStepKeeps, HostSetTold DEF MovesOnly
<1>4. ASSUME CommandsOK', UNCHANGED net, Watch PROVE HostSetInv'
  BY <1>4, HostSetWatch
<1>5. \A c : MovesOnly(c) => CommandsOK'
  BY DEF MovesOnly
<1> QED BY <1>1, <1>2, <1>3, <1>4, <1>5, NetSteps

\* When every line of the monitor has been handled, the set nat host holds the addresses
\* of the host and nothing else but what could not be deleted (socat's monitor of
\* addresses).
THEOREM HostSetCurrentHolds == NetSpec => []HostSetCurrent
<1>1. NetInit => HostSetInv
  <2> SUFFICES ASSUME NetInit PROVE HostSetInv
    OBVIOUS
  <2>1. CommandsOK /\ LinksOK
    BY CommandsInit, LinksStart DEF NetInit
  <2>2. /\ host = {} /\ current = {} /\ lines = 0 /\ notify = Idle /\ addrs = {}
    BY DEF NetInit, InitForwards, InitLinks
  <2>3. NotifyOK /\ notify.gone = {}
    BY <2>2 DEF NotifyOK, Idle
  <2>4. CurrentIPs = {}
    BY <2>2 DEF CurrentIPs, Counted, IPsOf
  <2> QED BY <2>1, <2>2, <2>3, <2>4 DEF HostSetInv
<1>2. HostSetInv => HostSetCurrent
  BY DEF HostSetInv, NotifyOK, HostSetCurrent
<1> QED BY <1>1, <1>2, HostSetStep, PTL DEF NetSpec

-----------------------------------------------------------------------------
(* Sequences joined *)

\* What AllRules computes: the sequences G[1], ..., G[n] one after the other.
Joins(f, G, n) == f = [k \in 0..n |-> IF k = 0 THEN <<>> ELSE f[k - 1] \o G[k]]
\* Sequence i is in t, from some place on.
Part(t, s) == \E o \in Nat : \A k \in DOMAIN s : o + k \in DOMAIN t /\ t[o + k] = s[k]

LEMMA JoinExists ==
  ASSUME NEW G, NEW N \in Nat PROVE \E f : Joins(f, G, N)
<1> DEFINE T == {n \in Nat : ~\E f : Joins(f, G, n)}
<1> SUFFICES ASSUME T # {} PROVE FALSE
  OBVIOUS
<1>1. PICK n \in T : \A k \in T : n <= k
  BY LeastNumber
<1>2. CASE n = 0
  <2> DEFINE f == [k \in 0..0 |-> <<>>]
  <2>1. f = [k \in 0..0 |-> IF k = 0 THEN <<>> ELSE f[k - 1] \o G[k]]
    OBVIOUS
  <2> QED BY <1>2, <2>1 DEF Joins
<1>3. CASE n # 0
  <2>1. n - 1 \in Nat /\ n \in Nat /\ n - 1 \notin T
    BY <1>1, <1>3
  <2>2. PICK g : Joins(g, G, n - 1)
    BY <2>1
  <2> DEFINE f == [k \in 0..n |-> IF k = n THEN g[n - 1] \o G[n] ELSE g[k]]
  <2>3. ASSUME NEW k \in 0..n PROVE f[k] = IF k = 0 THEN <<>> ELSE f[k - 1] \o G[k]
    <3>1. CASE k = n
      <4>1. f[n] = g[n - 1] \o G[n] /\ f[n - 1] = g[n - 1] /\ n # 0
        BY <1>3, <2>1
      <4> QED BY <3>1, <4>1
    <3>2. CASE k # n
      <4>1. k \in 0..(n - 1) /\ f[k] = g[k]
        BY <2>1, <3>2
      <4>2. g[k] = IF k = 0 THEN <<>> ELSE g[k - 1] \o G[k]
        BY <2>2, <4>1 DEF Joins
      <4>3. k # 0 => k - 1 \in 0..n /\ k - 1 # n
        BY <2>1, <4>1
      <4>4. k # 0 => f[k - 1] = g[k - 1]
        BY <4>3
      <4> QED BY <4>1, <4>2, <4>4
    <3> QED BY <3>1, <3>2
  <2>4. f = [k \in 0..n |-> f[k]]
    OBVIOUS
  <2> HIDE DEF f
  <2>5. Joins(f, G, n)
    BY <2>3, <2>4 DEF Joins
  <2> QED BY <1>1, <2>5
<1> QED BY <1>2, <1>3

LEMMA JoinHas ==
  ASSUME NEW S, NEW N \in Nat, NEW G, \A k \in 1..N : G[k] \in Seq(S), NEW f, Joins(f, G, N)
  PROVE  f[N] \in Seq(S) /\ \A i \in 1..N : Part(f[N], G[i])
<1> DEFINE OK(n) == f[n] \in Seq(S) /\ \A i \in 1..n : Part(f[n], G[i])
           T == {n \in 0..N : ~OK(n)}
<1> SUFFICES ASSUME T # {} PROVE FALSE
  OBVIOUS
<1>1. PICK n \in T : \A k \in T : n <= k
  <2>1. T \in SUBSET Nat
    OBVIOUS
  <2> HIDE DEF T
  <2> QED BY <2>1, LeastNumber
<1>2. CASE n = 0
  <2>1. f[n] = <<>> /\ \A i : i \notin 1..n
    BY <1>1, <1>2 DEF Joins
  <2>2. f[n] \in Seq(S)
    BY <2>1, EmptySeq
  <2> QED BY <1>1, <2>1, <2>2
<1>3. CASE n # 0
  <2>1. n - 1 \in 0..N /\ n \in 1..N /\ n - 1 \notin T
    BY <1>1, <1>3
  <2>2. OK(n - 1)
    BY <2>1
  <2> DEFINE s == f[n - 1]  t == G[n]
  <2>3. f[n] = s \o t /\ s \in Seq(S) /\ t \in Seq(S)
    BY <2>1, <2>2 DEF Joins
  <2> HIDE DEF s, t
  <2>4. /\ s \o t \in Seq(S)
        /\ Len(s \o t) = Len(s) + Len(t)
        /\ \A i \in 1..(Len(s) + Len(t)) : (s \o t)[i] = IF i <= Len(s) THEN s[i] ELSE t[i - Len(s)]
    BY <2>3, ConcatProperties
  <2>5. /\ Len(s) \in Nat /\ Len(t) \in Nat /\ DOMAIN s = 1..Len(s) /\ DOMAIN t = 1..Len(t)
        /\ DOMAIN (s \o t) = 1..(Len(s) + Len(t))
    BY <2>3, <2>4, LenProperties
  <2>6. Part(f[n], t)
    <3>1. \A k \in DOMAIN t : Len(s) + k \in 1..(Len(s) + Len(t)) /\ ~(Len(s) + k <= Len(s))
                              /\ (Len(s) + k) - Len(s) = k
      BY <2>5
    <3>2. \A k \in DOMAIN t : Len(s) + k \in DOMAIN f[n] /\ f[n][Len(s) + k] = t[k]
      BY <2>3, <2>4, <2>5, <3>1
    <3> QED BY <2>5, <3>2 DEF Part
  <2>7. ASSUME NEW i \in 1..(n - 1) PROVE Part(f[n], G[i])
    <3>1. PICK o \in Nat : \A k \in DOMAIN G[i] : o + k \in DOMAIN s /\ s[o + k] = G[i][k]
      BY <2>2 DEF Part, s
    <3>2. \A j \in DOMAIN s : j \in 1..(Len(s) + Len(t)) /\ j <= Len(s)
      BY <2>5
    <3>3. \A j \in DOMAIN s : j \in DOMAIN f[n] /\ f[n][j] = s[j]
      BY <2>3, <2>4, <2>5, <3>2
    <3> QED BY <3>1, <3>3 DEF Part
  <2>8. \A i \in 1..n : i = n \/ i \in 1..(n - 1)
    BY <2>1
  <2>9. OK(n)
    BY <2>3, <2>4, <2>6, <2>7, <2>8 DEF t
  <2> QED BY <1>1, <2>9
<1> QED BY <1>2, <1>3

-----------------------------------------------------------------------------
(* The rules of the firewall *)

\* No rule has a handle above the last one given.
HandlesOK == handle \in Nat /\ \A r \in chain : /\ r.handle \in Nat /\ r.handle <= handle
                                               /\ 1 \in DOMAIN r.body
\* Of the rules that come, each has a handle of its own and says one of these words.
Comes(words) == /\ HandlesOK' /\ handle <= handle'
                /\ \A r \in chain' : r \in chain \/ (r.handle > handle /\ r.body[1] \in words)

LEMMA ComesNothing ==
  ASSUME HandlesOK, chain' \subseteq chain, handle' = handle, NEW words
  PROVE  Comes(words)
BY DEF HandlesOK, Comes

LEMMA ComesApplied ==
  ASSUME HandlesOK, NEW S, NEW bodies \in Seq(S), Apply(bodies), NEW words,
         \A k \in DOMAIN bodies : 1 \in DOMAIN bodies[k] /\ bodies[k][1] \in words
  PROVE  Comes(words)
<1> DEFINE new(k) == [body |-> bodies[k], handle |-> handle + k]
<1>1. Len(bodies) \in Nat /\ DOMAIN bodies = 1..Len(bodies) /\ handle \in Nat
  BY LenProperties DEF HandlesOK
<1>2. chain' = chain \cup {new(k) : k \in DOMAIN bodies} /\ handle' = handle + Len(bodies)
  BY DEF Apply
<1>3. ASSUME NEW k \in DOMAIN bodies
      PROVE  /\ new(k).handle \in Nat /\ new(k).handle > handle /\ new(k).handle <= handle'
             /\ 1 \in DOMAIN new(k).body /\ new(k).body[1] \in words
  <2>1. new(k).handle = handle + k /\ new(k).body = bodies[k] /\ k \in 1..Len(bodies)
    BY <1>1
  <2> QED BY <1>1, <1>2, <2>1
<1> HIDE DEF new
<1>4. handle' \in Nat /\ handle <= handle'
  BY <1>1, <1>2
<1>5. ASSUME NEW r \in chain PROVE r.handle \in Nat /\ r.handle <= handle' /\ 1 \in DOMAIN r.body
  BY <1>1, <1>2, <1>5 DEF HandlesOK
<1> QED BY <1>2, <1>3, <1>4, <1>5 DEF HandlesOK, Comes

LEMMA ComesOne ==
  ASSUME HandlesOK, NEW b, Apply(<<b>>), NEW words, 1 \in DOMAIN b, b[1] \in words
  PROVE  Comes(words)
<1>1. <<b>> \in Seq({b}) /\ DOMAIN <<b>> = {1} /\ <<b>>[1] = b
  OBVIOUS
<1> DEFINE bodies == <<b>>
<1>2. bodies \in Seq({b}) /\ Apply(bodies)
      /\ \A k \in DOMAIN bodies : 1 \in DOMAIN bodies[k] /\ bodies[k][1] \in words
  BY <1>1
<1> HIDE DEF bodies
<1> QED BY <1>2, ComesApplied

LEMMA FirewallComes ==
  ASSUME HandlesOK, NEW c, FirewallStep(c)
  PROVE  Comes({"open"})
<1>1. CASE UNCHANGED <<chain, handle>>
  BY <1>1, ComesNothing
<1>2. CASE Apply(<<Open(c)>>)
  <2>1. 1 \in DOMAIN Open(c) /\ Open(c)[1] = "open"
    BY DEF Open
  <2> QED BY <1>2, <2>1, ComesOne
<1>3. CASE Drop(c)
  BY <1>3, ComesNothing DEF Drop, Without
<1> QED BY <1>1, <1>2, <1>3 DEF FirewallStep, OpenPort, OpenApply, DropPort, DropPortFind,
        DropPortDrop, nft

LEMMA BridgeComes ==
  ASSUME HandlesOK, NEW c, BridgeStep(c)
  PROVE  Comes({"iif", "masquerade"})
<1>1. CASE UNCHANGED <<chain, handle>>
  BY <1>1, ComesNothing
<1>2. CASE CreateAllow(c) /\ ~UNCHANGED <<chain, handle>>
  <2>1. PICK i \in Index(Does[c].name) : Apply(<<Allow(i)>>)
    BY <1>2 DEF CreateAllow
  <2>2. 1 \in DOMAIN Allow(i) /\ Allow(i)[1] = "iif"
    BY DEF Allow
  <2> QED BY <2>1, <2>2, ComesOne
<1>3. CASE CreateNat(c) /\ ~UNCHANGED <<chain, handle>>
  <2>1. Apply(<<Masquerade(Does[c].ip)>>)
    BY <1>3 DEF CreateNat
  <2>2. 1 \in DOMAIN Masquerade(Does[c].ip) /\ Masquerade(Does[c].ip)[1] = "masquerade"
    BY DEF Masquerade
  <2> QED BY <2>1, <2>2, ComesOne
<1>4. CASE DeleteDrop(c)
  BY <1>4, ComesNothing DEF DeleteDrop, Drop, Without
<1> QED BY <1>1, <1>2, <1>3, <1>4 DEF BridgeStep, Create, CreateUp, CreateConflict, CreateAddr,
      CreateDnsmasq, CreateDone, Delete, DeleteFind, DeleteSignal, DeleteAddrs, DeleteUnsetNat, DeleteLink,
      DeleteUnNft, DeleteDone, HostAdd, HostAddWrite, nft

LEMMA ForwardComes ==
  ASSUME HandlesOK, NEW c \in Cmd, ForwardStep(c)
  PROVE  Comes({"dnat"})
<1>1. CASE UNCHANGED <<chain, handle>>
  BY <1>1, ComesNothing
<1>2. CASE SetApply(c) /\ ~UNCHANGED <<chain, handle>>
  <2> DEFINE f == Forward(c)
  <2>1. f.protos \in Seq(STRING)
    BY <1>2, ForwardsAssumption DEF SetApply, Forward, Is
  <2>2. Apply(RulesOf(f))
    BY <1>2 DEF SetApply
  <2> HIDE DEF f
  <2>3. /\ DOMAIN RulesOf(f) = 1..Len(f.protos) /\ Len(f.protos) \in Nat
        /\ \A k \in DOMAIN RulesOf(f) : 1 \in DOMAIN RulesOf(f)[k] /\ RulesOf(f)[k][1] = "dnat"
    BY <2>1 DEF RulesOf
  <2>4. RulesOf(f) \in Seq({RulesOf(f)[k] : k \in DOMAIN RulesOf(f)})
    BY <2>3, SeqDef DEF RulesOf
  <2> QED BY <2>2, <2>3, <2>4, ComesApplied
<1>3. CASE RemoveDrop(c)
  BY <1>3, ComesNothing DEF RemoveDrop, Drop, Without
<1> QED BY <1>1, <1>2, <1>3 DEF ForwardStep, SetPortForward, RemovePortForward, RemoveAll,
        RemoveFind, ReserveList, Reserve, nft

Dnat(r, p) == r.body[1] = "dnat" /\ r.body[4] = p
\* The rules of a port come from one file, and their handles follow each other.
PortKnown(p) == \E h \in Nat : \A r \in chain : Dnat(r, p) =>
   /\ rules[p] # NoForward
   /\ r.handle - h \in DOMAIN rules[p].protos
   /\ r.body = RulesOf(rules[p])[r.handle - h]

SetPlace(c) == Is(c, "socat.set") /\ pc[c] = "applying" =>
                 rm = c /\ rules[Does[c].port] = NoForward
RemovePlace(c) == Removes(c) /\ pc[c] \in {"finding", "dropping"} =>
                 /\ rm = c /\ got[c] \in Seq(1..Ports)
                 /\ \A k \in DOMAIN got[c] : rules[got[c][k]] # NoForward
\* A remove at its loop either has every rule of its forwards before it, or something
\* that it cannot drop: a rule that is gone, or one that comes twice.
Stuck(c) == \E k \in DOMAIN todo[c] :
              \/ ~Has(todo[c][k])
              \/ \E j \in DOMAIN todo[c] : j < k /\ todo[c][j] = todo[c][k]
Covered(c) == \A r \in chain :
                r.body[1] = "dnat" /\ (\E k \in DOMAIN got[c] : got[c][k] = r.body[4]) =>
                  \E k \in DOMAIN todo[c] : todo[c][k] = r.handle
Dropping(c) == Removes(c) /\ pc[c] = "dropping" =>
                 /\ todo[c] \in Seq(Nat) /\ \A k \in DOMAIN todo[c] : todo[c][k] <= handle
                 /\ Stuck(c) \/ Covered(c)
Places(c) == SetPlace(c) /\ RemovePlace(c) /\ Dropping(c)
Placed(c) == \/ Is(c, "socat.set") /\ pc[c] = "applying"
             \/ Removes(c) /\ pc[c] \in {"finding", "dropping"}

RulesOK == /\ rules = [p \in 1..Ports |-> rules[p]]
           /\ \A p \in 1..Ports : rules[p] = NoForward \/ rules[p].protos \in Seq(STRING)
PortsKnown == /\ \A r \in chain : r.body[1] = "dnat" => r.body[4] \in 1..Ports
              /\ \A p \in 1..Ports : PortKnown(p)
DnatInv == /\ CommandsOK /\ Coming \in Given /\ HandlesOK /\ RulesOK /\ PortsKnown
           /\ \A c \in Coming : Places(c)

LEMMA HasNot ==
  ASSUME NEW words, Comes(words), NEW h \in Nat, h <= handle, ~Has(h), HandlesOK
  PROVE  ~Has(h)'
BY DEF Comes, Has, HandlesOK

LEMMA PlacesStay ==
  ASSUME HandlesOK, NEW c, Places(c), UNCHANGED <<rules, rm>>, NEW words, Comes(words), "dnat" \notin words,
         pc'[c] = pc[c], got'[c] = got[c], todo'[c] = todo[c]
  PROVE  Places(c)'
<1>1. SetPlace(c)' /\ RemovePlace(c)'
  BY DEF Places, SetPlace, RemovePlace, Removes, Is
<1>2. ASSUME Removes(c), pc[c] = "dropping" PROVE Dropping(c)'
  <2>1. todo[c] \in Seq(Nat) /\ (\A k \in DOMAIN todo[c] : todo[c][k] <= handle)
        /\ (Stuck(c) \/ Covered(c))
    BY <1>2 DEF Places, Dropping
  <2>2. \A k \in DOMAIN todo[c] : todo[c][k] \in Nat
    BY <2>1
  <2>3. \A k \in DOMAIN todo[c] : todo[c][k] <= handle'
    BY <2>1, <2>2 DEF Comes, HandlesOK
  <2>4. Stuck(c) => Stuck(c)'
    BY <2>1, <2>2, HasNot DEF Stuck
  <2>5. Covered(c) => Covered(c)'
    BY DEF Covered, Comes
  <2> QED BY <2>1, <2>3, <2>4, <2>5 DEF Dropping
<1>3. Dropping(c)'
  BY <1>2 DEF Dropping, Removes, Is
<1> QED BY <1>1, <1>3 DEF Places

LEMMA NotPlaced ==
  ASSUME NEW c, ~Placed(c), pc'[c] = pc[c] PROVE Places(c)'
BY DEF Placed, Places, SetPlace, RemovePlace, Dropping, Removes, Is

LEMMA PortsKnownStay ==
  ASSUME PortsKnown, rules' = rules, NEW words, Comes(words), "dnat" \notin words
  PROVE  PortsKnown'
<1>1. \A r \in chain' : r.body[1] = "dnat" => r \in chain
  BY DEF Comes
<1>2. ASSUME NEW p \in 1..Ports PROVE PortKnown(p)'
  <2>1. PICK h \in Nat : \A r \in chain : Dnat(r, p) =>
               /\ rules[p] # NoForward
               /\ r.handle - h \in DOMAIN rules[p].protos
               /\ r.body = RulesOf(rules[p])[r.handle - h]
    BY DEF PortsKnown, PortKnown
  <2> QED BY <1>1, <2>1 DEF PortKnown, Dnat
<1> QED BY <1>1, <1>2 DEF PortsKnown

LEMMA DnatElsewhere ==
  ASSUME DnatInv, CommandsOK', Coming' = Coming, UNCHANGED <<rules, rm>>,
         NEW words, Comes(words), "dnat" \notin words,
         \A c \in Coming : \/ pc'[c] = pc[c] /\ got'[c] = got[c] /\ todo'[c] = todo[c]
                           \/ ~Is(c, "socat.set") /\ ~Removes(c)
  PROVE  DnatInv'
<1>1. HandlesOK' /\ RulesOK' /\ PortsKnown'
  BY PortsKnownStay DEF DnatInv, RulesOK, Comes
<1>2. ASSUME NEW c \in Coming PROVE Places(c)'
  <2>1. CASE pc'[c] = pc[c] /\ got'[c] = got[c] /\ todo'[c] = todo[c]
    BY <2>1, PlacesStay DEF DnatInv
  <2>2. CASE ~Is(c, "socat.set") /\ ~Removes(c)
    BY <2>2 DEF Places, SetPlace, RemovePlace, Dropping, Removes, Is
  <2> QED BY <2>1, <2>2
<1> QED BY <1>1, <1>2 DEF DnatInv

LEMMA SetKnown ==
  ASSUME DnatInv, NEW c \in Coming, SetApply(c), Apply(RulesOf(Forward(c))),
         rules' = [rules EXCEPT ![Does[c].port] = Forward(c)]
  PROVE  RulesOK' /\ PortsKnown'
<1> DEFINE f == Forward(c)  q == Does[c].port
<1>1. c \in Cmd /\ Is(c, "socat.set") /\ pc[c] = "applying"
  BY Others DEF DnatInv, SetApply
<1>2. q \in 1..Ports /\ f.protos \in Seq(STRING)
  BY <1>1, ForwardsAssumption DEF Forward, Is
<1>3. f # NoForward /\ f.port = q
  <2>1. "port" \in DOMAIN f /\ "port" \notin DOMAIN NoForward
    BY DEF Forward, NoForward
  <2> QED BY <2>1 DEF Forward
<1>4. rules[q] = NoForward
  BY <1>1 DEF DnatInv, Places, SetPlace
<1> HIDE DEF f, q
<1>5. rules'[q] = f /\ \A p \in 1..Ports \ {q} : rules'[p] = rules[p]
  BY <1>2 DEF DnatInv, RulesOK, f, q
<1>6. rules' = [p \in 1..Ports |-> rules'[p]]
  BY DEF DnatInv, RulesOK
<1>7. RulesOK'
  BY <1>2, <1>5, <1>6 DEF DnatInv, RulesOK
<1> DEFINE new(k) == [body |-> RulesOf(f)[k], handle |-> handle + k]
<1>8. chain' = chain \cup {new(k) : k \in DOMAIN RulesOf(f)}
  BY DEF Apply, f
<1>9. ASSUME NEW k \in DOMAIN RulesOf(f)
      PROVE  /\ new(k).body = RulesOf(f)[k] /\ new(k).handle - handle = k
             /\ new(k).body[1] = "dnat" /\ new(k).body[4] = q /\ k \in DOMAIN f.protos
  <2>1. new(k).body = RulesOf(f)[k] /\ new(k).handle = handle + k
    OBVIOUS
  <2>2. k \in DOMAIN f.protos /\ RulesOf(f)[k] = <<"dnat", f.src, f.protos[k], f.port, f.dest>>
    BY DEF RulesOf
  <2>3. k \in Nat /\ handle \in Nat
    BY <1>2, <2>2, LenProperties DEF DnatInv, HandlesOK
  <2> QED BY <1>3, <2>1, <2>2, <2>3
<1>10. \A r \in chain : ~Dnat(r, q)
  BY <1>2, <1>4 DEF DnatInv, PortsKnown, PortKnown
<1> HIDE DEF new
<1>11. PortKnown(q)'
  <2>1. \A r \in chain' : Dnat(r, q) => r.handle - handle \in DOMAIN f.protos
                                        /\ r.body = RulesOf(f)[r.handle - handle]
    BY <1>8, <1>9, <1>10
  <2>2. handle \in Nat /\ RulesOf(f) = RulesOf(rules'[q]) /\ rules'[q] = f
    BY <1>5 DEF DnatInv, HandlesOK
  <2> QED BY <1>3, <2>1, <2>2 DEF PortKnown, Dnat
<1>12. ASSUME NEW p \in 1..Ports \ {q} PROVE PortKnown(p)'
  <2>1. \A r \in chain' : Dnat(r, p) => r \in chain
    BY <1>8, <1>9 DEF Dnat
  <2>2. PICK h \in Nat : \A r \in chain : Dnat(r, p) =>
               /\ rules[p] # NoForward
               /\ r.handle - h \in DOMAIN rules[p].protos
               /\ r.body = RulesOf(rules[p])[r.handle - h]
    BY DEF DnatInv, PortsKnown, PortKnown
  <2>3. rules'[p] = rules[p] /\ RulesOf(rules'[p]) = RulesOf(rules[p])
    BY <1>5
  <2> QED BY <2>1, <2>2, <2>3 DEF PortKnown, Dnat
<1>13. \A r \in chain' : r.body[1] = "dnat" => r.body[4] \in 1..Ports
  BY <1>2, <1>8, <1>9 DEF DnatInv, PortsKnown
<1> QED BY <1>7, <1>11, <1>12, <1>13 DEF PortsKnown

\* The rules of a forward have its texts.
LEMMA RuleText ==
  ASSUME DnatInv, NEW r \in chain, r.body[1] = "dnat"
  PROVE  /\ r.body[4] \in 1..Ports /\ rules[r.body[4]] # NoForward
         /\ \E k \in DOMAIN rules[r.body[4]].protos :
              r.body = <<"dnat", rules[r.body[4]].src, rules[r.body[4]].protos[k],
                         rules[r.body[4]].port, rules[r.body[4]].dest>>
<1> DEFINE p == r.body[4]
<1>1. p \in 1..Ports /\ Dnat(r, p)
  BY DEF DnatInv, PortsKnown, Dnat
<1> HIDE DEF p
<1>2. PICK h \in Nat : /\ rules[p] # NoForward
                       /\ r.handle - h \in DOMAIN rules[p].protos
                       /\ r.body = RulesOf(rules[p])[r.handle - h]
  BY <1>1 DEF DnatInv, PortsKnown, PortKnown
<1> QED BY <1>1, <1>2 DEF RulesOf, p

\* Of rules that nft prints as they were written, the first that is found has the text.
LEMMA SameRule ==
  ASSUME DnatInv, NEW r \in chain, r.body[1] = "dnat", Same(r.body) # {}
  PROVE  /\ r.handle \in Same(r.body)
         /\ First(r.body) \in Same(r.body)
         /\ \A h \in Same(r.body) : \E q \in chain : q.handle = h /\ q.body = r.body
<1> DEFINE f == rules[r.body[4]]
<1>1. PICK k : r.body = <<"dnat", f.src, f.protos[k], f.port, f.dest>>
  BY RuleText
<1>2. Same(r.body) \in SUBSET Nat
  BY DEF Same, DnatInv, HandlesOK
<1>3. PICK h \in Same(r.body) : \A j \in Same(r.body) : h <= j
  BY <1>2, LeastNumber
<1>4. First(r.body) \in Same(r.body)
  BY <1>3 DEF First
<1>5. ASSUME NEW q \in chain, Rendered(q.body) = r.body
      PROVE  q.body = r.body /\ f.src \notin HostBits
  <2>1. q.body[1] = "dnat"
    BY <1>5 DEF Rendered, DnatInv, HandlesOK
  <2> DEFINE g == rules[q.body[4]]
  <2>2. PICK j : q.body = <<"dnat", g.src, g.protos[j], g.port, g.dest>>
    BY <2>1, RuleText
  <2>3. Rendered(q.body)[4] = q.body[4] /\ Rendered(q.body)[2] = IF g.src \in HostBits THEN "masked" ELSE g.src
    BY <2>2 DEF Rendered
  <2>4. q.body[4] = r.body[4] /\ g = f
    BY <1>5, <2>3
  <2>5. r.body[2] = f.src
    BY <1>1
  <2>6. f.src \notin HostBits
    BY <1>5, <2>3, <2>4, <2>5, FirewallAssumption
  <2> QED BY <1>5, <2>2, <2>4, <2>6 DEF Rendered
<1>6. \A j \in Same(r.body) : \E q \in chain : q.handle = j /\ Rendered(q.body) = r.body
  BY DEF Same
<1>7. f.src \notin HostBits
  BY <1>5, <1>6
<1>8. Rendered(r.body) = r.body
  <2>1. r.body[2] = f.src
    BY <1>1
  <2> QED BY <1>7, <2>1 DEF Rendered
<1>9. r.handle \in Same(r.body)
  BY <1>8 DEF Same
<1> QED BY <1>4, <1>5, <1>6, <1>9

LEMMA AllRulesHas ==
  ASSUME RulesOK, NEW ports \in Seq(1..Ports), \A k \in DOMAIN ports : rules[ports[k]] # NoForward
  PROVE  /\ \E S : AllRules(ports) \in Seq(S)
         /\ \A i \in DOMAIN ports : Part(AllRules(ports), RulesOf(rules[ports[i]]))
<1> DEFINE N == Len(ports)
           G == [k \in 1..N |-> RulesOf(rules[ports[k]])]
           S == {G[k][j] : k \in 1..N, j \in Nat}
           Rec(f) == f = [k \in 0..N |-> IF k = 0 THEN <<>> ELSE f[k - 1] \o RulesOf(rules[ports[k]])]
           all == CHOOSE f : Rec(f)
<1>1. N \in Nat /\ DOMAIN ports = 1..N /\ \A k \in 1..N : ports[k] \in 1..Ports
  BY LenProperties, ElementOfSeq
<1>2. AllRules(ports) = all[N]
  BY DEF AllRules
<1>3. ASSUME NEW k \in 1..N PROVE G[k] \in Seq(S)
  <2> DEFINE f == rules[ports[k]]
  <2>1. f.protos \in Seq(STRING)
    BY <1>1 DEF RulesOK
  <2>2. DOMAIN f.protos = 1..Len(f.protos) /\ Len(f.protos) \in Nat
    BY <2>1, LenProperties
  <2>3. G[k] = RulesOf(f)
    OBVIOUS
  <2>4. G[k] = [j \in 1..Len(f.protos) |-> G[k][j]]
    BY <2>2, <2>3 DEF RulesOf
  <2> HIDE DEF f, G
  <2>5. \A j \in 1..Len(f.protos) : j \in Nat /\ G[k][j] \in S
    BY <2>2
  <2> HIDE DEF S
  <2>6. G[k] \in [1..Len(f.protos) -> S]
    BY <2>4, <2>5
  <2> QED BY <2>2, <2>6, SeqDef
<1>4. \A f : Rec(f) <=> Joins(f, G, N)
  <2> SUFFICES ASSUME NEW f PROVE Rec(f) <=> Joins(f, G, N)
    OBVIOUS
  <2>1. \A k \in 0..N : k # 0 => G[k] = RulesOf(rules[ports[k]])
    BY <1>1
  <2> DEFINE A == [k \in 0..N |-> IF k = 0 THEN <<>> ELSE f[k - 1] \o RulesOf(rules[ports[k]])]
             B == [k \in 0..N |-> IF k = 0 THEN <<>> ELSE f[k - 1] \o G[k]]
  <2> HIDE DEF G
  <2>2. A = B
    BY <2>1
  <2> QED BY <2>2 DEF Joins
<1> HIDE DEF G, N, Rec, S
<1>5. \E f : Rec(f)
  BY <1>1, <1>4, JoinExists
<1>6. Joins(all, G, N)
  BY <1>4, <1>5
<1> HIDE DEF all
<1>7. all[N] \in Seq(S) /\ \A i \in 1..N : Part(all[N], G[i])
  BY <1>1, <1>3, <1>6, JoinHas
<1>8. \A i \in 1..N : G[i] = RulesOf(rules[ports[i]])
  BY DEF G
<1> QED BY <1>1, <1>2, <1>7, <1>8

LEMMA FoundCovers ==
  ASSUME DnatInv, NEW ports \in Seq(1..Ports), \A k \in DOMAIN ports : rules[ports[k]] # NoForward,
         AllFound(AllRules(ports)), NEW H, H = Handles(AllRules(ports))
  PROVE  /\ H \in Seq(Nat) /\ \A k \in DOMAIN H : H[k] <= handle
         /\ \/ \E k \in DOMAIN H : \E j \in DOMAIN H : j < k /\ H[j] = H[k]
            \/ \A r \in chain :
                 r.body[1] = "dnat" /\ (\E k \in DOMAIN ports : ports[k] = r.body[4]) =>
                   \E k \in DOMAIN H : H[k] = r.handle
<1> DEFINE B == AllRules(ports)
<1>1. PICK S : B \in Seq(S)
  BY AllRulesHas DEF DnatInv
<1>2. \A i \in DOMAIN ports : Part(B, RulesOf(rules[ports[i]]))
  BY AllRulesHas DEF DnatInv
<1>3. Len(B) \in Nat /\ DOMAIN B = 1..Len(B)
  BY <1>1, LenProperties
<1>4. H = [k \in 1..Len(B) |-> First(B[k])] /\ \A k \in 1..Len(B) : Same(B[k]) # {}
  BY <1>3 DEF Handles, AllFound
<1> HIDE DEF B
<1>5. ASSUME NEW k \in 1..Len(B) PROVE H[k] \in Nat /\ H[k] <= handle
  <2>1. Same(B[k]) \in SUBSET Nat /\ Same(B[k]) # {} /\ \A h \in Same(B[k]) : h <= handle
    BY <1>4 DEF Same, DnatInv, HandlesOK
  <2>2. PICK h \in Same(B[k]) : \A j \in Same(B[k]) : h <= j
    BY <2>1, LeastNumber
  <2>3. First(B[k]) \in Same(B[k])
    BY <2>2 DEF First
  <2> QED BY <1>4, <2>1, <2>3
<1>6. DOMAIN H = 1..Len(B) /\ H \in Seq(Nat)
  <2>1. DOMAIN H = 1..Len(B)
    BY <1>4
  <2>2. H \in [1..Len(B) -> Nat]
    BY <1>4, <1>5
  <2> QED BY <1>3, <2>1, <2>2, SeqDef
<1>7. ASSUME NEW r \in chain, r.body[1] = "dnat", NEW i \in DOMAIN ports, ports[i] = r.body[4]
      PROVE  \/ \E k \in DOMAIN H : H[k] = r.handle
             \/ \E k \in DOMAIN H : \E j \in DOMAIN H : j < k /\ H[j] = H[k]
  <2> DEFINE p == ports[i]
             R == RulesOf(rules[p])
  <2>1. p \in 1..Ports /\ Dnat(r, p)
    BY <1>7 DEF DnatInv, PortsKnown, Dnat
  <2>2. PICK h \in Nat : \A q \in chain : Dnat(q, p) => /\ q.handle - h \in DOMAIN rules[p].protos
                                                        /\ q.body = R[q.handle - h]
    BY <2>1 DEF DnatInv, PortsKnown, PortKnown
  <2>3. DOMAIN R = DOMAIN rules[p].protos
    BY DEF RulesOf
  <2>4. PICK o \in Nat : \A k \in DOMAIN R : o + k \in DOMAIN B /\ B[o + k] = R[k]
    BY <1>2 DEF Part
  <2> HIDE DEF R
  <2>5. ASSUME NEW q \in chain, Dnat(q, p)
        PROVE  o + (q.handle - h) \in 1..Len(B) /\ B[o + (q.handle - h)] = q.body
    BY <1>3, <2>2, <2>3, <2>4, <2>5
  <2> DEFINE k == o + (r.handle - h)
  <2>6. k \in 1..Len(B) /\ B[k] = r.body /\ Same(r.body) # {} /\ H[k] = First(r.body)
    BY <1>4, <2>1, <2>5
  <2>7. PICK q \in chain : q.handle = First(r.body) /\ q.body = r.body
    BY <1>7, <2>6, SameRule
  <2> DEFINE j == o + (q.handle - h)
  <2>8. j \in 1..Len(B) /\ B[j] = r.body /\ H[j] = First(r.body)
    <3>1. Dnat(q, p)
      BY <1>7, <2>7 DEF Dnat
    <3> QED BY <1>4, <2>5, <2>7, <3>1
  <2>9. CASE q.handle = r.handle
    BY <1>6, <2>6, <2>7, <2>9
  <2>10. CASE q.handle # r.handle
    <3>1. q.handle \in Nat /\ r.handle \in Nat /\ h \in Nat /\ o \in Nat
      BY DEF DnatInv, HandlesOK
    <3>2. j < k \/ k < j
      BY <2>10, <3>1
    <3> HIDE DEF j, k
    <3> QED BY <1>6, <2>6, <2>8, <3>2
  <2> QED BY <2>9, <2>10
<1> QED BY <1>5, <1>6, <1>7

LEMMA DropTail ==
  ASSUME CommandsOK, NEW c \in Coming, Drop(c), todo[c] \in Seq(Nat)
  PROVE  /\ todo'[c] \in Seq(Nat) /\ Len(todo'[c]) = Len(todo[c]) - 1
         /\ DOMAIN todo[c] = 1..Len(todo[c]) /\ DOMAIN todo'[c] = 1..(Len(todo[c]) - 1)
         /\ Len(todo[c]) \in Nat \ {0}
         /\ \A k \in 1..(Len(todo[c]) - 1) : todo'[c][k] = todo[c][k + 1]
         /\ chain' = {r \in chain : r.handle # todo[c][1]} /\ Has(todo[c][1])
<1>1. todo[c] # <<>> /\ todo'[c] = Tail(todo[c])
  BY DEF Drop, CommandsOK
<1>2. Head(todo[c]) = todo[c][1]
  BY <1>1
<1>3. chain' = {r \in chain : r.handle # todo[c][1]} /\ Has(todo[c][1])
  BY <1>2 DEF Drop, Without
<1>4. /\ Tail(todo[c]) \in Seq(Nat) /\ Len(Tail(todo[c])) = Len(todo[c]) - 1
      /\ \A k \in 1..Len(Tail(todo[c])) : Tail(todo[c])[k] = todo[c][k + 1]
  BY <1>1, HeadTailProperties
<1>5. Len(todo[c]) \in Nat \ {0} /\ DOMAIN todo[c] = 1..Len(todo[c])
  BY <1>1, LenProperties, EmptySeq
<1>6. DOMAIN Tail(todo[c]) = 1..(Len(todo[c]) - 1)
  BY <1>4, LenProperties
<1> QED BY <1>1, <1>3, <1>4, <1>5, <1>6

LEMMA DroppingStays ==
  ASSUME DnatInv, NEW c \in Coming, Removes(c), pc[c] = "dropping", Drop(c)
  PROVE  Dropping(c)'
<1> DEFINE s == todo[c]  t == todo'[c]
<1>1. s \in Seq(Nat) /\ (\A k \in DOMAIN s : s[k] <= handle) /\ (Stuck(c) \/ Covered(c))
  BY DEF DnatInv, Places, Dropping
<1>2. /\ t \in Seq(Nat) /\ Len(s) \in Nat \ {0}
      /\ DOMAIN s = 1..Len(s) /\ DOMAIN t = 1..(Len(s) - 1)
      /\ \A k \in 1..(Len(s) - 1) : t[k] = s[k + 1]
      /\ chain' = {r \in chain : r.handle # s[1]} /\ Has(s[1])
  BY <1>1, DropTail DEF DnatInv
<1> HIDE DEF s, t
<1>3. handle' = handle /\ got' = got
  BY DEF Drop
<1>4. \A k \in DOMAIN t : t[k] <= handle'
  <2>1. \A k \in 1..(Len(s) - 1) : k + 1 \in 1..Len(s)
    BY <1>2
  <2> QED BY <1>1, <1>2, <1>3, <2>1
<1>5. \A k \in DOMAIN s : k # 1 => k - 1 \in DOMAIN t /\ t[k - 1] = s[k]
  BY <1>2
<1> DEFINE Gone(h) == \A r \in chain' : r.handle # h
<1>6. \A h : ~Has(h) => Gone(h)
  BY <1>2 DEF Has
<1>7. Gone(s[1])
  BY <1>2
<1>10. (\E k \in DOMAIN t : Gone(t[k]) \/ \E j \in DOMAIN t : j < k /\ t[j] = t[k]) => Stuck(c)'
  BY DEF Stuck, Has, t
<1> HIDE DEF Gone
<1>8. ASSUME Stuck(c) PROVE Stuck(c)'
  <2>1. PICK k \in DOMAIN s : \/ ~Has(s[k])
                              \/ \E j \in DOMAIN s : j < k /\ s[j] = s[k]
    BY <1>8 DEF Stuck, s
  <2>2. CASE ~Has(s[k])
    <3>1. k # 1
      BY <1>2, <2>2
    <3> QED BY <1>5, <1>6, <1>10, <2>2, <3>1
  <2>3. CASE \E j \in DOMAIN s : j < k /\ s[j] = s[k]
    <3>1. PICK j \in DOMAIN s : j < k /\ s[j] = s[k]
      BY <2>3
    <3>2. k # 1 /\ j \in Nat /\ k \in Nat
      BY <1>2, <3>1
    <3>3. CASE j = 1
      <4>1. Gone(t[k - 1]) /\ k - 1 \in DOMAIN t
        BY <1>5, <1>7, <3>1, <3>2, <3>3
      <4> QED BY <1>10, <4>1
    <3>4. CASE j # 1
      <4>1. /\ k - 1 \in DOMAIN t /\ j - 1 \in DOMAIN t /\ j - 1 < k - 1 /\ t[j - 1] = t[k - 1]
        BY <1>5, <3>1, <3>2, <3>4
      <4> QED BY <1>10, <4>1
    <3> QED BY <3>3, <3>4
  <2> QED BY <2>1, <2>2, <2>3
<1>9. ASSUME Covered(c) PROVE Covered(c)'
  <2> SUFFICES ASSUME NEW r \in chain', r.body[1] = "dnat",
                      \E k \in DOMAIN got[c] : got[c][k] = r.body[4]
               PROVE  \E k \in DOMAIN t : t[k] = r.handle
    BY <1>3 DEF Covered, t
  <2>1. PICK k \in DOMAIN s : s[k] = r.handle
    BY <1>2, <1>9 DEF Covered, s
  <2>2. k # 1
    BY <1>2, <2>1
  <2> QED BY <1>5, <2>1, <2>2
<1> QED BY <1>1, <1>2, <1>4, <1>8, <1>9 DEF Dropping, t

\* When the loop is through, no rule of its forwards is left.
LEMMA NoneLeft ==
  ASSUME DnatInv, NEW c \in Coming, Removes(c), pc[c] = "dropping", todo[c] = <<>>,
         NEW r \in chain, r.body[1] = "dnat"
  PROVE  ~\E k \in DOMAIN got[c] : got[c][k] = r.body[4]
<1>1. DOMAIN todo[c] = {}
  OBVIOUS
<1> QED BY <1>1 DEF DnatInv, Places, Dropping, Stuck, Covered

LEMMA OrderSeq ==
  ASSUME Ports \in Nat, NEW S \in SUBSET (1..Ports), NEW s \in Orders(S)
  PROVE  s \in Seq(1..Ports) /\ \A k \in DOMAIN s : s[k] \in S
<1>1. Cardinality(S) \in Nat
  <2>1. IsFiniteSet(1..Ports)
    BY FS_Interval
  <2> QED BY <2>1, FS_Subset, FS_CardinalityType
<1>2. s \in [1..Cardinality(S) -> S]
  BY DEF Orders
<1>3. s \in [1..Cardinality(S) -> 1..Ports]
  BY <1>2
<1> QED BY <1>1, <1>2, <1>3, SeqDef

LEMMA DnatForward ==
  ASSUME DnatInv, NEW c \in Coming, ~Ended(c), MovesOnly(c), ForwardStep(c)
  PROVE  DnatInv'
<1>0. /\ Coming' = Coming /\ CommandsOK' /\ CommandsOK /\ HandlesOK
      /\ \A d \in Coming \ {c} : pc'[d] = pc[d] /\ got'[d] = got[d] /\ todo'[d] = todo[d]
  BY DEF MovesOnly, DnatInv
<1>1. ASSUME rm = c \/ rm = "free" PROVE \A d \in Coming \ {c} : Places(d)'
  <2>1. \A d \in Coming \ {c} : ~Placed(d)
    BY <1>1, Others DEF DnatInv, Places, SetPlace, RemovePlace, Placed
  <2> QED BY <1>0, <2>1, NotPlaced
\* Only the command's own place is to be looked at.
<1>2. ASSUME rm = c \/ rm = "free", UNCHANGED <<rules, chain, handle>>, Places(c)' PROVE DnatInv'
  <2>1. Comes({})
    BY <1>0, <1>2, ComesNothing
  <2>2. PortsKnown'
    BY <1>2, <2>1, PortsKnownStay DEF DnatInv
  <2>3. HandlesOK' /\ RulesOK'
    BY <1>2, <2>1 DEF DnatInv, RulesOK, Comes
  <2> QED BY <1>0, <1>1, <1>2, <2>2, <2>3 DEF DnatInv
<1>3. CASE SetPortForward(c)
  <2>1. rm = "free" /\ UNCHANGED <<rules, chain, handle>> /\ Is(c, "socat.set")
    BY <1>3 DEF SetPortForward, socat, nft
  <2>2. CASE rules[Does[c].port] # NoForward
    <3>1. Step(c, "error")
      BY <1>3, <2>2 DEF SetPortForward
    <3>2. pc'[c] = "error"
      BY <1>0, <3>1, StepMoves
    <3>3. Places(c)'
      BY <3>2 DEF Places, SetPlace, RemovePlace, Dropping
    <3> QED BY <1>2, <2>1, <3>3
  <2>3. CASE rules[Does[c].port] = NoForward
    <3>1. Step(c, "applying") /\ rm' = c
      BY <1>3, <2>3 DEF SetPortForward, Lock
    <3>2. pc'[c] = "applying"
      BY <1>0, <3>1, StepMoves
    <3>3. Places(c)'
      BY <2>1, <2>3, <3>1, <3>2 DEF Places, SetPlace, RemovePlace, Dropping
    <3> QED BY <1>2, <2>1, <3>3
  <2> QED BY <2>2, <2>3
<1>4. CASE SetApply(c)
  <2>1. rm = c /\ Is(c, "socat.set")
    BY <1>4 DEF SetApply, DnatInv, Places, SetPlace
  <2>2. pc'[c] \in {"ok", "error"}
    BY <1>0, <1>4, StepMoves DEF SetApply
  <2>3. Places(c)'
    BY <2>2 DEF Places, SetPlace, RemovePlace, Dropping
  <2>4. CASE UNCHANGED <<rules, chain, handle>>
    BY <1>2, <2>1, <2>3, <2>4
  <2>5. CASE Apply(RulesOf(Forward(c))) /\ rules' = [rules EXCEPT ![Does[c].port] = Forward(c)]
    <3>1. HandlesOK'
      BY <1>4, ForwardComes, Others DEF Comes, DnatInv, ForwardStep
    <3> QED BY <1>0, <1>1, <1>4, <2>1, <2>3, <2>5, <3>1, SetKnown DEF DnatInv
  <2> QED BY <1>4, <2>4, <2>5 DEF SetApply
<1>5. CASE RemovePortForward(c)
  <2>1. rm = "free" /\ UNCHANGED <<rules, chain, handle>> /\ Is(c, "socat.remove")
    BY <1>5 DEF RemovePortForward, nft
  <2>2. CASE Step(c, "error")
    <3>1. pc'[c] = "error"
      BY <1>0, <2>2, StepMoves
    <3>2. Places(c)'
      BY <3>1 DEF Places, SetPlace, RemovePlace, Dropping
    <3> QED BY <1>2, <2>1, <3>2
  <2>3. CASE ~Step(c, "error")
    <3>1. rules[Does[c].port] # NoForward /\ rm' = c /\ Reads(c, "finding", <<Does[c].port>>)
      BY <1>5, <2>3 DEF RemovePortForward, Lock
    <3>2. pc'[c] = "finding" /\ got'[c] = <<Does[c].port>>
      BY <1>0, <3>1, StepMoves
    <3>3. Does[c].port \in 1..Ports
      BY <2>1, ForwardsAssumption, Others DEF Is, DnatInv
    <3>4. got'[c] \in Seq(1..Ports) /\ \A k \in DOMAIN got'[c] : got'[c][k] = Does[c].port
      BY <3>2, <3>3
    <3>5. Places(c)'
      BY <2>1, <3>1, <3>2, <3>4 DEF Places, SetPlace, RemovePlace, Dropping, Is
    <3> QED BY <1>2, <2>1, <3>5
  <2> QED BY <2>2, <2>3
<1>6. CASE RemoveAll(c)
  <2>1. rm = "free" /\ UNCHANGED <<rules, chain, handle>> /\ Is(c, "socat.removeall")
    BY <1>6 DEF RemoveAll, nft
  <2>2. CASE Step(c, "ok")
    <3>1. pc'[c] = "ok"
      BY <1>0, <2>2, StepMoves
    <3>2. Places(c)'
      BY <3>1 DEF Places, SetPlace, RemovePlace, Dropping
    <3> QED BY <1>2, <2>1, <3>2
  <2>3. CASE ~Step(c, "ok")
    <3> DEFINE S == OfNs(Does[c].ns)
    <3>1. rm' = c /\ \E s \in Orders(S) : Reads(c, "finding", s)
      BY <1>6, <2>3 DEF RemoveAll, Lock
    <3>2. PICK s \in Orders(S) : Reads(c, "finding", s)
      BY <3>1
    <3>3. pc'[c] = "finding" /\ got'[c] = s
      BY <1>0, <3>2, StepMoves
    <3>4. S \in SUBSET (1..Ports) /\ \A p \in S : rules[p] # NoForward
      BY DEF OfNs
    <3> HIDE DEF S
    <3>5. s \in Seq(1..Ports) /\ \A k \in DOMAIN s : s[k] \in S
      BY <3>4, OrderSeq, ForwardsAssumption
    <3>6. Places(c)'
      BY <2>1, <3>1, <3>3, <3>4, <3>5 DEF Places, SetPlace, RemovePlace, Dropping, Is
    <3> QED BY <1>2, <2>1, <3>6
  <2> QED BY <2>2, <2>3
<1>7. CASE RemoveFind(c)
  <2>1. /\ Removes(c) /\ rm = c /\ got[c] \in Seq(1..Ports) /\ UNCHANGED <<rules, chain, handle>>
        /\ \A k \in DOMAIN got[c] : rules[got[c][k]] # NoForward
    BY <1>7 DEF RemoveFind, DnatInv, Places, RemovePlace, nft
  <2>2. ~Is(c, "socat.set")
    BY <2>1 DEF Removes, Is
  <2>3. CASE FindFails(c, AllRules(got[c]), "error")
    <3>1. pc'[c] = "error"
      BY <1>0, <2>3, DropMoves
    <3>2. Places(c)'
      BY <3>1 DEF Places, SetPlace, RemovePlace, Dropping
    <3> QED BY <1>2, <2>1, <3>2
  <2>4. CASE FindRules(c, AllRules(got[c]), "dropping") /\ UNCHANGED rm
    <3> DEFINE H == Handles(AllRules(got[c]))
    <3>1. pc'[c] = "dropping" /\ UNCHANGED got
      BY <1>0, <2>4, DropMoves
    <3>2. todo'[c] = H /\ AllFound(AllRules(got[c]))
      BY <1>0, <2>4 DEF FindRules, CommandsOK
    <3> HIDE DEF H
    <3>3. /\ H \in Seq(Nat) /\ \A k \in DOMAIN H : H[k] <= handle
          /\ \/ \E k \in DOMAIN H : \E j \in DOMAIN H : j < k /\ H[j] = H[k]
             \/ \A r \in chain :
                  r.body[1] = "dnat" /\ (\E k \in DOMAIN got[c] : got[c][k] = r.body[4]) =>
                    \E k \in DOMAIN H : H[k] = r.handle
      BY <2>1, <3>2, FoundCovers DEF H
    <3>4. Stuck(c)' \/ Covered(c)'
      BY <2>1, <3>1, <3>2, <3>3 DEF Stuck, Covered
    <3>5. Places(c)'
      BY <2>1, <2>2, <2>4, <3>1, <3>2, <3>3, <3>4 DEF Places, SetPlace, RemovePlace, Dropping, Is
    <3> QED BY <1>2, <2>1, <3>5
  <2> QED BY <1>7, <2>3, <2>4 DEF RemoveFind
<1>8. CASE RemoveDrop(c)
  <2>1. /\ Removes(c) /\ rm = c /\ got[c] \in Seq(1..Ports) /\ pc[c] = "dropping"
        /\ \A k \in DOMAIN got[c] : rules[got[c][k]] # NoForward
    BY <1>8 DEF RemoveDrop, DnatInv, Places, RemovePlace
  <2>2. ~Is(c, "socat.set")
    BY <2>1 DEF Removes, Is
  <2>3. CASE Drop(c) /\ UNCHANGED <<rules, rm>>
    <3>1. Comes({}) /\ UNCHANGED <<pc, got>>
      BY <1>0, <2>3, ComesNothing DEF Drop, Without
    <3>2. HandlesOK' /\ PortsKnown' /\ RulesOK'
      BY <2>3, <3>1, PortsKnownStay DEF DnatInv, RulesOK, Comes
    <3>3. Dropping(c)'
      BY <2>1, <2>3, DroppingStays
    <3>4. Places(c)'
      BY <2>1, <2>2, <2>3, <3>1, <3>3 DEF Places, SetPlace, RemovePlace, Is
    <3> QED BY <1>0, <1>1, <2>1, <3>2, <3>4 DEF DnatInv
  <2>4. CASE DropFails(c) /\ Goto(c, "error") /\ UNCHANGED <<chain, handle, rules, got, todo>>
    <3>1. pc'[c] = "error"
      BY <2>4 DEF Goto, Coming
    <3>2. Places(c)'
      BY <3>1 DEF Places, SetPlace, RemovePlace, Dropping
    <3> QED BY <1>2, <2>1, <2>4, <3>2
  <2>5. CASE /\ todo[c] = <<>> /\ Step(c, "ok") /\ UNCHANGED <<chain, handle>>
             /\ rules' = [p \in 1..Ports |->
                  IF \E k \in DOMAIN got[c] : got[c][k] = p THEN NoForward ELSE rules[p]]
    <3>1. pc'[c] = "ok"
      BY <1>0, <2>5, StepMoves
    <3>2. Places(c)'
      BY <3>1 DEF Places, SetPlace, RemovePlace, Dropping
    <3>3. RulesOK' /\ HandlesOK'
      BY <1>0, <2>5 DEF DnatInv, RulesOK, HandlesOK
    <3>4. ASSUME NEW p \in 1..Ports PROVE PortKnown(p)'
      <4>1. CASE \E k \in DOMAIN got[c] : got[c][k] = p
        <5>1. \A r \in chain' : ~Dnat(r, p)
          BY <2>1, <2>5, <4>1, NoneLeft DEF Dnat
        <5> QED BY <5>1 DEF PortKnown, Dnat
      <4>2. CASE ~\E k \in DOMAIN got[c] : got[c][k] = p
        <5>1. rules'[p] = rules[p] /\ RulesOf(rules'[p]) = RulesOf(rules[p]) /\ chain' = chain
          BY <2>5, <4>2
        <5>2. PICK h \in Nat : \A r \in chain : Dnat(r, p) =>
                /\ rules[p] # NoForward
                /\ r.handle - h \in DOMAIN rules[p].protos
                /\ r.body = RulesOf(rules[p])[r.handle - h]
          BY DEF DnatInv, PortsKnown, PortKnown
        <5> QED BY <5>1, <5>2 DEF PortKnown, Dnat
      <4> QED BY <4>1, <4>2
    <3>5. PortsKnown'
      BY <2>5, <3>4 DEF PortsKnown, DnatInv
    <3> QED BY <1>0, <1>1, <2>1, <3>2, <3>3, <3>5 DEF DnatInv
  <2> QED BY <1>8, <2>3, <2>4, <2>5 DEF RemoveDrop
<1>9. CASE ReserveList(c) \/ Reserve(c)
  <2>1. UNCHANGED <<rules, rm, chain, handle>> /\ ~Is(c, "socat.set") /\ ~Removes(c)
    BY <1>9 DEF ReserveList, Reserve, socat, nft, Is, Removes
  <2>2. Comes({})
    BY <1>0, <2>1, ComesNothing
  <2> QED BY <1>0, <2>1, <2>2, DnatElsewhere
<1> QED BY <1>3, <1>4, <1>5, <1>6, <1>7, <1>8, <1>9 DEF ForwardStep

LEMMA DnatStep == DnatInv /\ [NetNext]_netvars => DnatInv'
<1> SUFFICES ASSUME DnatInv, [NetNext]_netvars PROVE DnatInv'
  OBVIOUS
<1>1. CommandsOK /\ HandlesOK /\ \A c \in Coming : c \in Cmd
  BY Others DEF DnatInv
<1>2. ASSUME CommandsOK', UNCHANGED <<pc, got, todo, rules, rm, chain, handle>> PROVE DnatInv'
  <2>1. Comes({}) /\ Coming' = Coming
    BY <1>1, <1>2, ComesNothing DEF Coming
  <2> QED BY <1>2, <2>1, DnatElsewhere
<1>3. ASSUME NEW c \in Coming, MovesOnly(c), Does[c].do \notin SocatDo, UNCHANGED <<rules, rm>>,
             NEW words, Comes(words), "dnat" \notin words
      PROVE  DnatInv'
  BY <1>3, DnatElsewhere DEF MovesOnly, SocatDo, Is, Removes
<1>4. LinkDo \cap SocatDo = {} /\ FirewallDo \cap SocatDo = {} /\ BridgeDo \cap SocatDo = {}
  BY DEF LinkDo, FirewallDo, BridgeDo, SocatDo
<1>5. ASSUME NEW c \in Coming, MovesOnly(c), Does[c].do \in LinkDo, UNCHANGED <<nft, socat>>
      PROVE  DnatInv'
  <2>1. Comes({})
    BY <1>1, <1>5, ComesNothing DEF nft
  <2> QED BY <1>3, <1>4, <1>5, <2>1 DEF socat
<1>6. ASSUME NEW c \in Coming, MovesOnly(c), Does[c].do \in FirewallDo, FirewallStep(c), UNCHANGED socat
      PROVE  DnatInv'
  <2>1. Comes({"open"})
    BY <1>1, <1>6, FirewallComes
  <2> QED BY <1>3, <1>4, <1>6, <2>1 DEF socat
<1>7. ASSUME NEW c \in Coming, MovesOnly(c), Does[c].do \in BridgeDo, BridgeStep(c), UNCHANGED socat
      PROVE  DnatInv'
  <2>1. Comes({"iif", "masquerade"})
    BY <1>1, <1>7, BridgeComes
  <2> QED BY <1>3, <1>4, <1>7, <2>1 DEF socat
<1>8. ASSUME NEW c \in Coming, ~Ended(c), MovesOnly(c), ForwardStep(c) PROVE DnatInv'
  BY <1>8, DnatForward
<1>9. \A p \in 1..Ports : Expire(p) \/ ServiceStarts(p) => UNCHANGED <<rules, rm>>
  BY DEF Expire, ServiceStarts
<1>10. UNCHANGED socat => UNCHANGED <<rules, rm>>
  BY DEF socat
<1>11. UNCHANGED nft => UNCHANGED <<chain, handle>>
  BY DEF nft
<1> QED BY <1>1, <1>2, <1>5, <1>6, <1>7, <1>8, <1>9, <1>10, <1>11, NetSteps

-----------------------------------------------------------------------------
(* Open ports *)

Opening(c) == Is(c, "nft.open") /\ pc[c] = "applying" =>
                m = c /\ Open(c) \in opened /\ \A r \in chain : r.body # Open(c)
DropsPort(c) == Is(c, "nft.drop") =>
                /\ pc[c] \in {"finding", "dropping"} => m = c
                /\ pc[c] = "dropping" =>
                     /\ todo[c] \in Seq(Nat)
                     /\ \A r \in chain : r.body = Open(c) => \E k \in DOMAIN todo[c] : todo[c][k] = r.handle
OpensKnown == \A r \in chain : r.body[1] = "open" =>
            /\ r.body \in opened
            /\ \A q \in chain : q.body = r.body => q.handle = r.handle
OpenInv == /\ CommandsOK /\ Coming \in Given /\ HandlesOK /\ OpensKnown
           /\ \A c \in Coming : Opening(c) /\ DropsPort(c)

LEMMA OpenText == \A c : 1 \in DOMAIN Open(c) /\ Open(c)[1] = "open"
BY DEF Open

LEMMA OpeningStays ==
  ASSUME NEW c, Opening(c), DropsPort(c), UNCHANGED <<opened, m>>, NEW words, Comes(words),
         "open" \notin words, pc'[c] = pc[c], got'[c] = got[c], todo'[c] = todo[c]
  PROVE  Opening(c)' /\ DropsPort(c)'
<1>1. \A r \in chain' : r.body = Open(c) => r \in chain
  BY OpenText DEF Comes
<1>2. Open(c)' = Open(c)
  BY DEF Open
<1> QED BY <1>1, <1>2 DEF Opening, DropsPort, Is

LEMMA OpenElsewhere ==
  ASSUME OpenInv, CommandsOK', Coming' = Coming, UNCHANGED <<opened, m>>,
         NEW words, Comes(words), "open" \notin words,
         \A c \in Coming : \/ pc'[c] = pc[c] /\ got'[c] = got[c] /\ todo'[c] = todo[c]
                           \/ ~Is(c, "nft.open") /\ ~Is(c, "nft.drop")
  PROVE  OpenInv'
<1>1. HandlesOK' /\ OpensKnown'
  BY DEF OpenInv, OpensKnown, Comes
<1>2. ASSUME NEW c \in Coming PROVE Opening(c)' /\ DropsPort(c)'
  <2>1. CASE pc'[c] = pc[c] /\ got'[c] = got[c] /\ todo'[c] = todo[c]
    BY <2>1, OpeningStays DEF OpenInv
  <2>2. CASE ~Is(c, "nft.open") /\ ~Is(c, "nft.drop")
    BY <2>2 DEF Opening, DropsPort, Is
  <2> QED BY <2>1, <2>2
<1> QED BY <1>1, <1>2 DEF OpenInv

LEMMA OpenRule ==
  ASSUME HandlesOK, NEW c, NEW q \in chain, Rendered(q.body) = Open(c)
  PROVE  q.body = Open(c)
<1>1. Rendered(q.body)[1] = "open"
  BY OpenText
<1>2. q.body[1] # "dnat"
  <2>1. 1 \in DOMAIN q.body
    BY DEF HandlesOK
  <2> QED BY <1>1, <2>1 DEF Rendered
<1> QED BY <1>2 DEF Rendered

LEMMA FirstOpen ==
  ASSUME HandlesOK, NEW c, Same(Open(c)) # {}
  PROVE  \E q \in chain : q.handle = First(Open(c)) /\ q.body = Open(c)
<1>1. Same(Open(c)) \in SUBSET Nat
  BY DEF Same, HandlesOK
<1>2. PICK h \in Same(Open(c)) : \A j \in Same(Open(c)) : h <= j
  BY <1>1, LeastNumber
<1>3. First(Open(c)) \in Same(Open(c))
  BY <1>2 DEF First
<1>4. PICK q \in chain : q.handle = First(Open(c)) /\ Rendered(q.body) = Open(c)
  BY <1>3 DEF Same
<1> QED BY <1>4, OpenRule

LEMMA OpenFirewall ==
  ASSUME OpenInv, NEW c \in Coming, ~Ended(c), MovesOnly(c), FirewallStep(c)
  PROVE  OpenInv'
<1>0. /\ Coming' = Coming /\ CommandsOK' /\ CommandsOK /\ HandlesOK
      /\ \A d \in Coming \ {c} : pc'[d] = pc[d] /\ got'[d] = got[d] /\ todo'[d] = todo[d]
  BY DEF MovesOnly, OpenInv
<1>1. ASSUME m = c \/ m = "free", NEW d \in Coming \ {c} PROVE Opening(d)' /\ DropsPort(d)'
  <2>1. m # d
    BY <1>1, Others DEF OpenInv
  <2>2. ~(Is(d, "nft.open") /\ pc[d] = "applying")
        /\ ~(Is(d, "nft.drop") /\ pc[d] \in {"finding", "dropping"})
    BY <2>1 DEF OpenInv, Opening, DropsPort
  <2> QED BY <1>0, <2>2 DEF Opening, DropsPort, Is
<1>2. HandlesOK'
  BY <1>0, FirewallComes DEF Comes
<1>3. ASSUME m = c \/ m = "free", OpensKnown', Opening(c)', DropsPort(c)' PROVE OpenInv'
  BY <1>0, <1>1, <1>2, <1>3 DEF OpenInv
<1>4. ASSUME m = c \/ m = "free", chain' = chain, opened' = opened, pc'[c] \in {"ok", "error"}
      PROVE  OpenInv'
  <2>1. OpensKnown' /\ Opening(c)' /\ DropsPort(c)'
    BY <1>4 DEF OpenInv, OpensKnown, Opening, DropsPort
  <2> QED BY <1>3, <1>4, <2>1
<1>5. CASE OpenPort(c)
  <2>1. m = "free" /\ Is(c, "nft.open")
    BY <1>5 DEF OpenPort
  <2>2. CASE Open(c) \in opened
    <3>1. Step(c, "error") /\ UNCHANGED nft
      BY <1>5, <2>2 DEF OpenPort
    <3>2. pc'[c] = "error"
      BY <1>0, <3>1, StepMoves
    <3> QED BY <1>4, <2>1, <3>1, <3>2 DEF nft
  <2>3. CASE Open(c) \notin opened
    <3>1. m' = c /\ opened' = opened \cup {Open(c)} /\ Step(c, "applying") /\ chain' = chain
      BY <1>5, <2>3 DEF OpenPort
    <3>2. pc'[c] = "applying"
      BY <1>0, <3>1, StepMoves
    <3>3. \A r \in chain : r.body # Open(c)
      BY <2>3, OpenText DEF OpenInv, OpensKnown
    <3>4. Opening(c)' /\ DropsPort(c)' /\ OpensKnown'
      BY <2>1, <3>1, <3>2, <3>3 DEF Opening, DropsPort, Is, Open, OpenInv, OpensKnown
    <3> QED BY <1>3, <2>1, <3>4
  <2> QED BY <2>2, <2>3
<1>6. CASE OpenApply(c)
  <2>1. m = c /\ Open(c) \in opened /\ (\A r \in chain : r.body # Open(c)) /\ Is(c, "nft.open")
    BY <1>6 DEF OpenApply, OpenInv, Opening
  <2>2. pc'[c] \in {"ok", "error"}
    BY <1>0, <1>6, StepMoves DEF OpenApply
  <2>3. Opening(c)' /\ DropsPort(c)'
    BY <2>1, <2>2 DEF Opening, DropsPort, Is
  <2>4. CASE Apply(<<Open(c)>>) /\ opened' = opened
    <3> DEFINE bodies == <<Open(c)>>
               new == [body |-> Open(c), handle |-> handle + 1]
    <3>1. chain' = chain \cup {new}
      <4>1. DOMAIN bodies = {1} /\ bodies[1] = Open(c)
        OBVIOUS
      <4>2. chain' = chain \cup {[body |-> bodies[k], handle |-> handle + k] : k \in DOMAIN bodies}
        BY <2>4 DEF Apply
      <4> HIDE DEF bodies
      <4> QED BY <4>1, <4>2
    <3>2. new.body = Open(c)
      OBVIOUS
    <3> HIDE DEF new
    <3>3. OpensKnown'
      BY <2>1, <2>4, <3>1, <3>2 DEF OpenInv, OpensKnown
    <3> QED BY <1>3, <2>1, <2>3, <3>3
  <2>5. CASE opened' = opened \ {Open(c)} /\ chain' = chain
    <3>1. OpensKnown'
      BY <2>1, <2>5 DEF OpenInv, OpensKnown
    <3> QED BY <1>3, <2>1, <2>3, <3>1
  <2> QED BY <1>6, <2>4, <2>5 DEF OpenApply
<1>7. CASE DropPort(c)
  <2>1. m = "free" /\ Is(c, "nft.drop")
    BY <1>7 DEF DropPort
  <2>2. CASE Open(c) \notin opened
    <3>1. Step(c, "ok") /\ UNCHANGED nft
      BY <1>7, <2>2 DEF DropPort
    <3>2. pc'[c] = "ok"
      BY <1>0, <3>1, StepMoves
    <3> QED BY <1>4, <2>1, <3>1, <3>2 DEF nft
  <2>3. CASE Open(c) \in opened
    <3>1. m' = c /\ Step(c, "finding") /\ UNCHANGED <<chain, opened>>
      BY <1>7, <2>3 DEF DropPort
    <3>2. pc'[c] = "finding"
      BY <1>0, <3>1, StepMoves
    <3>3. Opening(c)' /\ DropsPort(c)' /\ OpensKnown'
      BY <2>1, <3>1, <3>2 DEF Opening, DropsPort, Is, OpenInv, OpensKnown
    <3> QED BY <1>3, <2>1, <3>3
  <2> QED BY <2>2, <2>3
<1>8. CASE DropPortFind(c)
  <2>1. m = c /\ Is(c, "nft.drop") /\ UNCHANGED <<chain, opened>>
    BY <1>8 DEF DropPortFind, OpenInv, DropsPort
  <2>2. CASE FindFails(c, <<Open(c)>>, "error")
    <3>1. pc'[c] = "error"
      BY <1>0, <2>2, DropMoves
    <3> QED BY <1>4, <2>1, <3>1
  <2>3. CASE FindRules(c, <<Open(c)>>, "dropping") /\ UNCHANGED m
    <3> DEFINE bodies == <<Open(c)>>
    <3>1. pc'[c] = "dropping"
      BY <1>0, <2>3, DropMoves
    <3>2. DOMAIN bodies = {1} /\ bodies[1] = Open(c)
      OBVIOUS
    <3>3. AllFound(bodies) /\ todo'[c] = Handles(bodies)
      BY <1>0, <2>3 DEF FindRules, CommandsOK
    <3> HIDE DEF bodies
    <3>4. Same(Open(c)) # {} /\ todo'[c] = [k \in 1..1 |-> First(Open(c))]
      BY <3>2, <3>3 DEF AllFound, Handles
    <3>5. PICK q \in chain : q.handle = First(Open(c)) /\ q.body = Open(c)
      BY <1>0, <3>4, FirstOpen
    <3>6. q.handle \in Nat /\ \A r \in chain : r.body = Open(c) => r.handle = q.handle
      BY <1>0, <3>5, OpenText DEF HandlesOK, OpenInv, OpensKnown
    <3>7. todo'[c] \in Seq(Nat) /\ 1 \in DOMAIN todo'[c] /\ todo'[c][1] = q.handle
      BY <3>4, <3>5, <3>6
    <3>8. Opening(c)' /\ DropsPort(c)' /\ OpensKnown'
      BY <2>1, <2>3, <3>1, <3>6, <3>7 DEF Opening, DropsPort, Is, Open, OpenInv, OpensKnown
    <3> QED BY <1>3, <2>1, <3>8
  <2> QED BY <1>8, <2>2, <2>3 DEF DropPortFind
<1>9. CASE DropPortDrop(c)
  <2>1. /\ m = c /\ Is(c, "nft.drop") /\ pc[c] = "dropping" /\ todo[c] \in Seq(Nat)
        /\ \A r \in chain : r.body = Open(c) => \E k \in DOMAIN todo[c] : todo[c][k] = r.handle
    BY <1>9 DEF DropPortDrop, OpenInv, DropsPort
  <2>2. CASE Drop(c) /\ UNCHANGED <<opened, m>>
    <3> DEFINE s == todo[c]  t == todo'[c]
    <3>1. /\ t \in Seq(Nat) /\ Len(s) \in Nat \ {0}
          /\ DOMAIN s = 1..Len(s) /\ DOMAIN t = 1..(Len(s) - 1)
          /\ \A k \in 1..(Len(s) - 1) : t[k] = s[k + 1]
          /\ chain' = {r \in chain : r.handle # s[1]}
      BY <1>0, <2>1, <2>2, DropTail
    <3> HIDE DEF s, t
    <3>2. \A k \in DOMAIN s : k # 1 => k - 1 \in DOMAIN t /\ t[k - 1] = s[k]
      BY <3>1
    <3>3. ASSUME NEW r \in chain', r.body = Open(c) PROVE \E k \in DOMAIN t : t[k] = r.handle
      <4>1. PICK k \in DOMAIN s : s[k] = r.handle
        BY <2>1, <3>1, <3>3 DEF s
      <4> QED BY <3>1, <3>2, <3>3, <4>1
    <3>4. pc' = pc
      BY <2>2 DEF Drop
    <3>5. Opening(c)' /\ DropsPort(c)' /\ OpensKnown'
      BY <2>1, <2>2, <3>1, <3>3, <3>4 DEF Opening, DropsPort, Is, Open, OpenInv, OpensKnown, t
    <3> QED BY <1>3, <2>1, <3>5
  <2>3. CASE Goto(c, "error") /\ UNCHANGED <<chain, opened>>
    <3>1. pc'[c] = "error"
      BY <2>3 DEF Goto, Coming
    <3> QED BY <1>4, <2>1, <2>3, <3>1
  <2>4. CASE todo[c] = <<>> /\ Step(c, "ok") /\ opened' = opened \ {Open(c)} /\ chain' = chain
    <3>1. pc'[c] = "ok"
      BY <1>0, <2>4, StepMoves
    <3>2. \A r \in chain : r.body # Open(c)
      <4>1. DOMAIN todo[c] = {}
        BY <2>4
      <4> QED BY <2>1, <4>1
    <3>3. Opening(c)' /\ DropsPort(c)' /\ OpensKnown'
      BY <2>4, <3>1, <3>2 DEF Opening, DropsPort, Is, OpenInv, OpensKnown
    <3> QED BY <1>3, <2>1, <3>3
  <2> QED BY <1>9, <2>2, <2>3, <2>4 DEF DropPortDrop
<1> QED BY <1>5, <1>6, <1>7, <1>8, <1>9 DEF FirewallStep

LEMMA OpenStep == OpenInv /\ [NetNext]_netvars => OpenInv'
<1> SUFFICES ASSUME OpenInv, [NetNext]_netvars PROVE OpenInv'
  OBVIOUS
<1>1. CommandsOK /\ HandlesOK /\ \A c \in Coming : c \in Cmd
  BY Others DEF OpenInv
<1>2. ASSUME CommandsOK', UNCHANGED <<pc, got, todo, nft>> PROVE OpenInv'
  <2>1. Comes({}) /\ Coming' = Coming
    BY <1>1, <1>2, ComesNothing DEF Coming, nft
  <2> QED BY <1>2, <2>1, OpenElsewhere DEF nft
<1>3. ASSUME NEW c \in Coming, MovesOnly(c), Does[c].do \notin FirewallDo, UNCHANGED <<opened, m>>,
             NEW words, Comes(words), "open" \notin words
      PROVE  OpenInv'
  BY <1>3, OpenElsewhere DEF MovesOnly, FirewallDo, Is
<1>4. LinkDo \cap FirewallDo = {} /\ SocatDo \cap FirewallDo = {} /\ BridgeDo \cap FirewallDo = {}
  BY DEF LinkDo, FirewallDo, BridgeDo, SocatDo
<1>5. ASSUME NEW c \in Coming, MovesOnly(c), Does[c].do \in LinkDo, UNCHANGED nft
      PROVE  OpenInv'
  <2>1. Comes({})
    BY <1>1, <1>5, ComesNothing DEF nft
  <2> QED BY <1>3, <1>4, <1>5, <2>1 DEF nft
<1>6. ASSUME NEW c \in Coming, ~Ended(c), MovesOnly(c), FirewallStep(c) PROVE OpenInv'
  BY <1>6, OpenFirewall
<1>7. ASSUME NEW c \in Coming, MovesOnly(c), Does[c].do \in BridgeDo, BridgeStep(c)
      PROVE  OpenInv'
  <2>1. Comes({"iif", "masquerade"})
    BY <1>1, <1>7, BridgeComes
  <2>2. UNCHANGED <<opened, m>>
    BY <1>7 DEF BridgeStep, Create, CreateUp, CreateAllow, CreateConflict, CreateAddr,
      CreateDnsmasq, CreateNat, CreateDone, Delete, DeleteFind, DeleteSignal, DeleteAddrs, DeleteUnsetNat,
      DeleteDrop, DeleteLink, DeleteUnNft, DeleteDone, HostAdd, HostAddWrite, nft
  <2> QED BY <1>3, <1>4, <1>7, <2>1, <2>2
<1>8. ASSUME NEW c \in Coming, MovesOnly(c), Does[c].do \in SocatDo, ForwardStep(c) PROVE OpenInv'
  <2>1. Comes({"dnat"})
    BY <1>1, <1>8, ForwardComes
  <2>2. UNCHANGED <<opened, m>>
    BY <1>8 DEF ForwardStep, SetPortForward, SetApply, RemovePortForward, RemoveAll, RemoveFind,
      RemoveDrop, ReserveList, Reserve, nft
  <2> QED BY <1>3, <1>4, <1>8, <2>1, <2>2
<1> QED BY <1>1, <1>2, <1>5, <1>6, <1>7, <1>8, NetSteps

\* No dnat rule is in the firewall but those of the forwards that socat has, and no open
\* port that the nft plugin does not know of, whatever fails and whoever runs beside
\* (socat.go SetPortForward, RemovePortForward, RemoveAll; nft/actions.go openPort,
\* dropPort).
THEOREM RulesKnownHolds == NetSpec => []RulesKnown
<1>1. NetInit => DnatInv /\ OpenInv
  <2> SUFFICES ASSUME NetInit PROVE DnatInv /\ OpenInv
    OBVIOUS
  <2>1. CommandsOK /\ Coming \in Given /\ \A c \in Coming : pc[c] = "new"
    BY CommandsInit DEF NetInit
  <2>2. chain = {} /\ handle = 0 /\ rules = [p \in 1..Ports |-> NoForward]
    BY DEF NetInit, InitFirewall, InitForwards
  <2>3. HandlesOK /\ OpensKnown
    BY <2>2 DEF HandlesOK, OpensKnown
  <2>4. RulesOK
    BY <2>2 DEF RulesOK
  <2>5. PortsKnown
    BY <2>2 DEF PortsKnown, PortKnown
  <2>6. \A c \in Coming : Places(c) /\ Opening(c) /\ DropsPort(c)
    BY <2>1 DEF Places, SetPlace, RemovePlace, Dropping, Opening, DropsPort
  <2> QED BY <2>1, <2>3, <2>4, <2>5, <2>6 DEF DnatInv, OpenInv
<1>2. DnatInv /\ OpenInv => RulesKnown
  <2> SUFFICES ASSUME DnatInv, OpenInv, NEW r \in chain
               PROVE  /\ r.body[1] = "dnat" =>
                           LET f == rules[r.body[4]] IN
                             f # NoForward /\ \E k \in DOMAIN f.protos : RulesOf(f)[k] = r.body
                      /\ r.body[1] = "open" => r.body \in opened
    BY DEF RulesKnown
  <2>1. r.body[1] = "open" => r.body \in opened
    BY DEF OpenInv, OpensKnown
  <2>2. CASE r.body[1] = "dnat"
    <3> DEFINE p == r.body[4]
    <3>1. p \in 1..Ports /\ Dnat(r, p)
      BY <2>2 DEF DnatInv, PortsKnown, Dnat
    <3> HIDE DEF p
    <3>2. PICK h \in Nat : /\ rules[p] # NoForward
                           /\ r.handle - h \in DOMAIN rules[p].protos
                           /\ r.body = RulesOf(rules[p])[r.handle - h]
      BY <3>1 DEF DnatInv, PortsKnown, PortKnown
    <3> QED BY <2>1, <3>2 DEF p
  <2> QED BY <2>1, <2>2
<1> QED BY <1>1, <1>2, DnatStep, OpenStep, PTL DEF NetSpec

-----------------------------------------------------------------------------
(* What is left of a bridge *)

Calm == faults = 0 /\ ~Meddled

\* The link that a command has found or made bears the name it was told.
LinkOf(c) ==
  Does[c].do \in {"create", "delete", "bond.del"} /\ got[c] # <<>> =>
    /\ got[c][1] \in Nat /\ got[c][1] < fresh
    /\ \A l \in links : l.index = got[c][1] => l.name = Does[c].name
Begun(c) ==
  Does[c].do \in {"create", "delete"} =>
    /\ pc[c] \in {"new", "looking"} => got[c] = <<>>
    /\ got[c] = <<>> => pc[c] \in {"new", "looking", "error"}
    /\ Is(c, "create") => got[c] = <<>> \/ got[c] = <<got[c][1]>>
    /\ Is(c, "create") /\ pc[c] \in {"addressing", "adding"} => Does[c].mode # "none"
    /\ Is(c, "delete") /\ pc[c] \in {"unmasking", "closing"} => todo[c] \in Seq(Nat)
BondGot(c) == Is(c, "bond.del") => (pc[c] = "new" <=> got[c] = <<>>) \/ pc[c] = "error"
Pairs(c, d) ==
  c # d =>
    /\ Is(c, "create") /\ Is(d, "create") /\ got[c] # <<>> /\ got[d] # <<>> => got[c][1] # got[d][1]
    /\ Inside(c) /\ Inside(d) /\ Does[c].name = Does[d].name => Does[c].name \in met
\* A create that met nobody has its link, and that alone has its name.
Undisturbed(c) ==
  Is(c, "create") /\ Inside(c) /\ Does[c].name \notin met =>
    Exists(got[c][1]) /\ \A l \in links : l.name = Does[c].name => l.index = got[c][1]
LinkedInv == /\ \A k, l \in links : k.index = l.index => k.name = l.name
             /\ \A c \in Coming : LinkOf(c) /\ Begun(c) /\ BondGot(c) /\ Undisturbed(c) /\ \A d \in Coming : Pairs(c, d)

\* The job of a bridge that is gone was told to end, or the signal was lost.
Lost(b) == dnsmasq[b] = "running" => <<"dnsmasq", b>> \in left
JobOf(b) == b \notin met => Lost(b) \/ Index(b) # {}
NoJob(c) ==
  \/ Is(c, "create") /\ pc[c] \in {"made", "allowing", "addressing", "adding", "dnsmasq"}
  \/ Is(c, "delete") /\ pc[c] \in {"addresses", "listing", "unmasking"}
JobsInv == /\ dnsmasq = [b \in Bridge |-> dnsmasq[b]] /\ \A b \in Bridge : JobOf(b)
           /\ \A c \in Coming : NoJob(c) /\ Does[c].name \notin met => Lost(Does[c].name)

\* The rule of an index that is gone is of a create that failed, or being taken out.
DropsIif(d, r) ==
  /\ Is(d, "delete") /\ got[d] # <<>> /\ r.body = Allow(got[d][1])
  /\ pc[d] = "deleted" \/ (pc[d] = "closing" /\ \E k \in 1..Len(todo[d]) : todo[d][k] = r.handle)
RuleOf(r, c) ==
  /\ Is(c, "create") /\ got[c] # <<>> /\ r.body = Allow(got[c][1])
  /\ pc[c] = "error" \/ Exists(got[c][1]) \/ \E d \in Coming : DropsIif(d, r)
NoneMet == \A c \in Coming : Is(c, "create") => Does[c].name \notin met
IifInv == NoneMet => \A r \in chain : r.body[1] = "iif" => \E c \in Coming : RuleOf(r, c)

\* A masquerade is of a create whose address is there, or being taken out.
AddrOf(c) == [index |-> got[c][1], ip |-> Does[c].ip]
Has1(c) == Is(c, "create") /\ pc[c] \in {"dnsmasq", "nat"} /\ Does[c].name \notin met => AddrOf(c) \in addrs
MetOwner(r) == \E c \in Coming : /\ Is(c, "create") /\ Masquerade(Does[c].ip) = r.body
                                /\ Does[c].name \in met
MaskOf(r, c) == /\ Is(c, "create") /\ Masquerade(Does[c].ip) = r.body
                /\ pc[c] \in {"done", "ok"} /\ AddrOf(c) \in addrs
\* A delete has the networks of its link, then their rules.
ListsAll(d) ==
  Is(d, "delete") /\ Does[d].name \notin met =>
    /\ pc[d] = "listing" => \A a \in addrs : a.index = got[d][1] => Network[a.ip] \in got[d][2]
    /\ pc[d] = "unmasking" =>
         \A r \in chain : \A a \in addrs :
           r.body = <<"masquerade", Network[a.ip]>> /\ a.index = got[d][1] =>
             MetOwner(r) \/ \E k \in 1..Len(todo[d]) : todo[d][k] = r.handle
MasksInv ==
  /\ \A a \in addrs : a.ip \in DOMAIN Network
  /\ \A c \in Coming : Has1(c) /\ ListsAll(c)
  /\ \A r \in chain : r.body[1] = "masquerade" => MetOwner(r) \/ \E c \in Coming : MaskOf(r, c)

GoneInv == Calm => LinkedInv /\ JobsInv /\ IifInv /\ MasksInv

\* A finite set of numbers can be gone through from the least to the greatest.
Rises(s, n, S) == s \in [1..n -> S] /\ \A j, k \in 1..n : j < k => s[j] < s[k]

LEMMA RisesExists ==
  ASSUME NEW S \in SUBSET Nat, IsFiniteSet(S)
  PROVE  \E s : Rises(s, Cardinality(S), S)
<1> DEFINE Without2 == {n \in Nat : \E R \in SUBSET Nat : /\ IsFiniteSet(R) /\ Cardinality(R) = n
                                                       /\ ~\E s : Rises(s, n, R)}
<1> SUFFICES Without2 = {}
  BY FS_CardinalityType
<1> SUFFICES ASSUME Without2 # {} PROVE FALSE
  OBVIOUS
<1>1. PICK n \in Without2 : \A k \in Without2 : n <= k
  <2>1. Without2 \in SUBSET Nat
    OBVIOUS
  <2> HIDE DEF Without2
  <2> QED BY <2>1, LeastNumber
<1>2. PICK R \in SUBSET Nat : IsFiniteSet(R) /\ Cardinality(R) = n /\ ~\E s : Rises(s, n, R)
  BY <1>1
<1>3. n \in Nat
  BY <1>1
<1>4. n # 0
  <2>1. n = 0 => Rises([k \in 1..n |-> 0], n, R)
    BY DEF Rises
  <2> QED BY <1>2, <2>1
<1>5. R # {}
  BY <1>2, <1>4, FS_EmptySet
<1>6. PICK x \in R : \A y \in R : x <= y
  BY <1>5, LeastNumber
<1>7. /\ IsFiniteSet(R \ {x}) /\ Cardinality(R \ {x}) = n - 1 /\ n - 1 \in Nat
      /\ \A y \in R \ {x} : x < y
  BY <1>2, <1>3, <1>4, <1>6, FS_RemoveElement
<1>8. n - 1 \notin Without2
  BY <1>1, <1>3, <1>4
<1>9. PICK s : Rises(s, n - 1, R \ {x})
  BY <1>7, <1>8
<1> DEFINE t == [k \in 1..n |-> IF k = 1 THEN x ELSE s[k - 1]]
<1>10. \A k \in 1..n : k # 1 => k - 1 \in 1..(n - 1) /\ s[k - 1] \in R \ {x}
  BY <1>3, <1>9 DEF Rises
<1>11. t \in [1..n -> R]
  BY <1>6, <1>10
<1>12. ASSUME NEW j \in 1..n, NEW k \in 1..n, j < k PROVE t[j] < t[k]
  <2>1. k # 1 /\ t[k] = s[k - 1] /\ k - 1 \in 1..(n - 1) /\ s[k - 1] \in R \ {x}
    BY <1>3, <1>10, <1>12
  <2>2. CASE j = 1
    <3>1. t[j] = x
      BY <2>2
    <3> HIDE DEF t
    <3> QED BY <1>7, <2>1, <3>1
  <2>3. CASE j # 1
    <3>1. t[j] = s[j - 1] /\ j - 1 \in 1..(n - 1) /\ j - 1 < k - 1
      BY <1>3, <1>10, <1>12, <2>3
    <3> QED BY <1>9, <2>1, <3>1 DEF Rises
  <2> QED BY <2>2, <2>3
<1>13. Rises(t, n, R)
  BY <1>11, <1>12 DEF Rises
<1> QED BY <1>2, <1>13

LEMMA SortedAll ==
  ASSUME NEW S \in SUBSET Nat, IsFiniteSet(S)
  PROVE  /\ Sorted(S) \in Seq(Nat)
         /\ \A x \in S : \E k \in 1..Len(Sorted(S)) : Sorted(S)[k] = x
<1> DEFINE n == Cardinality(S)
           s == Sorted(S)
<1>1. n \in Nat
  BY FS_CardinalityType
<1>2. s \in [1..n -> S] /\ \A j, k \in 1..n : j < k => s[j] < s[k]
  <2>1. \E t : Rises(t, n, S)
    BY RisesExists
  <2>2. \E t \in [1..n -> S] : \A j, k \in DOMAIN t : j < k => t[j] < t[k]
    BY <2>1 DEF Rises
  <2>3. s \in [1..n -> S] /\ \A j, k \in DOMAIN s : j < k => s[j] < s[k]
    BY <2>2 DEF Sorted
  <2> QED BY <2>3
<1> HIDE DEF s
<1>3. s \in Seq(Nat) /\ Len(s) = n
  <2>1. s \in [1..n -> Nat]
    BY <1>2
  <2> QED BY <1>1, <2>1
<1>4. s \in Injection(1..n, S)
  <2>1. ASSUME NEW j \in 1..n, NEW k \in 1..n, s[j] = s[k] PROVE j = k
    <3>1. s[j] \in Nat /\ s[k] \in Nat
      BY <1>2
    <3>2. ~(j < k) /\ ~(k < j)
      BY <1>2, <2>1, <3>1
    <3> QED BY <1>1, <3>2
  <2> QED BY <1>2, <2>1 DEF Injection, IsInjective
<1>5. s \in Surjection(1..n, S)
  <2>1. Cardinality(1..n) = n
    BY <1>1, FS_Interval
  <2> HIDE DEF n
  <2> QED BY <1>4, <2>1, FS_Injection DEF n
<1>6. \A x \in S : \E k \in 1..n : s[k] = x
  BY <1>5 DEF Surjection
<1> QED BY <1>3, <1>6 DEF s

\* Every handle is among those given, so that a set of them is finite.
LEMMA HandlesSorted ==
  ASSUME HandlesOK, NEW R \in SUBSET chain
  PROVE  /\ Sorted({q.handle : q \in R}) \in Seq(Nat)
         /\ \A r \in R : \E k \in 1..Len(Sorted({q.handle : q \in R})) :
              Sorted({q.handle : q \in R})[k] = r.handle
<1> DEFINE S == {q.handle : q \in R}
<1>1. S \in SUBSET Nat /\ handle \in Nat /\ \A h \in S : h <= handle
  BY DEF HandlesOK
<1>2. \A r \in R : r.handle \in S
  OBVIOUS
<1> HIDE DEF S
<1>3. IsFiniteSet(S)
  BY <1>1, FS_BoundedSetOfNaturals
<1>4. Sorted(S) \in Seq(Nat)
  BY <1>1, <1>3, SortedAll
<1> QED BY <1>1, <1>2, <1>3, <1>4, SortedAll DEF S

\* What is left of a sequence holds all but its head.
LEMMA TailKeeps ==
  ASSUME NEW S, NEW s \in Seq(S), s # <<>>
  PROVE  /\ Tail(s) \in Seq(S)
         /\ \A i \in 1..Len(s) : s[i] = Head(s) \/ \E j \in 1..Len(Tail(s)) : Tail(s)[j] = s[i]
<1>1. Tail(s) \in Seq(S) /\ Len(Tail(s)) = Len(s) - 1 /\ Len(s) \in Nat
      /\ \A j \in 1..Len(Tail(s)) : Tail(s)[j] = s[j + 1]
  OBVIOUS
<1>2. ASSUME NEW i \in 1..Len(s), i # 1 PROVE Tail(s)[i - 1] = s[i] /\ i - 1 \in 1..Len(Tail(s))
  BY <1>1, <1>2
<1>3. \A i \in 1..Len(s) : i = 1 \/ i - 1 \in 1..Len(Tail(s))
  BY <1>1
<1> QED BY <1>1, <1>2, <1>3

\* A step counts its failure, if it has one.
LEMMA FaultsCounted ==
  ASSUME [NetNext]_netvars PROVE faults' = faults \/ faults' = faults + 1
<1> DEFINE Counts == faults' = faults \/ faults' = faults + 1
<1>1. ASSUME NEW c, NEW p
      PROVE  /\ Step(c, p) \/ (\E w : Reads(c, p, w)) \/ Drop(c) => Counts
             /\ Fault(c, p) \/ Faulty \/ UNCHANGED faults => Counts
             /\ DropFails(c) => Counts
             /\ \A b : FindRules(c, b, p) \/ FindFails(c, b, p) => Counts
  BY DEF Step, Reads, Drop, Fault, Faulty, FindRules, FindFails, DropFails
<1> HIDE DEF Counts
<1>2. ASSUME NEW c, LinkStep(c) PROVE Counts
  BY <1>1, <1>2 DEF LinkStep, LookUp, LookUpFails, Filter, OneCall, BrAdd, BrAddHwAddr, InitBonding, BondSlave,
     BondLinkAdd, BondEnslave
<1>3. ASSUME NEW c, FirewallStep(c) PROVE Counts
  BY <1>1, <1>3 DEF FirewallStep, OpenPort, OpenApply, DropPort, DropPortFind, DropPortDrop
<1>4. ASSUME NEW c, ForwardStep(c) PROVE Counts
  BY <1>1, <1>4 DEF ForwardStep, SetPortForward, SetApply, RemovePortForward, RemoveAll, RemoveFind, RemoveDrop,
     ReserveList, Reserve
<1>5. ASSUME NEW c, BridgeStep(c) PROVE Counts
  <2>1. CASE Create(c) \/ CreateUp(c) \/ CreateAllow(c) \/ CreateConflict(c) \/ CreateAddr(c)
    BY <1>1, <2>1 DEF Create, CreateUp, CreateAllow, CreateConflict, CreateAddr
  <2>2. CASE CreateDnsmasq(c) \/ CreateNat(c) \/ CreateDone(c) \/ Delete(c) \/ DeleteFind(c)
    BY <1>1, <2>2 DEF CreateDnsmasq, CreateNat, CreateDone, Delete, DeleteFind
  <2>3. CASE DeleteSignal(c) \/ DeleteAddrs(c)
    BY <1>1, <2>3 DEF DeleteSignal, DeleteAddrs
  <2>4. CASE DeleteUnsetNat(c) \/ DeleteDrop(c) \/ DeleteLink(c) \/ DeleteUnNft(c) \/ DeleteDone(c)
    BY <1>1, <2>4 DEF DeleteUnsetNat, DeleteDrop, DeleteLink, DeleteUnNft, DeleteDone
  <2>5. CASE HostAdd(c) \/ HostAddWrite(c)
    BY <1>1, <2>5 DEF HostAdd, HostAddWrite
  <2> QED BY <1>5, <2>1, <2>2, <2>3, <2>4, <2>5 DEF BridgeStep
<1>6. ASSUME NEW p \in 1..Ports, Expire(p) \/ ServiceStarts(p) PROVE Counts
  BY <1>1, <1>6 DEF Expire, ServiceStarts, commands
<1>7. ASSUME Watch PROVE Counts
  BY <1>1, <1>7 DEF Watch, NotifyRead, NotifyDelete, NotifySet, MonitorDies, MonitorStarts
<1>8. ASSUME NEW b \in Bridge, DnsmasqEnds(b) PROVE Counts
  BY <1>1, <1>8 DEF DnsmasqEnds
<1>9. CASE UNCHANGED netvars
  BY <1>1, <1>9 DEF netvars, commands
<1> QED BY <1>2, <1>3, <1>4, <1>5, <1>6, <1>7, <1>8, <1>9 DEF NetNext, NetCommand, Counts

\* Those links go, with their addresses; the others keep their names.
Keeps(S) ==
  /\ S \subseteq {l.index : l \in links} /\ fresh' = fresh
  /\ \A l \in links' : \E k \in links : k.index = l.index /\ k.name = l.name
  /\ \A k \in links : k.index \notin S => \E l \in links' : l.index = k.index /\ l.name = k.name
  /\ addrs' \subseteq addrs /\ \A a \in addrs : a.index \notin S => a \in addrs'
Adds(n) ==
  /\ Index(n) = {} /\ fresh' = fresh + 1 /\ addrs' = addrs /\ links \subseteq links'
  /\ \A l \in links' : l \in links \/ (l.index = fresh /\ l.name = n)
  /\ \E l \in links' : l.index = fresh /\ l.name = n

LEMMA LinksKept ==
  ASSUME LinksOK
  PROVE  /\ \A S \in SUBSET {l.index : l \in links} : LinksGone(S) => Keeps(S)
         /\ \A i \in {l.index : l \in links} : LinkDel(i) => Keeps({i})
         /\ \A i, b : SetUp(i, b) \/ SetMaster(i, b) \/ SetMTU(i, b) => Keeps({})
         /\ \A i : SetDown(i) => Keeps({})
         /\ UNCHANGED <<links, addrs, fresh>> => Keeps({})
         /\ \A n, k : Index(n) = {} /\ LinkAdd(n, k) => Adds(n)
<1>1. ASSUME NEW S \in SUBSET {l.index : l \in links}, LinksGone(S) PROVE Keeps(S)
  <2> DEFINE Put(l) == [l EXCEPT !.master = IF @ \in S THEN 0 ELSE @]
  <2>1. \A l \in links : Put(l).index = l.index /\ Put(l).name = l.name
    BY DEF LinksOK
  <2> HIDE DEF Put
  <2>2. links' = {Put(l) : l \in {k \in links : k.index \notin S}}
        /\ addrs' = {a \in addrs : a.index \notin S} /\ fresh' = fresh
    BY <1>1 DEF LinksGone, Put
  <2>3. \A k \in links : k.index \notin S => Put(k) \in links'
    BY <2>2
  <2> QED BY <1>1, <2>1, <2>2, <2>3 DEF Keeps
<1>2. ASSUME NEW i \in {l.index : l \in links}, LinkDel(i) PROVE Keeps({i})
  <2>1. {i} \in SUBSET {l.index : l \in links}
    OBVIOUS
  <2> QED BY <1>1, <1>2, <2>1 DEF LinkDel
<1>3. ASSUME NEW i, NEW b, SetUp(i, b) \/ SetMaster(i, b) \/ SetMTU(i, b) PROVE Keeps({})
  <2>1. CASE SetUp(i, b)
    <3> DEFINE Put(l) == IF l.index = i THEN [l EXCEPT !.up = b] ELSE l
    <3>1. \A l \in links : Put(l).index = l.index /\ Put(l).name = l.name
      BY DEF LinksOK
    <3>2. links' = {Put(l) : l \in links} /\ UNCHANGED <<addrs, fresh>>
      BY <2>1 DEF SetUp, ChangeLink
    <3> HIDE DEF Put
    <3> QED BY <3>1, <3>2 DEF Keeps
  <2>2. CASE SetMaster(i, b)
    <3> DEFINE Put(l) == IF l.index = i THEN [l EXCEPT !.master = b] ELSE l
    <3>1. \A l \in links : Put(l).index = l.index /\ Put(l).name = l.name
      BY DEF LinksOK
    <3>2. links' = {Put(l) : l \in links} /\ UNCHANGED <<addrs, fresh>>
      BY <2>2 DEF SetMaster, ChangeLink
    <3> HIDE DEF Put
    <3> QED BY <3>1, <3>2 DEF Keeps
  <2>3. CASE SetMTU(i, b)
    <3> DEFINE Put(l) == IF l.index = i THEN [l EXCEPT !.mtu = b] ELSE l
    <3>1. \A l \in links : Put(l).index = l.index /\ Put(l).name = l.name
      BY DEF LinksOK
    <3>2. links' = {Put(l) : l \in links} /\ UNCHANGED <<addrs, fresh>>
      BY <2>3 DEF SetMTU, ChangeLink
    <3> HIDE DEF Put
    <3> QED BY <3>1, <3>2 DEF Keeps
  <2> QED BY <1>3, <2>1, <2>2, <2>3
<1>4. ASSUME NEW i, SetDown(i) PROVE Keeps({})
  <2> DEFINE Put(l) == IF l.index = i THEN [l EXCEPT !.up = FALSE] ELSE l
  <2>1. \A l \in links : Put(l).index = l.index /\ Put(l).name = l.name
    BY DEF LinksOK
  <2>2. links' = {Put(l) : l \in links} /\ UNCHANGED <<addrs, fresh>>
    BY <1>4 DEF SetDown
  <2> HIDE DEF Put
  <2> QED BY <2>1, <2>2 DEF Keeps
<1>5. ASSUME UNCHANGED <<links, addrs, fresh>> PROVE Keeps({})
  BY <1>5 DEF Keeps
<1>6. ASSUME NEW n, NEW k, Index(n) = {}, LinkAdd(n, k) PROVE Adds(n)
  <2> DEFINE new == Plain(fresh, n, k)
  <2>1. new.index = fresh /\ new.name = n
    BY DEF Plain
  <2> HIDE DEF new
  <2> QED BY <1>6, <2>1 DEF LinkAdd, Adds, new
<1> QED BY <1>1, <1>2, <1>3, <1>4, <1>5, <1>6

\* What an ip.* command does to the links of bridges, when it does not meddle.
Aloof == \/ \E n : Adds(n)
         \/ \E S : Keeps(S) /\ \A l \in links : l.index \in S => l.name \notin Bridge

LEMMA LinksAloof ==
  ASSUME CommandsOK, LinksOK, LinkedInv, NEW c \in Coming, LinkStep(c), ~Meddled, faults \in Nat, faults' = 0
  PROVE  Aloof
<1>0. UNCHANGED net \/ Keeps({}) => Aloof
  BY LinksKept DEF net, Aloof
<1>a. \A p : ~Fault(c, p)
  BY DEF Fault, Faulty
<1>1. CASE LookUp(c) \/ LookUpFails(c) \/ Filter(c)
  BY <1>0, <1>1 DEF LookUp, LookUpFails, Filter
<1>2. CASE OneCall(c)
  <2>1. CASE UNCHANGED net
    BY <1>0, <2>1
  <2>2. CASE Allowed(c) /\ Call(c) /\ OneShot(c) /\ pc[c] \in {"found", "filtered"}
    <3> DEFINE i == got[c][1]
    <3>0. Does[c].do \notin {"br.del", "addr.del", "addr.add", "link.name"}
      BY DEF Meddled, Named
    <3>1. CASE Does[c].do = "bond.del"
      <4>1. LinkDel(i)
        BY <2>2, <3>1 DEF Call, Is
      <4>2. Exists(i)
        BY <2>2, <3>1 DEF Allowed, Names
      <4>3. Keeps({i})
        BY <4>1, <4>2, LinksKept DEF Exists
      <4>4. ASSUME NEW l \in links, l.index = i PROVE l.name \notin Bridge
        <5>1. Does[c].name \notin Bridge
          BY <3>1 DEF Meddled, Is
        <5>2. got[c] # <<>> => l.name = Does[c].name
          BY <3>1, <4>4 DEF LinkedInv, LinkOf
        <5>3. got[c] # <<>>
          BY <2>2, <3>1 DEF LinkedInv, BondGot, Is
        <5> QED BY <5>1, <5>2, <5>3
      <4> QED BY <4>3, <4>4 DEF Aloof
    <3>2. CASE Does[c].do \in {"br.addinf", "nic.add", "br.delinf", "nic.remove"}
      <4>1. \E j, n : SetMaster(j, n)
        BY <2>2, <3>2 DEF Call, Is
      <4> QED BY <1>0, <4>1, LinksKept
    <3>3. CASE Does[c].do \in {"link.up", "link.mtu"}
      <4>1. \E n : SetUp(i, n) \/ SetMTU(i, n)
        BY <2>2, <3>3 DEF Call, Is
      <4> QED BY <1>0, <4>1, LinksKept
    <3>4. CASE Does[c].do = "link.down"
      <4>1. SetDown(i)
        BY <2>2, <3>4 DEF Call, Is
      <4> QED BY <1>0, <4>1, LinksKept
    <3>5. CASE Does[c].do \in {"route.add", "route.del"}
      <4>1. Route(c, i)
        BY <2>2, <3>5 DEF Call, Is
      <4> QED BY <1>0, <4>1, LinksKept DEF Route
    <3> QED BY <2>2, <3>0, <3>1, <3>2, <3>3, <3>4, <3>5 DEF OneShot
  <2>3. pc[c] \in {"found", "filtered"}
    BY <1>2 DEF OneCall
  <2> QED BY <1>2, <2>1, <2>2, <2>3 DEF OneCall
<1>3. CASE BrAdd(c) \/ BondLinkAdd(c)
  <2>1. UNCHANGED net \/ \E n, k : Index(n) = {} /\ LinkAdd(n, k)
    BY <1>3 DEF BrAdd, BondLinkAdd
  <2> QED BY <1>0, <2>1, LinksKept DEF Aloof
<1>4. CASE BrAddHwAddr(c)
  BY <1>0, <1>a, <1>4 DEF BrAddHwAddr
<1>5. CASE InitBonding(c)
  <2>1. PICK S : S = (IF bonding THEN {} ELSE Index("bond0"))
    OBVIOUS
  <2>2. S \in SUBSET {l.index : l \in links} /\ LinksGone(S)
    BY <1>5, <2>1 DEF InitBonding, Index
  <2>3. "bond0" \notin Bridge
    BY <1>5 DEF InitBonding, Meddled
  <2>4. \A l \in links : l.index \in S => l.name = "bond0"
    BY <2>1 DEF Index, LinkedInv
  <2> QED BY <2>2, <2>3, <2>4, LinksKept DEF Aloof
<1>6. CASE BondSlave(c)
  <2>1. CASE UNCHANGED net
    BY <1>0, <2>1
  <2>2. CASE \E i : links' = {IF l.index = i THEN [l EXCEPT !.mtu = Does[c].mtu, !.up = TRUE]
                              ELSE l : l \in links} /\ UNCHANGED <<addrs, fresh>>
    <3> DEFINE Put(l) == [l EXCEPT !.mtu = Does[c].mtu, !.up = TRUE]
    <3>1. \A l \in links : Put(l).index = l.index /\ Put(l).name = l.name
      BY DEF LinksOK
    <3>2. PICK i : links' = {IF l.index = i THEN Put(l) ELSE l : l \in links}
      BY <2>2
    <3> HIDE DEF Put
    <3>3. Keeps({})
      BY <2>2, <3>1, <3>2 DEF Keeps
    <3> QED BY <1>0, <3>3
  <2> QED BY <1>6, <1>a, <2>1, <2>2 DEF BondSlave, ChangeLink
<1>7. CASE BondEnslave(c)
  <2> DEFINE bond == got[c][Len(got[c])]
             slaves == {got[c][k] : k \in 1..(Len(got[c]) - 1)}
  <2>1. CASE UNCHANGED net
    BY <1>0, <2>1
  <2>2. CASE /\ links' = {IF l.index = bond THEN [l EXCEPT !.up = TRUE]
                          ELSE IF l.index \in slaves THEN [l EXCEPT !.master = bond] ELSE l :
                            l \in links}
             /\ UNCHANGED <<addrs, fresh>>
    <3> HIDE DEF bond, slaves
    <3> DEFINE Put(l) == IF l.index = bond THEN [l EXCEPT !.up = TRUE]
                         ELSE IF l.index \in slaves THEN [l EXCEPT !.master = bond] ELSE l
    <3>1. \A l \in links : Put(l).index = l.index /\ Put(l).name = l.name
      BY DEF LinksOK
    <3>2. links' = {Put(l) : l \in links}
      BY <2>2
    <3> HIDE DEF Put
    <3>3. Keeps({})
      BY <2>2, <3>1, <3>2 DEF Keeps
    <3> QED BY <1>0, <3>3
  <2> QED BY <1>7, <1>a, <2>1, <2>2 DEF BondEnslave
<1> QED BY <1>1, <1>2, <1>3, <1>4, <1>5, <1>6, <1>7 DEF LinkStep

\* What the bridge plugin does, when nothing fails.
BrRefused(c) ==
  /\ pc[c] \in {"new", "looking"} /\ pc'[c] = "error" /\ got'[c] = got[c] /\ Meets(c)
  /\ UNCHANGED <<net, chain, dnsmasq, left>>
BrMade(c) ==
  /\ Is(c, "create") /\ pc[c] = "new" /\ pc'[c] = "made" /\ got'[c] = <<fresh>> /\ Meets(c)
  /\ Adds(Does[c].name) /\ UNCHANGED <<chain, dnsmasq, left>>
Early == {"made", "allowing", "addressing", "adding", "dnsmasq"}
BrUndone(c) ==
  /\ Is(c, "create") /\ pc[c] \in Early /\ pc'[c] = "error" /\ got'[c] = got[c]
  /\ \E S \in SUBSET {got[c][1]} : Keeps(S)
  /\ UNCHANGED <<chain, dnsmasq, left, met>>
BrOnward(c) ==
  /\ Is(c, "create") /\ got'[c] = got[c]
  /\ \/ pc[c] = "made" /\ pc'[c] = "allowing"
     \/ pc[c] = "addressing" /\ pc'[c] = "adding"
     \/ pc[c] = "done" /\ pc'[c] = "ok"
  /\ Keeps({}) /\ UNCHANGED <<chain, dnsmasq, left, met>>
BrAllowed(c) ==
  /\ Is(c, "create") /\ pc[c] = "allowing" /\ got'[c] = got[c]
  /\ pc'[c] = IF Does[c].mode = "none" THEN "done" ELSE "addressing"
  /\ \E i \in Index(Does[c].name) : Apply(<<Allow(i)>>)
  /\ UNCHANGED <<net, dnsmasq, left, met>>
BrAddressed(c) ==
  /\ Is(c, "create") /\ pc[c] = "adding" /\ pc'[c] = "dnsmasq" /\ got'[c] = got[c]
  /\ Exists(got[c][1]) /\ addrs' = addrs \cup {AddrOf(c)}
  /\ UNCHANGED <<links, fresh, chain, dnsmasq, left, met>>
BrServed(c) ==
  /\ Is(c, "create") /\ pc[c] = "dnsmasq" /\ pc'[c] \in {"nat", "done"} /\ got'[c] = got[c]
  /\ dnsmasq' = [dnsmasq EXCEPT ![Does[c].name] = "running"]
  /\ UNCHANGED <<net, chain, left, met>>
BrMasked(c) ==
  /\ Is(c, "create") /\ pc[c] = "nat" /\ pc'[c] = "done" /\ got'[c] = got[c]
  /\ Apply(<<Masquerade(Does[c].ip)>>) /\ UNCHANGED <<net, dnsmasq, left, met>>
BrGate(c) ==
  /\ Is(c, "delete") /\ pc[c] = "new" /\ pc'[c] = "looking" /\ got'[c] = got[c]
  /\ UNCHANGED <<net, chain, dnsmasq, left, met>>
BrFound(c) ==
  /\ Is(c, "delete") /\ pc[c] = "looking" /\ pc'[c] = "signal" /\ Meets(c)
  /\ \E i \in Index(Does[c].name) : got'[c] = <<i>>
  /\ UNCHANGED <<net, chain, dnsmasq, left>>
BrTold(c) ==
  /\ Is(c, "delete") /\ pc[c] = "signal" /\ pc'[c] = "addresses" /\ got'[c] = got[c]
  /\ \/ dnsmasq[Does[c].name] = "none" /\ UNCHANGED <<dnsmasq, left>>
     \/ dnsmasq' = [dnsmasq EXCEPT ![Does[c].name] = "told"] /\ UNCHANGED left
     \/ left' = left \cup {<<"dnsmasq", Does[c].name>>} /\ UNCHANGED dnsmasq
  /\ UNCHANGED <<net, chain, met>>
BrListed(c) ==
  /\ Is(c, "delete") /\ pc[c] = "addresses" /\ pc'[c] = "listing"
  /\ got'[c] = <<got[c][1], {Network[a.ip] : a \in {b \in addrs : b.index = got[c][1]}}>>
  /\ UNCHANGED <<net, chain, dnsmasq, left, met>>
BrSought(c) ==
  /\ Is(c, "delete") /\ got'[c] = got[c]
  /\ \/ /\ pc[c] = "listing" /\ pc'[c] = "unmasking"
        /\ todo'[c] = Sorted({r.handle : r \in
             {q \in chain : q.body[1] = "masquerade" /\ q.body[2] \in got[c][2]}})
     \/ /\ pc[c] = "deleted" /\ pc'[c] = "closing"
        /\ todo'[c] = Sorted({r.handle : r \in {q \in chain : q.body = Allow(got[c][1])}})
  /\ UNCHANGED <<net, chain, dnsmasq, left, met>>
BrDropped(c) ==
  /\ Is(c, "delete") /\ pc[c] \in {"unmasking", "closing"} /\ pc'[c] = pc[c] /\ got'[c] = got[c]
  /\ todo[c] # <<>> /\ todo'[c] = Tail(todo[c])
  /\ chain' \subseteq chain /\ \A r \in chain' : r.handle # Head(todo[c])
  /\ UNCHANGED <<net, dnsmasq, left, met>>
BrGone(c) ==
  /\ Is(c, "delete") /\ pc[c] = "unmasking" /\ todo[c] = <<>> /\ pc'[c] = "deleted" /\ got'[c] = got[c]
  /\ Keeps({got[c][1]}) /\ UNCHANGED <<chain, dnsmasq, left, met>>
BrQuit(c) ==
  /\ Is(c, "delete") /\ got'[c] = got[c]
  /\ \/ pc[c] = "unmasking" /\ pc'[c] = "error"
     \/ pc[c] = "closing" /\ todo[c] = <<>> /\ pc'[c] = "ok"
  /\ UNCHANGED <<net, chain, dnsmasq, left, met>>
BrCreates(c) == \/ BrMade(c) \/ BrUndone(c) \/ BrOnward(c) \/ BrAllowed(c) \/ BrAddressed(c) \/ BrServed(c)
                \/ BrMasked(c)
BrDeletes(c) == \/ BrFound(c) \/ BrTold(c) \/ BrListed(c) \/ BrSought(c) \/ BrDropped(c) \/ BrGone(c) \/ BrQuit(c)
BrHosts(c) == Is(c, "host.add") /\ UNCHANGED <<net, chain, dnsmasq, left, met>>

LEMMA CreateEffects ==
  ASSUME CommandsOK, LinksOK, NEW c \in Coming, BridgeStep(c), Is(c, "create"), faults \in Nat, faults' = 0
  PROVE  BrRefused(c) \/ BrCreates(c)
<1>a. \A p : ~Fault(c, p)
  BY DEF Fault, Faulty
<1>u. ASSUME UNCHANGED net \/ Undo(c) PROVE \E S \in SUBSET {got[c][1]} : Keeps(S)
  <2>1. CASE UNCHANGED net
    BY <2>1, LinksKept DEF net
  <2>2. CASE Exists(got[c][1]) /\ LinkDel(got[c][1])
    BY <2>2, LinksKept DEF Exists
  <2> QED BY <1>u, <2>1, <2>2 DEF Undo
<1>1. CASE Create(c)
  <2>1. CASE Index(Does[c].name) # {}
    <3>1. Step(c, "error") /\ UNCHANGED <<net, nft, dnsmasq, left>> /\ Meets(c) /\ pc[c] = "new"
      BY <1>1, <2>1 DEF Create
    <3> QED BY <3>1, StepMoves DEF BrRefused, nft
  <2>2. CASE Index(Does[c].name) = {}
    <3>1. /\ LinkAdd(Does[c].name, "bridge") /\ Reads(c, "made", <<fresh>>) /\ Meets(c) /\ pc[c] = "new"
          /\ UNCHANGED <<nft, dnsmasq, left>>
      BY <1>1, <2>2 DEF Create
    <3>2. Adds(Does[c].name) /\ pc'[c] = "made" /\ got'[c] = <<fresh>>
      BY <2>2, <3>1, StepMoves, LinksKept
    <3> QED BY <3>1, <3>2 DEF BrCreates, BrMade, nft
  <2> QED BY <2>1, <2>2
<1>2. CASE CreateUp(c)
  <2>1. CASE SetUp(got[c][1], TRUE) /\ Step(c, "allowing")
    <3>1. Keeps({}) /\ pc'[c] = "allowing" /\ got'[c] = got[c]
      BY <2>1, StepMoves, LinksKept
    <3> QED BY <1>2, <3>1 DEF CreateUp, BrCreates, BrOnward, nft
  <2>2. CASE Step(c, "error") /\ UNCHANGED net
    <3>1. pc'[c] = "error" /\ got'[c] = got[c]
      BY <2>2, StepMoves
    <3> QED BY <1>2, <1>u, <2>2, <3>1 DEF CreateUp, BrCreates, BrUndone, Early, nft
  <2> QED BY <1>2, <1>a, <2>1, <2>2 DEF CreateUp
<1>3. CASE CreateAllow(c)
  <2>0. pc[c] = "allowing" /\ UNCHANGED <<net, dnsmasq, met>>
    BY <1>3 DEF CreateAllow
  <2>1. CASE /\ \E i \in Index(Does[c].name) : Apply(<<Allow(i)>>)
             /\ Step(c, IF Does[c].mode = "none" THEN "done" ELSE "addressing") /\ UNCHANGED left
    <3>1. pc'[c] = (IF Does[c].mode = "none" THEN "done" ELSE "addressing") /\ got'[c] = got[c]
      BY <2>1, StepMoves
    <3> QED BY <2>0, <2>1, <3>1 DEF BrCreates, BrAllowed
  <2>2. CASE Step(c, "error") /\ UNCHANGED <<chain, left>>
    <3>1. pc'[c] = "error" /\ got'[c] = got[c]
      BY <2>2, StepMoves
    <3> QED BY <1>u, <2>0, <2>2, <3>1 DEF BrCreates, BrUndone, Early
  <2> QED BY <1>3, <1>a, <2>1, <2>2 DEF CreateAllow
<1>4. CASE CreateConflict(c)
  <2>0. pc[c] = "addressing" /\ UNCHANGED <<chain, dnsmasq, left, met>>
    BY <1>4 DEF CreateConflict, nft
  <2>1. CASE Undo(c) /\ Step(c, "error")
    <3>1. pc'[c] = "error" /\ got'[c] = got[c]
      BY <2>1, StepMoves
    <3> QED BY <1>u, <2>0, <2>1, <3>1 DEF BrCreates, BrUndone, Early
  <2>2. CASE Step(c, "adding") /\ UNCHANGED net
    <3>1. pc'[c] = "adding" /\ got'[c] = got[c] /\ Keeps({})
      BY <2>2, StepMoves, LinksKept DEF net
    <3> QED BY <2>0, <3>1 DEF BrCreates, BrOnward
  <2> QED BY <1>4, <2>1, <2>2 DEF CreateConflict
<1>5. CASE CreateAddr(c)
  <2>0. pc[c] = "adding" /\ UNCHANGED <<chain, dnsmasq, left, met>>
    BY <1>5 DEF CreateAddr, nft
  <2>1. CASE Exists(got[c][1]) /\ AddrAdd(got[c][1], Does[c].ip) /\ Step(c, "dnsmasq")
    <3>1. pc'[c] = "dnsmasq" /\ got'[c] = got[c]
      BY <2>1, StepMoves
    <3> QED BY <2>0, <2>1, <3>1 DEF BrCreates, BrAddressed, AddrAdd, AddrOf
  <2>2. CASE Step(c, "error") /\ UNCHANGED net
    <3>1. pc'[c] = "error" /\ got'[c] = got[c]
      BY <2>2, StepMoves
    <3> QED BY <1>u, <2>0, <2>2, <3>1 DEF BrCreates, BrUndone, Early
  <2> QED BY <1>5, <1>a, <2>1, <2>2 DEF CreateAddr
<1>6. CASE CreateDnsmasq(c)
  <2>0. pc[c] = "dnsmasq" /\ UNCHANGED <<chain, left, met>>
    BY <1>6 DEF CreateDnsmasq, nft
  <2>1. CASE /\ dnsmasq' = [dnsmasq EXCEPT ![Does[c].name] = "running"]
             /\ Step(c, IF Does[c].nat THEN "nat" ELSE "done") /\ UNCHANGED net
    <3>1. pc'[c] = (IF Does[c].nat THEN "nat" ELSE "done") /\ got'[c] = got[c]
      BY <2>1, StepMoves
    <3> QED BY <2>0, <2>1, <3>1 DEF BrCreates, BrServed
  <2>2. CASE Undo(c) /\ Step(c, "error") /\ UNCHANGED dnsmasq
    <3>1. pc'[c] = "error" /\ got'[c] = got[c]
      BY <2>2, StepMoves
    <3> QED BY <1>u, <2>0, <2>2, <3>1 DEF BrCreates, BrUndone, Early
  <2> QED BY <1>6, <2>1, <2>2 DEF CreateDnsmasq
<1>7. CASE CreateNat(c)
  <2>1. Apply(<<Masquerade(Does[c].ip)>>) /\ Step(c, "done") /\ UNCHANGED <<net, dnsmasq, left, met>> /\ pc[c] = "nat"
    BY <1>7, <1>a DEF CreateNat
  <2> QED BY <2>1, StepMoves DEF BrCreates, BrMasked
<1>8. CASE CreateDone(c)
  <2>1. Step(c, "ok") /\ UNCHANGED <<net, chain, dnsmasq, left, met>> /\ pc[c] = "done"
    BY <1>8 DEF CreateDone, nft
  <2>2. pc'[c] = "ok" /\ got'[c] = got[c] /\ Keeps({})
    BY <2>1, StepMoves, LinksKept DEF net
  <2> QED BY <2>1, <2>2 DEF BrCreates, BrOnward
<1>9. ~(\/ Delete(c) \/ DeleteFind(c) \/ DeleteSignal(c) \/ DeleteAddrs(c) \/ DeleteUnsetNat(c)
        \/ DeleteDrop(c) \/ DeleteLink(c) \/ DeleteUnNft(c) \/ DeleteDone(c) \/ HostAdd(c) \/ HostAddWrite(c))
  BY DEF Delete, DeleteFind, DeleteSignal, DeleteAddrs, DeleteUnsetNat, DeleteDrop, DeleteLink, DeleteUnNft,
         DeleteDone, HostAdd, HostAddWrite, Is
<1> QED BY <1>1, <1>2, <1>3, <1>4, <1>5, <1>6, <1>7, <1>8, <1>9 DEF BridgeStep

LEMMA DeleteEffects ==
  ASSUME CommandsOK, LinksOK, NEW c \in Coming, BridgeStep(c), ~Is(c, "create"), faults \in Nat, faults' = 0
  PROVE  (Is(c, "delete") /\ (BrRefused(c) \/ BrGate(c) \/ BrDeletes(c))) \/ BrHosts(c)
<1>a. (\A p : ~Fault(c, p)) /\ ~Faulty
  BY DEF Fault, Faulty
<1>0. CASE Delete(c)
  <2>1. Is(c, "delete") /\ pc[c] = "new" /\ Step(c, "looking") /\ UNCHANGED <<net, chain, dnsmasq, left, met>>
    BY <1>0 DEF Delete, nft, bridges
  <2> QED BY <2>1, StepMoves DEF BrGate
<1>1. CASE DeleteFind(c)
  <2>0. pc[c] = "looking" /\ Is(c, "delete") /\ Meets(c) /\ UNCHANGED <<net, chain, dnsmasq, left>>
    BY <1>1 DEF DeleteFind, nft
  <2>1. ASSUME NEW i \in Index(Does[c].name), Reads(c, "signal", <<i>>) PROVE BrFound(c)
    BY <2>0, <2>1, StepMoves DEF BrFound
  <2>2. CASE Step(c, "error")
    BY <2>0, <2>2, StepMoves DEF BrRefused
  <2> QED BY <1>1, <2>0, <2>1, <2>2 DEF DeleteFind, BrDeletes
<1>2. CASE DeleteSignal(c)
  <2>1. pc'[c] = "addresses" /\ got'[c] = got[c]
    BY <1>2, StepMoves DEF DeleteSignal
  <2> QED BY <1>2, <2>1 DEF DeleteSignal, BrDeletes, BrTold, nft
<1>3. CASE DeleteAddrs(c)
  <2>1. Reads(c, "listing", <<got[c][1], {Network[a.ip] : a \in {b \in addrs : b.index = got[c][1]}}>>)
    BY <1>3, <1>a DEF DeleteAddrs
  <2>2. pc'[c] = "listing"
        /\ got'[c] = <<got[c][1], {Network[a.ip] : a \in {b \in addrs : b.index = got[c][1]}}>>
    BY <2>1, StepMoves
  <2> QED BY <1>3, <2>2 DEF DeleteAddrs, BrDeletes, BrListed, nft, bridges
<1>4. CASE DeleteUnsetNat(c) \/ DeleteUnNft(c)
  <2>1. ASSUME NEW p, Goto(c, p), UNCHANGED got PROVE pc'[c] = p /\ got'[c] = got[c]
    BY <2>1 DEF Goto, CommandsOK
  <2>2. \A s : todo' = [todo EXCEPT ![c] = s] => todo'[c] = s
    BY DEF CommandsOK
  <2> QED BY <1>4, <1>a, <2>1, <2>2 DEF DeleteUnsetNat, DeleteUnNft, BrDeletes, BrSought, nft, bridges
<1>5. CASE DeleteDrop(c)
  <2>1. /\ Is(c, "delete") /\ pc[c] \in {"unmasking", "closing"} /\ UNCHANGED <<pc, got, net, dnsmasq, left, met>>
        /\ todo[c] # <<>> /\ todo' = [todo EXCEPT ![c] = Tail(todo[c])]
    BY <1>5 DEF DeleteDrop, Drop, DropFails, bridges
  <2>2. chain' \subseteq chain /\ \A r \in chain' : r.handle # Head(todo[c])
    <3>1. CASE Drop(c)
      BY <3>1 DEF Drop, Without
    <3>2. CASE DropFails(c) /\ UNCHANGED chain
      BY <1>a, <3>2 DEF DropFails, Has
    <3> QED BY <1>5, <3>1, <3>2 DEF DeleteDrop
  <2>3. todo'[c] = Tail(todo[c])
    BY <2>1 DEF CommandsOK
  <2> QED BY <2>1, <2>2, <2>3 DEF BrDeletes, BrDropped
<1>6. CASE DeleteLink(c)
  <2>0. Is(c, "delete") /\ pc[c] = "unmasking" /\ todo[c] = <<>> /\ UNCHANGED <<chain, dnsmasq, left, met>>
    BY <1>6 DEF DeleteLink, nft, bridges
  <2>1. CASE Exists(got[c][1]) /\ LinkDel(got[c][1]) /\ Step(c, "deleted")
    <3>1. pc'[c] = "deleted" /\ got'[c] = got[c] /\ Keeps({got[c][1]})
      BY <2>1, StepMoves, LinksKept DEF Exists
    <3> QED BY <2>0, <3>1 DEF BrDeletes, BrGone
  <2>2. CASE Step(c, "error") /\ UNCHANGED net
    <3>1. pc'[c] = "error" /\ got'[c] = got[c]
      BY <2>2, StepMoves
    <3> QED BY <2>0, <2>2, <3>1 DEF BrDeletes, BrQuit
  <2> QED BY <1>6, <1>a, <2>1, <2>2 DEF DeleteLink
<1>7. CASE DeleteDone(c)
  <2>1. pc'[c] = "ok" /\ got'[c] = got[c]
    BY <1>7, StepMoves DEF DeleteDone
  <2> QED BY <1>7, <2>1 DEF DeleteDone, BrDeletes, BrQuit, nft, bridges
<1>8. CASE HostAdd(c) \/ HostAddWrite(c)
  BY <1>8 DEF HostAdd, HostAddWrite, BrHosts, nft, bridges
<1>9. ~(\/ Create(c) \/ CreateUp(c) \/ CreateAllow(c) \/ CreateConflict(c) \/ CreateAddr(c) \/ CreateDnsmasq(c)
        \/ CreateNat(c) \/ CreateDone(c))
  BY DEF Create, CreateUp, CreateAllow, CreateConflict, CreateAddr, CreateDnsmasq, CreateNat, CreateDone
<1>10. Is(c, "delete") \/ HostAdd(c) \/ HostAddWrite(c)
  BY <1>9 DEF BridgeStep, Delete, DeleteFind, DeleteSignal, DeleteAddrs, DeleteUnsetNat, DeleteDrop, DeleteLink,
     DeleteUnNft, DeleteDone
<1> QED BY <1>0, <1>1, <1>2, <1>3, <1>4, <1>5, <1>6, <1>7, <1>8, <1>9, <1>10 DEF BridgeStep

\* Those links go and no other, and none changes its name.
Stays(S) ==
  /\ S \subseteq {l.index : l \in links} /\ fresh' = fresh
  /\ \A l \in links' : \E k \in links : k.index = l.index /\ k.name = l.name
  /\ \A k \in links : k.index \notin S => \E l \in links' : l.index = k.index /\ l.name = k.name
Names2 == \A k, l \in links : k.index = l.index => k.name = l.name

LEMMA StaysWhen ==
  /\ \A S : Keeps(S) => Stays(S)
  /\ UNCHANGED <<links, fresh>> => Stays({})
BY DEF Keeps, Stays

\* What a command has found keeps its name as long as it is there.
LEMMA LinksCarry ==
  ASSUME LinksOK, LinkedInv, (\E n : Adds(n)) \/ (\E S : Stays(S))
  PROVE  /\ Names2'
         /\ \A d \in Coming : got'[d] = got[d] => LinkOf(d)'
<1>0. Names2 /\ \A d \in Coming : LinkOf(d)
  BY DEF LinkedInv, Names2
<1>1. ASSUME NEW S, Stays(S)
      PROVE  Names2' /\ \A d \in Coming : got'[d] = got[d] => LinkOf(d)'
  <2>1. \A l \in links' : \E k \in links : k.index = l.index /\ k.name = l.name
    BY <1>1 DEF Stays
  <2>2. Names2'
    BY <1>0, <2>1 DEF Names2
  <2>3. ASSUME NEW d \in Coming, got'[d] = got[d] PROVE LinkOf(d)'
    BY <1>0, <1>1, <2>1, <2>3 DEF LinkOf, Stays
  <2> QED BY <2>2, <2>3
<1>2. ASSUME NEW n, Adds(n)
      PROVE  Names2' /\ \A d \in Coming : got'[d] = got[d] => LinkOf(d)'
  <2>1. /\ \A l \in links' : l \in links \/ (l.index = fresh /\ l.name = n)
        /\ fresh \in Nat /\ fresh' = fresh + 1 /\ \A l \in links : l.index \in Nat /\ l.index < fresh
    BY <1>2 DEF Adds, LinksOK
  <2>2. \A l \in links : l.index # fresh
    BY <2>1
  <2>3. Names2'
    BY <1>0, <2>1, <2>2 DEF Names2
  <2>4. ASSUME NEW d \in Coming, got'[d] = got[d] PROVE LinkOf(d)'
    <3>1. SUFFICES ASSUME Does[d].do \in {"create", "delete", "bond.del"}, got[d] # <<>>
                   PROVE  /\ got[d][1] \in Nat /\ got[d][1] < fresh + 1
                          /\ \A l \in links' : l.index = got[d][1] => l.name = Does[d].name
      BY <2>1, <2>4 DEF LinkOf
    <3>2. /\ got[d][1] \in Nat /\ got[d][1] < fresh
          /\ \A l \in links : l.index = got[d][1] => l.name = Does[d].name
      BY <1>0, <3>1 DEF LinkOf
    <3>3. got[d][1] < fresh + 1 /\ got[d][1] # fresh
      BY <2>1, <3>2
    <3> QED BY <2>1, <3>2, <3>3
  <2> QED BY <2>3, <2>4
<1> QED BY <1>1, <1>2

\* A create keeps its link unless somebody else takes a link of that name.
LEMMA UndisturbedCarries ==
  ASSUME LinksOK, LinkedInv, NEW d \in Coming, Is(d, "create"), got'[d] = got[d], met \subseteq met', Inside(d),
         \/ \E n : Adds(n)
         \/ \E S : Stays(S) /\ (Does[d].name \in met' \/ \A l \in links : l.index \in S => l.name # Does[d].name)
  PROVE  Undisturbed(d)'
<1>1. SUFFICES ASSUME Does[d].name \notin met'
               PROVE  /\ \E l \in links' : l.index = got[d][1]
                      /\ \A l \in links' : l.name = Does[d].name => l.index = got[d][1]
  BY DEF Undisturbed, Exists
<1>2. /\ \E l \in links : l.index = got[d][1]
      /\ \A l \in links : l.name = Does[d].name => l.index = got[d][1]
  BY <1>1 DEF LinkedInv, Undisturbed, Exists
<1>3. got[d] # <<>>
  BY DEF LinkedInv, Begun, Inside, Ended, Is
<1>4. \A l \in links : l.index = got[d][1] => l.name = Does[d].name
  BY <1>3 DEF LinkedInv, LinkOf, Is
<1>5. ASSUME NEW n, Adds(n)
      PROVE  /\ \E l \in links' : l.index = got[d][1]
             /\ \A l \in links' : l.name = Does[d].name => l.index = got[d][1]
  <2>1. n # Does[d].name
    BY <1>2, <1>4, <1>5 DEF Adds, Index
  <2> QED BY <1>2, <1>5, <2>1 DEF Adds
<1>6. ASSUME NEW S, Stays(S), \A l \in links : l.index \in S => l.name # Does[d].name
      PROVE  /\ \E l \in links' : l.index = got[d][1]
             /\ \A l \in links' : l.name = Does[d].name => l.index = got[d][1]
  BY <1>2, <1>4, <1>6 DEF Stays
<1> QED BY <1>1, <1>5, <1>6

\* Of two commands at the same place as before, the same is so.
LEMMA PairsCarry ==
  ASSUME LinkedInv, NEW c \in Coming, NEW d \in Coming, met \subseteq met',
         got'[c] = got[c], got'[d] = got[d], Inside(c)' => Inside(c), Inside(d)' => Inside(d)
  PROVE  Pairs(c, d)'
BY DEF LinkedInv, Pairs

\* The commands are known, so that the names of bridges are.
LEMMA BridgeNamed ==
  ASSUME Coming \in Given, NEW c \in Coming, Does[c].do \in {"create", "delete"}
  PROVE  Does[c].name \in Bridge
BY CommandsAssumption, BridgesAssumption

\* A step of another plugin leaves the links of bridges alone.
LEMMA LinkedElsewhere ==
  ASSUME LinksOK, LinkedInv, Coming \in Given, Coming' = Coming, met' = met, Aloof,
         \A d \in Coming : Does[d].do \in {"create", "delete"} =>
           pc'[d] = pc[d] /\ got'[d] = got[d] /\ todo'[d] = todo[d],
         \A d \in Coming : Is(d, "bond.del") => LinkOf(d)' /\ BondGot(d)'
  PROVE  LinkedInv'
<1>1. (\E n : Adds(n)) \/ (\E S : Stays(S) /\ \A l \in links : l.index \in S => l.name \notin Bridge)
  BY StaysWhen DEF Aloof
<1>2. Names2'
  BY <1>1, LinksCarry
<1>3. ASSUME NEW d \in Coming PROVE LinkOf(d)' /\ Begun(d)' /\ BondGot(d)'
  <2>1. CASE Does[d].do \in {"create", "delete"}
    <3>1. LinkOf(d)'
      BY <1>1, <2>1, LinksCarry
    <3>2. Begun(d)'
      BY <2>1 DEF LinkedInv, Begun
    <3>3. BondGot(d)'
      BY <2>1 DEF BondGot, Is
    <3> QED BY <3>1, <3>2, <3>3
  <2>2. CASE Is(d, "bond.del")
    BY <2>2 DEF Begun, Is
  <2>3. CASE Does[d].do \notin {"create", "delete", "bond.del"}
    BY <2>3 DEF Begun, LinkOf, BondGot, Is
  <2> QED BY <2>1, <2>2, <2>3 DEF Is
<1>4. ASSUME NEW d \in Coming PROVE Undisturbed(d)'
  <2>1. SUFFICES ASSUME Is(d, "create"), Inside(d)' PROVE Undisturbed(d)'
    BY DEF Undisturbed
  <2>2. got'[d] = got[d] /\ Inside(d) /\ Does[d].name \in Bridge
    BY <2>1, BridgeNamed DEF Is, Inside, Ended
  <2> QED BY <1>1, <2>1, <2>2, UndisturbedCarries
<1>5. ASSUME NEW d \in Coming, NEW e \in Coming PROVE Pairs(d, e)'
  <2>1. \A f \in Coming : Does[f].do \in {"create", "delete"} => got'[f] = got[f] /\ (Inside(f)' <=> Inside(f))
    BY DEF Inside, Ended
  <2>2. CASE Does[d].do \in {"create", "delete"} /\ Does[e].do \in {"create", "delete"}
    BY <2>1, <2>2, PairsCarry
  <2>3. CASE ~(Does[d].do \in {"create", "delete"} /\ Does[e].do \in {"create", "delete"})
    BY <2>3 DEF Pairs, Inside, Is
  <2> QED BY <2>2, <2>3
<1> QED BY <1>2, <1>3, <1>4, <1>5 DEF LinkedInv, Names2

\* A bond.del finds a link of its name and later takes that one.
LEMMA BondDelFinds ==
  ASSUME CommandsOK, LinksOK, LinkedInv, NEW c \in Coming, LinkStep(c), Is(c, "bond.del"), MovesOnly(c),
         ~Ended(c), Aloof
  PROVE  LinkOf(c)' /\ BondGot(c)'
<1>0. (\E n : Adds(n)) \/ (\E S : Stays(S))
  BY StaysWhen DEF Aloof
<1>1. LookUp(c) \/ LookUpFails(c) \/ OneCall(c)
  BY DEF LinkStep, Is, Filter, BrAdd, BrAddHwAddr, InitBonding, BondSlave, BondLinkAdd, BondEnslave
<1>2. Names(c) = <<Does[c].name>>
  BY DEF Names, Is
<1>3. CASE LookUp(c)
  <2>1. PICK i \in Index(Does[c].name) :
          Reads(c, IF Len(got[c]) + 1 = Len(Names(c)) THEN "found" ELSE "new", Append(got[c], i))
    <3>1. pc[c] = "new" /\ got[c] = <<>>
      BY <1>3 DEF LookUp, LinkedInv, BondGot, Is
    <3>2. Names(c)[Len(got[c]) + 1] = Does[c].name
      BY <1>2, <3>1
    <3> QED BY <1>3, <3>2 DEF LookUp
  <2>2. got[c] = <<>> /\ Len(Names(c)) = 1
    BY <1>2, <1>3 DEF LookUp, LinkedInv, BondGot, Is
  <2>3. got'[c] = <<i>> /\ pc'[c] = "found"
    <3>1. Append(got[c], i) = <<i>> /\ Len(got[c]) + 1 = Len(Names(c))
      BY <2>2
    <3>2. Reads(c, "found", <<i>>)
      BY <2>1, <3>1
    <3> QED BY <3>2, StepMoves
  <2>4. UNCHANGED <<links, fresh>>
    BY <1>3 DEF LookUp, net
  <2>5. /\ i \in Nat /\ i < fresh /\ \A l \in links : l.index = i => l.name = Does[c].name
    BY DEF Index, LinksOK, LinkedInv
  <2>6. LinkOf(c)'
    BY <2>3, <2>4, <2>5 DEF LinkOf
  <2> QED BY <2>3, <2>6 DEF BondGot
<1>4. CASE LookUpFails(c) \/ OneCall(c)
  <2>1. got'[c] = got[c] /\ pc'[c] \in {"ok", "error"}
    BY <1>4, StepMoves DEF LookUpFails, OneCall
  <2>2. LinkOf(c)'
    BY <1>0, <2>1, LinksCarry
  <2>3. BondGot(c)'
    <3>1. CASE LookUpFails(c)
      BY <3>1, StepMoves DEF LookUpFails, BondGot
    <3>2. CASE OneCall(c)
      BY <2>1, <3>2 DEF OneCall, BondGot, LinkedInv, Is
    <3> QED BY <1>4, <3>1, <3>2
  <2> QED BY <2>2, <2>3
<1> QED BY <1>1, <1>3, <1>4

\* What a bridge command does to the links.
BrLinks(c) ==
  \/ BrMade(c) /\ Adds(Does[c].name)
  \/ \E S \in SUBSET {got[c][1]} : Stays(S) /\ (S = {} \/ Inside(c))
BrStep(c) == BrRefused(c) \/ BrCreates(c) \/ BrDeletes(c)

LEMMA BridgeLinks ==
  ASSUME NEW c \in Coming, BrStep(c), ~Ended(c)
  PROVE  BrLinks(c)
<1>1. CASE BrMade(c)
  BY <1>1 DEF BrLinks, BrMade
<1>2. CASE BrUndone(c)
  <2>1. PICK S \in SUBSET {got[c][1]} : Keeps(S)
    BY <1>2 DEF BrUndone
  <2>2. Inside(c)
    BY <1>2 DEF BrUndone, Inside, Early, Ended, Is
  <2> QED BY <2>1, <2>2, StaysWhen DEF BrLinks
<1>3. CASE BrGone(c)
  <2>1. Keeps({got[c][1]}) /\ Inside(c)
    BY <1>3 DEF BrGone, Inside, Ended, Is
  <2> QED BY <2>1, StaysWhen DEF BrLinks
<1>4. CASE BrOnward(c)
  BY <1>4, StaysWhen DEF BrOnward, BrLinks
<1>5. CASE BrRefused(c) \/ BrAllowed(c) \/ BrAddressed(c) \/ BrServed(c) \/ BrMasked(c)
  <2>1. UNCHANGED <<links, fresh>>
    BY <1>5 DEF BrRefused, BrAllowed, BrAddressed, BrServed, BrMasked, net
  <2> QED BY <2>1, StaysWhen DEF BrLinks
<1>6. CASE BrFound(c) \/ BrTold(c) \/ BrListed(c) \/ BrSought(c) \/ BrDropped(c) \/ BrQuit(c)
  <2>1. UNCHANGED <<links, fresh>>
    BY <1>6 DEF BrFound, BrTold, BrListed, BrSought, BrDropped, BrQuit, net
  <2> QED BY <2>1, StaysWhen DEF BrLinks
<1> QED BY <1>1, <1>2, <1>3, <1>4, <1>5, <1>6 DEF BrStep, BrCreates, BrDeletes

\* Where a bridge command goes and what it has found.
BrMoves(c) ==
  /\ met \subseteq met'
  /\ \/ BrRefused(c) \/ BrMade(c) \/ BrFound(c)
     \/ pc[c] \notin {"new", "looking"} /\ met' = met /\ (got'[c] = got[c] \/ BrListed(c))

LEMMA BridgeGoes ==
  ASSUME NEW c \in Coming, BrStep(c)
  PROVE  BrMoves(c)
<1>1. Meets(c) => met \subseteq met'
  BY DEF Meets
<1>2. CASE BrRefused(c) \/ BrMade(c) \/ BrFound(c)
  BY <1>1, <1>2 DEF BrRefused, BrMade, BrFound, BrMoves
<1>3. CASE BrUndone(c) \/ BrOnward(c) \/ BrAllowed(c) \/ BrAddressed(c) \/ BrServed(c) \/ BrMasked(c)
  BY <1>3 DEF BrUndone, BrOnward, BrAllowed, BrAddressed, BrServed, BrMasked, BrMoves, Early
<1>4. CASE BrTold(c) \/ BrSought(c) \/ BrDropped(c) \/ BrGone(c) \/ BrQuit(c)
  BY <1>4 DEF BrTold, BrSought, BrDropped, BrGone, BrQuit, BrMoves
<1>5. CASE BrListed(c)
  BY <1>5 DEF BrListed, BrMoves
<1> QED BY <1>2, <1>3, <1>4, <1>5 DEF BrStep, BrCreates, BrDeletes

\* What is not inside does not come in but by finding or making its link.
LEMMA BridgeInside ==
  ASSUME LinkedInv, NEW c \in Coming, Does[c].do \in {"create", "delete"}, ~Ended(c), BrStep(c)
  PROVE  /\ BrMade(c) \/ BrFound(c) => got[c] = <<>>
         /\ ~(BrRefused(c) \/ BrMade(c) \/ BrFound(c)) => Inside(c) /\ got[c] # <<>> /\ got'[c] # <<>>
                                                       /\ got'[c][1] = got[c][1]
         /\ BrRefused(c) => pc'[c] = "error" /\ got[c] = <<>> /\ got'[c] = <<>>
<1>1. BrMoves(c) /\ Begun(c)
  BY BridgeGoes DEF LinkedInv
<1>2. pc[c] \notin {"new", "looking"} => Inside(c) /\ got[c] # <<>>
  BY <1>1 DEF Inside, Begun, Ended
<1> QED BY <1>1, <1>2 DEF BrMoves, BrRefused, BrMade, BrFound, BrListed, Begun

\* Two commands on a bridge that are both inside have met.
LEMMA SameMet ==
  ASSUME LinkedInv, NEW c \in Coming, NEW d \in Coming, c # d, Inside(c), Inside(d), Does[c].name = Does[d].name
  PROVE  Does[c].name \in met
BY DEF LinkedInv, Pairs

\* Who has found the link of an index was told the name of it.
LEMMA SameName ==
  ASSUME LinkedInv, NEW c \in Coming, NEW d \in Coming, Does[c].do \in {"create", "delete"},
         Does[d].do \in {"create", "delete"}, pc[c] \notin {"new", "looking", "error"},
         pc[d] \notin {"new", "looking", "error"}, got[c][1] = got[d][1], Exists(got[c][1])
  PROVE  Does[c].name = Does[d].name
<1>1. got[c] # <<>> /\ got[d] # <<>>
  BY DEF LinkedInv, Begun
<1> QED BY <1>1 DEF LinkedInv, LinkOf, Exists

LEMMA LinkedBridge ==
  ASSUME LinksOK, LinkedInv, HandlesOK, NEW c \in Coming, Does[c].do \in {"create", "delete"}, MovesOnly(c),
         ~Ended(c), BrStep(c)
  PROVE  LinkedInv'
<1>1. BrLinks(c) /\ BrMoves(c)
  BY BridgeLinks, BridgeGoes
<1>2. (\E n : Adds(n)) \/ (\E S : Stays(S))
  BY <1>1 DEF BrLinks
<1>3. Coming' = Coming /\ \A d \in Coming \ {c} : pc'[d] = pc[d] /\ got'[d] = got[d] /\ todo'[d] = todo[d]
  BY DEF MovesOnly
<1>4. Names2' /\ \A d \in Coming : got'[d] = got[d] => LinkOf(d)'
  BY <1>2, LinksCarry
<1>5. LinkOf(c)'
  <2>1. CASE BrMade(c)
    <3>1. /\ got'[c] = <<fresh>> /\ fresh' = fresh + 1 /\ fresh \in Nat
          /\ \A l \in links' : l \in links \/ l.name = Does[c].name
          /\ \A l \in links : l.index \in Nat /\ l.index < fresh
      BY <2>1 DEF BrMade, Adds, LinksOK
    <3> QED BY <3>1 DEF LinkOf
  <2>2. CASE BrFound(c)
    <3>1. PICK i \in Index(Does[c].name) : got'[c] = <<i>>
      BY <2>2 DEF BrFound
    <3>2. i \in Nat /\ i < fresh /\ \A l \in links : l.index = i => l.name = Does[c].name
      BY DEF Index, LinksOK, LinkedInv
    <3>3. UNCHANGED <<links, fresh>>
      BY <2>2 DEF BrFound, net
    <3> QED BY <3>1, <3>2, <3>3 DEF LinkOf
  <2>3. CASE BrListed(c)
    <3>1. got[c] # <<>> /\ got'[c][1] = got[c][1] /\ UNCHANGED <<links, fresh>>
      BY <2>3, BridgeInside DEF BrListed, net, BrRefused, BrMade, BrFound
    <3>2. LinkOf(c)
      BY DEF LinkedInv
    <3> QED BY <3>1, <3>2 DEF LinkOf
  <2> QED BY <1>1, <1>4, <2>1, <2>2, <2>3 DEF BrMoves, BrRefused
<1>6. Begun(c)'
  <2>1. Begun(c)
    BY DEF LinkedInv
  <2>2. pc'[c] \notin {"new", "looking"}
    BY DEF BrStep, BrCreates, BrDeletes, BrRefused, BrMade, BrUndone, BrOnward, BrAllowed, BrAddressed, BrServed,
       BrMasked, BrFound, BrTold, BrListed, BrSought, BrDropped, BrGone, BrQuit
  <2>3. got'[c] = <<>> => pc'[c] = "error"
    BY BridgeInside DEF BrMade, BrFound
  <2>4. Is(c, "create") => got'[c] = <<>> \/ got'[c] = <<got'[c][1]>>
    BY <1>1, <2>1 DEF BrMoves, BrRefused, BrMade, BrFound, BrListed, Begun, Is
  <2>5. Is(c, "create") /\ pc'[c] \in {"addressing", "adding"} => Does[c].mode # "none"
    <3>1. SUFFICES ASSUME Is(c, "create"), pc'[c] \in {"addressing", "adding"} PROVE Does[c].mode # "none"
      OBVIOUS
    <3>2. BrAllowed(c) \/ (BrOnward(c) /\ pc[c] = "addressing")
      BY <3>1 DEF Is, BrStep, BrCreates, BrDeletes, BrRefused, BrMade, BrUndone, BrOnward, BrAddressed, BrServed,
         BrMasked, BrFound, BrTold, BrListed, BrSought, BrDropped, BrGone, BrQuit
    <3> QED BY <2>1, <3>1, <3>2 DEF BrAllowed, Begun
  <2>6. Is(c, "delete") /\ pc'[c] \in {"unmasking", "closing"} => todo'[c] \in Seq(Nat)
    <3>1. SUFFICES ASSUME Is(c, "delete"), pc'[c] \in {"unmasking", "closing"} PROVE todo'[c] \in Seq(Nat)
      OBVIOUS
    <3>2. BrSought(c) \/ BrDropped(c)
      BY <3>1 DEF Is, BrStep, BrCreates, BrDeletes, BrRefused, BrMade, BrUndone, BrOnward, BrAllowed, BrAddressed,
         BrServed, BrMasked, BrFound, BrTold, BrListed, BrGone, BrQuit
    <3>3. CASE BrSought(c)
      <4>1. \E R \in SUBSET chain : todo'[c] = Sorted({r.handle : r \in R})
        BY <3>3 DEF BrSought
      <4> QED BY <4>1, HandlesSorted
    <3>4. CASE BrDropped(c)
      BY <2>1, <3>4, TailKeeps DEF BrDropped, Begun
    <3> QED BY <3>2, <3>3, <3>4
  <2> QED BY <2>2, <2>3, <2>4, <2>5, <2>6 DEF Begun
<1>7. ASSUME NEW d \in Coming PROVE LinkOf(d)' /\ Begun(d)' /\ BondGot(d)'
  <2>1. CASE d = c
    BY <1>5, <1>6, <2>1 DEF BondGot, Is
  <2>2. CASE d # c
    <3>1. Begun(d) /\ BondGot(d)
      BY DEF LinkedInv
    <3> QED BY <1>3, <1>4, <2>2, <3>1 DEF Begun, BondGot
  <2> QED BY <2>1, <2>2
<1>8. ASSUME NEW d \in Coming PROVE Undisturbed(d)'
  <2>1. SUFFICES ASSUME Is(d, "create"), Inside(d)' PROVE Undisturbed(d)'
    BY DEF Undisturbed
  <2>2. CASE d # c
    <3>1. got'[d] = got[d] /\ Inside(d)
      BY <1>3, <2>1, <2>2 DEF Inside, Ended
    <3>2. ASSUME NEW S \in SUBSET {got[c][1]}, Inside(c), NEW l \in links, l.index \in S, l.name = Does[d].name
          PROVE  Does[d].name \in met'
      <4>1. l.index = got[c][1] /\ Exists(got[c][1])
        BY <3>2 DEF Exists
      <4>2. got[c] # <<>> /\ LinkOf(c)
        BY <3>2 DEF LinkedInv, Begun, Inside, Ended
      <4>3. l.name = Does[c].name
        BY <4>1, <4>2 DEF LinkOf
      <4> QED BY <1>1, <2>2, <3>1, <3>2, <4>3, SameMet DEF BrMoves
    <3>3. CASE \E n : Adds(n)
      BY <1>1, <2>1, <3>1, <3>3, UndisturbedCarries DEF BrMoves
    <3>4. CASE \E S \in SUBSET {got[c][1]} : Stays(S) /\ (S = {} \/ Inside(c))
      <4>1. \E S : Stays(S) /\ (Does[d].name \in met' \/ \A l \in links : l.index \in S => l.name # Does[d].name)
        BY <3>2, <3>4
      <4> QED BY <1>1, <2>1, <3>1, <4>1, UndisturbedCarries DEF BrMoves
    <3> QED BY <1>1, <3>3, <3>4 DEF BrLinks
  <2>3. CASE d = c
    <3>1. CASE BrMade(c)
      <4>1. /\ Index(Does[c].name) = {} /\ got'[c] = <<fresh>>
            /\ \A l \in links' : l \in links \/ (l.index = fresh /\ l.name = Does[c].name)
            /\ \E l \in links' : l.index = fresh /\ l.name = Does[c].name
        BY <3>1 DEF BrMade, Adds
      <4>2. \A l \in links' : l.name = Does[c].name => l.index = fresh
        BY <4>1 DEF Index
      <4> QED BY <2>3, <4>1, <4>2 DEF Undisturbed, Exists
    <3>2. CASE ~BrMade(c)
      <4>1. BrOnward(c) \/ BrAllowed(c) \/ BrAddressed(c) \/ BrServed(c) \/ BrMasked(c)
        BY <2>1, <2>3, <3>2 DEF BrStep, BrCreates, BrDeletes, BrRefused, BrUndone, BrFound, BrTold, BrListed,
           BrSought, BrDropped, BrGone, BrQuit, Is, Inside, Ended
      <4>2. Stays({}) /\ got'[c] = got[c] /\ met \subseteq met' /\ pc[c] \notin {"new", "looking"}
        BY <4>1, StaysWhen DEF BrOnward, BrAllowed, BrAddressed, BrServed, BrMasked, net
      <4>3. Inside(c)
        BY <4>2 DEF Inside
      <4> QED BY <2>1, <2>3, <4>2, <4>3, UndisturbedCarries
    <3> QED BY <3>1, <3>2
  <2> QED BY <2>2, <2>3
<1>9. ASSUME NEW d \in Coming \ {c} PROVE Pairs(c, d)' /\ Pairs(d, c)'
  <2>1. got'[d] = got[d] /\ (Inside(d)' <=> Inside(d)) /\ Pairs(c, d) /\ Pairs(d, c) /\ LinkOf(d) /\ met \subseteq met'
    BY <1>1, <1>3 DEF Inside, Ended, LinkedInv, BrMoves
  <2>2. ASSUME Inside(c)', Inside(d), Does[c].name = Does[d].name PROVE Does[c].name \in met'
    <3>1. CASE BrMade(c) \/ BrFound(c)
      <4>1. Meets(c)
        BY <3>1 DEF BrMade, BrFound
      <4> QED BY <2>2, <4>1 DEF Meets
    <3>2. CASE BrRefused(c)
      BY <2>2, <3>2 DEF BrRefused, Inside, Ended
    <3>3. CASE ~(BrRefused(c) \/ BrMade(c) \/ BrFound(c))
      BY <2>1, <2>2, <3>3, BridgeInside, SameMet
    <3> QED BY <3>1, <3>2, <3>3
  <2>3. ASSUME Is(c, "create"), Is(d, "create"), got'[c] # <<>>, got[d] # <<>> PROVE got'[c][1] # got[d][1]
    <3>1. CASE BrMade(c)
      <4>1. got[d][1] \in Nat /\ got[d][1] < fresh /\ fresh \in Nat /\ got'[c][1] = fresh
        BY <2>1, <2>3, <3>1 DEF LinkOf, BrMade, LinksOK, Is
      <4> QED BY <4>1
    <3>2. CASE BrRefused(c) \/ BrFound(c)
      BY <2>3, <3>2, BridgeInside DEF BrFound, Is
    <3>3. CASE ~(BrRefused(c) \/ BrMade(c) \/ BrFound(c))
      BY <2>1, <2>3, <3>3, BridgeInside DEF Pairs
    <3> QED BY <3>1, <3>2, <3>3
  <2>4. got'[d] # <<>> <=> got[d] # <<>>
    BY <2>1
  <2> QED BY <2>1, <2>2, <2>3, <2>4 DEF Pairs, Is
<1>10. ASSUME NEW d \in Coming, NEW e \in Coming PROVE Pairs(d, e)'
  <2>1. CASE d = e
    BY <2>1 DEF Pairs
  <2>2. CASE d # c /\ e # c
    <3>1. /\ got'[d] = got[d] /\ (Inside(d)' => Inside(d)) /\ met \subseteq met'
          /\ got'[e] = got[e] /\ (Inside(e)' => Inside(e))
      BY <1>1, <1>3, <2>2 DEF Inside, Ended, BrMoves
    <3> QED BY <3>1, PairsCarry
  <2> QED BY <1>9, <2>1, <2>2
<1> QED BY <1>3, <1>4, <1>7, <1>8, <1>10 DEF LinkedInv, Names2

\* A bridge that keeps its link: nobody took one of that name.
LEMMA IndexKept ==
  ASSUME NEW b, Index(b) # {},
         \/ \E n : Adds(n)
         \/ \E S : Stays(S) /\ \A l \in links : l.index \in S => l.name # b
  PROVE  Index(b)' # {}
<1>1. PICK k \in links : k.name = b
  BY DEF Index
<1>2. \E l \in links' : l.name = b
  BY <1>1 DEF Adds, Stays
<1> QED BY <1>2 DEF Index

LEMMA JobsElsewhere ==
  ASSUME JobsInv, Coming' = Coming, met' = met, left' = left, Aloof,
         \A b \in Bridge : dnsmasq'[b] = "running" => dnsmasq[b] = "running",
         dnsmasq' = [b \in Bridge |-> dnsmasq'[b]],
         \A d \in Coming : Does[d].do \in {"create", "delete"} => pc'[d] = pc[d],
         \A d \in Coming : Does[d].do \in {"create", "delete"} => Does[d].name \in Bridge
  PROVE  JobsInv'
<1>1. \A b \in Bridge : Lost(b) => Lost(b)'
  BY DEF Lost
<1>2. ASSUME NEW b \in Bridge PROVE JobOf(b)'
  <2>1. Index(b) # {} => Index(b)' # {}
    BY StaysWhen, IndexKept DEF Aloof
  <2> QED BY <1>1, <2>1 DEF JobsInv, JobOf
<1>3. ASSUME NEW d \in Coming, NoJob(d)', Does[d].name \notin met PROVE Lost(Does[d].name)'
  BY <1>1, <1>3 DEF JobsInv, NoJob, Is
<1> QED BY <1>2, <1>3 DEF JobsInv

LEMMA JobsBridge ==
  ASSUME Coming \in Given, LinkedInv, JobsInv, NEW c \in Coming, Does[c].do \in {"create", "delete"}, MovesOnly(c),
         ~Ended(c), BrStep(c)
  PROVE  JobsInv'
<1>0. Does[c].name \in Bridge
  BY BridgeNamed
<1>1. BrLinks(c) /\ BrMoves(c) /\ Coming' = Coming /\ \A d \in Coming \ {c} : pc'[d] = pc[d]
  BY BridgeLinks, BridgeGoes DEF MovesOnly
<1>2. /\ left \subseteq left' /\ dnsmasq' = [b \in Bridge |-> dnsmasq'[b]]
      /\ BrServed(c) \/ \A b \in Bridge : dnsmasq'[b] = "running" => dnsmasq[b] = "running"
      /\ \A b \in Bridge \ {Does[c].name} : dnsmasq'[b] = dnsmasq[b]
  <2>1. UNCHANGED <<dnsmasq, left>> \/ BrServed(c) \/ BrTold(c)
    BY DEF BrStep, BrCreates, BrDeletes, BrRefused, BrMade, BrUndone, BrOnward, BrAllowed, BrAddressed, BrMasked,
       BrFound, BrListed, BrSought, BrDropped, BrGone, BrQuit
  <2>2. \A v : dnsmasq' = [dnsmasq EXCEPT ![Does[c].name] = v] =>
          /\ dnsmasq' = [b \in Bridge |-> dnsmasq'[b]] /\ dnsmasq'[Does[c].name] = v
          /\ \A b \in Bridge \ {Does[c].name} : dnsmasq'[b] = dnsmasq[b]
    BY <1>0 DEF JobsInv
  <2>3. CASE UNCHANGED <<dnsmasq, left>>
    BY <2>3 DEF JobsInv
  <2>4. CASE BrServed(c)
    BY <2>2, <2>4 DEF BrServed
  <2>5. CASE BrTold(c)
    <3>1. dnsmasq' = dnsmasq \/ dnsmasq' = [dnsmasq EXCEPT ![Does[c].name] = "told"]
      BY <2>5 DEF BrTold
    <3>2. left \subseteq left'
      BY <2>5 DEF BrTold
    <3> QED BY <2>2, <3>1, <3>2 DEF JobsInv
  <2> QED BY <2>1, <2>3, <2>4, <2>5
<1>3. ASSUME NEW b \in Bridge, Lost(b), ~Lost(b)' PROVE BrServed(c) /\ b = Does[c].name
  BY <1>2, <1>3 DEF Lost
<1>4. ASSUME NEW b \in Bridge PROVE JobOf(b)'
  <2>1. SUFFICES ASSUME b \notin met', ~Lost(b)' PROVE Index(b)' # {}
    BY DEF JobOf
  <2>2. b \notin met /\ (Lost(b) \/ Index(b) # {})
    BY <1>1, <2>1 DEF BrMoves, JobsInv, JobOf
  <2>3. CASE BrServed(c) /\ b = Does[c].name
    <3>1. Inside(c) /\ UNCHANGED links
      BY <2>3 DEF BrServed, Inside, Is, Ended, net
    <3>2. got[c] # <<>>
      BY <3>1 DEF LinkedInv, Begun, Inside, Ended
    <3>3. Exists(got[c][1])
      BY <2>2, <2>3, <3>1 DEF LinkedInv, Undisturbed, BrServed
    <3>4. Index(b) # {}
      BY <2>3, <3>2, <3>3 DEF LinkedInv, LinkOf, Exists, Index
    <3> QED BY <3>1, <3>4 DEF Index
  <2>4. CASE ~(BrServed(c) /\ b = Does[c].name)
    <3>1. Index(b) # {} /\ ~Lost(b)
      BY <1>3, <2>1, <2>2, <2>4
    <3>2. CASE \E n : Adds(n)
      BY <3>1, <3>2, IndexKept
    <3>3. CASE \E S : Stays(S) /\ \A l \in links : l.index \in S => l.name # b
      BY <3>1, <3>3, IndexKept
    <3>4. CASE BrUndone(c) \/ BrGone(c)
      <4>1. NoJob(c) /\ got[c] # <<>>
        BY <3>4 DEF BrUndone, BrGone, NoJob, Early, LinkedInv, Begun, Is
      <4>2. b # Does[c].name
        BY <2>2, <3>1, <4>1 DEF JobsInv
      <4>3. \A l \in links : l.index = got[c][1] => l.name = Does[c].name
        BY <4>1 DEF LinkedInv, LinkOf
      <4>4. \E S \in SUBSET {got[c][1]} : Stays(S)
        BY <3>4, StaysWhen DEF BrUndone, BrGone
      <4>5. \E S : Stays(S) /\ \A l \in links : l.index \in S => l.name # b
        BY <4>2, <4>3, <4>4
      <4> QED BY <3>1, <4>5, IndexKept
    <3>5. CASE ~(BrUndone(c) \/ BrGone(c) \/ BrMade(c))
      <4>1. UNCHANGED <<links, fresh>> \/ Keeps({})
        BY <3>5 DEF BrStep, BrCreates, BrDeletes, BrRefused, BrOnward, BrAllowed, BrAddressed, BrServed,
           BrMasked, BrFound, BrTold, BrListed, BrSought, BrDropped, BrQuit, net
      <4> QED BY <3>1, <4>1, StaysWhen, IndexKept
    <3> QED BY <3>2, <3>4, <3>5 DEF BrMade
  <2> QED BY <2>3, <2>4
<1>5. ASSUME NEW d \in Coming, NoJob(d)', Does[d].name \notin met' PROVE Lost(Does[d].name)'
  <2>0. Does[d].name \notin met /\ Does[d].name \in Bridge
    BY <1>1, <1>5, BridgeNamed DEF BrMoves, NoJob, Is
  <2>1. CASE d # c
    <3>1. NoJob(d) /\ Inside(d)
      BY <1>1, <1>5, <2>1 DEF NoJob, Inside, Ended, Is
    <3>2. Lost(Does[d].name)
      BY <2>0, <3>1 DEF JobsInv
    <3>3. ~(BrServed(c) /\ Does[d].name = Does[c].name)
      <4>1. BrServed(c) => Inside(c)
        BY DEF BrServed, Inside, Ended, Is
      <4> QED BY <2>0, <2>1, <3>1, <4>1, SameMet
    <3> QED BY <1>3, <2>0, <3>2, <3>3
  <2>2. CASE d = c
    <3>1. ~BrServed(c)
      BY <1>5, <2>2 DEF BrServed, NoJob, Is
    <3>2. CASE BrTold(c)
      BY <1>0, <2>2, <3>2 DEF BrTold, Lost, JobsInv
    <3>3. CASE BrMade(c)
      <4>1. Index(Does[c].name) = {}
        BY <3>3 DEF BrMade, Adds
      <4>2. Lost(Does[c].name)
        BY <2>0, <2>2, <4>1 DEF JobsInv, JobOf
      <4> QED BY <1>3, <2>0, <2>2, <3>1, <4>2
    <3>4. CASE ~BrTold(c) /\ ~BrMade(c)
      <4>1. NoJob(c)
        BY <1>5, <2>2, <3>1, <3>4 DEF NoJob, Is, BrStep, BrCreates, BrDeletes, BrRefused, BrUndone, BrOnward,
           BrAllowed, BrAddressed, BrMasked, BrFound, BrListed, BrSought, BrDropped, BrGone, BrQuit
      <4>2. Lost(Does[c].name)
        BY <2>0, <2>2, <4>1 DEF JobsInv
      <4> QED BY <1>3, <2>0, <2>2, <3>1, <4>2
    <3> QED BY <3>2, <3>3, <3>4
  <2> QED BY <2>1, <2>2
<1> QED BY <1>1, <1>2, <1>4, <1>5 DEF JobsInv

\* The rules of indices are as before, but for one that a create brings in.
LEMMA IifElsewhere ==
  ASSUME LinkedInv, IifInv, Coming' = Coming, met' = met, Aloof,
         \A r \in chain' : r.body[1] = "iif" => r \in chain,
         \A d \in Coming : Does[d].do \in {"create", "delete"} =>
           pc'[d] = pc[d] /\ got'[d] = got[d] /\ todo'[d] = todo[d],
         \A d \in Coming : Does[d].do \in {"create", "delete"} => Does[d].name \in Bridge
  PROVE  IifInv'
<1>1. SUFFICES ASSUME NoneMet, NEW r \in chain', r.body[1] = "iif"
               PROVE  \E c \in Coming : RuleOf(r, c)'
  BY DEF IifInv, NoneMet
<1>2. PICK o \in Coming : RuleOf(r, o)
  BY <1>1 DEF IifInv
<1>3. /\ Is(o, "create") /\ got[o] # <<>> /\ got'[o] = got[o] /\ pc'[o] = pc[o] /\ r.body = Allow(got[o][1])
      /\ Does[o].name \in Bridge
  BY <1>2 DEF RuleOf, Is
<1>4. Exists(got[o][1]) => Exists(got[o][1])'
  <2>1. \A l \in links : l.index = got[o][1] => l.name \in Bridge
    BY <1>3 DEF LinkedInv, LinkOf, Is
  <2>2. CASE \E n : Adds(n)
    BY <1>3, <2>2 DEF Adds, Exists
  <2>3. CASE \E S : Keeps(S) /\ \A l \in links : l.index \in S => l.name \notin Bridge
    BY <1>3, <2>1, <2>3 DEF Keeps, Exists
  <2> QED BY <2>2, <2>3 DEF Aloof
<1>5. \A d \in Coming : DropsIif(d, r) => DropsIif(d, r)'
  BY DEF DropsIif, Is, Allow
<1>6. RuleOf(r, o)'
  BY <1>2, <1>3, <1>4, <1>5 DEF RuleOf, Allow
<1> QED BY <1>6

LEMMA IifBridge ==
  ASSUME HandlesOK, LinkedInv, IifInv, NEW c \in Coming, Does[c].do \in {"create", "delete"},
         MovesOnly(c), ~Ended(c), BrStep(c)
  PROVE  IifInv'
<1>1. BrMoves(c) /\ Coming' = Coming /\ \A d \in Coming \ {c} : pc'[d] = pc[d] /\ got'[d] = got[d] /\ todo'[d] = todo[d]
  BY BridgeGoes DEF MovesOnly
<1>2. SUFFICES ASSUME NoneMet', NEW r \in chain', r.body[1] = "iif"
               PROVE  \E o \in Coming : RuleOf(r, o)'
  BY <1>1 DEF IifInv
<1>3. NoneMet /\ (Is(c, "create") => Does[c].name \notin met)
  BY <1>1, <1>2 DEF NoneMet, BrMoves
<1>4. CASE r \notin chain
  <2>1. BrAllowed(c)
    <3>1. ~BrMasked(c)
      BY <1>2, <1>4 DEF BrMasked, Apply, Masquerade
    <3> QED BY <1>4, <3>1 DEF BrStep, BrCreates, BrDeletes, BrRefused, BrMade, BrUndone, BrOnward, BrAddressed,
            BrServed, BrFound, BrTold, BrListed, BrSought, BrDropped, BrGone, BrQuit
  <2>2. PICK i \in Index(Does[c].name) : Apply(<<Allow(i)>>)
    BY <2>1 DEF BrAllowed
  <2>3. r.body = Allow(i)
    <3>1. DOMAIN <<Allow(i)>> = {1} /\ <<Allow(i)>>[1] = Allow(i)
      OBVIOUS
    <3> QED BY <1>4, <2>2, <3>1 DEF Apply
  <2>4. Is(c, "create") /\ Inside(c) /\ got[c] # <<>> /\ got'[c] = got[c] /\ UNCHANGED links
    BY <2>1 DEF BrAllowed, Inside, Ended, Is, LinkedInv, Begun, net
  <2>5. Exists(got[c][1]) /\ i = got[c][1]
    BY <1>3, <2>2, <2>4 DEF LinkedInv, Undisturbed, Index
  <2>6. RuleOf(r, c)'
    BY <2>3, <2>4, <2>5 DEF RuleOf, Exists, Allow
  <2> QED BY <2>6
<1>5. CASE r \in chain
  <2>1. PICK o \in Coming : RuleOf(r, o)
    BY <1>2, <1>3, <1>5 DEF IifInv
  <2>2. Is(o, "create") /\ got[o] # <<>> /\ r.body = Allow(got[o][1])
    BY <2>1 DEF RuleOf
  <2>3. got'[o] = got[o]
    <3>1. got[c] # <<>> /\ Is(c, "create") => got'[c] = got[c]
      BY <1>1, BridgeInside DEF BrMoves, BrRefused, BrListed, Is
    <3> QED BY <1>1, <2>2, <3>1
  <2>4. SUFFICES pc'[o] = "error" \/ Exists(got[o][1])' \/ \E d \in Coming : DropsIif(d, r)'
    <3>1. ASSUME pc'[o] = "error" \/ Exists(got[o][1])' \/ \E d \in Coming : DropsIif(d, r)' PROVE RuleOf(r, o)'
      BY <1>1, <2>2, <2>3, <3>1 DEF RuleOf, Exists, Allow
    <3> QED BY <3>1
  <2>5. CASE pc[o] = "error"
    BY <1>1, <2>5 DEF Ended
  <2>6. CASE Exists(got[o][1])
    <3>1. CASE BrUndone(c) /\ got[c][1] = got[o][1]
      <4>1. got[c] # <<>> /\ Is(c, "create")
        BY <3>1 DEF BrUndone, LinkedInv, Begun, Early, Is
      <4>2. c = o
        BY <2>2, <3>1, <4>1 DEF LinkedInv, Pairs
      <4> QED BY <3>1, <4>2 DEF BrUndone
    <3>2. CASE BrGone(c) /\ got[c][1] = got[o][1]
      <4>1. got[c] # <<>> /\ got'[c] = got[c] /\ pc'[c] = "deleted" /\ Is(c, "delete")
        BY <3>2 DEF BrGone, LinkedInv, Begun, Is
      <4>2. DropsIif(c, r)'
        BY <2>2, <3>2, <4>1 DEF DropsIif, Allow
      <4> QED BY <4>2
    <3>3. CASE ~((BrUndone(c) \/ BrGone(c)) /\ got[c][1] = got[o][1])
      <4>1. \/ UNCHANGED links \/ Adds(Does[c].name)
            \/ \E S : Keeps(S) /\ got[o][1] \notin S
        BY <3>3 DEF BrStep, BrCreates, BrDeletes, BrRefused, BrMade, BrUndone, BrOnward, BrAllowed, BrAddressed,
           BrServed, BrMasked, BrFound, BrTold, BrListed, BrSought, BrDropped, BrGone, BrQuit, net
      <4>2. Exists(got[o][1])'
        BY <2>3, <2>6, <4>1 DEF Exists, Adds, Keeps
      <4> QED BY <4>2
    <3> QED BY <3>1, <3>2, <3>3
  <2>7. ASSUME NEW d \in Coming, DropsIif(d, r) PROVE DropsIif(d, r)'
    <3>1. CASE d # c
      BY <1>1, <2>7, <3>1 DEF DropsIif, Allow
    <3>2. CASE d = c
      <4>1. /\ Is(c, "delete") /\ got[c] # <<>> /\ r.body = Allow(got[c][1])
            /\ pc[c] = "deleted" \/ (pc[c] = "closing" /\ \E k \in 1..Len(todo[c]) : todo[c][k] = r.handle)
        BY <2>7, <3>2 DEF DropsIif
      <4>2. CASE pc[c] = "deleted"
        <5>1. BrSought(c)
          BY <4>1, <4>2 DEF BrStep, BrCreates, BrDeletes, BrRefused, BrMade, BrUndone, BrOnward, BrAllowed,
             BrAddressed, BrServed, BrMasked, BrFound, BrTold, BrListed, BrDropped, BrGone, BrQuit, Is
        <5>2. PICK R \in SUBSET chain : R = {q \in chain : q.body = Allow(got[c][1])}
          OBVIOUS
        <5>3. /\ todo'[c] = Sorted({q.handle : q \in R}) /\ pc'[c] = "closing" /\ got'[c] = got[c]
          BY <4>2, <5>1, <5>2 DEF BrSought
        <5>4. \E k \in 1..Len(todo'[c]) : todo'[c][k] = r.handle
          <6>1. r \in R
            BY <1>5, <4>1, <5>2
          <6>2. \E k \in 1..Len(Sorted({q.handle : q \in R})) : Sorted({q.handle : q \in R})[k] = r.handle
            BY <6>1, HandlesSorted
          <6> QED BY <5>3, <6>2
        <5> QED BY <3>2, <4>1, <5>3, <5>4 DEF DropsIif, Allow
      <4>3. CASE pc[c] = "closing"
        <5>1. BrDropped(c)
          BY <4>1, <4>3 DEF BrStep, BrCreates, BrDeletes, BrRefused, BrMade, BrUndone, BrOnward, BrAllowed,
             BrAddressed, BrServed, BrMasked, BrFound, BrTold, BrListed, BrSought, BrGone, BrQuit, Is
        <5>2. todo[c] \in Seq(Nat) /\ todo[c] # <<>>
          BY <4>1, <4>3, <5>1 DEF LinkedInv, Begun, Is, BrDropped
        <5>3. r.handle # Head(todo[c])
          BY <5>1 DEF BrDropped
        <5>4. \E k \in 1..Len(Tail(todo[c])) : Tail(todo[c])[k] = r.handle
          BY <4>1, <4>3, <5>2, <5>3, TailKeeps
        <5> QED BY <3>2, <4>1, <4>3, <5>1, <5>4 DEF DropsIif, Allow, BrDropped
      <4> QED BY <4>1, <4>2, <4>3
    <3> QED BY <3>1, <3>2
  <2> QED BY <2>1, <2>5, <2>6, <2>7 DEF RuleOf
<1> QED BY <1>4, <1>5

\* An address of a bridge stays when nobody takes the link.
LEMMA MasksElsewhere ==
  ASSUME LinkedInv, MasksInv, Coming' = Coming, met' = met, Aloof,
         \A r \in chain' : r.body[1] = "masquerade" => r \in chain,
         \A d \in Coming : Does[d].do \in {"create", "delete"} =>
           pc'[d] = pc[d] /\ got'[d] = got[d] /\ todo'[d] = todo[d],
         \A d \in Coming : Does[d].do \in {"create", "delete"} => Does[d].name \in Bridge
  PROVE  MasksInv'
<1>1. addrs' \subseteq addrs
  BY DEF Aloof, Adds, Keeps
<1>2. ASSUME NEW d \in Coming, Is(d, "create"), pc[d] \notin {"new", "looking", "error"}, AddrOf(d) \in addrs
      PROVE  AddrOf(d) \in addrs'
  <2>1. got[d] # <<>> /\ Does[d].name \in Bridge
    BY <1>2 DEF LinkedInv, Begun, Is
  <2>2. \A l \in links : l.index = got[d][1] => l.name \in Bridge
    BY <1>2, <2>1 DEF LinkedInv, LinkOf, Is
  <2>3. AddrOf(d).index = got[d][1]
    BY DEF AddrOf
  <2> QED BY <1>2, <2>2, <2>3 DEF Aloof, Adds, Keeps
<1>3. \A d \in Coming : Is(d, "create") => AddrOf(d)' = AddrOf(d)
  BY DEF AddrOf, Is
<1>4. \A r \in chain : MetOwner(r) => MetOwner(r)'
  BY DEF MetOwner
<1>5. ASSUME NEW d \in Coming PROVE Has1(d)'
  <2>1. Has1(d)
    BY DEF MasksInv
  <2> QED BY <1>2, <1>3, <2>1 DEF Has1, Is
<1>6. ASSUME NEW d \in Coming PROVE ListsAll(d)'
  <2>1. ListsAll(d)
    BY DEF MasksInv
  <2>2. SUFFICES ASSUME Is(d, "delete"), Does[d].name \notin met PROVE ListsAll(d)'
    BY DEF ListsAll
  <2>3. pc'[d] = pc[d] /\ got'[d] = got[d] /\ todo'[d] = todo[d]
    BY <2>2 DEF Is
  <2>4. pc[d] = "listing" => \A a \in addrs' : a.index = got[d][1] => Network[a.ip] \in got[d][2]
    BY <1>1, <2>1, <2>2 DEF ListsAll
  <2>5. ASSUME pc[d] = "unmasking", NEW r \in chain', NEW a \in addrs', r.body = <<"masquerade", Network[a.ip]>>,
               a.index = got[d][1]
        PROVE  MetOwner(r)' \/ \E k \in 1..Len(todo[d]) : todo[d][k] = r.handle
    <3>1. r \in chain /\ a \in addrs
      BY <1>1, <2>5
    <3> QED BY <1>4, <2>1, <2>2, <2>5, <3>1 DEF ListsAll
  <2> QED BY <2>2, <2>3, <2>4, <2>5 DEF ListsAll
<1>7. ASSUME NEW r \in chain', r.body[1] = "masquerade" PROVE MetOwner(r)' \/ \E o \in Coming : MaskOf(r, o)'
  <2>1. r \in chain
    BY <1>7
  <2>2. ASSUME NEW o \in Coming, MaskOf(r, o) PROVE MaskOf(r, o)'
    BY <1>2, <1>3, <2>2 DEF MaskOf, Is
  <2> QED BY <1>4, <1>7, <2>1, <2>2 DEF MasksInv
<1>8. \A a \in addrs' : a.ip \in DOMAIN Network
  BY <1>1 DEF MasksInv
<1> QED BY <1>5, <1>6, <1>7, <1>8 DEF MasksInv

\* What a bridge command does to the addresses, and whose go with its link.
LEMMA AddrsGo ==
  ASSUME LinksOK, LinkedInv, NEW c \in Coming, Does[c].do \in {"create", "delete"}, ~Ended(c), BrStep(c)
  PROVE  /\ \A a \in addrs' : a \in addrs \/ (BrAddressed(c) /\ a = AddrOf(c))
         /\ \A a \in addrs \ addrs' : /\ BrUndone(c) \/ BrGone(c)
                                    /\ a.index = got[c][1] /\ Exists(a.index) /\ Inside(c)
<1>1. CASE BrUndone(c) \/ BrGone(c)
  <2>1. PICK S \in SUBSET {got[c][1]} : Keeps(S)
    BY <1>1 DEF BrUndone, BrGone
  <2>2. Inside(c)
    BY <1>1 DEF BrUndone, BrGone, Inside, Ended, Early, Is
  <2> QED BY <1>1, <2>1, <2>2 DEF Keeps, Exists
<1>2. CASE BrAddressed(c)
  BY <1>2 DEF BrAddressed
<1>3. CASE ~(BrUndone(c) \/ BrGone(c) \/ BrAddressed(c))
  <2>1. addrs' = addrs \/ Keeps({})
    BY <1>3 DEF BrStep, BrCreates, BrDeletes, BrRefused, BrMade, BrOnward, BrAllowed, BrServed,
       BrMasked, BrFound, BrTold, BrListed, BrSought, BrDropped, BrQuit, net, Adds
  <2> QED BY <2>1 DEF Keeps
<1> QED BY <1>1, <1>2, <1>3

\* A command that is inside, on a link that another has: they have met.
LEMMA IndexMet ==
  ASSUME LinkedInv, NEW c \in Coming, NEW d \in Coming, c # d, Inside(c), Inside(d), got[c][1] = got[d][1],
         Exists(got[c][1])
  PROVE  Does[c].name = Does[d].name /\ Does[c].name \in met
<1>1. Does[c].name = Does[d].name
  BY SameName DEF Inside, Ended
<1> QED BY <1>1, SameMet

LEMMA MasksBridge ==
  ASSUME Coming \in Given, LinksOK, HandlesOK, LinkedInv, MasksInv, Disjoint, NEW c \in Coming,
         Does[c].do \in {"create", "delete"}, MovesOnly(c), ~Ended(c), BrStep(c)
  PROVE  MasksInv'
<1>1. /\ BrMoves(c) /\ Coming' = Coming /\ met \subseteq met'
      /\ \A d \in Coming \ {c} : pc'[d] = pc[d] /\ got'[d] = got[d] /\ todo'[d] = todo[d]
  BY BridgeGoes DEF MovesOnly, BrMoves
<1>2. /\ \A a \in addrs' : a \in addrs \/ (BrAddressed(c) /\ a = AddrOf(c))
      /\ \A a \in addrs \ addrs' : /\ BrUndone(c) \/ BrGone(c)
                                 /\ a.index = got[c][1] /\ Exists(a.index) /\ Inside(c)
  BY AddrsGo
<1>3. \A r : MetOwner(r) => MetOwner(r)'
  BY <1>1 DEF MetOwner
<1>4. \A d \in Coming : pc[d] \notin {"new", "looking", "ok", "error"} /\ Does[d].do \in {"create", "delete"} => Inside(d)
  BY DEF Inside, Ended
<1>5. ASSUME NEW r \in chain' \ chain, r.body[1] = "masquerade"
      PROVE  BrMasked(c) /\ r.body = Masquerade(Does[c].ip)
  <2>1. BrMasked(c) \/ BrAllowed(c)
    BY <1>5 DEF BrStep, BrCreates, BrDeletes, BrRefused, BrMade, BrUndone, BrOnward, BrAddressed,
       BrServed, BrFound, BrTold, BrListed, BrSought, BrDropped, BrGone, BrQuit
  <2>2. \A b : Apply(<<b>>) => r.body = b
    <3>1. \A b : DOMAIN <<b>> = {1} /\ <<b>>[1] = b
      OBVIOUS
    <3> QED BY <1>5, <3>1 DEF Apply
  <2>3. ~BrAllowed(c)
    <3>1. \A i : Allow(i)[1] # "masquerade"
      BY DEF Allow
    <3> QED BY <1>5, <2>2, <3>1 DEF BrAllowed
  <2> QED BY <2>1, <2>2, <2>3 DEF BrMasked
<1>6. \A a \in addrs' : a.ip \in DOMAIN Network
  <2>1. BrAddressed(c) => Does[c].ip \in DOMAIN Network
    <3>1. BrAddressed(c) => Does[c].mode # "none" /\ Is(c, "create")
      BY DEF BrAddressed, LinkedInv, Begun, Is
    <3> QED BY <3>1, CommandsAssumption, BridgesAssumption DEF Is
  <2> QED BY <1>2, <2>1 DEF MasksInv, AddrOf
<1>7. ASSUME NEW d \in Coming PROVE Has1(d)'
  <2>1. SUFFICES ASSUME Is(d, "create"), pc'[d] \in {"dnsmasq", "nat"}, Does[d].name \notin met'
                 PROVE  AddrOf(d)' \in addrs'
    BY DEF Has1
  <2>2. CASE d = c
    <3>1. BrAddressed(c) \/ BrServed(c)
      BY <2>1, <2>2 DEF Is, BrStep, BrCreates, BrDeletes, BrRefused, BrMade, BrUndone, BrOnward, BrAllowed,
         BrMasked, BrFound, BrTold, BrListed, BrSought, BrDropped, BrGone, BrQuit
    <3>2. AddrOf(c)' = AddrOf(c)
      BY <3>1 DEF AddrOf, BrAddressed, BrServed
    <3>3. CASE BrAddressed(c)
      BY <2>2, <3>2, <3>3 DEF BrAddressed
    <3>4. CASE BrServed(c)
      <4>1. AddrOf(c) \in addrs
        BY <1>1, <2>1, <2>2, <3>4 DEF MasksInv, Has1, BrServed, Is
      <4> QED BY <2>2, <3>2, <3>4, <4>1 DEF BrServed, net
    <3> QED BY <3>1, <3>3, <3>4
  <2>3. CASE d # c
    <3>1. pc'[d] = pc[d] /\ AddrOf(d)' = AddrOf(d) /\ Inside(d) /\ Does[d].name \notin met
      BY <1>1, <1>4, <2>1, <2>3 DEF AddrOf, Is
    <3>2. AddrOf(d) \in addrs /\ AddrOf(d).index = got[d][1]
      BY <2>1, <3>1 DEF MasksInv, Has1, AddrOf
    <3>3. AddrOf(d) \in addrs'
      BY <1>2, <2>3, <3>1, <3>2, IndexMet
    <3> QED BY <3>1, <3>3
  <2> QED BY <2>2, <2>3
<1>8. ASSUME NEW r \in chain', r.body[1] = "masquerade", ~MetOwner(r)' PROVE \E o \in Coming : MaskOf(r, o)'
  <2>1. CASE r \notin chain
    <3>1. BrMasked(c) /\ r.body = Masquerade(Does[c].ip)
      BY <1>5, <1>8, <2>1
    <3>2. Does[c].name \notin met
      BY <1>1, <1>3, <1>8, <3>1 DEF MetOwner, BrMasked
    <3>3. AddrOf(c) \in addrs /\ AddrOf(c)' = AddrOf(c) /\ addrs' = addrs
      BY <3>1, <3>2 DEF MasksInv, Has1, BrMasked, AddrOf, net
    <3> QED BY <3>1, <3>3 DEF MaskOf, BrMasked, Is, Masquerade
  <2>2. CASE r \in chain
    <3>1. PICK o \in Coming : MaskOf(r, o)
      BY <1>3, <1>8, <2>2 DEF MasksInv
    <3>2. Is(o, "create") /\ r.body = Masquerade(Does[o].ip) /\ pc[o] \in {"done", "ok"} /\ AddrOf(o) \in addrs
          /\ Does[o].name \notin met' /\ got[o] # <<>> /\ AddrOf(o).index = got[o][1]
      BY <1>1, <1>8, <3>1 DEF MaskOf, MetOwner, AddrOf, LinkedInv, Begun, Is
    <3>3. got'[o] = got[o] /\ pc'[o] \in {"done", "ok"}
      <4>1. CASE o # c
        BY <1>1, <3>2, <4>1
      <4>2. CASE o = c
        <5>1. BrOnward(c)
          BY <3>2, <4>2 DEF Is, Early, Ended, BrStep, BrCreates, BrDeletes, BrRefused, BrMade, BrUndone, BrAllowed,
             BrAddressed, BrServed, BrMasked, BrFound, BrTold, BrListed, BrSought, BrDropped, BrGone, BrQuit
        <5> QED BY <3>2, <4>2, <5>1 DEF BrOnward
      <4> QED BY <4>1, <4>2
    <3>4. AddrOf(o)' = AddrOf(o)
      BY <3>3 DEF AddrOf
    <3>5. AddrOf(o) \in addrs'
      <4>1. SUFFICES ASSUME AddrOf(o) \notin addrs' PROVE FALSE
        OBVIOUS
      <4>2. /\ BrUndone(c) \/ BrGone(c)
            /\ got[o][1] = got[c][1] /\ Exists(got[c][1]) /\ Inside(c)
        BY <1>2, <3>2, <4>1
      <4>3. Does[o].name = Does[c].name /\ got[c] # <<>>
        BY <3>2, <4>2, SameName DEF Inside, Ended, Is, LinkedInv, Begun
      <4>4. CASE BrUndone(c)
        <5>1. o # c /\ Is(c, "create")
          BY <3>2, <4>4 DEF BrUndone, Early
        <5> QED BY <3>2, <4>2, <4>3, <5>1 DEF LinkedInv, Pairs
      <4>5. CASE BrGone(c)
        <5>1. Is(c, "delete") /\ pc[c] = "unmasking" /\ todo[c] = <<>> /\ Does[c].name \notin met
          BY <1>1, <3>2, <4>3, <4>5 DEF BrGone
        <5>2. r.body = <<"masquerade", Network[AddrOf(o).ip]>>
          BY <3>2 DEF Masquerade, AddrOf
        <5>3. MetOwner(r) \/ \E k \in 1..Len(todo[c]) : todo[c][k] = r.handle
          BY <2>2, <3>2, <4>2, <5>1, <5>2 DEF MasksInv, ListsAll
        <5> QED BY <1>3, <1>8, <5>1, <5>3
      <4> QED BY <4>2, <4>4, <4>5
    <3> QED BY <1>1, <3>2, <3>3, <3>4, <3>5 DEF MaskOf, Masquerade, Is
  <2> QED BY <2>1, <2>2
<1>9. ASSUME NEW d \in Coming PROVE ListsAll(d)'
  <2>1. SUFFICES ASSUME Is(d, "delete"), Does[d].name \notin met' PROVE ListsAll(d)'
    BY DEF ListsAll
  <2>2. ListsAll(d) /\ Does[d].name \notin met
    BY <1>1, <2>1 DEF MasksInv
  <2>3. CASE d # c
    <3>1. pc'[d] = pc[d] /\ got'[d] = got[d] /\ todo'[d] = todo[d]
      BY <1>1, <2>3
    <3>2. ASSUME Inside(d), BrAddressed(c), got[c][1] = got[d][1] PROVE FALSE
      <4>1. Inside(c) /\ Exists(got[c][1])
        BY <3>2 DEF BrAddressed, Inside, Ended, Is
      <4> QED BY <2>2, <2>3, <3>2, <4>1, IndexMet
    <3>3. ASSUME pc[d] \in {"listing", "unmasking"}, NEW a \in addrs', a.index = got[d][1] PROVE a \in addrs
      <4>1. Inside(d)
        BY <1>4, <2>1, <3>3 DEF Is
      <4> QED BY <1>2, <3>2, <3>3, <4>1 DEF AddrOf
    <3>4. ASSUME pc[d] = "unmasking", NEW r \in chain', NEW a \in addrs, r.body = <<"masquerade", Network[a.ip]>>,
                 a.index = got[d][1]
          PROVE  MetOwner(r)' \/ \E k \in 1..Len(todo[d]) : todo[d][k] = r.handle
      <4>1. CASE r \in chain
        BY <1>3, <2>1, <2>2, <3>4, <4>1 DEF ListsAll
      <4>2. CASE r \notin chain
        <5>1. BrMasked(c) /\ r.body = Masquerade(Does[c].ip)
          <6>1. r.body[1] = "masquerade" /\ r \in chain' \ chain
            BY <3>4, <4>2
          <6> QED BY <1>5, <6>1
        <5>2. Is(c, "create") /\ Inside(c) /\ Inside(d)
          BY <1>4, <2>1, <3>4, <5>1 DEF BrMasked, Is
        <5>3. SUFFICES ASSUME Does[c].name \notin met PROVE FALSE
          BY <1>1, <5>1, <5>2 DEF MetOwner
        <5>4. AddrOf(c) \in addrs /\ Exists(got[c][1])
          BY <5>1, <5>2, <5>3 DEF MasksInv, Has1, BrMasked, LinkedInv, Undisturbed
        <5>5. AddrOf(c) = a
          <6>1. Network[Does[c].ip] = Network[a.ip] /\ AddrOf(c).ip = Does[c].ip
            BY <3>4, <5>1 DEF Masquerade, AddrOf
          <6>2. <<AddrOf(c).ip, a.ip>> \in Overlaps
            BY <5>4, <6>1, BridgesAssumption DEF MasksInv
          <6> QED BY <5>4, <6>2 DEF Disjoint
        <5>6. got[c][1] = got[d][1]
          BY <3>4, <5>5 DEF AddrOf
        <5> QED BY <2>3, <5>2, <5>3, <5>4, <5>6, IndexMet
      <4> QED BY <4>1, <4>2
    <3>5. pc[d] = "listing" => \A a \in addrs' : a.index = got[d][1] => Network[a.ip] \in got[d][2]
      BY <2>1, <2>2, <3>3 DEF ListsAll
    <3> QED BY <1>1, <3>1, <3>3, <3>4, <3>5 DEF ListsAll
  <2>4. CASE d = c
    <3>1. BrListed(c) \/ BrSought(c) \/ BrDropped(c) \/ pc'[c] \notin {"listing", "unmasking"}
      BY <2>1, <2>4 DEF Is, BrStep, BrCreates, BrDeletes, BrRefused, BrMade, BrUndone, BrOnward, BrAllowed,
         BrAddressed, BrServed, BrMasked, BrFound, BrTold, BrGone, BrQuit
    <3>2. CASE BrListed(c)
      <4>1. /\ pc'[c] = "listing" /\ addrs' = addrs /\ got'[c][1] = got[c][1]
            /\ got'[c][2] = {Network[a.ip] : a \in {b \in addrs : b.index = got[c][1]}}
        BY <3>2 DEF BrListed, net
      <4> QED BY <2>4, <4>1 DEF ListsAll
    <3>3. CASE BrSought(c) /\ pc'[c] = "unmasking"
      <4>1. PICK R \in SUBSET chain : R = {q \in chain : q.body[1] = "masquerade" /\ q.body[2] \in got[c][2]}
        OBVIOUS
      <4>2. /\ pc[c] = "listing" /\ todo'[c] = Sorted({q.handle : q \in R})
            /\ got'[c] = got[c] /\ chain' = chain /\ addrs' = addrs
        BY <3>3, <4>1 DEF BrSought, net
      <4>3. ASSUME NEW r \in chain, NEW a \in addrs, r.body = <<"masquerade", Network[a.ip]>>, a.index = got[c][1]
            PROVE  \E k \in 1..Len(todo'[c]) : todo'[c][k] = r.handle
        <5>1. Network[a.ip] \in got[c][2]
          BY <2>1, <2>2, <2>4, <4>2, <4>3 DEF ListsAll
        <5>2. r \in R
          BY <4>1, <4>3, <5>1
        <5>3. \E k \in 1..Len(Sorted({q.handle : q \in R})) : Sorted({q.handle : q \in R})[k] = r.handle
          BY <5>2, HandlesSorted
        <5> QED BY <4>2, <5>3
      <4> QED BY <2>4, <3>3, <4>2, <4>3 DEF ListsAll
    <3>4. CASE BrDropped(c) /\ pc'[c] = "unmasking"
      <4>1. /\ pc[c] = "unmasking" /\ todo'[c] = Tail(todo[c]) /\ got'[c] = got[c] /\ addrs' = addrs
            /\ chain' \subseteq chain /\ \A r \in chain' : r.handle # Head(todo[c])
        BY <3>4 DEF BrDropped, net
      <4>2. todo[c] \in Seq(Nat) /\ todo[c] # <<>>
        BY <2>1, <2>4, <3>4, <4>1 DEF BrDropped, LinkedInv, Begun, Is
      <4>3. ASSUME NEW r \in chain', NEW a \in addrs, r.body = <<"masquerade", Network[a.ip]>>, a.index = got[c][1]
            PROVE  MetOwner(r)' \/ \E k \in 1..Len(todo'[c]) : todo'[c][k] = r.handle
        <5>1. MetOwner(r) \/ \E k \in 1..Len(todo[c]) : todo[c][k] = r.handle
          BY <2>1, <2>2, <2>4, <4>1, <4>3 DEF ListsAll
        <5>2. ASSUME NEW k \in 1..Len(todo[c]), todo[c][k] = r.handle
              PROVE  \E j \in 1..Len(todo'[c]) : todo'[c][j] = r.handle
          <6>1. r.handle # Head(todo[c])
            BY <4>1
          <6>2. \E j \in 1..Len(Tail(todo[c])) : Tail(todo[c])[j] = todo[c][k]
            BY <4>2, <5>2, <6>1, TailKeeps
          <6> QED BY <4>1, <5>2, <6>2
        <5> QED BY <1>3, <5>1, <5>2
      <4> QED BY <2>4, <3>4, <4>1, <4>3 DEF ListsAll
    <3>5. CASE pc'[c] \notin {"listing", "unmasking"}
      BY <2>4, <3>5 DEF ListsAll
    <3> QED BY <3>1, <3>2, <3>3, <3>4, <3>5 DEF BrSought, BrDropped
  <2> QED BY <2>3, <2>4
<1> QED BY <1>1, <1>6, <1>7, <1>8, <1>9 DEF MasksInv

\* The counters of faults only go up, so that what is calm has been so.
CountOK == faults \in Nat

LEMMA CalmBefore ==
  ASSUME CountOK, [NetNext]_netvars, Coming' = Coming
  PROVE  CountOK' /\ (Calm' => Calm /\ faults' = 0)
<1>1. faults' = faults \/ faults' = faults + 1
  BY FaultsCounted
<1>2. Meddled' <=> Meddled
  BY DEF Meddled, Named, Is
<1> QED BY <1>1, <1>2 DEF CountOK, Calm

LEMMA GoneElsewhere ==
  ASSUME CommandsOK, Coming \in Given, LinksOK, LinkedInv, JobsInv, IifInv, MasksInv, Coming' = Coming,
         met' = met, left' = left, Aloof,
         \A b \in Bridge : dnsmasq'[b] = "running" => dnsmasq[b] = "running",
         dnsmasq' = [b \in Bridge |-> dnsmasq'[b]],
         \A r \in chain' : r.body[1] \in {"iif", "masquerade"} => r \in chain,
         \A d \in Coming : Does[d].do \in {"create", "delete"} =>
           pc'[d] = pc[d] /\ got'[d] = got[d] /\ todo'[d] = todo[d],
         \A d \in Coming : Is(d, "bond.del") => LinkOf(d)' /\ BondGot(d)'
  PROVE  LinkedInv' /\ JobsInv' /\ IifInv' /\ MasksInv'
<1>1. \A d \in Coming : Does[d].do \in {"create", "delete"} => Does[d].name \in Bridge
  BY BridgeNamed
<1>2. LinkedInv'
  BY LinkedElsewhere
<1>3. JobsInv'
  BY <1>1, JobsElsewhere
<1>4. IifInv'
  BY <1>1, IifElsewhere
<1>5. MasksInv'
  BY <1>1, MasksElsewhere
<1> QED BY <1>2, <1>3, <1>4, <1>5

\* A delete that has passed the gate has found nothing yet.
LEMMA GateKeeps ==
  ASSUME LinkedInv, JobsInv, IifInv, MasksInv, NEW c \in Coming, MovesOnly(c), BrGate(c)
  PROVE  LinkedInv' /\ JobsInv' /\ IifInv' /\ MasksInv'
<1>1. /\ Is(c, "delete") /\ pc[c] = "new" /\ pc'[c] = "looking" /\ Coming' = Coming
      /\ UNCHANGED <<links, addrs, fresh, chain, dnsmasq, left, met>>
      /\ \A d \in Coming : got'[d] = got[d] /\ (d # c => pc'[d] = pc[d] /\ todo'[d] = todo[d])
  BY DEF BrGate, MovesOnly, net
<1>2. \A d \in Coming : ~Inside(c)' /\ (Inside(d)' <=> Inside(d)) /\ (LinkOf(d)' <=> LinkOf(d))
  BY <1>1 DEF Inside, Ended, LinkOf
<1>3. LinkedInv'
  <2>1. \A d \in Coming : Begun(d)' /\ BondGot(d)'
    BY <1>1 DEF LinkedInv, Begun, BondGot, Is
  <2>2. \A d \in Coming : Undisturbed(d)'
    BY <1>1, <1>2 DEF LinkedInv, Undisturbed, Exists
  <2>3. \A d, e \in Coming : Pairs(d, e)'
    BY <1>1, <1>2 DEF LinkedInv, Pairs
  <2> QED BY <1>1, <1>2, <2>1, <2>2, <2>3 DEF LinkedInv
<1>4. JobsInv'
  <2>1. \A d \in Coming : NoJob(d)' => NoJob(d)
    BY <1>1 DEF NoJob, Is
  <2> QED BY <1>1, <2>1 DEF JobsInv, JobOf, Lost, Index
<1>5. IifInv'
  <2>1. \A d \in Coming : \A r \in chain : DropsIif(d, r) => DropsIif(d, r)'
    BY <1>1 DEF DropsIif, Is, Allow
  <2>2. \A o \in Coming : \A r \in chain : RuleOf(r, o) => RuleOf(r, o)'
    BY <1>1, <2>1 DEF RuleOf, Is, Allow, Exists
  <2> QED BY <1>1, <2>2 DEF IifInv, NoneMet
<1>6. MasksInv'
  <2>1. \A r \in chain : MetOwner(r)' <=> MetOwner(r)
    BY <1>1 DEF MetOwner
  <2>2. \A d \in Coming : Has1(d)'
    BY <1>1 DEF MasksInv, Has1, AddrOf, Is
  <2>3. ASSUME NEW d \in Coming PROVE ListsAll(d)'
    <3>1. CASE d = c
      BY <1>1, <3>1 DEF ListsAll
    <3>2. CASE d # c
      <4>1. ListsAll(d)
        BY DEF MasksInv
      <4> QED BY <1>1, <2>1, <3>2, <4>1 DEF ListsAll
    <3> QED BY <3>1, <3>2
  <2>4. \A o \in Coming : \A r \in chain : MaskOf(r, o) => MaskOf(r, o)'
    BY <1>1 DEF MaskOf, AddrOf, Is
  <2> QED BY <1>1, <2>1, <2>2, <2>3, <2>4 DEF MasksInv
<1> QED BY <1>3, <1>4, <1>5, <1>6

\* A step of the bridge plugin.
LEMMA GoneBridge ==
  ASSUME CommandsOK, Coming \in Given, LinksOK, HandlesOK, Disjoint, LinkedInv, JobsInv, IifInv, MasksInv,
         NEW c \in Coming, MovesOnly(c), ~Ended(c), BridgeStep(c), Does[c].do \in BridgeDo, faults \in Nat, faults' = 0
  PROVE  LinkedInv' /\ JobsInv' /\ IifInv' /\ MasksInv'
<1>1. CASE Does[c].do \in {"create", "delete"}
  <2>1. BrStep(c) \/ BrGate(c)
    <3>1. ~BrHosts(c)
      BY <1>1 DEF BrHosts, Is
    <3> QED BY <3>1, CreateEffects, DeleteEffects DEF BrStep
  <2>2. CASE BrGate(c)
    BY <2>2, GateKeeps
  <2> QED BY <1>1, <2>1, <2>2, LinkedBridge, JobsBridge, IifBridge, MasksBridge
<1>2. CASE Is(c, "host.add")
  <2>1. BrHosts(c)
    BY <1>2, DeleteEffects DEF Is
  <2>2. Aloof
    BY <2>1, LinksKept DEF BrHosts, net, Aloof
  <2>3. UNCHANGED <<chain, dnsmasq, left, met>> /\ Coming' = Coming
    BY <2>1 DEF BrHosts, MovesOnly
  <2>4. \A d \in Coming : d # c => pc'[d] = pc[d] /\ got'[d] = got[d] /\ todo'[d] = todo[d]
    BY DEF MovesOnly
  <2>5. ASSUME NEW d \in Coming, Is(d, "bond.del") PROVE LinkOf(d)' /\ BondGot(d)'
    <3>1. d # c
      BY <1>2, <2>5 DEF Is
    <3>2. UNCHANGED <<links, fresh>>
      BY <2>1 DEF BrHosts, net
    <3> QED BY <2>4, <3>1, <3>2 DEF LinkedInv, LinkOf, BondGot
  <2>6. \A d \in Coming : Does[d].do \in {"create", "delete"} => d # c
    BY <1>2 DEF Is
  <2>7. dnsmasq' = [b \in Bridge |-> dnsmasq'[b]]
    BY <2>3 DEF JobsInv
  <2> QED BY <2>2, <2>3, <2>4, <2>5, <2>6, <2>7, GoneElsewhere
<1> QED BY <1>1, <1>2 DEF BridgeDo, Is

GoneAll == ApartInv /\ HandlesOK /\ CountOK /\ GoneInv

LEMMA HandlesStep == CommandsOK /\ Coming \in Given /\ HandlesOK /\ [NetNext]_netvars => HandlesOK'
<1> SUFFICES ASSUME CommandsOK, Coming \in Given, HandlesOK, [NetNext]_netvars PROVE HandlesOK'
  OBVIOUS
<1>1. UNCHANGED nft => HandlesOK'
  BY DEF nft, HandlesOK
<1>2. ASSUME NEW c \in Coming, FirewallStep(c) \/ ForwardStep(c) \/ BridgeStep(c) PROVE HandlesOK'
  <2>1. c \in Cmd
    BY Others
  <2> QED BY <1>2, <2>1, FirewallComes, ForwardComes, BridgeComes DEF Comes
<1> QED BY <1>1, <1>2, NetSteps

LEMMA GoneStep == GoneAll /\ [NetNext]_netvars => GoneAll'
<1> SUFFICES ASSUME GoneAll, [NetNext]_netvars PROVE GoneAll'
  OBVIOUS
<1>1. CommandsOK /\ Coming \in Given /\ LinksOK /\ HandlesOK /\ CountOK
  BY DEF GoneAll, ApartInv, LockedInv
<1>2. ApartInv' /\ HandlesOK'
  BY <1>1, ApartStep, HandlesStep DEF GoneAll
<1>3. Coming' = Coming
  BY <1>1, NetSteps DEF MovesOnly, Coming
<1>4. CountOK' /\ (Calm' => Calm /\ faults' = 0)
  BY <1>1, <1>3, CalmBefore
<1>5. SUFFICES ASSUME Calm' PROVE LinkedInv' /\ JobsInv' /\ IifInv' /\ MasksInv'
  BY <1>2, <1>4 DEF GoneAll, GoneInv
<1>6. /\ ~Meddled /\ faults \in Nat /\ faults' = 0 /\ LinkedInv /\ JobsInv /\ IifInv /\ MasksInv /\ Disjoint
  <2>1. ~Meddled => NoneAdded
    BY DEF Meddled, NoneAdded, Named
  <2> QED BY <1>4, <1>5, <2>1 DEF Calm, CountOK, GoneAll, GoneInv, ApartInv
<1>7. dnsmasq = [b \in Bridge |-> dnsmasq[b]] /\ (UNCHANGED net => Aloof)
  BY <1>1, <1>6, LinksKept DEF JobsInv, net, Aloof
<1>8. ASSUME NEW c \in Coming, MovesOnly(c), ~Ended(c), LinkStep(c), Does[c].do \in LinkDo, UNCHANGED <<nft, bridges>>
      PROVE  LinkedInv' /\ JobsInv' /\ IifInv' /\ MasksInv'
  <2>1. Aloof
    BY <1>1, <1>6, <1>8, LinksAloof
  <2>2. chain' = chain /\ met' = met /\ left' = left /\ dnsmasq' = dnsmasq
    BY <1>8 DEF nft, bridges
  <2>3. \A d \in Coming : d # c => pc'[d] = pc[d] /\ got'[d] = got[d] /\ todo'[d] = todo[d]
    BY <1>8 DEF MovesOnly
  <2>4. \A d \in Coming : Does[d].do \in {"create", "delete"} => d # c
    BY <1>8 DEF LinkDo
  <2>5. ASSUME NEW d \in Coming, Is(d, "bond.del") PROVE LinkOf(d)' /\ BondGot(d)'
    <3>1. CASE d = c
      BY <1>1, <1>6, <1>8, <2>1, <2>5, <3>1, BondDelFinds
    <3>2. CASE d # c
      <4>1. got'[d] = got[d] /\ pc'[d] = pc[d]
        BY <2>3, <3>2
      <4>2. LinkOf(d)'
        BY <1>1, <1>6, <2>1, <4>1, LinksCarry, StaysWhen DEF Aloof
      <4> QED BY <1>6, <4>1, <4>2 DEF LinkedInv, BondGot
    <3> QED BY <3>1, <3>2
  <2> QED BY <1>1, <1>3, <1>6, <1>7, <2>1, <2>2, <2>3, <2>4, <2>5, GoneElsewhere
<1>9. ASSUME NEW c \in Coming, MovesOnly(c), Does[c].do \in FirewallDo \cup SocatDo,
             FirewallStep(c) \/ ForwardStep(c), UNCHANGED <<net, bridges>>
      PROVE  LinkedInv' /\ JobsInv' /\ IifInv' /\ MasksInv'
  <2>1. Aloof /\ met' = met /\ left' = left /\ dnsmasq' = dnsmasq
    BY <1>7, <1>9 DEF bridges
  <2>2. \A d \in Coming : d # c => pc'[d] = pc[d] /\ got'[d] = got[d] /\ todo'[d] = todo[d]
    BY <1>9 DEF MovesOnly
  <2>3. \A d \in Coming : Does[d].do \in {"create", "delete", "bond.del"} => d # c
    BY <1>9 DEF FirewallDo, SocatDo
  <2>4. ASSUME NEW d \in Coming, Is(d, "bond.del") PROVE LinkOf(d)' /\ BondGot(d)'
    <3>1. d # c /\ UNCHANGED <<links, fresh>>
      BY <1>9, <2>3, <2>4 DEF Is, net
    <3> QED BY <1>6, <2>2, <3>1 DEF LinkedInv, LinkOf, BondGot
  <2>5. \A r \in chain' : r.body[1] \in {"iif", "masquerade"} => r \in chain
    <3>1. c \in Cmd
      BY <1>1, Others
    <3> QED BY <1>1, <1>9, <3>1, FirewallComes, ForwardComes DEF Comes
  <2> QED BY <1>1, <1>3, <1>6, <1>7, <2>1, <2>2, <2>3, <2>4, <2>5, GoneElsewhere
<1>10. ASSUME NEW c \in Coming, MovesOnly(c), ~Ended(c), BridgeStep(c), Does[c].do \in BridgeDo
       PROVE  LinkedInv' /\ JobsInv' /\ IifInv' /\ MasksInv'
  BY <1>1, <1>6, <1>10, GoneBridge
<1>11. ASSUME UNCHANGED <<pc, got, todo, net, nft>>, UNCHANGED bridges \/ \E b \in Bridge : DnsmasqEnds(b)
       PROVE  LinkedInv' /\ JobsInv' /\ IifInv' /\ MasksInv'
  <2>1. Aloof /\ met' = met /\ left' = left /\ chain' = chain
    BY <1>7, <1>11 DEF bridges, DnsmasqEnds, nft
  <2>2. /\ \A b \in Bridge : dnsmasq'[b] = "running" => dnsmasq[b] = "running"
        /\ dnsmasq' = [b \in Bridge |-> dnsmasq'[b]]
    <3>1. ASSUME NEW b \in Bridge, dnsmasq' = [dnsmasq EXCEPT ![b] = "none"]
          PROVE  /\ \A a \in Bridge : dnsmasq'[a] = "running" => dnsmasq[a] = "running"
                 /\ dnsmasq' = [a \in Bridge |-> dnsmasq'[a]]
      BY <1>7, <3>1
    <3> QED BY <1>7, <1>11, <3>1 DEF DnsmasqEnds, bridges
  <2>3. \A d \in Coming : Is(d, "bond.del") => LinkOf(d)' /\ BondGot(d)'
    BY <1>6, <1>11 DEF LinkedInv, LinkOf, BondGot, net
  <2> QED BY <1>1, <1>3, <1>6, <1>11, <2>1, <2>2, <2>3, GoneElsewhere
<1> QED BY <1>1, <1>8, <1>9, <1>10, <1>11, NetSteps

\* Of a bridge that was deleted nothing stays behind, when nothing failed and no two
\* creates and deletes of its name met: neither the masquerade of its network, nor its
\* dnsmasq, nor the rule of its index (bridge.go create, delete, unsetNAT, unNFT).
THEOREM BridgeGoneHolds == NetSpec => []BridgeGone
<1>1. NetInit => GoneAll
  <2> SUFFICES ASSUME NetInit PROVE GoneAll
    OBVIOUS
  <2>1. CommandsOK /\ Coming \in Given /\ (\A c \in Coming : pc[c] = "new" /\ got[c] = <<>> /\ todo[c] = <<>>)
        /\ faults = 0
    BY CommandsInit DEF NetInit, InitCommands
  <2>2. /\ addrs = {} /\ chain = {} /\ handle = 0 /\ dnsmasq = [b \in Bridge |-> "none"]
        /\ links = {Plain(i, Wires[i], "device") : i \in DOMAIN Wires}
    BY DEF NetInit, InitLinks, InitFirewall, InitBridges
  <2>3. ApartInv /\ HandlesOK /\ CountOK
    BY <2>1, <2>2, LinksStart DEF ApartInv, LockedInv, Creating, Clear, Disjoint, HandlesOK, CountOK
  <2>4. \A k, l \in links : k.index = l.index => k.name = l.name
    <3>1. \A i \in DOMAIN Wires : /\ Plain(i, Wires[i], "device").index = i
                                 /\ Plain(i, Wires[i], "device").name = Wires[i]
      BY DEF Plain
    <3> QED BY <2>2, <3>1
  <2>5. \A c \in Coming : ~Inside(c)
    BY <2>1 DEF Inside
  <2>6. LinkedInv
    <3>1. \A c \in Coming : LinkOf(c) /\ Begun(c) /\ BondGot(c) /\ Undisturbed(c)
      BY <2>1, <2>5 DEF LinkOf, Begun, BondGot, Undisturbed
    <3>2. \A c, d \in Coming : Pairs(c, d)
      BY <2>1, <2>5 DEF Pairs
    <3> QED BY <2>4, <3>1, <3>2 DEF LinkedInv
  <2>7. JobsInv
    BY <2>1, <2>2 DEF JobsInv, JobOf, Lost, NoJob
  <2>8. IifInv /\ MasksInv
    BY <2>1, <2>2 DEF IifInv, MasksInv, Has1, ListsAll
  <2> QED BY <2>3, <2>6, <2>7, <2>8 DEF GoneAll, GoneInv
<1>2. GoneAll => BridgeGone
  <2> SUFFICES ASSUME GoneAll, Resting, faults = 0, ~Meddled
               PROVE  /\ \A r \in chain : r.body[1] = "masquerade" =>
                           \/ \E a \in addrs : Network[a.ip] = r.body[2]
                           \/ \E c \in Coming : Is(c, "create") /\ Masquerade(Does[c].ip) = r.body
                                             /\ Does[c].name \in met
                      /\ \A b \in Bridge \ met : dnsmasq[b] = "running" =>
                           Index(b) # {} \/ <<"dnsmasq", b>> \in left
                      /\ \A r \in chain : r.body[1] = "iif" =>
                           \/ Exists(r.body[2])
                           \/ \E c \in Coming : Is(c, "create") /\ Does[c].name \in met
                           \/ \E c \in Coming : Is(c, "create") /\ pc[c] = "error" /\ got[c] = <<r.body[2]>>
    BY DEF BridgeGone
  <2>1. LinkedInv /\ JobsInv /\ IifInv /\ MasksInv
    BY DEF GoneAll, GoneInv, Calm
  <2>2. ASSUME NEW r \in chain, r.body[1] = "masquerade"
        PROVE  \/ \E a \in addrs : Network[a.ip] = r.body[2]
               \/ \E c \in Coming : Is(c, "create") /\ Masquerade(Does[c].ip) = r.body /\ Does[c].name \in met
    <3>1. ASSUME NEW c \in Coming, MaskOf(r, c) PROVE \E a \in addrs : Network[a.ip] = r.body[2]
      <4>1. AddrOf(c) \in addrs /\ AddrOf(c).ip = Does[c].ip /\ r.body = <<"masquerade", Network[Does[c].ip]>>
        BY <3>1 DEF MaskOf, AddrOf, Masquerade
      <4>2. r.body[2] = Network[AddrOf(c).ip]
        BY <4>1
      <4> QED BY <4>1, <4>2
    <3> QED BY <2>1, <2>2, <3>1 DEF MasksInv, MetOwner
  <2>3. \A b \in Bridge \ met : dnsmasq[b] = "running" => Index(b) # {} \/ <<"dnsmasq", b>> \in left
    BY <2>1 DEF JobsInv, JobOf, Lost
  <2>4. ASSUME NEW r \in chain, r.body[1] = "iif"
        PROVE  \/ Exists(r.body[2])
               \/ \E c \in Coming : Is(c, "create") /\ Does[c].name \in met
               \/ \E c \in Coming : Is(c, "create") /\ pc[c] = "error" /\ got[c] = <<r.body[2]>>
    <3>1. SUFFICES ASSUME NoneMet
                   PROVE  \/ Exists(r.body[2])
                          \/ \E c \in Coming : Is(c, "create") /\ pc[c] = "error" /\ got[c] = <<r.body[2]>>
      BY DEF NoneMet
    <3>2. PICK c \in Coming : RuleOf(r, c)
      BY <2>1, <2>4, <3>1 DEF IifInv
    <3>3. Is(c, "create") /\ got[c] = <<got[c][1]>> /\ r.body = <<"iif", got[c][1]>>
      BY <2>1, <3>2 DEF RuleOf, LinkedInv, Begun, Allow, Is
    <3>4. r.body[2] = got[c][1]
      BY <3>3
    <3>5. \A d \in Coming : ~DropsIif(d, r)
      BY DEF DropsIif, Resting, Inside, Ended, Is
    <3> QED BY <3>2, <3>3, <3>4, <3>5 DEF RuleOf
  <2> QED BY <2>2, <2>3, <2>4
<1> QED BY <1>1, <1>2, GoneStep, PTL DEF NetSpec
=============================================================================
