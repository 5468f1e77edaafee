------------------------------- MODULE Links -------------------------------
(***************************************************************************)
(* The links, addresses and routes of the host, and the ip.* commands.     *)
(* Every handler looks a link up by its name and then works on its index,  *)
(* with no lock: between the two a link may be renamed, or deleted and     *)
(* another made with its name.  The kernel never gives an index twice.     *)
(*                                                                         *)
(* Of a link are kept its index, name, kind, master, whether it is up and  *)
(* its MTU; hardware addresses only in whether they can be set.  An        *)
(* address stands for an IP with its network, a destination of a route for *)
(* an IP network or for the default.                                       *)
(***************************************************************************)
EXTENDS HostCommands

CONSTANT Wires  \* the names of the host's own nics, a sequence
ASSUME LinksAssumption == Wires \in Seq(STRING)

VARIABLES
  links,   \* records [index, name, kind, master, up, mtu]
  addrs,   \* records [index, ip]
  routes,  \* records [index, dst, gw]
  fresh,   \* the next index
  bonding  \* whether the bonding module is loaded

net == <<links, addrs, routes, fresh, bonding>>

Plain(i, name, kind) ==
  [index |-> i, name |-> name, kind |-> kind, master |-> 0, up |-> FALSE, mtu |-> 1500]

InitLinks ==
  /\ links = {Plain(i, Wires[i], "device") : i \in DOMAIN Wires}
  /\ addrs = {} /\ routes = {} /\ fresh = Len(Wires) + 1 /\ bonding = FALSE

Index(name) == {l.index : l \in {k \in links : k.name = name}}
Link(i) == CHOOSE l \in links : l.index = i
Exists(i) == \E l \in links : l.index = i
Kind(i) == Link(i).kind

(* netlink, on an index. *)
LinkAdd(name, kind) ==
  /\ links' = links \cup {Plain(fresh, name, kind)}
  /\ fresh' = fresh + 1
  /\ UNCHANGED <<addrs, routes, bonding>>
LinksGone(S) ==
  /\ links' = {[l EXCEPT !.master = IF @ \in S THEN 0 ELSE @] :
                 l \in {k \in links : k.index \notin S}}
  /\ addrs' = {a \in addrs : a.index \notin S}
  /\ routes' = {r \in routes : r.index \notin S}
  /\ UNCHANGED fresh
LinkDel(i) == LinksGone({i}) /\ UNCHANGED bonding
ChangeLink(i, Put(_)) ==
  /\ links' = {IF l.index = i THEN Put(l) ELSE l : l \in links}
  /\ UNCHANGED <<addrs, routes, fresh, bonding>>
SetUp(i, b) == LET Put(l) == [l EXCEPT !.up = b] IN ChangeLink(i, Put)
SetMaster(i, m) == LET Put(l) == [l EXCEPT !.master = m] IN ChangeLink(i, Put)
SetMTU(i, n) == LET Put(l) == [l EXCEPT !.mtu = n] IN ChangeLink(i, Put)
SetName(i, n) == LET Put(l) == [l EXCEPT !.name = n] IN ChangeLink(i, Put)
AddrAdd(i, ip) ==
  /\ addrs' = addrs \cup {[index |-> i, ip |-> ip]}
  /\ UNCHANGED <<links, routes, fresh, bonding>>

-----------------------------------------------------------------------------
(* Handlers that look one or two links up and then do one thing. *)

\* The links each looks up, in order.
Names(c) ==
  CASE Does[c].do \in {"br.add", "bond.add"} -> <<>>
    [] Does[c].do \in {"br.addinf", "br.delinf", "nic.add"} -> <<Does[c].name, Does[c].inf>>
    [] OTHER -> <<Does[c].name>>
WantsBridge(c) == Does[c].do \in {"br.del", "br.addinf", "br.delinf", "nic.add"}
OneShot(c) == Does[c].do \in {"br.del", "br.addinf", "br.delinf", "nic.add", "nic.remove",
  "link.up", "link.down", "link.name", "link.mtu", "addr.add", "addr.del",
  "route.add", "route.del", "bond.del"}

\* One LinkByName; the kind of the first is tested before the second is looked up.
LookUp(c) ==
  /\ OneShot(c) /\ pc[c] = "new" /\ Len(got[c]) < Len(Names(c))
  /\ \E i \in Index(Names(c)[Len(got[c]) + 1]) :
       /\ WantsBridge(c) /\ got[c] = <<>> => Kind(i) = "bridge"
       /\ Reads(c, IF Len(got[c]) + 1 = Len(Names(c)) THEN "found" ELSE "new",
                Append(got[c], i))
  /\ UNCHANGED net

LookUpFails(c) ==
  /\ OneShot(c) /\ pc[c] = "new" /\ Len(got[c]) < Len(Names(c))
  /\ LET is == Index(Names(c)[Len(got[c]) + 1]) IN
       \/ is = {}
       \/ WantsBridge(c) /\ got[c] = <<>> /\ \E i \in is : Kind(i) # "bridge"
  /\ Step(c, "error")
  /\ UNCHANGED net

\* Routes that RouteListFiltered finds for what the command gives.
Matches(c) ==
  {r \in routes : /\ r.index = got[c][1]
                  /\ Does[c].dst # "" => r.dst = Does[c].dst
                  /\ Does[c].gw # "" => r.gw = Does[c].gw}

\* What the kernel asks of the one call.
Allowed(c) ==
  LET i == got[c][1] IN
  /\ \A k \in DOMAIN Names(c) : Exists(got[c][k])
  /\ Is(c, "br.delinf") => Link(got[c][2]).master = i
  /\ Is(c, "link.name") => Index(Does[c].new) = {} /\ ~Link(i).up
  /\ Is(c, "addr.add") => [index |-> i, ip |-> Does[c].ip] \notin addrs
  /\ Is(c, "addr.del") => [index |-> i, ip |-> Does[c].ip] \in addrs
  /\ Is(c, "route.add") =>
       Link(i).up /\ [index |-> i, dst |-> Does[c].dst, gw |-> Does[c].gw] \notin routes
  /\ Is(c, "route.del") => got[c][2] \in routes

Route(c, i) ==
  /\ routes' = IF Is(c, "route.add")
               THEN routes \cup {[index |-> i, dst |-> Does[c].dst, gw |-> Does[c].gw]}
               ELSE routes \ {got[c][2]}
  /\ UNCHANGED <<links, addrs, fresh, bonding>>

\* A link that goes down takes its routes with it.
SetDown(i) ==
  /\ links' = {IF l.index = i THEN [l EXCEPT !.up = FALSE] ELSE l : l \in links}
  /\ routes' = {r \in routes : r.index # i}
  /\ UNCHANGED <<addrs, fresh, bonding>>

Call(c) ==
  LET i == got[c][1] IN
  CASE Does[c].do \in {"br.del", "bond.del"} -> LinkDel(i)
    [] Does[c].do \in {"br.addinf", "nic.add"} -> SetMaster(got[c][2], i)
    [] Is(c, "br.delinf") -> SetMaster(got[c][2], 0)
    [] Is(c, "nic.remove") -> SetMaster(i, 0)
    [] Is(c, "link.up") -> SetUp(i, TRUE)
    [] Is(c, "link.down") -> SetDown(i)
    [] Is(c, "link.name") -> SetName(i, Does[c].new)
    [] Is(c, "link.mtu") -> SetMTU(i, Does[c].mtu)
    [] Is(c, "addr.add") -> AddrAdd(i, Does[c].ip)
    [] Is(c, "addr.del") ->
         /\ addrs' = addrs \ {[index |-> i, ip |-> Does[c].ip]}
         /\ UNCHANGED <<links, routes, fresh, bonding>>
    [] Does[c].do \in {"route.add", "route.del"} -> Route(c, i)

\* routeDel lists the routes first and wants one.
Filter(c) ==
  /\ Is(c, "route.del") /\ pc[c] = "found"
  /\ \/ \E r \in Matches(c) : Matches(c) = {r} /\ Reads(c, "filtered", Append(got[c], r))
     \/ Cardinality(Matches(c)) # 1 /\ Step(c, "error")
  /\ UNCHANGED net

OneCall(c) ==
  /\ OneShot(c) /\ pc[c] = IF Is(c, "route.del") THEN "filtered" ELSE "found"
  /\ IF Allowed(c) THEN Call(c) /\ Step(c, "ok") ELSE UNCHANGED net /\ Step(c, "error")

-----------------------------------------------------------------------------
(* br.add and bond.add, which make a link. *)

\* The deferred LinkDel takes away only what LinkAdd has made.
BrAdd(c) ==
  /\ Is(c, "br.add") /\ pc[c] = "new"
  /\ IF Index(Does[c].name) # {} THEN Step(c, "error") /\ UNCHANGED net
     ELSE LinkAdd(Does[c].name, "bridge") /\ Reads(c, "made", <<fresh>>)

BrAddHwAddr(c) ==
  /\ Is(c, "br.add") /\ pc[c] = "made"
  /\ \/ Step(c, "ok") /\ UNCHANGED net
     \/ /\ Fault(c, "error")
        /\ IF Exists(got[c][1]) THEN LinkDel(got[c][1]) ELSE UNCHANGED net

\* initBonding: the bond0 that the module makes is deleted, or whatever bears that name.
InitBonding(c) ==
  /\ Is(c, "bond.add") /\ pc[c] = "new"
  /\ Goto(c, "slaves") /\ todo' = [todo EXCEPT ![c] = Does[c].slaves]
  /\ LinksGone(IF bonding THEN {} ELSE Index("bond0")) /\ bonding' = TRUE
  /\ UNCHANGED <<got, faults>>

\* LinkSetMTU and LinkSetUp of one interface; what was done to those before it stays.
BondSlave(c) ==
  /\ Is(c, "bond.add") /\ pc[c] = "slaves" /\ todo[c] # <<>>
  /\ LET is == Index(Head(todo[c]))
         Put(l) == [l EXCEPT !.mtu = Does[c].mtu, !.up = TRUE] IN
       \/ is = {} /\ Step(c, "error") /\ UNCHANGED net
       \/ \E i \in is :
            /\ ChangeLink(i, Put) /\ Goto(c, "slaves")
            /\ got' = [got EXCEPT ![c] = Append(@, i)]
            /\ todo' = [todo EXCEPT ![c] = Tail(@)]
            /\ UNCHANGED faults
       \/ \E i \in is : SetMTU(i, Does[c].mtu) /\ Fault(c, "error")

BondLinkAdd(c) ==
  /\ Is(c, "bond.add") /\ pc[c] = "slaves" /\ todo[c] = <<>>
  /\ IF Index(Does[c].name) # {} THEN Step(c, "error") /\ UNCHANGED net
     ELSE LinkAdd(Does[c].name, "bond") /\ Reads(c, "made", Append(got[c], fresh))

\* LinkSetUp and ifenslave; nothing is undone when that fails.
BondEnslave(c) ==
  LET bond == got[c][Len(got[c])]
      slaves == {got[c][k] : k \in 1..(Len(got[c]) - 1)} IN
  /\ Is(c, "bond.add") /\ pc[c] = "made"
  /\ \/ /\ Exists(bond) /\ \A i \in slaves : Exists(i)
        /\ links' = {IF l.index = bond THEN [l EXCEPT !.up = TRUE]
                     ELSE IF l.index \in slaves THEN [l EXCEPT !.master = bond] ELSE l :
                       l \in links}
        /\ Step(c, "ok") /\ UNCHANGED <<addrs, routes, fresh, bonding>>
     \/ ~(Exists(bond) /\ \A i \in slaves : Exists(i)) /\ Step(c, "error") /\ UNCHANGED net
     \/ Exists(bond) /\ SetUp(bond, TRUE) /\ Fault(c, "error")

LinkStep(c) ==
  \/ LookUp(c) \/ LookUpFails(c) \/ Filter(c) \/ OneCall(c)
  \/ BrAdd(c) \/ BrAddHwAddr(c)
  \/ InitBonding(c) \/ BondSlave(c) \/ BondLinkAdd(c) \/ BondEnslave(c)
=============================================================================
