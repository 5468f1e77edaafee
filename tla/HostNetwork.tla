---------------------------- MODULE HostNetwork ----------------------------
(***************************************************************************)
(* The host's network: the ip.*, nft.*, bridge.* and socat commands and    *)
(* the monitor of addresses, on the same links and the same ruleset, each  *)
(* with a lock of its own or none.                                         *)
(***************************************************************************)
EXTENDS Forwards, Bridges

netvars == <<commands, net, nft, socat, watch, bridges>>

NetInit == InitCommands /\ InitLinks /\ InitFirewall /\ InitForwards /\ InitBridges

NetCommand(c) ==
  /\ ~Ended(c)
  /\ \/ LinkStep(c) /\ Told /\ UNCHANGED <<nft, socat, bridges>>
     \/ FirewallStep(c) /\ UNCHANGED <<net, socat, watch, bridges>>
     \/ ForwardStep(c) /\ UNCHANGED <<net, watch, bridges>>
     \/ BridgeStep(c) /\ Told /\ UNCHANGED socat

NetNext ==
  \/ \E c \in Coming : NetCommand(c)
  \/ \E p \in 1..Ports : (Expire(p) \/ ServiceStarts(p)) /\ UNCHANGED <<net, watch, bridges>>
  \/ Watch /\ UNCHANGED <<pc, got, todo, net, nft, socat, bridges>>
  \/ \E b \in Bridge : DnsmasqEnds(b) /\ UNCHANGED <<socat, watch>>

\* Every handler is a goroutine that goes on; there are finitely many steps in all, so
\* that one of them always goes on is as much as that each does.
NetFairness == WF_netvars(\E c \in Coming : NetCommand(c))

NetSpec == NetInit /\ [][NetNext]_netvars /\ NetFairness

-----------------------------------------------------------------------------
Named(c, handlers) == Does[c].do \in handlers

(* No rule is in the firewall that nobody will take out: each dnat rule is one *)
(* of the forward that the socat plugin has for that port, so a port leads to  *)
(* one destination, and each port that is open is in the nft plugin's store.   *)
(* The lists and the ruleset change at different times, one rule at a time,    *)
(* under two locks, and any of the programs may fail (socat.go:95-247,         *)
(* actions.go:58-125).                                                         *)
RulesKnown ==
  \A r \in chain :
    /\ r.body[1] = "dnat" =>
         LET f == rules[r.body[4]] IN
           f # NoForward /\ \E k \in DOMAIN f.protos : RulesOf(f)[k] = r.body
    /\ r.body[1] = "open" => r.body \in opened

(* A port that is reserved is not forwarded (socat.go:139-143, 274-303): a    *)
(* forward ends the reservation of its port, whoever has it, and reserve      *)
(* passes over the ports of forwards; and a reserve that was answered "ok"    *)
(* never has more ports than it was asked for.                                *)
ReservedApart ==
  /\ \A p \in 1..Ports : reserved[p] # "none" => rules[p] = NoForward
  /\ \A c \in Coming : Is(c, "socat.reserve") /\ pc[c] = "ok" =>
       LET mine == {p \in 1..Ports : reserved[p] = c} IN
         mine = {} \/ Cardinality(mine) <= Does[c].n

(* When the monitor is up, has told of every change and all that it printed is *)
(* read, the set that the dnat rules match holds the addresses of the host,    *)
(* all of them unless the last IPv4Set failed, and no other but those whose    *)
(* deletion failed: those stay.  A reading that fails spends its line, one     *)
(* that misses a link takes its addresses out, and a link that is renamed to   *)
(* or from a name that is passed over is not told of: until the next line the  *)
(* set is then another (watch.go:13-37, 53-84).                                *)
HostSetCurrent ==
  monitor /\ ~deaf /\ lines = 0 /\ ~notify.busy =>
    /\ unset \/ CurrentIPs \subseteq host
    /\ host \subseteq CurrentIPs \cup undeleted

(* No two bridges are given networks that intersect, as long as ip.addr.add    *)
(* gives no address meanwhile: the lock of create is held from the test to the *)
(* address (bridge.go:117-135, 467-528).                                       *)
NetworksApart ==
  (\A c \in Coming : ~Named(c, {"addr.add"})) =>
    \A a, b \in addrs : a # b => <<a.ip, b.ip>> \notin Overlaps

\* The ip.* commands take links and addresses away behind the plugin's back; bond.del
\* does not ask for a bond (ip.go:134-150), bond.add deletes a link for its name.
Meddled == \E c \in Coming :
  \/ Named(c, {"br.del", "addr.del", "addr.add", "link.name"})
  \/ Is(c, "bond.del") /\ Does[c].name \in Bridge
  \/ Is(c, "bond.add") /\ "bond0" \in Bridge
Resting == \A c \in Coming : ~Inside(c)

(* When no bridge is being made or deleted, and nothing failed, no masquerade  *)
(* is left of a network that no link has, no dnsmasq of a bridge that is not   *)
(* there, unless its signal was lost, and no rule of an index that is gone,    *)
(* but that of a create that failed (bridge.go:466-529, 615-658).  This is so  *)
(* for the bridges of which no two creates and deletes met: delete lets the    *)
(* lock go before it looks for its link, which a create may be making by then. *)
BridgeGone ==
  Resting /\ faults = 0 /\ ~Meddled =>
    /\ \A r \in chain : r.body[1] = "masquerade" =>
         \/ \E a \in addrs : Network[a.ip] = r.body[2]
         \/ \E c \in Coming : Is(c, "create") /\ Masquerade(Does[c].ip) = r.body
                           /\ Does[c].name \in met
    /\ \A b \in Bridge \ met : dnsmasq[b] = "running" =>
         Index(b) # {} \/ <<"dnsmasq", b>> \in left
    /\ \A r \in chain : r.body[1] = "iif" =>
         \/ Exists(r.body[2])
         \/ \E c \in Coming : Is(c, "create") /\ Does[c].name \in met
         \/ \E c \in Coming : Is(c, "create") /\ pc[c] = "error" /\ got[c] = <<r.body[2]>>

(* Every command ends, whatever fails: each path out of a handler lets go of   *)
(* the locks it took (socat.go:95-97, bridge.go:467-468, actions.go:64-65).    *)
CommandsEnd == <>(\A c \in Coming : Ended(c))
=============================================================================
