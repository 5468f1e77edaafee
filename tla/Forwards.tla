------------------------------ MODULE Forwards ------------------------------
(***************************************************************************)
(* The socat plugin: port forwards as dnat rules of the nft plugin, the    *)
(* reservation of ports, and the set of the host's own addresses that the  *)
(* rules match, which follows `ip monitor address`.                        *)
(*                                                                         *)
(* A forward is [ns, src, protos, port, dest]; dest stands for the address *)
(* and the port behind.  Ports are 1..Ports instead of 1024..65535.  The   *)
(* lock sm is only ever taken with rm held, so rm stands for both.         *)
(***************************************************************************)
EXTENDS Firewall, Links

CONSTANTS
  Ports,    \* how many ports there are
  Service,  \* those a service of the host listens on, once it has started
  Ns,       \* namespaces
  Under,    \* those whose text begins with each: "container-1" and "container-10"
  Host,     \* addresses, and no link's names, that "host" may hold
  Passed    \* names of links whose addresses do not count: "lo", "tun..." and "tap..."

\* getSource has read the port and the protocols; reserve refuses to reserve none.
ASSUME ForwardsAssumption ==
  /\ Ports \in Nat
  /\ \A c \in Cmd :
       /\ Does[c].do \in {"socat.set", "socat.remove"} => Does[c].port \in 1..Ports
       /\ Does[c].do = "socat.set" => Does[c].protos \in Seq(STRING)
       /\ Does[c].do = "socat.reserve" => Does[c].n \in Int \ {0}

NoForward == [ns |-> "none"]

VARIABLES
  rules,     \* the forward of each port
  rm,        \* the command that holds the lock, or "free"
  reserved,  \* who has reserved each port and still has it, or "none"
  listens,   \* services that listen
  host,      \* elements of the set nat host
  current,   \* addresses that the last notification has read
  monitor,   \* `ip monitor address` runs
  lines,     \* lines it has printed that have not been handled
  notify,    \* the handler of a line: whether it runs, what it takes out and puts in
  undeleted, \* addresses whose deletion from the set has failed
  unset,     \* the last IPv4Set has failed
  deaf       \* addresses changed without a line, or were not read whole at the last one

watch == <<host, current, monitor, lines, notify, undeleted, unset, deaf>>
socat == <<rules, rm, reserved, listens>>

Idle == [busy |-> FALSE, gone |-> {}, ips |-> {}]

InitForwards ==
  /\ rules = [p \in 1..Ports |-> NoForward] /\ rm = "free"
  /\ reserved = [p \in 1..Ports |-> "none"] /\ listens = {}
  /\ host = {} /\ current = {} /\ monitor = TRUE /\ lines = 0
  /\ notify = Idle
  /\ undeleted = {} /\ unset = FALSE /\ deaf = FALSE

\* The texts of a forward's rules, one for each protocol that was given.
RulesOf(f) == [k \in DOMAIN f.protos |-> <<"dnat", f.src, f.protos[k], f.port, f.dest>>]
Forward(c) == [ns |-> Does[c].ns, src |-> Does[c].src, protos |-> Does[c].protos,
               port |-> Does[c].port, dest |-> Does[c].dest]
\* forwardID is made of these three.
Id(f) == <<f.ns, f.port, f.dest>>

Lock(c) == rm = "free" /\ rm' = c
Unlock == rm' = "free"

-----------------------------------------------------------------------------
(* SetPortForward *)

SetPortForward(c) ==
  /\ Is(c, "socat.set") /\ pc[c] = "new" /\ rm = "free"
  /\ IF rules[Does[c].port] # NoForward
     THEN Step(c, "error") /\ UNCHANGED socat
     ELSE Lock(c) /\ Step(c, "applying") /\ UNCHANGED <<rules, reserved, listens>>
  /\ UNCHANGED nft

\* Mutant: the reservation stays.
KeepsReservation(c) ==
  /\ Is(c, "socat.set") /\ pc[c] = "applying" /\ Unlock
  /\ \/ /\ Apply(RulesOf(Forward(c))) /\ Step(c, "ok")
        /\ rules' = [rules EXCEPT ![Does[c].port] = Forward(c)]
     \/ Fault(c, "error") /\ UNCHANGED <<chain, handle, rules>>
  /\ UNCHANGED <<opened, m, reserved, listens>>

\* Whoever has reserved the port loses it: reservations are not consulted.
SetApply(c) ==
  /\ Is(c, "socat.set") /\ pc[c] = "applying" /\ Unlock
  /\ \/ /\ Apply(RulesOf(Forward(c))) /\ Step(c, "ok")
        /\ rules' = [rules EXCEPT ![Does[c].port] = Forward(c)]
        /\ reserved' = [reserved EXCEPT ![Does[c].port] = "none"]
        /\ UNCHANGED listens
     \/ Fault(c, "error") /\ UNCHANGED <<chain, handle, rules, reserved, listens>>
  /\ UNCHANGED <<opened, m>>

-----------------------------------------------------------------------------
(* RemovePortForward and RemoveAll *)

RemovePortForward(c) ==
  /\ Is(c, "socat.remove") /\ pc[c] = "new" /\ rm = "free"
  /\ LET f == rules[Does[c].port] IN
       IF f = NoForward \/ Id(f) # <<Does[c].ns, Does[c].port, Does[c].dest>>
       THEN Step(c, "error") /\ UNCHANGED rm
       ELSE Lock(c) /\ Reads(c, "finding", <<Does[c].port>>)
  /\ UNCHANGED <<rules, reserved, listens, nft>>

\* The forwards of the namespace, and of those whose text begins with it.
OfNs(ns) == {p \in 1..Ports : rules[p] # NoForward /\ rules[p].ns \in Under[ns]}
Orders(S) == {s \in [1..Cardinality(S) -> S] : \A p \in S : \E k \in DOMAIN s : s[k] = p}

RemoveAll(c) ==
  /\ Is(c, "socat.removeall") /\ pc[c] = "new" /\ rm = "free"
  /\ IF OfNs(Does[c].ns) = {} THEN Step(c, "ok") /\ UNCHANGED rm
     ELSE Lock(c) /\ \E s \in Orders(OfNs(Does[c].ns)) : Reads(c, "finding", s)
  /\ UNCHANGED <<rules, reserved, listens, nft>>

Removes(c) == Is(c, "socat.remove") \/ Is(c, "socat.removeall")
AllRules(ports) ==
  LET all[k \in 0..Len(ports)] ==
        IF k = 0 THEN <<>> ELSE all[k - 1] \o RulesOf(rules[ports[k]])
  IN  all[Len(ports)]

\* Mutant: the lock is kept when the rules are not found.
KeepsLock(c) ==
  /\ Removes(c) /\ pc[c] = "finding"
  /\ \/ FindRules(c, AllRules(got[c]), "dropping")
     \/ FindFails(c, AllRules(got[c]), "error")
  /\ UNCHANGED <<socat, nft>>

RemoveFind(c) ==
  /\ Removes(c) /\ pc[c] = "finding"
  /\ \/ FindRules(c, AllRules(got[c]), "dropping") /\ UNCHANGED rm
     \/ FindFails(c, AllRules(got[c]), "error") /\ Unlock
  /\ UNCHANGED <<rules, reserved, listens, nft>>

\* Mutant: the forwards are forgotten though a rule could not be dropped.
ForgetsAnyway(c) ==
  /\ Removes(c) /\ pc[c] = "dropping"
  /\ \/ Drop(c) /\ UNCHANGED <<rules, rm>>
     \/ /\ \/ DropFails(c) /\ Goto(c, "error") /\ UNCHANGED <<got, todo>>
           \/ todo[c] = <<>> /\ Step(c, "ok")
        /\ Unlock /\ UNCHANGED <<chain, handle>>
        /\ rules' = [p \in 1..Ports |->
             IF \E k \in DOMAIN got[c] : got[c][k] = p THEN NoForward ELSE rules[p]]
  /\ UNCHANGED <<opened, m, reserved, listens>>

\* When one of the rules cannot be dropped, every forward stays in the map.
RemoveDrop(c) ==
  /\ Removes(c) /\ pc[c] = "dropping"
  /\ \/ Drop(c) /\ UNCHANGED <<rules, rm>>
     \/ /\ DropFails(c) /\ Goto(c, "error") /\ Unlock
        /\ UNCHANGED <<chain, handle, rules, got, todo>>
     \/ /\ todo[c] = <<>> /\ Step(c, "ok") /\ Unlock
        /\ rules' = [p \in 1..Ports |->
             IF \E k \in DOMAIN got[c] : got[c][k] = p THEN NoForward ELSE rules[p]]
        /\ UNCHANGED <<chain, handle>>
  /\ UNCHANGED <<opened, m, reserved, listens>>

-----------------------------------------------------------------------------
(* Reserve *)

\* info.port comes before the locks.
ReserveList(c) ==
  /\ Is(c, "socat.reserve") /\ pc[c] = "new"
  /\ Reads(c, "listed", <<listens>>)
  /\ UNCHANGED <<socat, nft>>

Free(c) == {p \in 1..Ports : /\ p \notin got[c][1] /\ rules[p] = NoForward
                            /\ reserved[p] = "none"}
Lowest(S, n) == {p \in S : Cardinality({q \in S : q < p}) < n}

\* With too few ports the call fails, and those it has found stay reserved.
Reserve(c) ==
  /\ Is(c, "socat.reserve") /\ pc[c] = "listed" /\ rm = "free"
  /\ LET found == Lowest(Free(c), Does[c].n) IN
       /\ reserved' = [p \in 1..Ports |-> IF p \in found THEN c ELSE reserved[p]]
       /\ Step(c, IF Cardinality(found) < Does[c].n THEN "error" ELSE "ok")
  /\ UNCHANGED <<rules, rm, listens, nft>>

\* Two minutes have passed.
Expire(p) ==
  /\ reserved[p] # "none" /\ reserved' = [reserved EXCEPT ![p] = "none"]
  /\ UNCHANGED <<rules, rm, listens, nft, commands>>

ServiceStarts(p) ==
  /\ p \in Service \ listens /\ listens' = listens \cup {p}
  /\ UNCHANGED <<rules, rm, reserved, nft, commands>>

-----------------------------------------------------------------------------
(* The set of the host's addresses *)

\* getCurrentIPs: those of links of the kinds and names that count.
Counted == {l \in links : /\ l.name \notin Passed
                          /\ l.kind \in {"device", "tun", "tap", "openvswitch", "bridge", "bond"}}
IPsOf(L) == {a.ip : a \in {b \in addrs : \E l \in L : l.index = b.index}}
CurrentIPs == IPsOf(Counted)

\* A change of an address is a line of the monitor; a new name of its link is none.
Told == LET heard == monitor /\ addrs' # addrs IN
        /\ lines' = IF heard THEN lines + 1 ELSE lines
        /\ deaf' = (deaf \/ (~heard /\ CurrentIPs' # CurrentIPs))
        /\ UNCHANGED <<host, current, monitor, notify, undeleted, unset>>

\* What was read is put in; what was known and was not read comes out first.
Noted(ips) == notify' = [busy |-> TRUE, gone |-> current \ ips, ips |-> ips] /\ current' = ips

\* Mutant: what was read is not kept for the next line.
ForgetsCurrent ==
  /\ ~notify.busy /\ lines > 0 /\ lines' = lines - 1
  /\ notify' = [busy |-> TRUE, gone |-> current \ CurrentIPs, ips |-> CurrentIPs]
  /\ deaf' = FALSE
  /\ UNCHANGED <<host, current, monitor, undeleted, unset, faults>>

\* The hook reads the addresses.  If the links cannot be listed the line is spent; if the
\* addresses of one cannot, it has none.
NotifyRead ==
  /\ ~notify.busy /\ lines > 0 /\ lines' = lines - 1
  /\ \/ Noted(CurrentIPs) /\ deaf' = FALSE /\ UNCHANGED faults
     \/ Faulty /\ deaf' = TRUE /\ \E l \in Counted : Noted(IPsOf(Counted \ {l}))
     \/ Faulty /\ deaf' = TRUE /\ UNCHANGED <<notify, current>>
  /\ UNCHANGED <<host, monitor, undeleted, unset>>

\* IPv4SetDel of one; a failure is only logged.
NotifyDelete(ip) ==
  /\ ip \in notify.gone
  /\ notify' = [notify EXCEPT !.gone = @ \ {ip}]
  /\ \/ ip \in host /\ host' = host \ {ip} /\ UNCHANGED <<undeleted, faults>>
     \/ ip \in host /\ Faulty /\ undeleted' = undeleted \cup {ip} /\ UNCHANGED host
     \/ ip \notin host /\ UNCHANGED <<host, undeleted, faults>>
  /\ UNCHANGED <<current, monitor, lines, unset, deaf>>

\* IPv4Set adds all that were read.
NotifySet ==
  /\ notify.busy /\ notify.gone = {} /\ notify' = Idle
  /\ \/ host' = host \cup notify.ips /\ unset' = FALSE /\ UNCHANGED faults
     \/ notify.ips # {} /\ Faulty /\ unset' = TRUE /\ UNCHANGED host
  /\ undeleted' = undeleted \ notify.ips
  /\ UNCHANGED <<current, monitor, lines, deaf>>

\* The monitor dies and its protected job starts it again; what it has printed is read.
MonitorDies == monitor /\ Faulty /\ monitor' = FALSE
               /\ UNCHANGED <<host, current, lines, notify, undeleted, unset, deaf>>
MonitorStarts == ~monitor /\ monitor' = TRUE
                 /\ UNCHANGED <<host, current, lines, notify, undeleted, unset, deaf, faults>>

Watch == NotifyRead \/ (\E ip \in Host : NotifyDelete(ip)) \/ NotifySet
         \/ MonitorDies \/ MonitorStarts

ForwardStep(c) ==
  \/ SetPortForward(c) \/ SetApply(c)
  \/ RemovePortForward(c) \/ RemoveAll(c) \/ RemoveFind(c) \/ RemoveDrop(c)
  \/ ReserveList(c) \/ Reserve(c)
=============================================================================
