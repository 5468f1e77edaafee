------------------------------ MODULE Bridges ------------------------------
(***************************************************************************)
(* The bridge plugin.  create makes the link, lets DNS and DHCP through    *)
(* the firewall, gives the bridge its address, starts its dnsmasq job and  *)
(* masquerades its network, with the lock held; delete undoes that.        *)
(* delete takes the lock and lets it go at once (bridge.go:616-617), and   *)
(* then looks its link up: it runs beside a create and beside other        *)
(* deletes, and may find what a create has half made.                      *)
(*                                                                         *)
(* An address ip stands for a CIDR that Validate accepts, Network[ip] for the  *)
(* text of its network.  A dnsmasq job is "running", or "told" to end and  *)
(* not gone yet: until it is gone its ID is taken.                         *)
(***************************************************************************)
EXTENDS Firewall, Links

CONSTANTS
  Bridge,    \* names of bridges
  Network,   \* the network of each address
  Overlaps   \* pairs of addresses whose networks intersect

\* intersect masks each with the other's mask.
ASSUME BridgesAssumption ==
  /\ \A p \in Overlaps : <<p[2], p[1]>> \in Overlaps
  /\ \A a, b \in DOMAIN Network : Network[a] = Network[b] => <<a, b>> \in Overlaps
  /\ \A c \in Cmd : Does[c].do \in {"create", "delete", "host.add"} => Does[c].name \in Bridge
  /\ \A c \in Cmd : Does[c].do = "create" /\ Does[c].mode # "none" => Does[c].ip \in DOMAIN Network

VARIABLES
  bm,        \* the create that holds the lock, or "free"
  dnsmasq,   \* the dnsmasq job of each name: "none", "running", "told"
  served,    \* files of hosts, pairs of name and host
  dir,       \* names whose directory for them is there
  left,      \* jobs whose signal was lost, links of creates whose nftAllow failed
  met        \* names of which a delete ran beside a create or another delete

bridges == <<bm, dnsmasq, served, dir, left, met>>

InitBridges ==
  /\ bm = "free" /\ dnsmasq = [b \in Bridge |-> "none"]
  /\ served = {} /\ dir = {} /\ left = {} /\ met = {}

Masquerade(ip) == <<"masquerade", Network[ip]>>
Allow(i) == <<"iif", i>>
MayConflict(ip) == \E a \in addrs : <<a.ip, ip>> \in Overlaps

\* Places at which a create or a delete has found its link.
Inside(c) == ~Ended(c) /\ pc[c] \notin {"new", "looking"} /\ Does[c].do \in {"create", "delete"}
Meets(c) == met' = IF \E d \in Coming \ {c} : Inside(d) /\ Does[d].name = Does[c].name
                   THEN met \cup {Does[c].name} ELSE met

-----------------------------------------------------------------------------
(* create *)

\* Mutant: create does not wait for the lock.
CreateUnlocked(c) ==
  /\ Is(c, "create") /\ pc[c] = "new"
  /\ IF Index(Does[c].name) # {} THEN Step(c, "error") /\ UNCHANGED <<net, bm>>
     ELSE bm' = c /\ LinkAdd(Does[c].name, "bridge") /\ Reads(c, "made", <<fresh>>)
  /\ Meets(c)
  /\ UNCHANGED <<nft, dnsmasq, served, dir, left>>

\* got is <<index>> once the link is there.
Create(c) ==
  /\ Is(c, "create") /\ pc[c] = "new" /\ bm = "free"
  /\ IF Index(Does[c].name) # {} THEN Step(c, "error") /\ UNCHANGED <<net, bm>>
     ELSE bm' = c /\ LinkAdd(Does[c].name, "bridge") /\ Reads(c, "made", <<fresh>>)
  /\ Meets(c)
  /\ UNCHANGED <<nft, dnsmasq, served, dir, left>>

\* The deferred LinkDel; the rule and the job that are there by then stay.
Undo(c) == IF Exists(got[c][1]) THEN LinkDel(got[c][1]) ELSE UNCHANGED net

CreateUp(c) ==
  /\ Is(c, "create") /\ pc[c] = "made"
  /\ \/ Exists(got[c][1]) /\ SetUp(got[c][1], TRUE) /\ Step(c, "allowing") /\ UNCHANGED bm
     \/ ~Exists(got[c][1]) /\ Step(c, "error") /\ bm' = "free" /\ UNCHANGED net
     \/ Fault(c, "error") /\ Undo(c) /\ bm' = "free"
  /\ UNCHANGED <<nft, dnsmasq, served, dir, left, met>>

\* nftAllow, whose error is not the one the deferred function looks at.  nft looks the
\* name up: whatever link bears it.
CreateAllow(c) ==
  LET is == Index(Does[c].name) IN
  /\ Is(c, "create") /\ pc[c] = "allowing"
  /\ \/ \E i \in is : Apply(<<Allow(i)>>)
        /\ Step(c, IF Does[c].mode = "none" THEN "done" ELSE "addressing")
        /\ UNCHANGED <<bm, left>>
     \/ /\ is = {} /\ Step(c, "error") /\ bm' = "free"
        /\ UNCHANGED <<chain, handle, left>>
     \/ /\ Fault(c, "error") /\ bm' = "free" /\ left' = left \cup {<<"link", got[c][1]>>}
        /\ UNCHANGED <<chain, handle>>
  /\ UNCHANGED <<net, opened, m, dnsmasq, served, dir, met>>

CreateConflict(c) ==
  /\ Is(c, "create") /\ pc[c] = "addressing"
  /\ IF MayConflict(Does[c].ip)
     THEN Undo(c) /\ Step(c, "error") /\ bm' = "free"
     ELSE Step(c, "adding") /\ UNCHANGED <<net, bm>>
  /\ UNCHANGED <<nft, dnsmasq, served, dir, left, met>>

CreateAddr(c) ==
  LET i == got[c][1] IN
  /\ Is(c, "create") /\ pc[c] = "adding"
  /\ \/ Exists(i) /\ AddrAdd(i, Does[c].ip) /\ Step(c, "dnsmasq") /\ UNCHANGED bm
     \/ ~Exists(i) /\ Step(c, "error") /\ bm' = "free" /\ UNCHANGED net
     \/ Fault(c, "error") /\ Undo(c) /\ bm' = "free"
  /\ UNCHANGED <<nft, dnsmasq, served, dir, left, met>>

\* The files of the hosts are removed first; a job whose ID is taken is refused.
CreateDnsmasq(c) ==
  LET b == Does[c].name IN
  /\ Is(c, "create") /\ pc[c] = "dnsmasq"
  /\ IF Does[c].mode = "dnsmasq"
     THEN dir' = dir \cup {b} /\ served' = {s \in served : s[1] # b}
     ELSE UNCHANGED <<dir, served>>
  /\ IF dnsmasq[b] = "none"
     THEN /\ dnsmasq' = [dnsmasq EXCEPT ![b] = "running"]
          /\ Step(c, IF Does[c].nat THEN "nat" ELSE "done")
          /\ UNCHANGED <<net, bm>>
     ELSE Undo(c) /\ Step(c, "error") /\ bm' = "free" /\ UNCHANGED dnsmasq
  /\ UNCHANGED <<nft, left, met>>

\* setNAT; when it fails the link goes and the dnsmasq job stays.
CreateNat(c) ==
  /\ Is(c, "create") /\ pc[c] = "nat"
  /\ \/ Apply(<<Masquerade(Does[c].ip)>>) /\ Step(c, "done") /\ UNCHANGED <<net, bm>>
     \/ Fault(c, "error") /\ Undo(c) /\ bm' = "free" /\ UNCHANGED <<chain, handle>>
  /\ UNCHANGED <<opened, m, dnsmasq, served, dir, left, met>>

CreateDone(c) ==
  /\ Is(c, "create") /\ pc[c] = "done" /\ Step(c, "ok") /\ bm' = "free"
  /\ UNCHANGED <<net, nft, dnsmasq, served, dir, left, met>>

-----------------------------------------------------------------------------
(* delete *)

\* It waits for a create that has the lock, but not for the next.
Delete(c) ==
  /\ Is(c, "delete") /\ pc[c] = "new" /\ bm = "free" /\ Step(c, "looking")
  /\ UNCHANGED <<net, nft, bridges>>

\* LinkByName.  got is <<index>>, then <<index, networks>>.
DeleteFind(c) ==
  LET is == Index(Does[c].name) IN
  /\ Is(c, "delete") /\ pc[c] = "looking"
  /\ \/ \E i \in is : Kind(i) = "bridge" /\ Reads(c, "signal", <<i>>)
     \/ (\A i \in is : Kind(i) # "bridge") /\ Step(c, "error")
  /\ Meets(c)
  /\ UNCHANGED <<net, nft, bm, dnsmasq, served, dir, left>>

\* Signal gives up when the job is not at its select, or is not running yet; the
\* error is not looked at.
DeleteSignal(c) ==
  LET b == Does[c].name IN
  /\ Is(c, "delete") /\ pc[c] = "signal" /\ Step(c, "addresses")
  /\ \/ dnsmasq[b] = "none" /\ UNCHANGED <<dnsmasq, left>>
     \/ dnsmasq[b] # "none" /\ dnsmasq' = [dnsmasq EXCEPT ![b] = "told"] /\ UNCHANGED left
     \/ dnsmasq[b] # "none" /\ left' = left \cup {<<"dnsmasq", b>>} /\ UNCHANGED dnsmasq
  /\ UNCHANGED <<net, nft, bm, served, dir, met>>

\* Mutant: the addresses are asked for when the link is gone.
AddrsTooLate(c) ==
  /\ Is(c, "delete") /\ pc[c] = "addresses"
  /\ Reads(c, "listing", <<got[c][1], {}>>)
  /\ UNCHANGED <<net, nft, bridges>>

DeleteAddrs(c) ==
  LET i == got[c][1] IN
  /\ Is(c, "delete") /\ pc[c] = "addresses"
  /\ \/ Reads(c, "listing", <<i, {Network[a.ip] : a \in {b \in addrs : b.index = i}}>>)
     \/ Fault(c, "error")
  /\ UNCHANGED <<net, nft, bridges>>

\* unsetNAT: every masquerade of a network of the bridge's, in the order of the text.
Sorted(S) == CHOOSE s \in [1..Cardinality(S) -> S] :
               \A j, k \in DOMAIN s : j < k => s[j] < s[k]
DeleteUnsetNat(c) ==
  /\ Is(c, "delete") /\ pc[c] = "listing"
  /\ \/ /\ Goto(c, "unmasking") /\ UNCHANGED <<got, faults>>
        /\ todo' = [todo EXCEPT ![c] = Sorted({r.handle : r \in
             {q \in chain : q.body[1] = "masquerade" /\ q.body[2] \in got[c][2]}})]
     \/ Fault(c, "error")
  /\ UNCHANGED <<net, nft, bridges>>

\* One rule of unsetNAT or of unNFT; that it cannot be dropped does not end the loop.
DeleteDrop(c) ==
  /\ Is(c, "delete") /\ pc[c] \in {"unmasking", "closing"}
  /\ \/ Drop(c)
     \/ /\ DropFails(c) /\ todo' = [todo EXCEPT ![c] = Tail(@)]
        /\ UNCHANGED <<chain, handle, pc, got>>
  /\ UNCHANGED <<net, opened, m, bridges>>

DeleteLink(c) ==
  /\ Is(c, "delete") /\ pc[c] = "unmasking" /\ todo[c] = <<>>
  /\ \/ Exists(got[c][1]) /\ LinkDel(got[c][1]) /\ Step(c, "deleted")
     \/ ~Exists(got[c][1]) /\ Step(c, "error") /\ UNCHANGED net
     \/ Fault(c, "error") /\ UNCHANGED net
  /\ UNCHANGED <<nft, bridges>>

\* unNFT: the rules of the link's index; no error of it is told.
DeleteUnNft(c) ==
  /\ Is(c, "delete") /\ pc[c] = "deleted"
  /\ \/ /\ Goto(c, "closing") /\ UNCHANGED <<got, faults>>
        /\ todo' = [todo EXCEPT ![c] =
             Sorted({r.handle : r \in {q \in chain : q.body = Allow(got[c][1])}})]
     \/ Fault(c, "ok")
  /\ UNCHANGED <<net, nft, bridges>>

DeleteDone(c) ==
  /\ Is(c, "delete") /\ pc[c] = "closing" /\ todo[c] = <<>> /\ Step(c, "ok")
  /\ UNCHANGED <<net, nft, bridges>>

-----------------------------------------------------------------------------
(* host-add, and the jobs *)

HostAdd(c) ==
  /\ Is(c, "host.add") /\ pc[c] = "new"
  /\ Step(c, IF dnsmasq[Does[c].name] = "none" THEN "error" ELSE "writing")
  /\ UNCHANGED <<net, nft, bridges>>

\* The file needs the directory that only dnsmasq networking makes; the job is then
\* signalled, and what comes of that is the answer.
HostAddWrite(c) ==
  LET b == Does[c].name IN
  /\ Is(c, "host.add") /\ pc[c] = "writing"
  /\ IF b \in dir THEN served' = served \cup {<<b, Does[c].host>>} ELSE UNCHANGED served
  /\ Step(c, "ok") \/ Step(c, "error")
  /\ b \notin dir \/ dnsmasq[b] = "none" => pc'[c] = "error"
  /\ UNCHANGED <<net, nft, bm, dnsmasq, dir, left, met>>

\* A job that was told ends; one may also end of its own, and is not started again.
DnsmasqEnds(b) ==
  /\ \/ dnsmasq[b] = "told" /\ UNCHANGED faults
     \/ dnsmasq[b] = "running" /\ Faulty
  /\ dnsmasq' = [dnsmasq EXCEPT ![b] = "none"]
  /\ UNCHANGED <<net, nft, bm, served, dir, left, met, pc, got, todo>>

BridgeStep(c) ==
  \/ Create(c) \/ CreateUp(c) \/ CreateAllow(c) \/ CreateConflict(c) \/ CreateAddr(c)
  \/ CreateDnsmasq(c) \/ CreateNat(c) \/ CreateDone(c)
  \/ Delete(c) \/ DeleteFind(c) \/ DeleteSignal(c) \/ DeleteAddrs(c) \/ DeleteUnsetNat(c) \/ DeleteDrop(c)
  \/ DeleteLink(c) \/ DeleteUnNft(c) \/ DeleteDone(c)
  \/ HostAdd(c) \/ HostAddWrite(c)
=============================================================================
