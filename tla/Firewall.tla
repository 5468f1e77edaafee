------------------------------ MODULE Firewall ------------------------------
(***************************************************************************)
(* The nft plugin.  Apply hands a file to nft, which takes all of it or    *)
(* none; DropRules reads the ruleset, finds the handle of each rule by its *)
(* text and deletes the rules one by one.  nft.open_port and nft.drop_port *)
(* keep what they opened in the plugin's store.                            *)
(*                                                                         *)
(* A rule is its text, a tuple that begins with the word that tells which  *)
(* chain it is in: "dnat" nat pre, "masquerade" nat post, "open" and "iif" *)
(* filter input.  The tables and chains are there, init has applied them.  *)
(***************************************************************************)
EXTENDS HostCommands

CONSTANT HostBits  \* networks written with bits of a host: 10.1.2.3/8
ASSUME FirewallAssumption == "masked" \notin HostBits

VARIABLES
  chain,   \* the rules, records [body, handle]
  handle,  \* the last handle that nft gave
  opened,  \* the plugin's store: the ports it has opened
  m        \* the command that holds the lock, or "free"

nft == <<chain, handle, opened, m>>

InitFirewall == chain = {} /\ handle = 0 /\ opened = {} /\ m = "free"

\* nft prints a network without the bits of its host, and Parse renders what nft
\* prints; every other text this code writes comes back as it was written.
Rendered(body) ==
  IF body[1] = "dnat" /\ body[2] \in HostBits THEN [body EXCEPT ![2] = "masked"] ELSE body

Apply(bodies) ==
  /\ chain' = chain \cup
       {[body |-> bodies[k], handle |-> handle + k] : k \in DOMAIN bodies}
  /\ handle' = handle + Len(bodies)

\* The first rule of the chain with the text: each of two equal bodies gets it.
Same(body) == {r.handle : r \in {q \in chain : Rendered(q.body) = body}}
First(body) == CHOOSE h \in Same(body) : \A k \in Same(body) : h <= k
AllFound(bodies) == \A k \in DOMAIN bodies : Same(bodies[k]) # {}
Handles(bodies) == [k \in DOMAIN bodies |-> First(bodies[k])]

\* DropRules(bodies), with findRules: nothing is dropped when a rule is not found.
FindRules(c, bodies, next) ==
  /\ AllFound(bodies) /\ Goto(c, next)
  /\ todo' = [todo EXCEPT ![c] = Handles(bodies)]
  /\ UNCHANGED <<got, faults>>
FindFails(c, bodies, next) ==
  \/ ~AllFound(bodies) /\ Step(c, next)
  \/ AllFound(bodies) /\ Fault(c, next)

Has(h) == \E r \in chain : r.handle = h
Without(h) == {r \in chain : r.handle # h}

\* Drop: nft delete rule ... handle.
Drop(c) ==
  /\ todo[c] # <<>> /\ Has(Head(todo[c]))
  /\ chain' = Without(Head(todo[c]))
  /\ todo' = [todo EXCEPT ![c] = Tail(@)]
  /\ UNCHANGED <<handle, pc, got, faults>>
DropFails(c) ==
  /\ todo[c] # <<>>
  /\ Has(Head(todo[c])) => Faulty
  /\ ~Has(Head(todo[c])) => UNCHANGED faults

-----------------------------------------------------------------------------
(* nft.open_port and nft.drop_port *)

Open(c) == <<"open", Does[c].port>>

\* register: what is open already is refused.
OpenPort(c) ==
  /\ Is(c, "nft.open") /\ pc[c] = "new" /\ m = "free"
  /\ IF Open(c) \in opened THEN Step(c, "error") /\ UNCHANGED nft
     ELSE /\ m' = c /\ opened' = opened \cup {Open(c)}
          /\ Step(c, "applying") /\ UNCHANGED <<chain, handle>>

OpenApply(c) ==
  /\ Is(c, "nft.open") /\ pc[c] = "applying" /\ m' = "free"
  /\ \/ Apply(<<Open(c)>>) /\ Step(c, "ok") /\ UNCHANGED opened
     \/ Fault(c, "error") /\ opened' = opened \ {Open(c)} /\ UNCHANGED <<chain, handle>>

DropPort(c) ==
  /\ Is(c, "nft.drop") /\ pc[c] = "new" /\ m = "free"
  /\ IF Open(c) \notin opened THEN Step(c, "ok") /\ UNCHANGED nft
     ELSE m' = c /\ Step(c, "finding") /\ UNCHANGED <<chain, handle, opened>>

DropPortFind(c) ==
  /\ Is(c, "nft.drop") /\ pc[c] = "finding"
  /\ \/ FindRules(c, <<Open(c)>>, "dropping") /\ UNCHANGED m
     \/ FindFails(c, <<Open(c)>>, "error") /\ m' = "free"
  /\ UNCHANGED <<chain, handle, opened>>

DropPortDrop(c) ==
  /\ Is(c, "nft.drop") /\ pc[c] = "dropping"
  /\ \/ Drop(c) /\ UNCHANGED <<opened, m>>
     \/ /\ DropFails(c) /\ Goto(c, "error") /\ m' = "free"
        /\ UNCHANGED <<chain, handle, opened, got, todo>>
     \/ /\ todo[c] = <<>> /\ Step(c, "ok") /\ m' = "free"
        /\ opened' = opened \ {Open(c)} /\ UNCHANGED <<chain, handle>>

FirewallStep(c) ==
  OpenPort(c) \/ OpenApply(c) \/ DropPort(c) \/ DropPortFind(c) \/ DropPortDrop(c)
=============================================================================
