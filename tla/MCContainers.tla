---------------------------- MODULE MCContainers ----------------------------
(***************************************************************************)
(* Small instances of Containers, beside a container that was there        *)
(* before: two containers that want the same port forwarded, one of them   *)
(* and one with a vlan or a bridge, and commands on a container with a     *)
(* default nic or a vlan.                                                  *)
(***************************************************************************)
EXTENDS Containers

CONSTANTS ra, rb, rc, rd, pa, add, remove, forward

SomeNics == [r \in Req |-> CASE r \in {ra, rb} -> {"default"} [] r = rc -> {"vlan"} [] r = rd -> {"bridge"}]
SamePort == [r \in Req |-> IF r \in {ra, rb} THEN {pa} ELSE {}]
OneAsk == [o \in Op |-> CASE o = add -> {<<"nic-add", "bridge">>}
                         [] o = remove -> {<<"nic-remove", "default">>, <<"nic-remove", "vlan">>}
                         [] o = forward -> {<<"forward-add", pa>>}]
Together == {{ra, rb}, {ra, rc, remove}, {ra, rd}, {ra, forward, remove}, {rc, add, remove}}
=============================================================================
