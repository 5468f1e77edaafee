----------------------------- MODULE MCDelivery -----------------------------
(***************************************************************************)
(* Delivery for TLC: two commands of one ID, the second known to no        *)
(* plugin, and a dispatch whose own ID is also that of a service.          *)
(***************************************************************************)
EXTENDS Delivery

CONSTANTS c1, c2, d1, i1, r1, idx, idy, idw

MCIdOf == [c \in All |-> CASE c \in {c1, c2} -> idx [] c \in {d1, r1} -> idy [] c = i1 -> idw]
MCCarries == [c \in Dispatch |-> i1]
=============================================================================
