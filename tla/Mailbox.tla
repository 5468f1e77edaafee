------------------------------ MODULE Mailbox -------------------------------
(***************************************************************************)
(* What the result keys in Redis promise to whoever chose the ID of a      *)
(* command: from the moment the ID is taken until the answer is there the  *)
(* ID stays known, there is one answer, it does not change, and only an    *)
(* answered ID may be forgotten and chosen again.                          *)
(***************************************************************************)
CONSTANTS Id, Producer, Nothing

VARIABLES
  status,   \* "free", "pending" or "answered", for each ID
  answer    \* who produced the answer that can be read, Nothing before

vars == <<status, answer>>

Init == status = [id \in Id |-> "free"] /\ answer = [id \in Id |-> Nothing]

Move(id, from, to, by) ==
  /\ status[id] = from
  /\ status' = [status EXCEPT ![id] = to]
  /\ answer' = [answer EXCEPT ![id] = by]

Accept(id) == Move(id, "free", "pending", Nothing)
Answer(id) == \E p \in Producer : Move(id, "pending", "answered", p)
Lapse(id) == Move(id, "answered", "free", Nothing)

Next == \E id \in Id : Accept(id) \/ Answer(id) \/ Lapse(id)

Spec == Init /\ [][Next]_vars
=============================================================================
