----------------------------- MODULE MCMachines -----------------------------
(***************************************************************************)
(* One machine is made from an flist, one comes from another host; both    *)
(* want the same port.  Two commands detach one disk of the first, one     *)
(* attaches it again, two forward a second port and take it back.          *)
(***************************************************************************)
EXTENDS Machines

Machine == {"made", "moved"}
Moved == {"moved"}
Made == {"made"}
Ports == {"http", "ssh"}
Wants == [v \in Machine |-> IF v = "made" THEN {"http"} ELSE {"ssh"}]
Disk == {"disk"}
Together == {{"made", "detach1", "detach2"}, {"made", "detach1", "attach"},
             {"made", "moved", "forward", "unforward"}}
Ops == {"detach1", "detach2", "attach", "forward", "unforward"}
OpDoes == [o \in Ops |-> IF o \in {"detach1", "detach2"} THEN "detach" ELSE o]
OpOn == [o \in Ops |-> "made"]
OpWith == [o \in Ops |-> IF o \in {"detach1", "detach2", "attach"} THEN "disk" ELSE "ssh"]
=============================================================================
