------------------------------- MODULE Files -------------------------------
(***************************************************************************)
(* The filesystem plugin.  A descriptor is known by the ID that open gave  *)
(* it, here the open command itself, as long as a cache keeps it: 5        *)
(* minutes from its last use.  What leaves the cache is closed, in a step  *)
(* of its own; a read or a write takes a descriptor out of the cache's     *)
(* reach in one step and enters it again in the next (fs.go:202-207).      *)
(*                                                                         *)
(* A path is the sequence of its names.  What a file holds is left out.    *)
(***************************************************************************)
EXTENDS HostCommands

CONSTANT Path  \* the paths there may be

\* A descriptor is asked for by the ID that an open of this behaviour gives.
ASSUME DescriptorsAssumption ==
  \A G \in Given : \A c \in G :
    Does[c].do \in {"read", "write", "close"} => Does[c].fd \in G

VARIABLES
  node,     \* what is at each path: its kind, permissions and owner
  file,     \* the file of each descriptor: "none", "open" or "closed"
  cache,    \* "none", "kept", "expired": there until the janitor comes
  leaving,  \* descriptors out of the cache and not closed yet
  revived   \* descriptors entered again after they had left

files == <<node, file, cache, leaving, revived>>

Nothing == [kind |-> "none", perm |-> 0, owner |-> "root"]
Directory == [kind |-> "dir", perm |-> 493, owner |-> "root"]

InitFiles ==
  /\ node = [p \in Path |-> Nothing]
  /\ file = [c \in Coming |-> "none"] /\ cache = [c \in Coming |-> "none"]
  /\ leaving = {} /\ revived = {}

Above(p) == {SubSeq(p, 1, i) : i \in 1..(Len(p) - 1)}
Beneath(p) == {q \in Path : p \in Above(q)}
IsAt(p, kind) == node[p].kind = kind
Reachable(p) == \A q \in Above(p) : IsAt(q, "dir")

-----------------------------------------------------------------------------
(* mode: the letters of an open mode, as Python has them *)

Letters(m, S) == {i \in DOMAIN m : m[i] \in S}
ValidMode(m) == /\ Letters(m, {"r", "x", "w", "a", "+"}) = DOMAIN m
                /\ Cardinality(Letters(m, {"r", "x", "w", "a"})) = 1
CanRead(m) == Letters(m, {"r", "+"}) # {}
CanWrite(m) == Letters(m, {"x", "w", "a", "+"}) # {}
Creates(m) == Letters(m, {"x", "w", "a"}) # {}
Exclusive(m) == Letters(m, {"x"}) # {}

-----------------------------------------------------------------------------
(* Descriptors *)

Opens(m, p) ==
  /\ ValidMode(m) /\ Reachable(p)
  /\ IsAt(p, "none") => Creates(m)
  /\ ~IsAt(p, "none") => ~Exclusive(m)
  /\ IsAt(p, "dir") => ~CanWrite(m)

OpenFile(c) ==
  LET d == Does[c] IN
  /\ Is(c, "open") /\ pc[c] = "new"
  /\ \/ /\ Opens(d.mode, d.path) /\ Step(c, "entering")
        /\ file' = [file EXCEPT ![c] = "open"]
        /\ node' = IF IsAt(d.path, "none")
                   THEN [node EXCEPT ![d.path] = [kind |-> "file", perm |-> d.perm, owner |-> "root"]]
                   ELSE node
     \/ ~Opens(d.mode, d.path) /\ Step(c, "error") /\ UNCHANGED <<file, node>>
  /\ UNCHANGED <<cache, leaving, revived>>

OpenEnter(c) ==
  /\ Is(c, "open") /\ pc[c] = "entering" /\ Step(c, "ok")
  /\ cache' = [cache EXCEPT ![c] = "kept"]
  /\ UNCHANGED <<node, file, leaving, revived>>

\* Nobody knows an ID before it was answered.
Known(c) == Ended(Does[c].fd)

\* What had expired already is there for Delete all the same.
Close(c) ==
  LET d == Does[c].fd IN
  /\ Is(c, "close") /\ pc[c] = "new" /\ Known(c)
  /\ Step(c, IF cache[d] = "none" THEN "ok" ELSE "closing")
  /\ cache' = [cache EXCEPT ![d] = "none"]
  /\ UNCHANGED <<node, file, leaving, revived>>

CloseFile(c) ==
  /\ Is(c, "close") /\ pc[c] = "closing" /\ Step(c, "ok")
  /\ file' = [file EXCEPT ![Does[c].fd] = "closed"]
  /\ UNCHANGED <<node, cache, leaving, revived>>

\* Mutant: what Get found is not in the cache until it is used.
TakesOut(c) ==
  /\ Does[c].do \in {"read", "write"} /\ pc[c] = "new" /\ Known(c)
  /\ Step(c, IF cache[Does[c].fd] = "kept" THEN "refreshing" ELSE "error")
  /\ cache' = [cache EXCEPT ![Does[c].fd] = "none"]
  /\ UNCHANGED <<node, file, leaving, revived>>

\* read and write: Get, Set with another 5 minutes, and the system call.
Get(c) ==
  /\ Does[c].do \in {"read", "write"} /\ pc[c] = "new" /\ Known(c)
  /\ Step(c, IF cache[Does[c].fd] = "kept" THEN "refreshing" ELSE "error")
  /\ UNCHANGED files

Refresh(c) ==
  LET d == Does[c].fd IN
  /\ Does[c].do \in {"read", "write"} /\ pc[c] = "refreshing" /\ Step(c, "using")
  /\ cache' = [cache EXCEPT ![d] = "kept"]
  /\ revived' = IF cache[d] = "none" THEN revived \cup {d} ELSE revived
  /\ UNCHANGED <<node, file, leaving>>

Serves(c) ==
  LET d == Does[c].fd IN
  /\ file[d] = "open"
  /\ Is(c, "read") => CanRead(Does[d].mode)
  /\ Is(c, "write") => CanWrite(Does[d].mode)
Use(c) ==
  /\ Does[c].do \in {"read", "write"} /\ pc[c] = "using"
  /\ \/ Serves(c) /\ Step(c, "ok")
     \/ ~Serves(c) /\ Step(c, "error")
     \/ Fault(c, "error")
  /\ UNCHANGED files

\* Five minutes pass; every 30 seconds the janitor takes out what has expired, and then
\* closes it.
ExpireFile(d) ==
  /\ cache[d] = "kept" /\ cache' = [cache EXCEPT ![d] = "expired"]
  /\ UNCHANGED <<commands, node, file, leaving, revived>>
Janitor(d) ==
  /\ cache[d] = "expired" /\ cache' = [cache EXCEPT ![d] = "none"]
  /\ leaving' = leaving \cup {d}
  /\ UNCHANGED <<commands, node, file, revived>>
Evicted(d) ==
  /\ d \in leaving /\ leaving' = leaving \ {d}
  /\ file' = [file EXCEPT ![d] = "closed"]
  /\ UNCHANGED <<commands, node, cache, revived>>

-----------------------------------------------------------------------------
(* Paths *)

\* MkdirAll, RemoveAll, Stat, ReadDir and Rename.  Stat of a path beneath a file fails
\* with another error than "does not exist".
Mkdir(c) ==
  LET p == Does[c].path
      all == Above(p) \cup {p} IN
  /\ Is(c, "mkdir") /\ pc[c] = "new"
  /\ \/ /\ \A q \in all : ~IsAt(q, "file")
        /\ node' = [q \in Path |-> IF q \in all /\ IsAt(q, "none") THEN Directory ELSE node[q]]
        /\ Step(c, "ok")
     \/ (\E q \in all : IsAt(q, "file")) /\ Step(c, "error") /\ UNCHANGED node
  /\ UNCHANGED <<file, cache, leaving, revived>>

RemovePath(c) ==
  LET p == Does[c].path IN
  /\ Is(c, "remove") /\ pc[c] = "new" /\ Step(c, "ok")
  /\ node' = [q \in Path |-> IF q = p \/ q \in Beneath(p) THEN Nothing ELSE node[q]]
  /\ UNCHANGED <<file, cache, leaving, revived>>

PathExists(c) ==
  LET p == Does[c].path IN
  /\ Is(c, "exists") /\ pc[c] = "new"
  /\ Reads(c, "ok", <<~IsAt(p, "none") \/ \E q \in Above(p) : IsAt(q, "file")>>)
  /\ UNCHANGED files

Children(p) == {q \in Beneath(p) : Len(q) = Len(p) + 1 /\ ~IsAt(q, "none")}
ListDir(c) ==
  LET p == Does[c].path IN
  /\ Is(c, "list") /\ pc[c] = "new"
  /\ \/ IsAt(p, "dir") /\ Reads(c, "ok", <<[q \in Children(p) |-> node[q]]>>)
     \/ ~IsAt(p, "dir") /\ Step(c, "error")
  /\ UNCHANGED files

Moved(p, to, q) ==  \* where what comes to q was
  IF q = to THEN p ELSE p \o SubSeq(q, Len(to) + 1, Len(q))
Moves(p, to) ==
  /\ ~IsAt(p, "none") /\ Reachable(to) /\ p \notin Above(to)
  /\ IsAt(p, "dir") => ~IsAt(to, "file") /\ Children(to) = {}
  /\ IsAt(p, "file") => ~IsAt(to, "dir")
  /\ \A q \in Beneath(p) : ~IsAt(q, "none") => to \o SubSeq(q, Len(p) + 1, Len(q)) \in Path
Move(c) ==
  LET p == Does[c].path
      to == Does[c].destination IN
  /\ Is(c, "move") /\ pc[c] = "new"
  /\ \/ /\ Moves(p, to) /\ Step(c, "ok")
        /\ node' = [q \in Path |->
             IF q = to \/ q \in Beneath(to)
             THEN IF Moved(p, to, q) \in Path THEN node[Moved(p, to, q)] ELSE Nothing
             ELSE IF q = p \/ q \in Beneath(p) THEN Nothing ELSE node[q]]
     \/ ~Moves(p, to) /\ Step(c, "error") /\ UNCHANGED node
  /\ UNCHANGED <<file, cache, leaving, revived>>

\* chmod and chown of one path, or a walk: todo has the paths to come.  A path that has
\* gone in between is passed over.
Changed(c, n) == IF Is(c, "chmod") THEN [n EXCEPT !.perm = Does[c].perm]
                 ELSE [n EXCEPT !.owner = Does[c].owner]
Change(c) ==
  LET p == Does[c].path IN
  /\ Does[c].do \in {"chmod", "chown"} /\ pc[c] = "new"
  /\ IF Is(c, "chown") /\ Does[c].owner = "unknown" THEN Step(c, "error") /\ UNCHANGED node
     ELSE IF Does[c].recursive
     THEN Goto(c, "walking") /\ todo' = [todo EXCEPT ![c] = <<p>>] /\ UNCHANGED <<got, faults, node>>
     ELSE IF IsAt(p, "none") THEN Step(c, "error") /\ UNCHANGED node
     ELSE Step(c, "ok") /\ node' = [node EXCEPT ![p] = Changed(c, @)]
  /\ UNCHANGED <<file, cache, leaving, revived>>

Walk(c) ==
  LET p == Head(todo[c]) IN
  /\ Does[c].do \in {"chmod", "chown"} /\ pc[c] = "walking"
  /\ \/ /\ todo[c] # <<>> /\ ~IsAt(p, "none")
        /\ node' = [node EXCEPT ![p] = Changed(c, @)]
        /\ todo' = [todo EXCEPT ![c] = InSomeOrder(Children(p)) \o Tail(@)]
        /\ UNCHANGED <<pc, got, faults>>
     \/ /\ todo[c] # <<>> /\ IsAt(p, "none")
        /\ todo' = [todo EXCEPT ![c] = Tail(@)] /\ UNCHANGED <<pc, got, faults, node>>
     \/ todo[c] = <<>> /\ Step(c, "ok") /\ UNCHANGED node
  /\ UNCHANGED <<file, cache, leaving, revived>>

FileStep(c) ==
  \/ OpenFile(c) \/ OpenEnter(c) \/ Close(c) \/ CloseFile(c) \/ Get(c) \/ Refresh(c) \/ Use(c)
  \/ Mkdir(c) \/ RemovePath(c) \/ PathExists(c) \/ ListDir(c) \/ Move(c) \/ Change(c) \/ Walk(c)
=============================================================================
