------------------------------- MODULE Flists -------------------------------
(***************************************************************************)
(* The zfs plugin: flists are extracted in a directory named by their      *)
(* hash, under a lock of the file .valid in it, which lists the files'     *)
(* sizes; a g8ufs daemon serves that directory at the target, with a       *)
(* directory of its own for what is written there.                         *)
(*                                                                         *)
(* An flist may be published again under its name: Contents[f][v] are the  *)
(* files of its version v, with their sizes.  The hash of a remote flist   *)
(* is of its content, that of a local one is of its path (flist.go:36-44). *)
(***************************************************************************)
EXTENDS HostCommands

CONSTANTS
  Flist,      \* names of flists
  Contents,   \* of each, the files of each version
  Remote,     \* those that are downloaded
  Readable,   \* those with an extension that extract knows
  BaseName,   \* the last part of the name of each file
  Top,        \* files that are in no sub-directory
  Namespace,
  Target

File == DOMAIN BaseName
Versions(f) == DOMAIN Contents[f]
Hash == UNION {{<<f, v>> : v \in {0} \cup Versions(f)} : f \in Flist}
Mounts == Namespace \X Target

ASSUME FlistsAssumption ==
  /\ IsFiniteSet(File) /\ Top \subseteq File
  /\ \A f \in Flist : /\ Len(Contents[f]) \in Nat \ {0} /\ Versions(f) = 1..Len(Contents[f])
                       /\ \A v \in Versions(f) : DOMAIN Contents[f][v] \subseteq File
  /\ \A c \in Cmd : Does[c].do \in {"mount", "merge"} =>
       Does[c].flist \in Flist /\ Does[c].ns \in Namespace /\ Does[c].target \in Target

VARIABLES
  version,   \* the version of each flist that is published
  extracted, \* in the directory of each hash: version and size of each file, 0: none
  valid,     \* its .valid
  flock,     \* who holds the lock of that file
  daemon,    \* the g8ufs of each namespace and target
  backends,  \* directories of the daemons, pairs of namespace and hash
  layered    \* triples: to which the third was written in .layered

flists == <<version, extracted, valid, flock, daemon, backends, layered>>

NoFile == [version |-> 0, size |-> 0]
NoDaemon == [state |-> "none", by |-> "none", backend |-> <<>>]
EmptyList == [is |-> "empty", sizes |-> {}]

InitFlists ==
  /\ version = [f \in Flist |-> 1]
  /\ extracted = [h \in Hash |-> [x \in File |-> NoFile]]
  /\ valid = [h \in Hash |-> EmptyList]
  /\ flock = [h \in Hash |-> "free"]
  /\ daemon = [m \in Mounts |-> NoDaemon]
  /\ backends = {} /\ layered = {}

HashOf(f) == <<f, IF f \in Remote THEN version[f] ELSE 0>>
Key(c) == <<Does[c].ns, Does[c].target>>
UsesFlist(c) == Does[c].do \in {"mount", "merge"}

-----------------------------------------------------------------------------
(* getMeta: got begins with the hash.                                        *)

\* For merge: the daemon must be there; got then has which one it was.
Hashed(c) ==
  LET f == Does[c].flist IN
  /\ UsesFlist(c) /\ pc[c] = "new"
  /\ \/ /\ Is(c, "merge") => daemon[Key(c)].state # "none"
        /\ Reads(c, "hashed", <<HashOf(f), daemon[Key(c)].by>>)
     \/ Is(c, "merge") /\ daemon[Key(c)].state = "none" /\ Step(c, "error")
     \/ Fault(c, "error")
  /\ UNCHANGED flists

Sizes(v, f) == {<<BaseName[x], Contents[f][v][x]>> : x \in DOMAIN Contents[f][v]}
\* metaValidate: only files in the directory itself, by their size; one that is missing
\* there is not missed.
Passes(h) ==
  /\ valid[h].is = "list" /\ valid[h].sizes # {}
  /\ \A x \in Top : extracted[h][x].version # 0 => <<BaseName[x], extracted[h][x].size>> \in valid[h].sizes

\* Mutant: without the lock.
ValidateUnlocked(c) ==
  LET h == got[c][1]
      f == h[1] IN
  /\ UsesFlist(c) /\ pc[c] = "hashed"
  /\ \/ Passes(h) /\ Step(c, "checked") /\ UNCHANGED flock
     \/ ~Passes(h) /\ f \notin Readable /\ Step(c, "error") /\ UNCHANGED flock
     \/ /\ ~Passes(h) /\ f \in Readable /\ Goto(c, "extracting") /\ UNCHANGED <<faults, flock>>
        /\ got' = [got EXCEPT ![c] = Append(@, version[f])]
        /\ todo' = [todo EXCEPT ![c] = InSomeOrder(DOMAIN Contents[f][version[f]])]
  /\ UNCHANGED <<version, extracted, valid, daemon, backends, layered>>

\* The lock, then the test; what is downloaded is what is published by then.
Validate(c) ==
  LET h == got[c][1]
      f == h[1] IN
  /\ UsesFlist(c) /\ pc[c] = "hashed" /\ flock[h] = "free"
  /\ \/ Passes(h) /\ Step(c, "checked") /\ UNCHANGED flock
     \/ ~Passes(h) /\ f \notin Readable /\ Step(c, "error") /\ UNCHANGED flock
     \/ /\ ~Passes(h) /\ f \in Readable /\ Goto(c, "extracting") /\ UNCHANGED faults
        /\ flock' = [flock EXCEPT ![h] = c]
        /\ got' = [got EXCEPT ![c] = Append(@, version[f])]
        /\ todo' = [todo EXCEPT ![c] = InSomeOrder(DOMAIN Contents[f][version[f]])]
  /\ UNCHANGED <<version, extracted, valid, daemon, backends, layered>>

Unflock(h) == flock' = [flock EXCEPT ![h] = "free"]

\* One file: created, then filled; Create of one that is there empties it.
Extract(c) ==
  LET h == got[c][1]
      v == got[c][3]
      x == Head(todo[c]) IN
  /\ pc[c] = "extracting" /\ todo[c] # <<>>
  /\ \/ /\ extracted' = [extracted EXCEPT ![h][x] = [version |-> v, size |-> 0]]
        /\ Step(c, "filling") /\ UNCHANGED flock
     \/ Fault(c, "error") /\ Unflock(h) /\ UNCHANGED extracted
  /\ UNCHANGED <<version, valid, daemon, backends, layered>>
Fill(c) ==
  LET h == got[c][1]
      v == got[c][3]
      x == Head(todo[c]) IN
  /\ pc[c] = "filling"
  /\ \/ /\ extracted' = [extracted EXCEPT ![h][x] = [version |-> v, size |-> Contents[h[1]][v][x]]]
        /\ Goto(c, "extracting") /\ todo' = [todo EXCEPT ![c] = Tail(@)]
        /\ UNCHANGED <<got, faults, flock>>
     \/ Fault(c, "error") /\ Unflock(h) /\ UNCHANGED extracted
  /\ UNCHANGED <<version, valid, daemon, backends, layered>>

\* Two entries with one base name: the size of one of them.  The file was read to its
\* end before and is only truncated: what is written comes after a hole, unless it was
\* empty, and cannot be decoded again.
Listed(h, v) == {s \in SUBSET Sizes(v, h[1]) :
                   /\ {e[1] : e \in s} = {e[1] : e \in Sizes(v, h[1])}
                   /\ \A d, e \in s : d[1] = e[1] => d = e}
WriteValid(c) ==
  LET h == got[c][1] IN
  /\ pc[c] = "extracting" /\ todo[c] = <<>>
  /\ \/ /\ Step(c, "checked")
        /\ \E s \in Listed(h, got[c][3]) :
             valid' = [valid EXCEPT ![h] = IF @.is = "empty" THEN [is |-> "list", sizes |-> s]
                                           ELSE [is |-> "garbled", sizes |-> {}]]
     \/ Fault(c, "error") /\ valid' = [valid EXCEPT ![h] = [is |-> "garbled", sizes |-> {}]]
  /\ Unflock(h)
  /\ UNCHANGED <<version, extracted, daemon, backends, layered>>

-----------------------------------------------------------------------------
(* MountFList *)

Serving(m) == daemon[m].state # "none"

\* RemoveAll and MkdirAll of the backend, whoever else has it.
Backend(c) ==
  LET b == <<Does[c].ns, got[c][1]>> IN
  /\ Is(c, "mount") /\ pc[c] = "checked" /\ Step(c, "running")
  /\ backends' = backends \cup {b}
  /\ layered' = {l \in layered : <<l[1], l[2]>> # b}
  /\ UNCHANGED <<version, extracted, valid, flock, daemon>>

\* The job's ID is the namespace and the target.
RunDaemon(c) ==
  /\ Is(c, "mount") /\ pc[c] = "running"
  /\ IF Serving(Key(c)) THEN Step(c, "error") /\ UNCHANGED daemon
     ELSE /\ Step(c, "waiting")
          /\ daemon' = [daemon EXCEPT ![Key(c)] =
               [state |-> "starting", by |-> c, backend |-> <<Does[c].ns, got[c][1]>>]]
  /\ UNCHANGED <<version, extracted, valid, flock, backends, layered>>

\* "mount starts", and the end of the daemon.  One that fails before it is ready waits
\* in its exit hook for its own job, and the mount waits for the hook, for ever.
Ready(m) ==
  /\ daemon[m].state = "starting" /\ Step(daemon[m].by, "ok")
  /\ daemon' = [daemon EXCEPT ![m].state = "serving"]
  /\ UNCHANGED <<version, extracted, valid, flock, backends, layered>>
Exits(m) ==
  /\ \/ daemon[m].state = "serving" /\ daemon' = [daemon EXCEPT ![m] = NoDaemon]
        /\ Faulty /\ UNCHANGED pc
     \/ daemon[m].state = "starting" /\ daemon' = [daemon EXCEPT ![m] = NoDaemon]
        /\ Faulty /\ pc' = [pc EXCEPT ![daemon[m].by] = "ok"]
     \/ daemon[m].state = "starting" /\ daemon' = [daemon EXCEPT ![m].state = "hung"]
        /\ Faulty /\ pc' = [pc EXCEPT ![daemon[m].by] = "hung"]
  /\ UNCHANGED <<got, todo, version, extracted, valid, flock, backends, layered>>

-----------------------------------------------------------------------------
(* MergeFList: .layered is written in the backend of the flist that base     *)
(* names now, and the daemon looked up at first is told.                     *)

Layer(c) ==
  LET b == <<Does[c].ns, HashOf(Does[c].base)>> IN
  /\ Is(c, "merge") /\ pc[c] = "checked"
  /\ \/ /\ b \in backends /\ Step(c, "signal")
        /\ layered' = {l \in layered : <<l[1], l[2]>> # b} \cup {<<b[1], b[2], got[c][1]>>}
     \/ b \notin backends /\ Step(c, "error") /\ UNCHANGED layered
     \/ Fault(c, "error") /\ UNCHANGED layered
  /\ UNCHANGED <<version, extracted, valid, flock, daemon, backends>>

Reload(c) ==
  /\ Is(c, "merge") /\ pc[c] = "signal"
  /\ Step(c, IF Serving(Key(c)) /\ daemon[Key(c)].by = got[c][2] THEN "ok" ELSE "error")
  /\ UNCHANGED flists

\* The flist is published again.
Publish(f) ==
  /\ version[f] + 1 \in Versions(f) /\ version' = [version EXCEPT ![f] = @ + 1]
  /\ UNCHANGED <<commands, extracted, valid, flock, daemon, backends, layered>>

FlistStep(c) ==
  \/ Hashed(c) \/ Validate(c) \/ Extract(c) \/ Fill(c) \/ WriteValid(c)
  \/ Backend(c) \/ RunDaemon(c) \/ Layer(c) \/ Reload(c)
=============================================================================
