------------------------------ MODULE Backups ------------------------------
(***************************************************************************)
(* backup, restore and flist_create of the containers plugin.  A backup    *)
(* and an flist_create stop the processes of the container with SIGSTOP,   *)
(* let restic or zflist read its root, and continue them; nothing keeps    *)
(* two of them, or the end of the container, apart.                        *)
(***************************************************************************)
EXTENDS HostCommands

CONSTANTS
  Con,      \* containers
  AtFirst,  \* those that run at first
  Archive   \* flists that are made in a container

\* What is restored is a backup of the same behaviour.
ASSUME BackupsAssumption ==
  /\ "none" \notin Con
  /\ \A c \in Cmd :
       /\ Does[c].do \in {"backup", "flist.create"} => Does[c].con \in Con
       /\ Does[c].do = "flist.create" => Does[c].to \in Archive
  /\ \A G \in Given : \A r \in G :
       Does[r].do = "restore" => Does[r].from \in G /\ Does[Does[r].from].do = "backup"

VARIABLES
  con,        \* "absent", "starting": it has no PID yet, "running", "ended"
  args,       \* whose arguments it was created with
  stopped,    \* containers whose processes are stopped
  meta,       \* whose arguments .corex.meta in its root holds, "none"
  snapshot,   \* what each backup has saved: whose arguments, and whether at rest
  archive,    \* the flists made: "none", "raw", "torn", "whole"
  unpacked,   \* archives whose directory to add the router file is there
  overlapped     \* backups and flist_creates that another one, or the end, overlapped

backups == <<con, args, stopped, meta, snapshot, archive, unpacked, overlapped>>

NoSnapshot == [meta |-> "none", rest |-> FALSE]

InitBackups ==
  /\ con = [k \in Con |-> IF k \in AtFirst THEN "running" ELSE "absent"]
  /\ args = [k \in Con |-> k]
  /\ stopped = {} /\ meta = [k \in Con |-> "none"]
  /\ snapshot = [c \in Coming |-> NoSnapshot]
  /\ archive = [a \in Con \X Archive |-> "none"] /\ unpacked = {}
  /\ overlapped = {}

Pauses(c) == Does[c].do \in {"backup", "flist.create"}
Underway(c) == ~Ended(c) /\ pc[c] # "new"
On(k) == {c \in Coming : Pauses(c) /\ Underway(c) /\ Does[c].con = k}
Alive(k) == con[k] \in {"starting", "running"}

-----------------------------------------------------------------------------
(* What both have in common *)

\* The container is looked up, and must have its PID.
FindContainer(c) ==
  LET k == Does[c].con IN
  /\ Pauses(c) /\ pc[c] = "new"
  /\ IF con[k] = "running" /\ Does[c].valid
     THEN /\ Step(c, IF Is(c, "backup") THEN "meta" ELSE "stop")
          /\ overlapped' = IF On(k) = {} THEN overlapped ELSE overlapped \cup On(k) \cup {c}
     ELSE Step(c, "error") /\ UNCHANGED overlapped
  /\ UNCHANGED <<con, args, stopped, meta, snapshot, archive, unpacked>>

\* SIGSTOP to the group of processes; no error is looked at.
Stop(c) ==
  LET k == Does[c].con IN
  /\ Pauses(c) /\ pc[c] = "stop"
  /\ Step(c, IF Is(c, "backup") THEN "restic" ELSE "zflist")
  /\ stopped' = IF Alive(k) THEN stopped \cup {k} ELSE stopped
  /\ UNCHANGED <<con, args, meta, snapshot, archive, unpacked, overlapped>>

\* Mutant: only a success continues the container.
ContinueOnSuccess(c) ==
  /\ Pauses(c) /\ pc[c] = "continue"
  /\ stopped' = IF got[c][1] = "ok" THEN stopped \ {Does[c].con} ELSE stopped
  /\ snapshot' = [d \in Coming |-> IF got[c][1] = "ok" /\ d \in On(Does[c].con) /\ pc[d] = "saving"
                                THEN [snapshot[d] EXCEPT !.rest = FALSE] ELSE snapshot[d]]
  /\ Step(c, IF Is(c, "backup") THEN "clean" ELSE got[c][1])
  /\ UNCHANGED <<con, args, meta, archive, unpacked, overlapped>>

\* The deferred SIGCONT; got then ends with what will be answered.
Continue(c) ==
  /\ Pauses(c) /\ pc[c] = "continue"
  /\ stopped' = stopped \ {Does[c].con}
  /\ snapshot' = [d \in Coming |-> IF d \in On(Does[c].con) /\ pc[d] = "saving"
                                THEN [snapshot[d] EXCEPT !.rest = FALSE] ELSE snapshot[d]]
  /\ Step(c, IF Is(c, "backup") THEN "clean" ELSE got[c][1])
  /\ UNCHANGED <<con, args, meta, archive, unpacked, overlapped>>

Finish(c, what) == Reads(c, "continue", <<what>>)
FinishFault(c) == Faulty /\ Goto(c, "continue") /\ got' = [got EXCEPT ![c] = <<"error">>]
                  /\ UNCHANGED todo

-----------------------------------------------------------------------------
(* backup *)

WriteMeta(c) ==
  LET k == Does[c].con IN
  /\ Is(c, "backup") /\ pc[c] = "meta"
  /\ \/ Alive(k) /\ Step(c, "listing") /\ meta' = [meta EXCEPT ![k] = args[k]]
     \/ ~Alive(k) /\ Step(c, "error") /\ UNCHANGED meta
     \/ Fault(c, "error") /\ UNCHANGED meta
  /\ UNCHANGED <<con, args, stopped, snapshot, archive, unpacked, overlapped>>

\* Mutant: .corex.meta is removed as soon as the files are listed.
ListAndRemove(c) ==
  LET k == Does[c].con IN
  /\ Is(c, "backup") /\ pc[c] = "listing"
  /\ IF Alive(k) THEN Reads(c, "stop", <<meta[k] # "none">>) ELSE Reads(c, "clean", <<"error">>)
  /\ meta' = [meta EXCEPT ![k] = "none"]
  /\ UNCHANGED <<con, args, stopped, snapshot, archive, unpacked, overlapped>>

\* The files are named one by one: got says whether .corex.meta is among them.
ListRoot(c) ==
  LET k == Does[c].con IN
  /\ Is(c, "backup") /\ pc[c] = "listing"
  /\ IF Alive(k) THEN Reads(c, "stop", <<meta[k] # "none">>) ELSE Reads(c, "clean", <<"error">>)
  /\ UNCHANGED backups

\* restic begins, and has read everything; a file that is gone by then is left out, or
\* ends it.
Restic(c) ==
  LET k == Does[c].con IN
  /\ Is(c, "backup") /\ pc[c] = "restic"
  /\ Step(c, "saving")
  /\ snapshot' = [snapshot EXCEPT ![c].rest = k \in stopped]
  /\ UNCHANGED <<con, args, stopped, meta, archive, unpacked, overlapped>>
Saved(c) ==
  LET k == Does[c].con IN
  /\ Is(c, "backup") /\ pc[c] = "saving"
  /\ \/ /\ Finish(c, "ok")
        /\ snapshot' = [snapshot EXCEPT ![c].meta = IF got[c][1] THEN meta[k] ELSE "none"]
     \/ got[c][1] /\ meta[k] = "none" /\ Finish(c, "error") /\ UNCHANGED snapshot
     \/ FinishFault(c) /\ UNCHANGED snapshot
  /\ UNCHANGED <<con, args, stopped, meta, archive, unpacked, overlapped>>

\* The deferred Remove comes last.
RemoveMeta(c) ==
  /\ Is(c, "backup") /\ pc[c] = "clean" /\ Step(c, got[c][1])
  /\ meta' = [meta EXCEPT ![Does[c].con] = "none"]
  /\ UNCHANGED <<con, args, stopped, snapshot, archive, unpacked, overlapped>>

-----------------------------------------------------------------------------
(* flist_create: zflist, then the router file is added to the archive: it is  *)
(* unpacked beside it, emptied, and packed again.                             *)

Made(c) == <<Does[c].con, Does[c].to>>

Zflist(c) ==
  /\ Is(c, "flist.create") /\ pc[c] = "zflist"
  /\ \/ /\ Alive(Does[c].con) /\ Step(c, "unpack")
        /\ archive' = [archive EXCEPT ![Made(c)] = "raw"]
     \/ ~Alive(Does[c].con) /\ Finish(c, "error") /\ UNCHANGED archive
     \/ FinishFault(c) /\ UNCHANGED archive
  /\ UNCHANGED <<con, args, stopped, meta, snapshot, unpacked, overlapped>>

\* Untar: what a failure of it has unpacked stays.
Unpack(c) ==
  /\ Is(c, "flist.create") /\ pc[c] = "unpack"
  /\ \/ /\ archive[Made(c)] \in {"raw", "whole"} /\ Step(c, "empty")
        /\ unpacked' = unpacked \cup {Made(c)}
     \/ /\ archive[Made(c)] \in {"none", "torn"} /\ Finish(c, "error")
        /\ unpacked' = IF archive[Made(c)] = "torn" THEN unpacked \cup {Made(c)} ELSE unpacked
     \/ FinishFault(c) /\ unpacked' = unpacked \cup {Made(c)}
  /\ UNCHANGED <<con, args, stopped, meta, snapshot, archive, overlapped>>

\* The router file is written in the directory, and the archive emptied.
Empty(c) ==
  /\ Is(c, "flist.create") /\ pc[c] = "empty"
  /\ \/ Made(c) \in unpacked /\ Step(c, "pack") /\ archive' = [archive EXCEPT ![Made(c)] = "torn"]
     \/ Made(c) \notin unpacked /\ Finish(c, "error") /\ UNCHANGED archive
     \/ FinishFault(c) /\ UNCHANGED archive
  /\ unpacked' = IF pc'[c] = "pack" THEN unpacked ELSE unpacked \ {Made(c)}
  /\ UNCHANGED <<con, args, stopped, meta, snapshot, overlapped>>

\* Another one that writes the same file.
PacksToo(c) == {d \in On(Does[c].con) \ {c} : pc[d] = "pack" /\ Made(d) = Made(c)}
Pack(c) ==
  /\ Is(c, "flist.create") /\ pc[c] = "pack"
  /\ \/ /\ Made(c) \in unpacked /\ Finish(c, "ok")
        /\ \E a \in {"whole"} \cup {"torn" : d \in PacksToo(c)} :
             archive' = [archive EXCEPT ![Made(c)] = a]
     \/ Made(c) \notin unpacked /\ Finish(c, "error") /\ UNCHANGED archive
     \/ FinishFault(c) /\ UNCHANGED archive
  /\ unpacked' = unpacked \ {Made(c)}
  /\ UNCHANGED <<con, args, stopped, meta, snapshot, overlapped>>

-----------------------------------------------------------------------------
(* restore: only .corex.meta is restored first, to a directory of its own; a  *)
(* container is then created of what it says, with the snapshot as its root.  *)

RestoreMeta(c) ==
  LET s == snapshot[Does[c].from] IN
  /\ Is(c, "restore") /\ pc[c] = "new" /\ pc[Does[c].from] \in {"ok", "error"}
  /\ \/ pc[Does[c].from] = "ok" /\ s.meta # "none" /\ Reads(c, "create", <<s.meta>>)
     \/ /\ pc[Does[c].from] = "error" \/ s.meta = "none"
        /\ Step(c, "error")
     \/ Fault(c, "error")
  /\ UNCHANGED backups

RestoreCreate(c) ==
  /\ Is(c, "restore") /\ pc[c] = "create"
  /\ \/ \E k \in Con : /\ con[k] = "absent" /\ Step(c, "ok")
                       /\ con' = [con EXCEPT ![k] = "starting"]
                       /\ args' = [args EXCEPT ![k] = got[c][1]]
     \/ (\A k \in Con : con[k] # "absent") /\ Step(c, "error") /\ UNCHANGED <<con, args>>
     \/ Fault(c, "error") /\ UNCHANGED <<con, args>>
  /\ UNCHANGED <<stopped, meta, snapshot, archive, unpacked, overlapped>>

-----------------------------------------------------------------------------
\* A container gets its PID, and ends: its processes and its root are gone.
GetsPID(k) ==
  /\ con[k] = "starting" /\ con' = [con EXCEPT ![k] = "running"]
  /\ UNCHANGED <<commands, args, stopped, meta, snapshot, archive, unpacked, overlapped>>
Ends(k) ==
  /\ con[k] = "running" /\ Faulty /\ con' = [con EXCEPT ![k] = "ended"]
  /\ stopped' = stopped \ {k} /\ meta' = [meta EXCEPT ![k] = "none"]
  /\ archive' = [a \in DOMAIN archive |-> IF a[1] = k THEN "none" ELSE archive[a]]
  /\ unpacked' = {a \in unpacked : a[1] # k}
  /\ overlapped' = overlapped \cup On(k)
  /\ UNCHANGED <<pc, got, todo, args, snapshot>>

BackupStep(c) ==
  \/ FindContainer(c) \/ Stop(c) \/ Continue(c) \/ WriteMeta(c) \/ ListRoot(c) \/ Restic(c)
  \/ Saved(c) \/ RemoveMeta(c) \/ Zflist(c) \/ Unpack(c) \/ Empty(c) \/ Pack(c)
  \/ RestoreMeta(c) \/ RestoreCreate(c)
=============================================================================
