---------------------------- MODULE HostStorage ----------------------------
(***************************************************************************)
(* The host's storage: the filesystem.*, disk.* and btrfs.* commands, the  *)
(* mounts of flists, and the backups and flists made of containers; and    *)
(* the control groups, which are directories as well.                      *)
(***************************************************************************)
EXTENDS Files, Btrfs, Flists, Backups, Cgroups

vars == <<commands, files, disks, btrfs, flists, backups, cgroups>>

Init == /\ InitCommands /\ InitFiles /\ InitDisks /\ InitBtrfs /\ InitFlists /\ InitBackups
        /\ InitCgroups

\* Which of the plugins a command is for.
FileCommands == {"open", "read", "write", "close", "mkdir", "remove", "exists", "list", "move",
                 "chmod", "chown"}
BackupCommands == {"backup", "flist.create", "restore"}
Volumes(c) == ~ForGroup(c) /\ Does[c].do \notin FileCommands \cup BackupCommands /\ ~UsesFlist(c)

Command(c) ==
  /\ ~Ended(c)
  /\ \/ /\ Does[c].do \in FileCommands /\ FileStep(c)
        /\ UNCHANGED <<disks, btrfs, flists, backups, cgroups>>
     \/ /\ Volumes(c)
        /\ \/ DiskStep(c) /\ UNCHANGED <<files, btrfs, flists, backups, cgroups>>
           \/ BtrfsStep(c) /\ UNCHANGED <<files, flists, backups, cgroups>>
     \/ UsesFlist(c) /\ FlistStep(c) /\ UNCHANGED <<files, disks, btrfs, backups, cgroups>>
     \/ /\ Does[c].do \in BackupCommands /\ BackupStep(c)
        /\ UNCHANGED <<files, disks, btrfs, flists, cgroups>>
     \/ ForGroup(c) /\ CgroupStep(c) /\ UNCHANGED <<files, disks, btrfs, flists, backups>>

Cleaning == /\ \E d \in Coming : ExpireFile(d) \/ Janitor(d) \/ Evicted(d)
            /\ UNCHANGED <<disks, btrfs, flists, backups, cgroups>>

\* What happens to devices, flists and containers that no command looks at is left out.
Looked(handlers) == \E c \in Coming : ~Ended(c) /\ Does[c].do \in handlers
LookedAt(f) == \E c \in Coming : /\ ~Ended(c) /\ UsesFlist(c)
                                 /\ f = Does[c].flist \/ (Is(c, "merge") /\ f = Does[c].base)
DiskCommands == {"disk.getinfo", "disk.list", "disk.protect", "disk.spindown", "disk.isstandby",
                 "btrfs.create", "btrfs.list"}

Next ==
  \/ \E c \in Coming : Command(c)
  \/ Cleaning
  \/ /\ Looked(DiskCommands) /\ \E d \in Dev : Unplug(d)
     /\ UNCHANGED <<files, btrfs, flists, backups, cgroups>>
  \/ /\ \/ \E m \in Mounts : Ready(m) \/ Exits(m)
        \/ \E f \in Flist : LookedAt(f) /\ Publish(f)
     /\ UNCHANGED <<files, disks, btrfs, backups, cgroups>>
  \/ /\ Looked(BackupCommands)
     /\ \E k \in Con : GetsPID(k) \/ Ends(k)
     /\ UNCHANGED <<files, disks, btrfs, flists, cgroups>>

\* Every handler goes on, the time passes and the janitor of the cache comes round.
Fairness == WF_vars(\E c \in Coming : Command(c)) /\ WF_vars(Cleaning)

Spec == Init /\ [][Next]_vars /\ Fairness

-----------------------------------------------------------------------------
(* An open file is reached by its descriptor, or will be closed by whoever took *)
(* it out of the cache; and a descriptor whose file is closed is known only     *)
(* when a read or a write entered it again, in between its Get and its Set the  *)
(* descriptor was closed or expired (fs.go:100-110, 176-177, 190, 202-207).     *)
DescriptorsKept ==
  \A d \in Coming :
    /\ file[d] = "open" =>
         \/ cache[d] # "none" \/ pc[d] = "entering" \/ d \in leaving
         \/ \E c \in Coming : Is(c, "close") /\ Does[c].fd = d /\ pc[c] = "closing"
    /\ cache[d] # "none" /\ file[d] = "closed" => d \in revived

WholeIn(h) ==
  \E v \in Versions(h[1]) : \A x \in DOMAIN Contents[h[1]][v] :
    extracted[h][x] = [version |-> v, size |-> Contents[h[1]][v][x]]
\* Two files of one name, one of which is in no sub-directory: .valid never passes.
Twins(h) == \E v \in Versions(h[1]), x, y \in File :
              {x, y} \subseteq DOMAIN Contents[h[1]][v] /\ x # y /\ x \in Top /\ BaseName[x] = BaseName[y]

\* A failed extraction has left a file that .valid has nothing of: it never passes either.
Leftover(h) == \E v \in Versions(h[1]), x \in Top :
                 /\ valid[h].is = "list" /\ valid[h].sizes \in Listed(h, v)
                 /\ extracted[h][x].version # 0 /\ x \notin DOMAIN Contents[h[1]][v]
Served(h) == WholeIn(h) \/ Twins(h) \/ Leftover(h) \/ valid[h].is = "garbled"

(* Whoever is told that an flist is there finds all the files of one version of *)
(* it, and they stay whole while a daemon serves them, whatever other mounts    *)
(* and merges of the flist, failed downloads and new versions come, as long as  *)
(* its .valid can pass: else every later mount empties the files that are being *)
(* served, one after the other, and fills them again (flist.go:112-265).        *)
MountsWhole ==
  /\ \A c \in Coming : UsesFlist(c) /\ pc[c] \in {"checked", "running", "signal"} =>
       Served(got[c][1])
  /\ \A m \in Mounts : daemon[m].state \in {"starting", "serving"} =>
       Served(daemon[m].backend[2])

(* A backup that succeeds, and that no other backup or flist_create of its      *)
(* container nor the container's end crossed, was read at rest and holds the    *)
(* arguments of its container; what is restored from any backup has the         *)
(* arguments of the container that was backed up; and an flist that is answered *)
(* without such a crossing is whole (backup.go:102-131, flist.go:88-123).       *)
SnapshotsRight ==
  /\ \A b \in Coming : Is(b, "backup") /\ pc[b] = "ok" /\ b \notin overlapped =>
       snapshot[b] = [meta |-> args[Does[b].con], rest |-> TRUE]
  /\ \A r \in Coming : Is(r, "restore") /\ pc[r] = "ok" => got[r][1] = args[Does[Does[r].from].con]
  /\ \A c \in Coming : Is(c, "flist.create") /\ pc[c] = "ok" /\ Alive(Does[c].con) /\ c \notin overlapped =>
       archive[Made(c)] # "torn" \/ \E d \in Coming \ {c} : Is(d, "flist.create") /\ Made(d) = Made(c)

(* The quota that subvol_list tells of a subvolume is its own, also when the    *)
(* subvolume was deleted and another made at its path between the list and the  *)
(* groups (btrfs.go:383-406), or it is told that there is none; unless another  *)
(* file system was mounted at the place in between, whose ids are the same.     *)
QuotaOfItself ==
  [][\A c \in Coming : Is(c, "btrfs.subvol_list") /\ pc[c] = "groups" /\ pc'[c] = "ok" =>
       \A s \in got'[c][1] :
         s.quota # 0 => s \in subs \/ s.volume # at[Does[c].place]]_vars

(* Without another command for the group in between: the limits of memory are   *)
(* those asked for, though the kernel takes memory and swap one after the other *)
(* and refuses one that does not fit the other; if a write failed, whose error  *)
(* nobody looks at, each is the one asked for or the one there was, and the     *)
(* answer still says which; a group that was ensured takes processes, unless an *)
(* error of a reset was left aside; a group that was removed is gone with       *)
(* nobody in it, whatever it had (cgroups.go:50-126, memorgy.go:57-88,          *)
(* actions.go:168-181, cpuset.go:33-41).                                        *)
LimitsAsTold ==
  [][\A c \in Coming :
       ForGroup(c) /\ ~Ended(c) /\ pc'[c] = "ok" /\ c \notin crossed =>
         LET g == GroupName(c) IN
         /\ Is(c, "cgroup.memory.spec") /\ Does[c].mem # 0 =>
              LET asked == <<Does[c].mem, Does[c].mem + Does[c].swap>>
                  set == <<group'[g].mem, group'[g].swap>> IN
              /\ \A i \in 1..2 : set[i] = asked[i] \/ (c \in dropped /\ set[i] = got[c][i])
              /\ got'[c] = <<set[1], set[2] - set[1]>> \/ (c \in dropped' /\ got'[c] = <<0, 0>>)
         /\ Is(c, "cgroup.ensure") => Takes(g)' \/ \E d \in dropped' : GroupName(d) = g
         /\ Is(c, "cgroup.remove") => g \notin DOMAIN group' /\ InGroup(g)' = {}]_vars

(* In the end everything is given back, whatever fails and whoever crosses: no  *)
(* file stays open, for the cache lets go of what is not used, no container     *)
(* stays stopped, no flist locked, no .corex.meta in a root, no unpacked        *)
(* archive but of an Untar that failed (fs.go:101, backup.go:106-131,           *)
(* flist.go:88-89, 141-143, zfs/plugin/flist.go:240-245).                       *)
Released ==
  <>[](/\ \A c \in Coming : file[c] # "open"
       /\ stopped = {} /\ \A k \in Con : meta[k] = "none"
       /\ \A h \in Hash : flock[h] = "free"
       /\ faults = 0 => unpacked = {})
=============================================================================
