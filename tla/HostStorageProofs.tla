------------------------- MODULE HostStorageProofs --------------------------
(***************************************************************************)
(* What holds of the commands on the host's disks, for any commands that   *)
(* come together and any number of faults.  The lemma StorageSteps sorts   *)
(* the steps as NetSteps does on the network, whose lemmas on commands     *)
(* serve here too: files, subvolumes, backups, groups and flists, each with*)
(* its invariant.                                                          *)
(***************************************************************************)
EXTENDS HostStorage, HostNetworkProofs

-----------------------------------------------------------------------------
(* The storage: a step moves one command or none *)

DiskDo == {"disk.getinfo", "disk.list", "disk.protect", "disk.mounts", "disk.spindown",
           "disk.isstandby", "disk.smart", "disk.seektime"}
BtrfsDo == {"btrfs.create", "btrfs.device_add", "btrfs.device_remove", "disk.mount",
            "disk.umount", "btrfs.list", "btrfs.info", "btrfs.subvol_create",
            "btrfs.subvol_delete", "btrfs.subvol_snapshot", "btrfs.subvol_quota",
            "btrfs.subvol_list"}
FlistDo == {"mount", "merge"}
GroupDo == Gets \cup {"cgroup.ensure", "cgroup.remove"}

LEMMA FilesMove ==
  ASSUME CommandsOK, NEW c \in Coming, FileStep(c) PROVE MovesOnly(c)
<1>1. CASE OpenFile(c) \/ OpenEnter(c) \/ Close(c) \/ CloseFile(c)
  BY <1>1, StepMoves DEF OpenFile, OpenEnter, Close, CloseFile
<1>2. CASE Get(c) \/ Refresh(c) \/ Use(c)
  BY <1>2, StepMoves DEF Get, Refresh, Use
<1>3. CASE Mkdir(c) \/ RemovePath(c) \/ PathExists(c) \/ ListDir(c) \/ Move(c)
  BY <1>3, StepMoves DEF Mkdir, RemovePath, PathExists, ListDir, Move
<1>4. CASE Change(c)
  <2>1. CASE \E p : Goto(c, p) /\ UNCHANGED got /\ \E v : todo' = [todo EXCEPT ![c] = v]
    BY <2>1, MovesBy DEF Goto
  <2> QED BY <1>4, <2>1, StepMoves DEF Change
<1>5. CASE Walk(c)
  <2>1. CASE UNCHANGED <<pc, got>> /\ \E v : todo' = [todo EXCEPT ![c] = v]
    BY <2>1, MovesBy
  <2> QED BY <1>5, <2>1, StepMoves DEF Walk
<1> QED BY <1>1, <1>2, <1>3, <1>4, <1>5 DEF FileStep

LEMMA DisksMove ==
  ASSUME CommandsOK, NEW c \in Coming, DiskStep(c) PROVE MovesOnly(c) /\ Does[c].do \in DiskDo
<1>1. CASE GetInfo(c) \/ GetInfoRead(c) \/ GetInfoFree(c)
  BY <1>1, StepMoves DEF GetInfo, GetInfoRead, GetInfoFree, Is, DiskDo
<1>2. CASE List(c)
  <2>1. CASE \E p : Goto(c, p) /\ UNCHANGED got /\ \E v : todo' = [todo EXCEPT ![c] = v]
    BY <1>2, <2>1, MovesBy DEF Goto, List, DiskDo
  <2> QED BY <1>2, <2>1, StepMoves DEF List, DiskDo
<1>3. CASE ListOne(c)
  <2>1. CASE UNCHANGED pc /\ (\E v : got' = [got EXCEPT ![c] = v])
             /\ \E v : todo' = [todo EXCEPT ![c] = v]
    BY <1>3, <2>1, MovesBy DEF ListOne, DiskDo
  <2> QED BY <1>3, <2>1, StepMoves DEF ListOne, DiskDo
<1>4. CASE ListMounts(c) \/ Spindown(c) \/ Ask(c)
  BY <1>4, StepMoves DEF ListMounts, Spindown, Ask, Is, DiskDo
<1> QED BY <1>1, <1>2, <1>3, <1>4 DEF DiskStep

LEMMA BtrfsMove ==
  ASSUME CommandsOK, NEW c \in Coming, BtrfsStep(c) PROVE MovesOnly(c) /\ Does[c].do \in BtrfsDo
<1>1. CASE CreateFs(c) \/ Mount(c) \/ Unmount(c)
  BY <1>1, StepMoves DEF CreateFs, Mount, Unmount, Is, BtrfsDo
<1>2. CASE DeviceChange(c)
  BY <1>2, StepMoves DEF DeviceChange, BtrfsDo
<1>3. CASE ListFs(c) \/ InfoFs(c) \/ InfoDf(c)
  BY <1>3, StepMoves DEF ListFs, InfoFs, InfoDf, Parsed, Is, BtrfsDo
<1>4. CASE SubvolCreate(c) \/ SubvolDelete(c) \/ SubvolSnapshot(c)
  BY <1>4, StepMoves DEF SubvolCreate, SubvolDelete, SubvolSnapshot, Is, BtrfsDo
<1>5. CASE QuotaEnable(c) \/ QuotaLimit(c)
  BY <1>5, StepMoves DEF QuotaEnable, QuotaLimit, Is, BtrfsDo
<1>6. CASE SubvolList(c) \/ SubvolGroups(c)
  BY <1>6, StepMoves DEF SubvolList, SubvolGroups, Is, BtrfsDo
<1> QED BY <1>1, <1>2, <1>3, <1>4, <1>5, <1>6 DEF BtrfsStep

LEMMA FlistsMove ==
  ASSUME CommandsOK, NEW c \in Coming, FlistStep(c) PROVE MovesOnly(c)
<1>1. CASE Hashed(c) \/ WriteValid(c)
  BY <1>1, StepMoves DEF Hashed, WriteValid
<1>2. CASE Validate(c)
  <2>1. CASE \E p : Goto(c, p) /\ (\E v : got' = [got EXCEPT ![c] = v])
                    /\ \E v : todo' = [todo EXCEPT ![c] = v]
    BY <2>1, MovesBy DEF Goto
  <2> QED BY <1>2, <2>1, StepMoves DEF Validate
<1>3. CASE Extract(c) \/ Fill(c)
  <2>1. CASE \E p : Goto(c, p) /\ UNCHANGED got /\ \E v : todo' = [todo EXCEPT ![c] = v]
    BY <2>1, MovesBy DEF Goto
  <2> QED BY <1>3, <2>1, StepMoves DEF Extract, Fill
<1>4. CASE Backend(c) \/ RunDaemon(c) \/ Layer(c) \/ Reload(c)
  BY <1>4, StepMoves DEF Backend, RunDaemon, Layer, Reload
<1> QED BY <1>1, <1>2, <1>3, <1>4 DEF FlistStep

LEMMA FinishMoves ==
  ASSUME CommandsOK, NEW c \in Coming
  PROVE  /\ \A what : Finish(c, what) =>
              MovesOnly(c) /\ pc'[c] = "continue" /\ got'[c] = <<what>> /\ UNCHANGED todo
         /\ FinishFault(c) =>
              MovesOnly(c) /\ pc'[c] = "continue" /\ got'[c] = <<"error">> /\ UNCHANGED todo
<1>1. ASSUME FinishFault(c)
      PROVE  MovesOnly(c) /\ pc'[c] = "continue" /\ got'[c] = <<"error">> /\ UNCHANGED todo
  <2>1. /\ pc' = [pc EXCEPT ![c] = "continue"] /\ got' = [got EXCEPT ![c] = <<"error">>]
        /\ UNCHANGED todo
    BY <1>1 DEF FinishFault, Goto
  <2>2. MovesOnly(c) BY <2>1, MovesBy
  <2> QED BY <2>1, <2>2 DEF CommandsOK, Coming
<1> QED BY <1>1, StepMoves DEF Finish

LEMMA BackupsMove ==
  ASSUME CommandsOK, NEW c \in Coming, BackupStep(c) PROVE MovesOnly(c) /\ Does[c].do \in BackupCommands
<1>1. CASE FindContainer(c) \/ Stop(c) \/ Continue(c)
  BY <1>1, StepMoves DEF FindContainer, Stop, Continue, Pauses, BackupCommands
<1>2. CASE WriteMeta(c) \/ ListRoot(c) \/ Restic(c) \/ Saved(c) \/ RemoveMeta(c)
  BY <1>2, StepMoves, FinishMoves DEF WriteMeta, ListRoot, Restic, Saved, RemoveMeta, Is, BackupCommands
<1>3. CASE Zflist(c) \/ Unpack(c) \/ Empty(c) \/ Pack(c)
  BY <1>3, StepMoves, FinishMoves DEF Zflist, Unpack, Empty, Pack, Is, BackupCommands
<1>4. CASE RestoreMeta(c) \/ RestoreCreate(c)
  BY <1>4, StepMoves DEF RestoreMeta, RestoreCreate, Is, BackupCommands
<1> QED BY <1>1, <1>2, <1>3, <1>4 DEF BackupStep

LEMMA OnMoves ==
  ASSUME CommandsOK, NEW c \in Coming, NEW place
  PROVE  Proceeds(c, place) => MovesOnly(c) /\ pc'[c] = place /\ got'[c] = got[c]
<1> SUFFICES ASSUME Proceeds(c, place) PROVE MovesOnly(c) /\ pc'[c] = place /\ got'[c] = got[c]
  OBVIOUS
<1>1. pc' = [pc EXCEPT ![c] = place] /\ UNCHANGED <<got, todo>>
  BY DEF Proceeds, Goto
<1>2. MovesOnly(c)
  BY <1>1, MovesBy
<1> QED BY <1>1, <1>2 DEF CommandsOK, Coming

\* The last step of cgroup.memory.spec.
ToldIs(c, told) == got' = [got EXCEPT ![c] = told]
LEMMA ToldMoves ==
  ASSUME CommandsOK, NEW c \in Coming, LimitsTold(c)
  PROVE  /\ MovesOnly(c) /\ pc'[c] = "ok" /\ UNCHANGED <<group, member, crossed>>
         /\ dropped \subseteq dropped'
         /\ \/ got'[c] = IF There(c) THEN <<Limits(c)[1], Limits(c)[2] - Limits(c)[1]>> ELSE <<0, 0>>
            \/ c \in dropped' /\ got'[c] = <<0, 0>>
<1> DEFINE told == IF There(c) THEN <<Limits(c)[1], Limits(c)[2] - Limits(c)[1]>> ELSE <<0, 0>>
<1>1. /\ pc' = [pc EXCEPT ![c] = "ok"] /\ UNCHANGED <<todo, group, member, crossed>>
      /\ dropped \subseteq dropped'
      /\ ToldIs(c, told) \/ (c \in dropped' /\ ToldIs(c, <<0, 0>>))
  BY DEF LimitsTold, Goto, Drops, ToldIs
<1>2. ASSUME NEW v, ToldIs(c, v) PROVE MovesOnly(c) /\ got'[c] = v
  <2>1. got' = [got EXCEPT ![c] = v]
    BY <1>2 DEF ToldIs
  <2>2. MovesOnly(c)
    BY <1>1, <2>1, MovesBy
  <2> QED BY <2>1, <2>2 DEF CommandsOK, Coming
<1>3. pc'[c] = "ok"
  BY <1>1 DEF CommandsOK, Coming
<1> HIDE DEF told
<1>4. CASE ToldIs(c, told)
  BY <1>1, <1>2, <1>3, <1>4 DEF told
<1>5. CASE c \in dropped' /\ ToldIs(c, <<0, 0>>)
  BY <1>1, <1>2, <1>3, <1>5
<1> QED BY <1>1, <1>4, <1>5

LEMMA GroupsMove ==
  ASSUME CommandsOK, NEW c \in Coming, CgroupStep(c) PROVE MovesOnly(c)
<1>1. CASE GetGroup(c) \/ Ensure(c) \/ StatGroup(c) \/ MakeGroup(c) \/ GroupFault(c)
  BY <1>1, StepMoves DEF GetGroup, Ensure, StatGroup, MakeGroup, GroupFault
<1>2. CASE Tasks(c) \/ TaskAdd(c) \/ TaskRemove(c) \/ RemoveGroup(c) \/ RemoveDir(c)
  BY <1>2, StepMoves DEF Tasks, TaskAdd, TaskRemove, RemoveGroup, RemoveDir
<1>3. CASE RemoveTasks(c)
  <2>1. CASE \E p : Goto(c, p) /\ UNCHANGED got /\ \E v : todo' = [todo EXCEPT ![c] = v]
    BY <2>1, MovesBy DEF Goto
  <2> QED BY <1>3, <2>1, StepMoves DEF RemoveTasks
<1>4. CASE MoveTask(c)
  <2>1. UNCHANGED <<pc, got>> /\ \E v : todo' = [todo EXCEPT ![c] = v]
    BY <1>4 DEF MoveTask
  <2> QED BY <2>1, MovesBy
<1>5. CASE CpusetSpec(c) \/ MemorySpec(c)
  BY <1>5, StepMoves DEF CpusetSpec, MemorySpec
<1>6. CASE Reset(c) \/ ResetAgain(c) \/ Limit(c) \/ LimitAgain(c)
  BY <1>6, OnMoves DEF Reset, ResetAgain, Limit, LimitAgain
<1> QED BY <1>1, <1>2, <1>3, <1>4, <1>5, <1>6, ToldMoves DEF CgroupStep

-----------------------------------------------------------------------------
(* Whose steps they are *)

\* A daemon that starts was started by a mount.
Starting(o) == /\ daemon[o] = [state |-> daemon[o].state, by |-> daemon[o].by,
                               backend |-> daemon[o].backend]
               /\ daemon[o].state = "starting" => daemon[o].by \in Coming /\ UsesFlist(daemon[o].by)
DaemonInv == daemon = [o \in Mounts |-> daemon[o]] /\ \A o \in Mounts : Starting(o)

OfFiles(c) == /\ ~Ended(c) /\ FileStep(c) /\ Does[c].do \in FileCommands /\ MovesOnly(c)
              /\ UNCHANGED <<disks, btrfs, flists, backups, cgroups>>
OfDisks(c) == /\ ~Ended(c) /\ DiskStep(c) /\ Does[c].do \in DiskDo /\ MovesOnly(c)
              /\ UNCHANGED <<files, btrfs, flists, backups, cgroups>>
OfBtrfs(c) == /\ ~Ended(c) /\ BtrfsStep(c) /\ Does[c].do \in BtrfsDo /\ MovesOnly(c)
              /\ UNCHANGED <<files, flists, backups, cgroups>>
OfFlists(c) == /\ ~Ended(c) /\ FlistStep(c) /\ Does[c].do \in FlistDo /\ MovesOnly(c)
               /\ UNCHANGED <<files, disks, btrfs, backups, cgroups>>
OfBackups(c) == /\ ~Ended(c) /\ BackupStep(c) /\ Does[c].do \in BackupCommands /\ MovesOnly(c)
                /\ UNCHANGED <<files, disks, btrfs, flists, cgroups>>
OfGroups(c) == /\ ~Ended(c) /\ CgroupStep(c) /\ Does[c].do \in GroupDo /\ MovesOnly(c)
               /\ UNCHANGED <<files, disks, btrfs, flists, backups>>
\* A daemon that starts is ready or ends, for the mount that waits for it.
OfDaemon(o) == /\ daemon[o].state = "starting" /\ (Ready(o) \/ Exits(o))
               /\ Does[daemon[o].by].do \in FlistDo /\ MovesOnly(daemon[o].by)
               /\ UNCHANGED <<got, todo, files, disks, btrfs, backups, cgroups>>
\* What happens without a command.
Aside == /\ UNCHANGED <<pc, got, todo>>
         /\ \/ /\ \E d \in Coming : ExpireFile(d) \/ Janitor(d) \/ Evicted(d)
               /\ UNCHANGED <<disks, btrfs, flists, backups, cgroups>>
            \/ (\E d \in Dev : Unplug(d)) /\ UNCHANGED <<files, btrfs, flists, backups, cgroups>>
            \/ /\ \/ \E o \in Mounts : daemon[o].state = "serving" /\ Exits(o)
                  \/ \E f \in Flist : Publish(f)
               /\ UNCHANGED <<files, disks, btrfs, backups, cgroups>>
            \/ /\ \E k \in Con : GetsPID(k) \/ Ends(k)
               /\ UNCHANGED <<files, disks, btrfs, flists, cgroups>>
            \/ UNCHANGED vars

LEMMA CommandSteps ==
  ASSUME CommandsOK, NEW c \in Coming, Command(c)
  PROVE  OfFiles(c) \/ OfDisks(c) \/ OfBtrfs(c) \/ OfFlists(c) \/ OfBackups(c) \/ OfGroups(c)
<1>1. ~Ended(c)
  BY DEF Command
<1>2. CASE Does[c].do \in FileCommands /\ FileStep(c) /\ UNCHANGED <<disks, btrfs, flists, backups, cgroups>>
  BY <1>1, <1>2, FilesMove DEF OfFiles
<1>3. CASE DiskStep(c) /\ UNCHANGED <<files, btrfs, flists, backups, cgroups>>
  BY <1>1, <1>3, DisksMove DEF OfDisks
<1>4. CASE BtrfsStep(c) /\ UNCHANGED <<files, flists, backups, cgroups>>
  BY <1>1, <1>4, BtrfsMove DEF OfBtrfs
<1>5. CASE UsesFlist(c) /\ FlistStep(c) /\ UNCHANGED <<files, disks, btrfs, backups, cgroups>>
  BY <1>1, <1>5, FlistsMove DEF OfFlists, UsesFlist, FlistDo
<1>6. CASE BackupStep(c) /\ UNCHANGED <<files, disks, btrfs, flists, cgroups>>
  BY <1>1, <1>6, BackupsMove DEF OfBackups
<1>7. CASE ForGroup(c) /\ CgroupStep(c) /\ UNCHANGED <<files, disks, btrfs, flists, backups>>
  BY <1>1, <1>7, GroupsMove DEF OfGroups, ForGroup, GroupDo
<1> QED BY <1>2, <1>3, <1>4, <1>5, <1>6, <1>7 DEF Command

LEMMA DaemonSteps ==
  ASSUME CommandsOK, DaemonInv, NEW o \in Mounts, Ready(o) \/ Exits(o),
         UNCHANGED <<files, disks, btrfs, backups, cgroups>>
  PROVE  OfDaemon(o) \/ Aside
<1>1. CASE daemon[o].state = "starting"
  <2>1. daemon[o].by \in Coming /\ Does[daemon[o].by].do \in FlistDo
    BY <1>1 DEF DaemonInv, Starting, UsesFlist, FlistDo
  <2>2. (\E p : pc' = [pc EXCEPT ![daemon[o].by] = p]) /\ UNCHANGED <<got, todo>>
    BY <1>1 DEF Ready, Exits, Step, Goto
  <2> QED BY <1>1, <2>1, <2>2, MovesBy DEF OfDaemon
<1>2. CASE daemon[o].state # "starting"
  <2>1. daemon[o].state = "serving" /\ Exits(o) /\ UNCHANGED <<pc, got, todo>>
    BY <1>2 DEF Ready, Exits
  <2> QED BY <2>1 DEF Aside
<1> QED BY <1>1, <1>2

\* Every step of the storage is one of these.
LEMMA StorageSteps ==
  ASSUME CommandsOK, DaemonInv, [Next]_vars
  PROVE  \/ \E c \in Coming : \/ OfFiles(c) \/ OfDisks(c) \/ OfBtrfs(c) \/ OfFlists(c)
                              \/ OfBackups(c) \/ OfGroups(c)
         \/ \E o \in Mounts : OfDaemon(o)
         \/ Aside
<1>1. ASSUME NEW c \in Coming, Command(c)
      PROVE  OfFiles(c) \/ OfDisks(c) \/ OfBtrfs(c) \/ OfFlists(c) \/ OfBackups(c) \/ OfGroups(c)
  BY <1>1, CommandSteps
<1>2. CASE Cleaning
  BY <1>2 DEF Cleaning, Aside, ExpireFile, Janitor, Evicted, commands
<1>3. CASE (\E d \in Dev : Unplug(d)) /\ UNCHANGED <<files, btrfs, flists, backups, cgroups>>
  BY <1>3 DEF Unplug, Aside
<1>4. ASSUME NEW o \in Mounts, Ready(o) \/ Exits(o),
             UNCHANGED <<files, disks, btrfs, backups, cgroups>>
      PROVE  OfDaemon(o) \/ Aside
  BY <1>4, DaemonSteps
<1>5. CASE (\E f \in Flist : Publish(f)) /\ UNCHANGED <<files, disks, btrfs, backups, cgroups>>
  BY <1>5 DEF Publish, Aside, commands
<1>6. CASE (\E k \in Con : GetsPID(k) \/ Ends(k)) /\ UNCHANGED <<files, disks, btrfs, flists, cgroups>>
  BY <1>6 DEF GetsPID, Ends, Aside, commands
<1>7. CASE UNCHANGED vars
  BY <1>7 DEF vars, commands, Aside
<1> QED BY <1>1, <1>2, <1>3, <1>4, <1>5, <1>6, <1>7 DEF Next

\* Commands with these handlers stay as they are.
Stay(dos) ==
  /\ Coming' = Coming /\ CommandsOK'
  /\ \A d \in Coming : Does[d].do \in dos => pc'[d] = pc[d] /\ got'[d] = got[d] /\ todo'[d] = todo[d]

LEMMA StaysBut ==
  ASSUME NEW c \in Coming, MovesOnly(c), NEW dos, Does[c].do \notin dos
  PROVE  Stay(dos)
BY DEF MovesOnly, Stay

LEMMA StaysSo ==
  ASSUME CommandsOK, UNCHANGED <<pc, got, todo>>, NEW dos
  PROVE  Stay(dos)
BY DEF CommandsOK, Coming, Stay

LEMMA DaemonsStep ==
  ASSUME CommandsOK, DaemonInv, [Next]_vars
  PROVE  DaemonInv' /\ CommandsOK' /\ Coming' = Coming
<1>1. CommandsOK' /\ Coming' = Coming
  <2>1. ASSUME UNCHANGED <<pc, got, todo>> PROVE CommandsOK' /\ Coming' = Coming
    BY <2>1 DEF CommandsOK, Coming
  <2> QED
    BY <2>1, StorageSteps
    DEF MovesOnly, OfFiles, OfDisks, OfBtrfs, OfFlists, OfBackups, OfGroups, OfDaemon, Aside
<1>2. ASSUME UNCHANGED daemon PROVE DaemonInv'
  BY <1>1, <1>2 DEF DaemonInv, Starting, UsesFlist
<1>3. ASSUME NEW o \in Mounts,
             \/ daemon' = [daemon EXCEPT ![o].state = "serving"]
             \/ daemon' = [daemon EXCEPT ![o].state = "hung"]
             \/ daemon' = [daemon EXCEPT ![o] = NoDaemon]
      PROVE  DaemonInv'
  BY <1>1, <1>3 DEF DaemonInv, Starting, UsesFlist, NoDaemon
<1>4. ASSUME NEW o \in Mounts, Ready(o) \/ Exits(o) PROVE DaemonInv'
  BY <1>3, <1>4 DEF Ready, Exits
<1>5. ASSUME NEW c \in Coming, OfFlists(c) PROVE DaemonInv'
  <2>1. CASE RunDaemon(c) /\ ~UNCHANGED daemon
    <3>1. daemon' = [daemon EXCEPT ![Key(c)] =
                 [state |-> "starting", by |-> c, backend |-> <<Does[c].ns, got[c][1]>>]]
      BY <2>1 DEF RunDaemon
    <3>2. UsesFlist(c)
      BY <2>1 DEF RunDaemon, UsesFlist, Is
    <3> QED BY <1>1, <3>1, <3>2 DEF DaemonInv, Starting, UsesFlist
  <2>2. CASE UNCHANGED daemon
    BY <2>2, <1>2
  <2> QED
    BY <1>5, <2>1, <2>2
    DEF OfFlists, FlistStep, Hashed, Validate, Extract, Fill, WriteValid, Backend, Layer, Reload, flists
<1>6. ASSUME Aside PROVE DaemonInv'
  <2>1. CASE UNCHANGED flists
    BY <2>1, <1>2 DEF flists
  <2>2. CASE \E f \in Flist : Publish(f)
    BY <2>2, <1>2 DEF Publish
  <2>3. CASE \E o \in Mounts : Exits(o)
    BY <2>3, <1>4
  <2> QED BY <1>6, <2>1, <2>2, <2>3 DEF Aside, vars
<1> QED
  BY <1>1, <1>2, <1>4, <1>5, <1>6, StorageSteps
  DEF OfFiles, OfDisks, OfBtrfs, OfBackups, OfGroups, OfDaemon, flists

\* What all the invariants of the storage stand on.
Base == CommandsOK /\ DaemonInv /\ Coming \in Given

LEMMA BaseInit == Init => Base /\ \A c \in Coming : pc[c] = "new" /\ got[c] = <<>> /\ todo[c] = <<>>
<1> SUFFICES ASSUME Init
             PROVE  Base /\ \A c \in Coming : pc[c] = "new" /\ got[c] = <<>> /\ todo[c] = <<>>
  OBVIOUS
<1>1. PICK G \in Given : pc = [c \in G |-> "new"]
  BY DEF Init, InitCommands
<1>2. Coming = G /\ got = [c \in G |-> <<>>] /\ todo = [c \in G |-> <<>>]
  BY <1>1 DEF Init, InitCommands, Coming
<1>3. DaemonInv
  BY DEF Init, InitFlists, DaemonInv, Starting, NoDaemon
<1> QED BY <1>1, <1>2, <1>3 DEF Base, CommandsOK

LEMMA BaseStep == Base /\ [Next]_vars => Base'
BY DaemonsStep DEF Base

-----------------------------------------------------------------------------
(* Descriptors *)

Opened(d) == d \in Coming /\ Is(d, "open") /\ Ended(d)
Refreshing(c) == Does[c].do \in {"read", "write"} /\ pc[c] = "refreshing"
Closing(c) == Is(c, "close") /\ pc[c] = "closing"

FilesOK == /\ file \in [Coming -> {"none", "open", "closed"}]
           /\ cache \in [Coming -> {"none", "kept", "expired"}]

\* Only the descriptor of an open that was answered is in the cache or on its way out;
\* one on its way out is in the cache only if it was entered again.
Entered(d) == /\ cache[d] # "none" => Opened(d)
              /\ d \in leaving => Opened(d) /\ (cache[d] = "none" \/ d \in revived)
              /\ file[d] = "open" => Is(d, "open")
              /\ Is(d, "open") /\ pc[d] = "entering" => file[d] = "open"
\* What a handler has taken from the cache.
Holds(c) == /\ Refreshing(c) => Opened(Does[c].fd)
            /\ Closing(c) => /\ Opened(Does[c].fd)
                             /\ cache[Does[c].fd] = "none" \/ Does[c].fd \in revived
Kept(d) == /\ file[d] = "open" =>
                \/ cache[d] # "none" \/ pc[d] = "entering" \/ d \in leaving
                \/ \E c \in Coming : Closing(c) /\ Does[c].fd = d
           /\ cache[d] # "none" /\ file[d] = "closed" => d \in revived
Cached == /\ CommandsOK /\ Coming \in Given /\ FilesOK
          /\ \A d \in Coming : Entered(d) /\ Holds(d) /\ Kept(d)

Unmoved == UNCHANGED <<file, cache, leaving, revived>>

\* Files and the commands for them stay as they are.
Elsewhere == UNCHANGED files /\ Stay(FileCommands)

\* Every step is one of the filesystem plugin, or elsewhere.
LEMMA FileSteps ==
  ASSUME CommandsOK, DaemonInv, [Next]_vars
  PROVE  \/ \E c \in Coming : OfFiles(c)
         \/ \E d \in Coming : ExpireFile(d) \/ Janitor(d) \/ Evicted(d)
         \/ Elsewhere
<1>1. ASSUME NEW c \in Coming, OfDisks(c) \/ OfBtrfs(c) \/ OfFlists(c) PROVE Elsewhere
  <2>1. Does[c].do \notin FileCommands
    BY <1>1 DEF OfDisks, OfBtrfs, OfFlists, DiskDo, BtrfsDo, FlistDo, FileCommands
  <2> QED BY <1>1, <2>1, StaysBut DEF OfDisks, OfBtrfs, OfFlists, Elsewhere
<1>2. ASSUME NEW c \in Coming, OfBackups(c) \/ OfGroups(c) PROVE Elsewhere
  <2>1. Does[c].do \notin FileCommands
    BY <1>2 DEF OfBackups, OfGroups, BackupCommands, GroupDo, Gets, FileCommands
  <2> QED BY <1>2, <2>1, StaysBut DEF OfBackups, OfGroups, Elsewhere
<1>3. ASSUME NEW o \in Mounts, OfDaemon(o) PROVE Elsewhere
  <2>1. daemon[o].by \in Coming /\ Does[daemon[o].by].do \notin FileCommands
    BY <1>3 DEF OfDaemon, DaemonInv, Starting, FlistDo, FileCommands
  <2> QED BY <1>3, <2>1, StaysBut DEF OfDaemon, Elsewhere
<1>4. CASE Aside
  BY <1>4, StaysSo DEF Aside, Elsewhere, vars
<1> QED BY <1>1, <1>2, <1>3, <1>4, StorageSteps

LEMMA CachedElsewhere == ASSUME Cached, Elsewhere PROVE Cached'
<1>1. Coming' = Coming /\ Unmoved /\ CommandsOK'
  BY DEF Elsewhere, Stay, files, Unmoved
<1>2. \A d \in Coming : Does[d].do \in {"open", "close", "read", "write"} => pc'[d] = pc[d]
  BY DEF Elsewhere, Stay, FileCommands
<1>3. ASSUME NEW d \in Coming PROVE (Opened(d) => Opened(d)') /\ Entered(d)'
  BY <1>1, <1>2, <1>3 DEF Cached, Entered, Opened, Ended, Is, Unmoved
<1>4. ASSUME NEW c \in Coming
      PROVE  Refreshing(c)' = Refreshing(c) /\ Closing(c)' = Closing(c) /\ Holds(c)'
  <2>1. Refreshing(c)' = Refreshing(c) /\ Closing(c)' = Closing(c)
    BY <1>2 DEF Refreshing, Closing, Is
  <2> QED BY <2>1, <1>1, <1>3 DEF Cached, Holds, Unmoved, Opened
<1>5. ASSUME NEW d \in Coming PROVE Kept(d)'
  BY <1>1, <1>2, <1>4 DEF Cached, Kept, Entered, Is, Unmoved
<1> QED BY <1>1, <1>3, <1>4, <1>5 DEF Cached, FilesOK, Unmoved

\* Of the commands, a step of a file command moves itself alone, and none that has ended.
LEMMA FileMoves ==
  ASSUME Cached, NEW c \in Coming, ~Ended(c), MovesOnly(c)
  PROVE  /\ Coming' = Coming /\ CommandsOK'
         /\ \A d \in Coming : Opened(d) => Opened(d)'
         /\ \A d \in Coming \ {c} : pc'[d] = pc[d]
BY DEF MovesOnly, Coming, Opened, Ended

\* A step that neither opens nor closes nor takes a descriptor from the cache.
LEMMA CachedPassing ==
  ASSUME Cached, NEW c \in Coming, ~Ended(c), MovesOnly(c), Unmoved,
         Does[c].do \notin {"open", "close"}, pc'[c] # "refreshing" \/ Does[c].do \notin {"read", "write"}
  PROVE  Cached'
<1>1. /\ Coming' = Coming /\ CommandsOK'
      /\ \A d \in Coming : Opened(d) => Opened(d)'
      /\ \A d \in Coming \ {c} : pc'[d] = pc[d]
  BY FileMoves
<1>2. ASSUME NEW d \in Coming PROVE Entered(d)'
  BY <1>1, <1>2 DEF Cached, Entered, Is, Unmoved
<1>3. ASSUME NEW d \in Coming PROVE (Closing(d)' = Closing(d)) /\ (Refreshing(d)' => Refreshing(d))
  BY <1>1 DEF Closing, Refreshing, Is
<1>4. ASSUME NEW d \in Coming PROVE Holds(d)'
  BY <1>1, <1>3 DEF Cached, Holds, Unmoved, Opened
<1>5. ASSUME NEW d \in Coming PROVE Kept(d)'
  BY <1>1, <1>3 DEF Cached, Kept, Entered, Is, Unmoved
<1> QED BY <1>1, <1>2, <1>4, <1>5 DEF Cached, FilesOK, Unmoved

LEMMA CachedOpen ==
  ASSUME Cached, NEW c \in Coming, ~Ended(c), OpenFile(c) \/ OpenEnter(c)
  PROVE  Cached'
<1>1. /\ Coming' = Coming /\ CommandsOK'
      /\ \A d \in Coming : Opened(d) => Opened(d)'
      /\ \A d \in Coming \ {c} : pc'[d] = pc[d]
  BY FileMoves, FilesMove DEF Cached, FileStep
<1>2. Is(c, "open") /\ ~Opened(c) /\ UNCHANGED <<leaving, revived>>
  BY DEF OpenFile, OpenEnter, Opened
<1>3. ASSUME NEW d \in Coming PROVE (Closing(d)' = Closing(d)) /\ (Refreshing(d)' = Refreshing(d))
  BY <1>1, <1>2 DEF Closing, Refreshing, Is
<1>4. \A d \in Coming \ {c} : file'[d] = file[d] /\ cache'[d] = cache[d]
  BY <1>1 DEF OpenFile, OpenEnter, Cached, FilesOK
<1>5. ASSUME NEW d \in Coming PROVE Holds(d)'
  BY <1>1, <1>2, <1>3, <1>4 DEF Cached, Holds, Opened
<1>6. ASSUME NEW d \in Coming, d # c PROVE Entered(d)' /\ Kept(d)'
  BY <1>1, <1>2, <1>3, <1>4, <1>6 DEF Cached, Entered, Kept, Is
<1>7. cache[c] = "none" /\ c \notin leaving
  BY <1>2 DEF Cached, Entered
<1>8. FilesOK'
  BY <1>1 DEF OpenFile, OpenEnter, Cached, FilesOK
<1>9. CASE OpenFile(c)
  <2>1. \/ pc'[c] = "entering" /\ file'[c] = "open"
        \/ pc'[c] = "error" /\ file' = file
    BY <1>9 DEF OpenFile, Step, Goto, Cached, FilesOK, Coming
  <2>2. cache' = cache
    BY <1>9 DEF OpenFile
  <2>3. file[c] = "open" => pc[c] = "entering" \/ \E e \in Coming : Closing(e) /\ Does[e].fd = c
    BY <1>7 DEF Cached, Kept
  <2>4. file[c] # "open"
    BY <1>2, <1>9, <2>3 DEF OpenFile, Cached, Holds
  <2>5. Entered(c)' /\ Kept(c)'
    BY <1>2, <1>7, <2>1, <2>2, <2>4 DEF Entered, Kept, Is
  <2> QED BY <1>1, <1>5, <1>6, <1>8, <2>5 DEF Cached
<1>10. CASE OpenEnter(c)
  <2>1. pc'[c] = "ok" /\ file' = file /\ cache'[c] = "kept"
    BY <1>10 DEF OpenEnter, Step, Goto, Cached, FilesOK, Coming
  <2>2. file[c] = "open"
    BY <1>2, <1>10 DEF Cached, Entered, OpenEnter
  <2>3. Entered(c)' /\ Kept(c)'
    BY <1>1, <1>2, <1>7, <2>1, <2>2 DEF Entered, Kept, Is, Opened, Ended
  <2> QED BY <1>1, <1>5, <1>6, <1>8, <2>3 DEF Cached
<1> QED BY <1>9, <1>10

LEMMA CachedClose ==
  ASSUME Cached, NEW c \in Coming, ~Ended(c), Close(c)
  PROVE  Cached'
<1> DEFINE fd == Does[c].fd
<1>1. /\ Coming' = Coming /\ CommandsOK'
      /\ \A d \in Coming : Opened(d) => Opened(d)'
      /\ \A d \in Coming \ {c} : pc'[d] = pc[d]
  BY FileMoves, FilesMove DEF Cached, FileStep
<1>2. /\ Is(c, "close") /\ UNCHANGED <<file, leaving, revived>>
      /\ pc'[c] = IF cache[fd] = "none" THEN "ok" ELSE "closing"
  BY DEF Close, Step, Goto, Coming
<1>3. fd \in Coming
  BY <1>2, DescriptorsAssumption DEF Cached, Is
<1>4. /\ \A d \in Coming \ {fd} : cache'[d] = cache[d]
      /\ cache'[fd] = "none"
  BY <1>3 DEF Close, Cached, FilesOK
<1>5. FilesOK'
  BY <1>1, <1>2, <1>3, <1>4 DEF Close, Cached, FilesOK
<1>6. ASSUME NEW d \in Coming PROVE Entered(d)'
  BY <1>1, <1>2, <1>3, <1>4 DEF Cached, Entered, Is
<1>7. \A d \in Coming \ {c} : Closing(d)' = Closing(d) /\ Refreshing(d)' = Refreshing(d)
  BY <1>1 DEF Closing, Refreshing, Is
<1>8. ~Closing(c) /\ ~Refreshing(c)' /\ (cache[fd] # "none" => Closing(c)')
  BY <1>2 DEF Closing, Refreshing, Is, Close
<1>9. cache[fd] # "none" => Opened(fd)
  BY <1>3 DEF Cached, Entered
<1>10. Closing(c)' => cache[fd] # "none"
  BY <1>2 DEF Closing
<1>11. ASSUME NEW d \in Coming PROVE Holds(d)'
  <2>1. CASE d = c
    BY <2>1, <1>1, <1>3, <1>4, <1>8, <1>9, <1>10 DEF Holds
  <2>2. CASE d # c
    BY <2>2, <1>1, <1>2, <1>3, <1>4, <1>7 DEF Cached, Holds, Opened
  <2> QED BY <2>1, <2>2
<1>12. ASSUME NEW d \in Coming PROVE Kept(d)'
  <2>1. CASE d = fd /\ cache[fd] # "none"
    BY <2>1, <1>1, <1>2, <1>4, <1>8 DEF Kept
  <2>2. CASE d # fd \/ cache[fd] = "none"
    <3>1. cache'[d] = cache[d]
      BY <1>4, <2>2
    <3>2. d = c => file[d] # "open"
      BY <1>2 DEF Cached, Entered, Is
    <3> QED BY <3>1, <3>2, <1>1, <1>2, <1>7, <1>8 DEF Cached, Kept
  <2> QED BY <2>1, <2>2
<1> QED BY <1>1, <1>5, <1>6, <1>11, <1>12 DEF Cached

LEMMA CachedCloseFile ==
  ASSUME Cached, NEW c \in Coming, ~Ended(c), CloseFile(c)
  PROVE  Cached'
<1> DEFINE fd == Does[c].fd
<1>1. /\ Coming' = Coming /\ CommandsOK'
      /\ \A d \in Coming : Opened(d) => Opened(d)'
      /\ \A d \in Coming \ {c} : pc'[d] = pc[d]
  BY FileMoves, FilesMove DEF Cached, FileStep
<1>2. Is(c, "close") /\ Closing(c) /\ UNCHANGED <<cache, leaving, revived>> /\ pc'[c] = "ok"
  BY DEF CloseFile, Closing, Step, Goto, Coming
<1>3. fd \in Coming /\ Opened(fd) /\ (cache[fd] = "none" \/ fd \in revived)
  BY <1>2, DescriptorsAssumption DEF Cached, Is, Holds
<1>4. /\ \A d \in Coming \ {fd} : file'[d] = file[d]
      /\ file'[fd] = "closed"
  BY <1>3 DEF CloseFile, Cached, FilesOK
<1>5. FilesOK'
  BY <1>1, <1>2, <1>3 DEF CloseFile, Cached, FilesOK
<1>6. ASSUME NEW d \in Coming PROVE Entered(d)'
  <2>1. d = fd => pc'[d] # "entering"
    BY <1>1, <1>2, <1>3 DEF Opened, Ended
  <2> QED BY <2>1, <1>1, <1>2, <1>3, <1>4 DEF Cached, Entered, Is
<1>7. \A d \in Coming \ {c} : Closing(d)' = Closing(d) /\ Refreshing(d)' = Refreshing(d)
  BY <1>1 DEF Closing, Refreshing, Is
<1>8. ~Closing(c)' /\ ~Refreshing(c)'
  BY <1>2 DEF Closing, Refreshing
<1>9. ASSUME NEW d \in Coming PROVE Holds(d)'
  BY <1>1, <1>2, <1>7, <1>8 DEF Cached, Holds, Opened
<1>10. ASSUME NEW d \in Coming PROVE Kept(d)'
  <2>1. CASE d = fd
    BY <2>1, <1>2, <1>3, <1>4 DEF Kept
  <2>2. CASE d # fd
    <3>1. d = c => file[d] # "open"
      BY <1>2 DEF Cached, Entered, Is
    <3> QED BY <2>2, <3>1, <1>1, <1>2, <1>4, <1>7 DEF Cached, Kept
  <2> QED BY <2>1, <2>2
<1> QED BY <1>1, <1>5, <1>6, <1>9, <1>10 DEF Cached

LEMMA CachedGet ==
  ASSUME Cached, NEW c \in Coming, ~Ended(c), Get(c)
  PROVE  Cached'
<1> DEFINE fd == Does[c].fd
<1>1. /\ Coming' = Coming /\ CommandsOK'
      /\ \A d \in Coming : Opened(d) => Opened(d)'
      /\ \A d \in Coming \ {c} : pc'[d] = pc[d]
  BY FileMoves, FilesMove DEF Cached, FileStep
<1>2. /\ Does[c].do \in {"read", "write"} /\ Unmoved
      /\ pc'[c] = IF cache[fd] = "kept" THEN "refreshing" ELSE "error"
  BY DEF Get, Step, Goto, Coming, files, Unmoved
<1>3. fd \in Coming /\ (cache[fd] = "kept" => Opened(fd))
  BY <1>2, DescriptorsAssumption DEF Cached, Entered
<1>4. ASSUME NEW d \in Coming PROVE Entered(d)'
  BY <1>1, <1>2 DEF Cached, Entered, Is, Unmoved
<1>5. \A d \in Coming : Closing(d)' = Closing(d) /\ (d # c => Refreshing(d)' = Refreshing(d))
  BY <1>1, <1>2 DEF Closing, Refreshing, Is
<1>6. ASSUME NEW d \in Coming PROVE Holds(d)'
  <2>1. CASE d = c
    BY <2>1, <1>1, <1>2, <1>3 DEF Holds, Refreshing, Closing, Is
  <2>2. CASE d # c
    BY <2>2, <1>1, <1>2, <1>5 DEF Cached, Holds, Opened, Unmoved
  <2> QED BY <2>1, <2>2
<1>7. ASSUME NEW d \in Coming PROVE Kept(d)'
  <2>1. d = c => file[d] # "open"
    BY <1>2 DEF Cached, Entered, Is
  <2> QED BY <2>1, <1>1, <1>2, <1>5 DEF Cached, Kept, Unmoved
<1> QED BY <1>1, <1>2, <1>4, <1>6, <1>7 DEF Cached, FilesOK, Unmoved

LEMMA CachedRefresh ==
  ASSUME Cached, NEW c \in Coming, ~Ended(c), Refresh(c)
  PROVE  Cached'
<1> DEFINE fd == Does[c].fd
<1>1. /\ Coming' = Coming /\ CommandsOK'
      /\ \A d \in Coming : Opened(d) => Opened(d)'
      /\ \A d \in Coming \ {c} : pc'[d] = pc[d]
  BY FileMoves, FilesMove DEF Cached, FileStep
<1>2. /\ Does[c].do \in {"read", "write"} /\ Refreshing(c) /\ pc'[c] = "using"
      /\ UNCHANGED <<file, leaving>> /\ revived \subseteq revived'
      /\ cache[fd] = "none" => fd \in revived'
  BY DEF Refresh, Refreshing, Step, Goto, Coming
<1>3. fd \in Coming /\ Opened(fd)
  BY <1>2, DescriptorsAssumption DEF Cached, Holds
<1>4. /\ \A d \in Coming \ {fd} : cache'[d] = cache[d]
      /\ cache'[fd] = "kept"
  BY <1>3 DEF Refresh, Cached, FilesOK
<1>5. FilesOK'
  BY <1>1, <1>2, <1>3, <1>4 DEF Refresh, Cached, FilesOK
<1>6. ASSUME NEW d \in Coming PROVE Entered(d)'
  BY <1>1, <1>2, <1>3, <1>4 DEF Cached, Entered, Is
<1>7. \A d \in Coming : Closing(d)' = Closing(d) /\ (Refreshing(d)' => Refreshing(d))
  BY <1>1, <1>2 DEF Closing, Refreshing, Is
<1>8. ASSUME NEW d \in Coming PROVE Holds(d)'
  <2>1. Closing(d)' => cache'[Does[d].fd] = "none" \/ Does[d].fd \in revived'
    BY <1>2, <1>3, <1>4, <1>7 DEF Cached, Holds, Opened
  <2> QED BY <2>1, <1>1, <1>7 DEF Cached, Holds, Opened
<1>9. ASSUME NEW d \in Coming PROVE Kept(d)'
  <2>1. d = c => file[d] # "open"
    BY <1>2 DEF Cached, Entered, Is
  <2> QED BY <2>1, <1>1, <1>2, <1>4, <1>7 DEF Cached, Kept
<1> QED BY <1>1, <1>5, <1>6, <1>8, <1>9 DEF Cached

LEMMA CachedUse ==
  ASSUME Cached, NEW c \in Coming, ~Ended(c),
         \/ Use(c) \/ Mkdir(c) \/ RemovePath(c) \/ PathExists(c) \/ ListDir(c) \/ Move(c)
         \/ Change(c) \/ Walk(c)
  PROVE  Cached'
<1>1. MovesOnly(c)
  BY FilesMove DEF Cached, FileStep
<1>2. Unmoved
  BY DEF Use, Mkdir, RemovePath, PathExists, ListDir, Move, Change, Walk, files, Unmoved
<1>3. Does[c].do \notin {"open", "close"}
  BY DEF Use, Mkdir, RemovePath, PathExists, ListDir, Move, Change, Walk, Is
<1>4. Does[c].do \in {"read", "write"} => Use(c)
  BY DEF Mkdir, RemovePath, PathExists, ListDir, Move, Change, Walk, Is
<1>5. Use(c) => pc'[c] # "refreshing"
  BY DEF Use, Step, Fault, Goto, Coming
<1> QED BY <1>1, <1>2, <1>3, <1>4, <1>5, CachedPassing

LEMMA CachedCleaning ==
  ASSUME Cached, NEW e \in Coming, ExpireFile(e) \/ Janitor(e) \/ Evicted(e)
  PROVE  Cached'
<1>1. UNCHANGED pc /\ UNCHANGED revived
  BY DEF ExpireFile, Janitor, Evicted, commands
<1>2. Coming' = Coming /\ CommandsOK' /\ \A d \in Coming : Opened(d)' = Opened(d)
  BY <1>1 DEF Coming, Cached, CommandsOK, Opened, Ended, ExpireFile, Janitor, Evicted, commands
<1>3. \A c \in Coming : Closing(c)' = Closing(c) /\ Refreshing(c)' = Refreshing(c)
  BY <1>1 DEF Closing, Refreshing
<1>4. /\ \A d \in Coming \ {e} : cache'[d] = cache[d] /\ file'[d] = file[d]
      /\ \A d \in Coming \ {e} : d \in leaving' <=> d \in leaving
  BY DEF ExpireFile, Janitor, Evicted, Cached, FilesOK
<1>5. FilesOK'
  BY <1>2 DEF ExpireFile, Janitor, Evicted, Cached, FilesOK
<1>6. cache[e] = "none" => cache'[e] = "none"
  BY DEF ExpireFile, Janitor, Evicted, Cached, FilesOK
<1>7. ASSUME NEW c \in Coming PROVE Holds(c)'
  BY <1>1, <1>2, <1>3, <1>4, <1>6 DEF Cached, Holds, Opened
<1>8. ASSUME NEW d \in Coming, d # e PROVE Entered(d)' /\ Kept(d)'
  BY <1>1, <1>2, <1>3, <1>4, <1>8 DEF Cached, Entered, Kept
<1>9. CASE ExpireFile(e)
  <2>1. cache[e] # "none" /\ cache'[e] # "none" /\ UNCHANGED <<file, leaving>>
    BY <1>9 DEF ExpireFile, Cached, FilesOK
  <2>2. Entered(e)' /\ Kept(e)'
    BY <2>1, <1>1, <1>2 DEF Cached, Entered, Kept
  <2> QED BY <1>1, <1>2, <1>5, <1>7, <1>8, <2>2 DEF Cached
<1>10. CASE Janitor(e)
  <2>1. cache[e] # "none" /\ cache'[e] = "none" /\ e \in leaving' /\ UNCHANGED file
    BY <1>10 DEF Janitor, Cached, FilesOK
  <2>2. Entered(e)' /\ Kept(e)'
    BY <2>1, <1>1, <1>2 DEF Cached, Entered, Kept
  <2> QED BY <1>1, <1>2, <1>5, <1>7, <1>8, <2>2 DEF Cached
<1>11. CASE Evicted(e)
  <2>1. e \in leaving /\ e \notin leaving' /\ file'[e] = "closed" /\ UNCHANGED cache
    BY <1>11 DEF Evicted, Cached, FilesOK
  <2>2. Opened(e) /\ pc[e] # "entering"
    BY <2>1 DEF Cached, Entered, Opened, Ended
  <2>3. Entered(e)' /\ Kept(e)'
    BY <2>1, <2>2, <1>1, <1>2 DEF Cached, Entered, Kept
  <2> QED BY <1>1, <1>2, <1>5, <1>7, <1>8, <2>3 DEF Cached
<1> QED BY <1>9, <1>10, <1>11

LEMMA CachedInit == Init => Cached
<1> SUFFICES ASSUME Init PROVE Cached
  OBVIOUS
<1>1. Base /\ \A c \in Coming : pc[c] = "new"
  BY BaseInit
<1>2. FilesOK /\ (\A d \in Coming : file[d] = "none" /\ cache[d] = "none") /\ leaving = {}
  BY DEF Init, InitFiles, FilesOK
<1>3. ASSUME NEW d \in Coming PROVE Entered(d) /\ Holds(d) /\ Kept(d)
  BY <1>1, <1>2 DEF Entered, Holds, Kept, Refreshing, Closing
<1> QED BY <1>1, <1>2, <1>3 DEF Cached, Base

LEMMA CachedStep == Cached /\ Base /\ [Next]_vars => Cached'
<1> SUFFICES ASSUME Cached, Base, [Next]_vars PROVE Cached'
  OBVIOUS
<1>1. ASSUME NEW c \in Coming, OfFiles(c) PROVE Cached'
  BY <1>1, CachedOpen, CachedClose, CachedCloseFile, CachedGet, CachedRefresh, CachedUse
  DEF FileStep, OfFiles
<1> QED BY <1>1, FileSteps, CachedElsewhere, CachedCleaning DEF Base

\* An open file is reached by its descriptor or is about to be closed, and a closed one
\* is known only when a read or a write entered it again (the cache of the filesystem
\* plugin, fs.go:100-207): whatever commands come together and whatever fails.
THEOREM DescriptorsKeptHolds == Spec => []DescriptorsKept
<1>1. Cached => DescriptorsKept
  BY DEF Cached, Kept, Closing, DescriptorsKept
<1> QED BY <1>1, BaseInit, BaseStep, CachedInit, CachedStep, PTL DEF Spec
-----------------------------------------------------------------------------
(* Quotas *)

VolumeOK(v) == /\ v = [id |-> v.id, label |-> v.label, total |-> v.total, devs |-> v.devs]
               /\ v.id \in DOMAIN number
\* A subvolume has an id that its file system has given.
SubOK(s) == /\ s = [id |-> s.id, volume |-> s.volume, path |-> s.path, quota |-> s.quota]
            /\ s.volume \in DOMAIN number /\ s.id \in Nat /\ s.id < number[s.volume]
OneId(s, t) == s.volume = t.volume /\ s.id = t.id => s.path = t.path
\* What was listed is still of the subvolume that has its id, if one has.
ListedRight(c) ==
  Is(c, "btrfs.subvol_list") /\ pc[c] = "groups" =>
    \A s \in got[c][1] : SubOK(s) /\ s.quota = 0 /\ \A t \in subs : OneId(s, t)

VolumesOK == /\ number \in Seq(Nat) /\ at \in [Place -> {0} \cup DOMAIN number]
             /\ \A v \in volumes : VolumeOK(v)
SubsOK == \A s \in subs : SubOK(s) /\ \A t \in subs : OneId(s, t)
QuotaInv == VolumesOK /\ SubsOK /\ \A c \in Coming : ListedRight(c)

LEMMA BtrfsSteps ==
  ASSUME Base, [Next]_vars
  PROVE  (\E c \in Coming : OfBtrfs(c)) \/ (UNCHANGED <<btrfs, at>> /\ Stay(BtrfsDo))
<1> DEFINE Else == UNCHANGED <<btrfs, at>> /\ Stay(BtrfsDo)
<1>1. ASSUME NEW c \in Coming, OfFiles(c) \/ OfDisks(c) \/ OfFlists(c) PROVE Else
  <2>1. Does[c].do \notin BtrfsDo
    BY <1>1 DEF OfFiles, OfDisks, OfFlists, DiskDo, BtrfsDo, FlistDo, FileCommands
  <2>2. UNCHANGED at
    <3>1. CASE OfDisks(c)
      BY <3>1 DEF OfDisks, DiskStep, GetInfo, GetInfoRead, GetInfoFree, List, ListOne, ListMounts,
                  Spindown, Ask, disks
    <3> QED BY <1>1, <3>1 DEF OfFiles, OfFlists, disks
  <2> QED BY <1>1, <2>1, <2>2, StaysBut DEF OfFiles, OfDisks, OfFlists
<1>2. ASSUME NEW c \in Coming, OfBackups(c) \/ OfGroups(c) PROVE Else
  <2>1. Does[c].do \notin BtrfsDo
    BY <1>2 DEF OfBackups, OfGroups, BackupCommands, GroupDo, Gets, BtrfsDo
  <2> QED BY <1>2, <2>1, StaysBut DEF OfBackups, OfGroups, disks
<1>3. ASSUME NEW o \in Mounts, OfDaemon(o) PROVE Else
  <2>1. daemon[o].by \in Coming /\ Does[daemon[o].by].do \notin BtrfsDo
    BY <1>3 DEF OfDaemon, Base, DaemonInv, Starting, FlistDo, BtrfsDo
  <2> QED BY <1>3, <2>1, StaysBut DEF OfDaemon, disks
<1>4. CASE Aside
  <2>1. UNCHANGED <<btrfs, at>>
    BY <1>4 DEF Aside, Unplug, vars, disks
  <2> QED BY <1>4, <2>1, StaysSo DEF Aside, Base
<1> QED BY <1>1, <1>2, <1>3, <1>4, StorageSteps DEF Base

\* Numbers only grow, and an id that is new was not given before.
Renews ==
  /\ number' \in Seq(Nat) /\ DOMAIN number \subseteq DOMAIN number'
  /\ \A v \in DOMAIN number : number[v] <= number'[v]
  /\ \A t \in subs' : \/ \E u \in subs : u.volume = t.volume /\ u.id = t.id /\ u.path = t.path
                      \/ t.id >= number[t.volume]

LEMMA ListedStill ==
  ASSUME QuotaInv, NEW c \in Coming, UNCHANGED <<pc[c], got[c]>>, Renews
  PROVE  ListedRight(c)'
<1> SUFFICES ASSUME Is(c, "btrfs.subvol_list"), pc[c] = "groups", NEW s \in got[c][1]
             PROVE  SubOK(s)' /\ s.quota = 0 /\ \A t \in subs' : OneId(s, t)
  BY DEF ListedRight, OneId, Is
<1>1. SubOK(s) /\ s.quota = 0 /\ \A t \in subs : OneId(s, t)
  BY DEF QuotaInv, ListedRight
<1>2. number[s.volume] \in Nat /\ number'[s.volume] \in Nat /\ number[s.volume] <= number'[s.volume]
  BY <1>1 DEF QuotaInv, VolumesOK, SubOK, Renews
<1>3. SubOK(s)'
  BY <1>1, <1>2 DEF SubOK, Renews
<1>4. ASSUME NEW t \in subs', s.volume = t.volume, s.id = t.id PROVE s.path = t.path
  <2>1. ~(t.id >= number[t.volume])
    BY <1>1, <1>2, <1>4 DEF SubOK
  <2> QED BY <2>1, <1>1, <1>4 DEF OneId, Renews
<1> QED BY <1>1, <1>3, <1>4 DEF OneId

\* Steps that make, delete and change no subvolume.
LEMMA SameSubs ==
  ASSUME QuotaInv, UNCHANGED <<subs, number>>
  PROVE  SubsOK' /\ Renews
<1>1. \A v \in DOMAIN number : number[v] \in Nat
  BY DEF QuotaInv, VolumesOK
<1> QED BY <1>1 DEF QuotaInv, VolumesOK, SubsOK, SubOK, OneId, Renews

LEMMA VolumesStep ==
  ASSUME QuotaInv, NEW c \in Coming, CreateFs(c) \/ DeviceChange(c)
  PROVE  VolumesOK' /\ SubsOK' /\ Renews
<1>1. \A S : \A v \in Losing(S) : VolumeOK(v)
  BY DEF Losing, QuotaInv, VolumesOK, VolumeOK
<1>2. UNCHANGED <<at, subs>>
  BY DEF CreateFs, DeviceChange, disks
<1>3. CASE UNCHANGED number
  <2>1. \A v \in volumes' : VolumeOK(v)
    <3>1. CASE CreateFs(c)
      <4>1. UNCHANGED volumes \/ number' = Append(number, 1)
        BY <3>1 DEF CreateFs
      <4>2. number' # Append(number, 1)
        BY <1>3 DEF QuotaInv, VolumesOK
      <4> QED BY <4>1, <4>2 DEF QuotaInv, VolumesOK
    <3>2. CASE DeviceChange(c)
      <4>1. CASE UNCHANGED volumes
        BY <4>1 DEF QuotaInv, VolumesOK
      <4>2. CASE ~UNCHANGED volumes
        <5>0. PICK v \in volumes : \E S, now :
                volumes' = (Losing(S) \ {[v EXCEPT !.devs = @ \ S]})
                        \cup {[id |-> v.id, label |-> v.label, total |-> Cardinality(now), devs |-> now]}
          BY <3>2, <4>2 DEF DeviceChange, MountedAt
        <5>1. PICK S, now :
                volumes' = (Losing(S) \ {[v EXCEPT !.devs = @ \ S]})
                        \cup {[id |-> v.id, label |-> v.label, total |-> Cardinality(now), devs |-> now]}
          BY <5>0
        <5>2. VolumeOK([id |-> v.id, label |-> v.label, total |-> Cardinality(now), devs |-> now])
          BY DEF QuotaInv, VolumesOK, VolumeOK
        <5> QED BY <5>1, <5>2, <1>1
      <4> QED BY <4>1, <4>2
    <3> QED BY <3>1, <3>2
  <2>2. VolumesOK'
    BY <2>1, <1>2, <1>3 DEF QuotaInv, VolumesOK, VolumeOK
  <2> QED BY <2>2, <1>2, <1>3, SameSubs
<1>4. CASE ~UNCHANGED number
  <2>1. /\ CreateFs(c) /\ number' = Append(number, 1)
        /\ \E S, l, n : volumes' = Losing(S) \cup
             {[id |-> Len(number) + 1, label |-> l, total |-> n, devs |-> S]}
    BY <1>4 DEF CreateFs, DeviceChange
  <2>2. /\ number' \in Seq(Nat) /\ DOMAIN number \subseteq DOMAIN number'
        /\ Len(number) + 1 \in DOMAIN number' /\ \A v \in DOMAIN number : number'[v] = number[v]
    BY <2>1 DEF QuotaInv, VolumesOK
  <2>3. \A v \in DOMAIN number : number[v] \in Nat
    BY DEF QuotaInv, VolumesOK
  <2>4. \A v \in volumes' : VolumeOK(v)'
    BY <2>1, <2>2, <1>1 DEF VolumeOK
  <2>5. VolumesOK'
    BY <2>2, <2>4, <1>2 DEF QuotaInv, VolumesOK
  <2>6. SubsOK'
    BY <2>2, <1>2 DEF QuotaInv, SubsOK, SubOK, OneId
  <2>7. Renews
    BY <2>2, <2>3, <1>2 DEF QuotaInv, SubsOK, SubOK, Renews
  <2> QED BY <2>5, <2>6, <2>7
<1> QED BY <1>3, <1>4

LEMMA MountsStep ==
  ASSUME QuotaInv, NEW c \in Coming, Mount(c) \/ Unmount(c)
  PROVE  VolumesOK' /\ SubsOK' /\ Renews
<1>1. UNCHANGED <<volumes, subs, number>>
  BY DEF Mount, Unmount, btrfs
<1>2. at' \in [Place -> {0} \cup DOMAIN number]
  BY DEF Mount, Unmount, QuotaInv, VolumesOK, VolumeOK
<1>3. VolumesOK'
  BY <1>1, <1>2 DEF QuotaInv, VolumesOK, VolumeOK
<1> QED BY <1>1, <1>3, SameSubs

\* A subvolume is made, or made of another.
LEMMA SubvolMade ==
  ASSUME QuotaInv, NEW p \in Place, NEW path, at[p] # 0,
         subs' = subs \cup {NewSub(p, path)}, Numbered(p), UNCHANGED <<at, volumes>>
  PROVE  VolumesOK' /\ SubsOK' /\ Renews
<1> PICK v0 : v0 = at[p]
  OBVIOUS
<1> PICK new : new = NewSub(p, path)
  OBVIOUS
<1>1. v0 \in DOMAIN number /\ number \in Seq(Nat) /\ number[v0] \in Nat
  BY DEF QuotaInv, VolumesOK
<1>2. /\ number' \in Seq(Nat) /\ DOMAIN number' = DOMAIN number
      /\ number'[v0] = number[v0] + 1 /\ \A v \in DOMAIN number \ {v0} : number'[v] = number[v]
  BY <1>1 DEF Numbered
<1>3. \A v \in DOMAIN number : number[v] \in Nat /\ number[v] <= number'[v]
  <2>1. \A v \in DOMAIN number : number[v] \in Nat
    BY <1>1
  <2> QED BY <2>1, <1>2
<1>4. new = [id |-> number[v0], volume |-> v0, path |-> path, quota |-> 0]
  BY DEF NewSub
<1>5. \A s \in subs : SubOK(s)' /\ OneId(s, new) /\ OneId(new, s)
  <2> SUFFICES ASSUME NEW s \in subs PROVE SubOK(s)' /\ OneId(s, new) /\ OneId(new, s)
    OBVIOUS
  <2>1. SubOK(s) BY DEF QuotaInv, SubsOK
  <2>2. SubOK(s)' BY <2>1, <1>2, <1>3 DEF SubOK
  <2>3. ~(s.volume = v0 /\ s.id = number[v0])
    BY <2>1, <1>1 DEF SubOK
  <2> QED BY <2>2, <2>3, <1>4 DEF OneId
<1>6. SubOK(new)'
  BY <1>1, <1>2, <1>4 DEF SubOK
<1>7. subs' = subs \cup {new}
  OBVIOUS
<1>8. SubsOK'
  BY <1>5, <1>6, <1>7 DEF QuotaInv, SubsOK, OneId
<1>9. VolumesOK'
  BY <1>2 DEF QuotaInv, VolumesOK, VolumeOK
<1>10. new.id >= number[new.volume]
  BY <1>1, <1>4
<1> QED BY <1>2, <1>3, <1>7, <1>8, <1>9, <1>10 DEF Renews

LEMMA SubvolsStep ==
  ASSUME Base, QuotaInv, NEW c \in Coming,
         \/ SubvolCreate(c) \/ SubvolDelete(c) \/ SubvolSnapshot(c) \/ QuotaLimit(c)
  PROVE  VolumesOK' /\ SubsOK' /\ Renews
<1>1. UNCHANGED <<at, volumes>>
  BY DEF SubvolCreate, SubvolDelete, SubvolSnapshot, QuotaLimit, disks
<1>2. CASE UNCHANGED <<subs, number>>
  BY <1>1, <1>2, SameSubs DEF QuotaInv, VolumesOK, VolumeOK
<1>3. CASE \E p \in Place : \E path : at[p] # 0 /\ subs' = subs \cup {NewSub(p, path)} /\ Numbered(p)
  BY <1>1, <1>3, SubvolMade
<1>4. CASE SubvolDelete(c) \/ (QuotaLimit(c) /\ ~UNCHANGED subs)
  <2>1. UNCHANGED number
    BY <1>4 DEF SubvolDelete, QuotaLimit
  <2>2. \A t \in subs' : /\ \E u \in subs : u.volume = t.volume /\ u.id = t.id /\ u.path = t.path
                        /\ SubOK(t)
    <3>1. CASE subs' \subseteq subs
      BY <3>1 DEF QuotaInv, SubsOK
    <3>2. ASSUME NEW S \in SUBSET subs, NEW l, subs' = (subs \ S) \cup {[v EXCEPT !.quota = l] : v \in S}
          PROVE  \A t \in subs' : /\ \E u \in subs : u.volume = t.volume /\ u.id = t.id /\ u.path = t.path
                                 /\ SubOK(t)
      <4>1. \A u \in subs : LET t == [u EXCEPT !.quota = l] IN
              t.volume = u.volume /\ t.id = u.id /\ t.path = u.path /\ SubOK(t)
        BY DEF QuotaInv, SubsOK, SubOK
      <4>2. \A u \in subs : SubOK(u)
        BY DEF QuotaInv, SubsOK
      <4>3. ASSUME NEW t \in subs'
            PROVE  /\ \E u \in subs : u.volume = t.volume /\ u.id = t.id /\ u.path = t.path
                   /\ SubOK(t)
        <5>1. CASE t \in subs
          BY <5>1, <4>2
        <5>2. CASE \E u \in S : t = [u EXCEPT !.quota = l]
          <6>1. PICK u \in S : t = [u EXCEPT !.quota = l]
            BY <5>2
          <6> QED BY <6>1, <4>1
        <5> QED BY <3>2, <5>1, <5>2
      <4> QED BY <4>3
    <3>3. Sub(Does[c].place, Does[c].path) \in SUBSET subs
      BY DEF Sub
    <3> QED BY <1>4, <3>1, <3>2, <3>3 DEF SubvolDelete, QuotaLimit
  <2>3. \A v \in DOMAIN number : number[v] \in Nat
    BY DEF QuotaInv, VolumesOK
  <2>4. SubsOK'
    BY <2>1, <2>2 DEF QuotaInv, SubsOK, SubOK, OneId
  <2>5. Renews
    BY <2>1, <2>2, <2>3 DEF QuotaInv, VolumesOK, Renews
  <2> QED BY <2>1, <2>4, <2>5, <1>1 DEF QuotaInv, VolumesOK, VolumeOK
<1> QED
  <2>1. SubvolCreate(c) \/ SubvolSnapshot(c) => Does[c].place \in Place
    BY BtrfsAssumption, CommandsAssumption DEF Base, SubvolCreate, SubvolSnapshot, Is
  <2> QED BY <1>2, <1>3, <1>4, <2>1 DEF SubvolCreate, SubvolSnapshot, QuotaLimit

LEMMA QuotaCommand ==
  ASSUME Base, QuotaInv, NEW c \in Coming, OfBtrfs(c)
  PROVE  QuotaInv'
<1>1. VolumesOK' /\ SubsOK' /\ Renews
  <2>1. CASE CreateFs(c) \/ DeviceChange(c)
    BY <2>1, VolumesStep
  <2>2. CASE Mount(c) \/ Unmount(c)
    BY <2>2, MountsStep
  <2>3. CASE SubvolCreate(c) \/ SubvolDelete(c) \/ SubvolSnapshot(c) \/ QuotaLimit(c)
    BY <2>3, SubvolsStep
  <2>4. CASE ListFs(c) \/ InfoFs(c) \/ InfoDf(c) \/ QuotaEnable(c) \/ SubvolList(c) \/ SubvolGroups(c)
    <3>1. UNCHANGED <<at, volumes, subs, number>>
      BY <2>4 DEF ListFs, InfoFs, InfoDf, QuotaEnable, SubvolList, SubvolGroups, disks, btrfs
    <3> QED BY <3>1, SameSubs DEF QuotaInv, VolumesOK, VolumeOK
  <2> QED BY <2>1, <2>2, <2>3, <2>4 DEF OfBtrfs, BtrfsStep
<1>2. ASSUME NEW d \in Coming, d # c PROVE ListedRight(d)'
  BY <1>1, <1>2, ListedStill DEF OfBtrfs, MovesOnly
<1>3. ListedRight(c)'
  <2> SUFFICES ASSUME Is(c, "btrfs.subvol_list"), pc'[c] = "groups"
               PROVE  \A s \in got'[c][1] : SubOK(s)' /\ s.quota = 0 /\ \A t \in subs' : OneId(s, t)
    BY DEF ListedRight, OneId, Is
  <2>1. SubvolList(c) \/ SubvolGroups(c)
    BY DEF OfBtrfs, BtrfsStep, CreateFs, DeviceChange, Mount, Unmount, ListFs, InfoFs, InfoDf,
           SubvolCreate, SubvolDelete, SubvolSnapshot, QuotaEnable, QuotaLimit, Is
  <2>2. ~SubvolGroups(c)
    BY StepMoves DEF SubvolGroups, Base
  <2>3. UNCHANGED btrfs /\ Reads(c, "groups", <<{[s EXCEPT !.quota = 0] :
                              s \in {t \in subs : t.volume = at[Does[c].place]}}>>)
    BY <2>1, <2>2, StepMoves DEF SubvolList, Base
  <2>4. got'[c] = <<{[s EXCEPT !.quota = 0] : s \in {t \in subs : t.volume = at[Does[c].place]}}>>
    BY <2>3, StepMoves DEF Base
  <2>5. ASSUME NEW s \in got'[c][1]
        PROVE  SubOK(s) /\ s.quota = 0 /\ \A t \in subs : OneId(s, t)
    <3>1. PICK u \in subs : s = [u EXCEPT !.quota = 0]
      BY <2>4
    <3> QED BY <3>1 DEF QuotaInv, SubsOK, SubOK, OneId
  <2> QED BY <2>3, <2>5 DEF SubOK, OneId, btrfs
<1> QED BY <1>1, <1>2, <1>3 DEF QuotaInv, OfBtrfs, MovesOnly

LEMMA QuotaStep == Base /\ QuotaInv /\ [Next]_vars => QuotaInv'
<1> SUFFICES ASSUME Base, QuotaInv, [Next]_vars PROVE QuotaInv'
  OBVIOUS
<1>1. CASE UNCHANGED <<btrfs, at>> /\ Stay(BtrfsDo)
  <2>1. VolumesOK' /\ SubsOK' /\ Renews
    BY <1>1, SameSubs DEF btrfs, QuotaInv, VolumesOK, VolumeOK
  <2>2. ASSUME NEW c \in Coming PROVE ListedRight(c)'
    <3>1. CASE Is(c, "btrfs.subvol_list")
      BY <1>1, <2>1, <3>1, ListedStill DEF Stay, BtrfsDo, Is
    <3>2. CASE ~Is(c, "btrfs.subvol_list")
      BY <3>2 DEF ListedRight, Is
    <3> QED BY <3>1, <3>2
  <2> QED BY <1>1, <2>1, <2>2 DEF QuotaInv, Stay
<1> QED BY <1>1, QuotaCommand, BtrfsSteps

LEMMA QuotaInit == Init => QuotaInv
<1> SUFFICES ASSUME Init PROVE QuotaInv
  OBVIOUS
<1>1. number = Before.number /\ subs = Before.subs /\ volumes = Before.volumes /\ at = Before.at
  BY DEF Init, InitBtrfs
<1>2. \A c \in Coming : ListedRight(c)
  BY BaseInit DEF ListedRight
<1>3. VolumesOK
  BY <1>1, BtrfsAssumption DEF VolumesOK, VolumeOK
<1>4. SubsOK
  <2>1. ASSUME NEW s \in subs PROVE SubOK(s)
    <3>1. number[s.volume] \in Nat /\ s.id \in 0..(number[s.volume] - 1)
      BY <2>1, <1>1, BtrfsAssumption
    <3> QED BY <3>1, <2>1, <1>1, BtrfsAssumption DEF SubOK
  <2>2. ASSUME NEW s \in subs, NEW t \in subs PROVE OneId(s, t)
    BY <2>2, <1>1, BtrfsAssumption DEF OneId
  <2> QED BY <2>1, <2>2 DEF SubsOK
<1> QED BY <1>2, <1>3, <1>4 DEF QuotaInv

\* What the groups say of what was listed.
LEMMA QuotaTold ==
  ASSUME Base, QuotaInv, NEW c \in Coming, OfBtrfs(c), Is(c, "btrfs.subvol_list"),
         pc[c] = "groups", pc'[c] = "ok", NEW s \in got'[c][1], s.quota # 0
  PROVE  s \in subs \/ s.volume # at[Does[c].place]
<1> DEFINE groups == QGroups(Does[c].place)
<1>1. SubvolGroups(c)
  BY DEF OfBtrfs, BtrfsStep, CreateFs, DeviceChange, Mount, Unmount, ListFs, InfoFs, InfoDf,
         SubvolCreate, SubvolDelete, SubvolSnapshot, QuotaEnable, QuotaLimit, SubvolList, Is
<1>2. \A u \in got[c][1] : SubOK(u) /\ u.quota = 0 /\ \A t \in subs : OneId(u, t)
  BY DEF QuotaInv, ListedRight
<1>3. Reads(c, "ok", <<{WithQuota(u, groups) : u \in got[c][1]}>>)
  <2>1. ~Fault(c, "ok")
    BY <1>2, StepMoves DEF Base
  <2>2. ~Fault(c, "error")
    BY StepMoves DEF Base
  <2> QED BY <1>1, <2>1, <2>2 DEF SubvolGroups
<1>4. got'[c] = <<{WithQuota(u, groups) : u \in got[c][1]}>>
  BY <1>3, StepMoves DEF Base
<1>5. PICK u \in got[c][1] : s = WithQuota(u, groups)
  BY <1>4
<1>6. GroupOf(u, groups) # {}
  <2>1. GroupOf(u, groups) = {} => s = [u EXCEPT !.quota = 0]
    BY <1>5 DEF WithQuota
  <2> QED BY <2>1, <1>2 DEF SubOK
<1>7. PICK g \in GroupOf(u, groups) : s = [u EXCEPT !.quota = g.quota]
  BY <1>5, <1>6 DEF WithQuota
<1>8. g \in subs /\ g.volume = at[Does[c].place] /\ g.id = u.id
  BY <1>7 DEF GroupOf, QGroups
<1>9. ASSUME u.volume = g.volume PROVE s = g
  <2>1. u.path = g.path
    BY <1>2, <1>8, <1>9 DEF OneId
  <2>2. g = [id |-> g.id, volume |-> g.volume, path |-> g.path, quota |-> g.quota]
    BY <1>8 DEF QuotaInv, SubsOK, SubOK
  <2>3. u = [id |-> u.id, volume |-> u.volume, path |-> u.path, quota |-> u.quota]
    BY <1>2 DEF SubOK
  <2>4. s = [id |-> u.id, volume |-> u.volume, path |-> u.path, quota |-> g.quota]
    BY <1>7, <2>3
  <2> QED BY <2>1, <2>2, <2>4, <1>8, <1>9
<1>10. s.volume = u.volume
  BY <1>2, <1>7 DEF SubOK
<1> QED BY <1>8, <1>9, <1>10

\* For any file systems and subvolumes, and whatever comes in between, subvol_list tells a
\* subvolume its own quota or none, unless another file system was mounted at the place
\* between the list and the groups (btrfs.go:372-406).
THEOREM QuotaOfItselfHolds == Spec => QuotaOfItself
<1> DEFINE IsOwn == \A c \in Coming : Is(c, "btrfs.subvol_list") /\ pc[c] = "groups" /\ pc'[c] = "ok" =>
                     \A s \in got'[c][1] : s.quota # 0 => s \in subs \/ s.volume # at[Does[c].place]
<1>1. Base /\ QuotaInv /\ [Next]_vars => [IsOwn]_vars
  <2> SUFFICES ASSUME Base, QuotaInv, [Next]_vars,
                      NEW c \in Coming, Is(c, "btrfs.subvol_list"), pc[c] = "groups", pc'[c] = "ok",
                      NEW s \in got'[c][1], s.quota # 0
               PROVE  s \in subs \/ s.volume # at[Does[c].place]
    OBVIOUS
  <2>1. ~Stay(BtrfsDo)
    BY DEF Stay, BtrfsDo, Is
  <2>2. PICK d \in Coming : OfBtrfs(d)
    BY <2>1, BtrfsSteps
  <2>3. d = c
    BY <2>2 DEF OfBtrfs, MovesOnly
  <2> QED BY <2>2, <2>3, QuotaTold
<1> QED BY <1>1, BaseInit, BaseStep, QuotaInit, QuotaStep, PTL DEF Spec, QuotaOfItself
-----------------------------------------------------------------------------
(* Backups *)

KOf(c) == Does[c].con
OfRestored(r) == Does[Does[r].from].con
\* A container that has its PID, or had it: its arguments stay.
Been(k) == con[k] \in {"running", "ended"}
Busy(c) == Pauses(c) /\ Underway(c)

BackupsOK ==
  /\ con \in [Con -> {"absent", "starting", "running", "ended"}] /\ args \in [Con -> Con]
  /\ meta \in [Con -> Con \cup {"none"}]
  /\ snapshot \in [Coming -> [meta : Con \cup {"none"}, rest : BOOLEAN]]
MetaOK(k) == meta[k] # "none" => Been(k) /\ meta[k] = args[k]

\* A backup or an flist_create that nothing overlapped is alone with a container that runs.
PauseOK(c) ==
  Pauses(c) =>
    /\ pc[c] \in IF Is(c, "backup")
                 THEN {"new", "meta", "listing", "stop", "restic", "saving", "continue", "clean", "ok", "error"}
                 ELSE {"new", "stop", "zflist", "unpack", "empty", "pack", "continue", "ok", "error"}
    /\ pc[c] \notin {"new", "error"} => Been(KOf(c))
    /\ pc[c] \in {"continue", "clean"} => got[c][1] \in {"ok", "error"}
    /\ Underway(c) /\ c \notin overlapped =>
         con[KOf(c)] = "running" /\ \A d \in Coming \ {c} : Busy(d) => KOf(d) # KOf(c)
SavedOK(b) == snapshot[b].meta # "none" => Is(b, "backup") /\ Been(KOf(b)) /\ snapshot[b].meta = args[KOf(b)]
AtRest(b) == snapshot[b].meta = args[KOf(b)] /\ snapshot[b].rest = TRUE
\* How far a backup is that nothing overlapped.
BackupOK(b) ==
  Is(b, "backup") /\ b \notin overlapped =>
    /\ pc[b] \in {"listing", "stop", "restic", "saving"} => meta[KOf(b)] = args[KOf(b)]
    /\ pc[b] \in {"stop", "restic", "saving"} => got[b] = <<TRUE>>
    /\ pc[b] \in {"restic", "saving"} => KOf(b) \in stopped
    /\ pc[b] = "saving" => snapshot[b].rest = TRUE
    /\ pc[b] \in {"continue", "clean"} /\ got[b][1] = "ok" => AtRest(b)
    /\ pc[b] = "ok" => AtRest(b)
RestoreOK(r) ==
  Is(r, "restore") =>
    /\ pc[r] \in {"new", "create", "ok", "error"}
    /\ pc[r] \in {"create", "ok"} => Been(OfRestored(r)) /\ got[r][1] = args[OfRestored(r)]
CommandOK(c) == PauseOK(c) /\ SavedOK(c) /\ BackupOK(c) /\ RestoreOK(c)
BackupsInv == BackupsOK /\ (\A k \in Con : MetaOK(k)) /\ \A c \in Coming : CommandOK(c)

LEMMA BackupSteps ==
  ASSUME Base, [Next]_vars
  PROVE  \/ \E c \in Coming : OfBackups(c)
         \/ UNCHANGED <<pc, got, todo>> /\ \E k \in Con : GetsPID(k) \/ Ends(k)
         \/ UNCHANGED backups /\ Stay(BackupCommands)
<1> DEFINE Else == UNCHANGED backups /\ Stay(BackupCommands)
<1>1. ASSUME NEW c \in Coming, OfFiles(c) \/ OfDisks(c) \/ OfFlists(c) PROVE Else
  <2>1. Does[c].do \notin BackupCommands
    BY <1>1 DEF OfFiles, OfDisks, OfFlists, DiskDo, BackupCommands, FlistDo, FileCommands
  <2> QED BY <1>1, <2>1, StaysBut DEF OfFiles, OfDisks, OfFlists
<1>2. ASSUME NEW c \in Coming, OfBtrfs(c) \/ OfGroups(c) PROVE Else
  <2>1. Does[c].do \notin BackupCommands
    BY <1>2 DEF OfBtrfs, OfGroups, BackupCommands, GroupDo, Gets, BtrfsDo
  <2> QED BY <1>2, <2>1, StaysBut DEF OfBtrfs, OfGroups
<1>3. ASSUME NEW o \in Mounts, OfDaemon(o) PROVE Else
  <2>1. daemon[o].by \in Coming /\ Does[daemon[o].by].do \notin BackupCommands
    BY <1>3 DEF OfDaemon, Base, DaemonInv, Starting, FlistDo, BackupCommands
  <2> QED BY <1>3, <2>1, StaysBut DEF OfDaemon
<1>4. CASE Aside
  <2>1. UNCHANGED backups \/ \E k \in Con : GetsPID(k) \/ Ends(k)
    BY <1>4 DEF Aside, vars
  <2> QED BY <1>4, <2>1, StaysSo DEF Aside, Base
<1> QED BY <1>1, <1>2, <1>3, <1>4, StorageSteps DEF Base

\* Containers that have been keep their arguments.
ArgsKept == \A k \in Con : Been(k) => Been(k)' /\ args'[k] = args[k]

\* What a step does to the commands that it does not move.
LEMMA Bystander ==
  ASSUME Base, BackupsInv, NEW d \in Coming, UNCHANGED <<pc[d], got[d]>>, Coming' = Coming, ArgsKept,
         overlapped \subseteq overlapped', snapshot'[d].meta = snapshot[d].meta,
         d \notin overlapped' => snapshot'[d] = snapshot[d],
         Busy(d) /\ d \notin overlapped' =>
           /\ con'[KOf(d)] = "running" /\ meta'[KOf(d)] = meta[KOf(d)]
           /\ KOf(d) \in stopped => KOf(d) \in stopped'
           /\ \A e \in Coming \ {d} : Busy(e)' => KOf(e) # KOf(d)
  PROVE  CommandOK(d)'
<1>1. CommandOK(d)
  BY DEF BackupsInv
<1>2. Pauses(d) => KOf(d) \in Con
  BY BackupsAssumption, CommandsAssumption DEF Base, Pauses, KOf
<1>3. Is(d, "restore") => OfRestored(d) \in Con
  BY BackupsAssumption, CommandsAssumption DEF Base, Is, OfRestored
<1>4. PauseOK(d)'
  BY <1>1, <1>2 DEF CommandOK, PauseOK, ArgsKept, Busy, Underway, Ended, Pauses, Is, KOf
<1>5. SavedOK(d)'
  BY <1>1, <1>2 DEF CommandOK, SavedOK, ArgsKept, Pauses, Is, KOf
<1>6. BackupOK(d)'
  <2> SUFFICES ASSUME Is(d, "backup"), d \notin overlapped' PROVE BackupOK(d)'
    BY DEF BackupOK, Is
  <2>1. Pauses(d) /\ snapshot'[d] = snapshot[d] /\ d \notin overlapped
    BY DEF Pauses, Is
  <2>2. pc[d] \in {"listing", "stop", "restic", "saving", "continue", "clean"} => Busy(d)
    BY <2>1 DEF Busy, Underway, Ended
  <2>3. pc[d] \notin {"new", "error"} => Been(KOf(d))
    BY <2>1, <1>1 DEF CommandOK, PauseOK
  <2>4. pc[d] \notin {"new", "error"} => args'[KOf(d)] = args[KOf(d)]
    BY <2>1, <2>3, <1>2 DEF ArgsKept
  <2> QED BY <1>1, <2>1, <2>2, <2>4 DEF CommandOK, BackupOK, AtRest, KOf
<1>7. RestoreOK(d)'
  BY <1>1, <1>3 DEF CommandOK, RestoreOK, ArgsKept, Is, OfRestored
<1> QED BY <1>4, <1>5, <1>6, <1>7 DEF CommandOK

\* The places of a backup and of an flist_create.
PlacesOf(c) == IF Is(c, "backup")
               THEN {"new", "meta", "listing", "stop", "restic", "saving", "continue", "clean", "ok", "error"}
               ELSE {"new", "stop", "zflist", "unpack", "empty", "pack", "continue", "ok", "error"}

\* A backup or an flist_create that goes on has to do with its container only.
LEMMA GoesOn ==
  ASSUME Base, BackupsInv, NEW c \in Coming, OfBackups(c), Pauses(c), pc[c] # "new",
         UNCHANGED <<con, args, overlapped>>, BackupsOK', MetaOK(KOf(c))',
         \A k \in Con \ {KOf(c)} : meta'[k] = meta[k] /\ (k \in stopped => k \in stopped'),
         \A d \in Coming \ {c} : snapshot'[d].meta = snapshot[d].meta,
         \A d \in Coming \ {c} : ~(Busy(d) /\ KOf(d) = KOf(c)) => snapshot'[d] = snapshot[d],
         pc'[c] \in PlacesOf(c) \ {"new"},
         pc'[c] \in {"continue", "clean"} => got'[c][1] \in {"ok", "error"},
         SavedOK(c)', BackupOK(c)'
  PROVE  BackupsInv'
<1>1. Busy(c) /\ MovesOnly(c)
  BY DEF OfBackups, Busy, Underway
<1>2. ArgsKept
  BY DEF ArgsKept, Been
<1>3. \A e \in Coming : Busy(e)' => Busy(e)
  BY <1>1 DEF MovesOnly, Busy, Underway, Ended, Pauses
<1>4. ASSUME NEW d \in Coming, d # c PROVE CommandOK(d)'
  <2>1. ASSUME Busy(d), d \notin overlapped
        PROVE  con[KOf(d)] = "running" /\ \A e \in Coming \ {d} : Busy(e) => KOf(e) # KOf(d)
    BY <2>1 DEF BackupsInv, CommandOK, PauseOK, Busy
  <2>2. Busy(d) => KOf(d) \in Con
    BY BackupsAssumption, CommandsAssumption DEF Base, Busy, Pauses, KOf
  <2>3. Busy(d) /\ d \notin overlapped => KOf(d) # KOf(c)
    BY <1>1, <1>4, <2>1
  <2>4. d \notin overlapped => snapshot'[d] = snapshot[d]
    BY <1>4, <2>3
  <2>5. Busy(d) /\ d \notin overlapped' =>
           /\ con'[KOf(d)] = "running" /\ meta'[KOf(d)] = meta[KOf(d)]
           /\ KOf(d) \in stopped => KOf(d) \in stopped'
           /\ \A e \in Coming \ {d} : Busy(e)' => KOf(e) # KOf(d)
    BY <1>3, <2>1, <2>2, <2>3
  <2>6. UNCHANGED <<pc[d], got[d]>> /\ Coming' = Coming
    BY <1>1, <1>4 DEF MovesOnly
  <2> QED BY <1>2, <1>4, <2>4, <2>5, <2>6, Bystander
<1>5. PauseOK(c)'
  <2>1. PauseOK(c)
    BY DEF BackupsInv, CommandOK
  <2>2. Been(KOf(c))
    BY <2>1, <1>1 DEF PauseOK, Busy, Underway, Ended
  <2>3. c \notin overlapped =>
          con[KOf(c)] = "running" /\ \A d \in Coming \ {c} : Busy(d) => KOf(d) # KOf(c)
    BY <2>1, <1>1 DEF PauseOK, Busy
  <2>4. \A e \in Coming \ {c} : Busy(e)' => Busy(e)
    BY <1>3
  <2>5. c \notin overlapped' =>
          con'[KOf(c)] = "running" /\ \A d \in Coming' \ {c} : Busy(d)' => KOf(d) # KOf(c)
    BY <1>1, <2>3, <2>4 DEF MovesOnly
  <2> QED BY <2>2, <2>5 DEF PauseOK, PlacesOf, KOf, Pauses, Is, Been
<1>6. CommandOK(c)'
  BY <1>5 DEF CommandOK, RestoreOK, Pauses, Is
<1>7. \A k \in Con : MetaOK(k)'
  BY <1>2 DEF BackupsInv, MetaOK, Been
<1> QED BY <1>1, <1>4, <1>6, <1>7 DEF BackupsInv, MovesOnly

\* An answer or a place of a command that only goes on.
LEMMA BackupFacts ==
  ASSUME Base, BackupsInv, NEW c \in Coming
  PROVE  /\ Pauses(c) => KOf(c) \in Con
         /\ Is(c, "restore") => OfRestored(c) \in Con /\ Does[c].from \in Coming /\ Is(Does[c].from, "backup")
         /\ PauseOK(c) /\ SavedOK(c) /\ BackupOK(c) /\ RestoreOK(c)
         /\ "none" \notin Con /\ \A k \in Con : MetaOK(k)
         /\ snapshot[c] \in [meta : Con \cup {"none"}, rest : BOOLEAN]
<1>1. Pauses(c) => KOf(c) \in Con
  BY BackupsAssumption, CommandsAssumption DEF Base, Pauses, KOf
<1>2. Is(c, "restore") => Does[c].from \in Coming /\ Is(Does[c].from, "backup")
  BY BackupsAssumption DEF Base, Is
<1>3. Is(c, "restore") => OfRestored(c) \in Con
  BY <1>2, BackupsAssumption, CommandsAssumption DEF Base, Is, OfRestored
<1> QED BY <1>1, <1>2, <1>3, BackupsAssumption DEF BackupsInv, CommandOK, BackupsOK

LEMMA StopStep ==
  ASSUME Base, BackupsInv, NEW c \in Coming, OfBackups(c), Stop(c) PROVE BackupsInv'
<1> DEFINE k == KOf(c)
<1>1. Pauses(c) /\ pc[c] = "stop" /\ Step(c, IF Is(c, "backup") THEN "restic" ELSE "zflist")
      /\ UNCHANGED <<con, args, meta, snapshot, overlapped>>
  BY DEF Stop
<1>2. pc'[c] = IF Is(c, "backup") THEN "restic" ELSE "zflist"
  BY <1>1, StepMoves DEF Base
<1>3. got'[c] = got[c] /\ \A d \in Coming \ {c} : pc'[d] = pc[d]
  BY <1>1, StepMoves DEF Base, MovesOnly
<1>4. stopped' = IF Alive(k) THEN stopped \cup {k} ELSE stopped
  BY DEF Stop, KOf
<1>5. BackupOK(c)'
  <2> SUFFICES ASSUME Is(c, "backup"), c \notin overlapped PROVE BackupOK(c)'
    BY <1>1 DEF BackupOK, Is
  <2>1. Alive(k)
    BY <1>1, BackupFacts DEF PauseOK, Underway, Ended, Alive
  <2> QED BY <1>1, <1>2, <1>3, <1>4, <2>1, BackupFacts DEF BackupOK, KOf, Is
<1>6. SavedOK(c)' /\ MetaOK(k)' /\ BackupsOK'
  BY <1>1, <1>2, BackupFacts DEF SavedOK, MetaOK, Been, BackupsOK, Is, KOf, BackupsInv, OfBackups, MovesOnly
<1> QED BY <1>1, <1>2, <1>4, <1>5, <1>6, GoesOn DEF PlacesOf, Is

LEMMA ContinueStep ==
  ASSUME Base, BackupsInv, NEW c \in Coming, OfBackups(c), Continue(c) PROVE BackupsInv'
<1> DEFINE k == KOf(c)
           hit(d) == d \in On(k) /\ pc[d] = "saving"
<1>1. Pauses(c) /\ pc[c] = "continue" /\ Step(c, IF Is(c, "backup") THEN "clean" ELSE got[c][1])
      /\ UNCHANGED <<con, args, meta, overlapped>> /\ stopped' = stopped \ {k}
  BY DEF Continue, KOf
<1>2. got[c][1] \in {"ok", "error"}
  BY <1>1, BackupFacts DEF PauseOK
<1>3. pc'[c] = IF Is(c, "backup") THEN "clean" ELSE got[c][1]
  BY <1>1, StepMoves DEF Base
<1>4. got'[c] = got[c] /\ Coming' = Coming
  BY <1>1, StepMoves DEF Base, MovesOnly
<1>5. snapshot' = [d \in Coming |-> IF hit(d) THEN [snapshot[d] EXCEPT !.rest = FALSE] ELSE snapshot[d]]
  BY DEF Continue, KOf
<1>6. ASSUME NEW d \in Coming
      PROVE  /\ snapshot'[d] \in [meta : Con \cup {"none"}, rest : BOOLEAN]
             /\ snapshot'[d].meta = snapshot[d].meta
             /\ ~hit(d) => snapshot'[d] = snapshot[d]
  <2> HIDE DEF hit
  <2>1. snapshot[d] \in [meta : Con \cup {"none"}, rest : BOOLEAN]
    BY BackupFacts
  <2>2. snapshot'[d] = IF hit(d) THEN [snapshot[d] EXCEPT !.rest = FALSE] ELSE snapshot[d]
    BY <1>5
  <2>3. [snapshot[d] EXCEPT !.rest = FALSE] \in [meta : Con \cup {"none"}, rest : BOOLEAN]
        /\ [snapshot[d] EXCEPT !.rest = FALSE].meta = snapshot[d].meta
    BY <2>1
  <2> QED BY <2>1, <2>2, <2>3
<1>7. \A d \in Coming : snapshot'[d] # snapshot[d] => Busy(d) /\ KOf(d) = k
  BY <1>6 DEF On, Busy, KOf
<1>8. \A d \in Coming : snapshot'[d].meta = snapshot[d].meta
  BY <1>6
<1>9. snapshot'[c] = snapshot[c]
  BY <1>6, <1>1
<1>10. BackupsOK'
  <2>1. snapshot' \in [Coming' -> [meta : Con \cup {"none"}, rest : BOOLEAN]]
    BY <1>4, <1>5, <1>6
  <2> QED BY <2>1, <1>1 DEF BackupsInv, BackupsOK
<1>11. SavedOK(c)' /\ MetaOK(k)'
  <2>1. SavedOK(c)'
    BY <1>1, <1>9, BackupFacts DEF SavedOK, Been, Is, KOf
  <2>2. MetaOK(k)'
    BY <1>1, BackupFacts DEF MetaOK, Been
  <2> QED BY <2>1, <2>2
<1>12. BackupOK(c)'
  BY <1>1, <1>3, <1>4, <1>9, BackupFacts DEF BackupOK, AtRest, KOf, Is
<1> QED BY <1>1, <1>2, <1>3, <1>4, <1>7, <1>8, <1>10, <1>11, <1>12, GoesOn DEF PlacesOf, Is

LEMMA WriteMetaStep ==
  ASSUME Base, BackupsInv, NEW c \in Coming, OfBackups(c), WriteMeta(c) PROVE BackupsInv'
<1> DEFINE k == KOf(c)
<1>1. Pauses(c) /\ Is(c, "backup") /\ pc[c] = "meta" /\ k \in Con /\ Coming' = Coming
  BY BackupFacts DEF WriteMeta, Pauses, Is, OfBackups, MovesOnly
<1>2. UNCHANGED <<con, args, stopped, snapshot, overlapped>>
  BY DEF WriteMeta
<1>3. \/ pc'[c] = "listing" /\ meta' = [meta EXCEPT ![k] = args[k]]
      \/ pc'[c] = "error" /\ UNCHANGED meta
  BY StepMoves DEF WriteMeta, KOf, Base
<1>4. Been(k) /\ args[k] \in Con
  BY <1>1, BackupFacts DEF PauseOK, BackupsInv, BackupsOK
<1>5. meta' \in [Con -> Con \cup {"none"}] /\ \A o \in Con \ {k} : meta'[o] = meta[o]
  BY <1>1, <1>3, <1>4 DEF BackupsInv, BackupsOK
<1>6. pc'[c] = "listing" => meta'[k] = args[k]
  BY <1>1, <1>3 DEF BackupsInv, BackupsOK
<1>7. BackupsOK'
  BY <1>1, <1>2, <1>5 DEF BackupsInv, BackupsOK
<1>8. MetaOK(k)'
  <2>1. CASE pc'[c] = "listing"
    BY <2>1, <1>2, <1>4, <1>6 DEF MetaOK, Been
  <2>2. CASE UNCHANGED meta
    BY <2>2, <1>1, <1>2, BackupFacts DEF MetaOK, Been
  <2> QED BY <1>3, <2>1, <2>2
<1>9. SavedOK(c)' /\ BackupOK(c)'
  BY <1>1, <1>2, <1>3, <1>6, BackupFacts DEF SavedOK, Been, BackupOK, KOf
<1> QED BY <1>1, <1>2, <1>3, <1>5, <1>7, <1>8, <1>9, GoesOn DEF PlacesOf

LEMMA ListRootStep ==
  ASSUME Base, BackupsInv, NEW c \in Coming, OfBackups(c), ListRoot(c) PROVE BackupsInv'
<1> DEFINE k == KOf(c)
<1>1. Pauses(c) /\ Is(c, "backup") /\ pc[c] = "listing" /\ k \in Con /\ Coming' = Coming
  BY BackupFacts DEF ListRoot, Pauses, Is, OfBackups, MovesOnly
<1>2. UNCHANGED <<con, args, stopped, meta, snapshot, overlapped>>
  BY DEF ListRoot, backups
<1>3. IF Alive(k) THEN pc'[c] = "stop" /\ got'[c] = <<meta[k] # "none">>
                  ELSE pc'[c] = "clean" /\ got'[c] = <<"error">>
  BY StepMoves DEF ListRoot, KOf, Base
<1>4. BackupsOK' /\ MetaOK(k)'
  BY <1>1, <1>2, BackupFacts DEF BackupsInv, BackupsOK, MetaOK, Been
<1>5. SavedOK(c)'
  BY <1>1, <1>2, BackupFacts DEF SavedOK, Been, KOf
<1>6. BackupOK(c)'
  <2> SUFFICES ASSUME c \notin overlapped PROVE BackupOK(c)'
    BY <1>2 DEF BackupOK
  <2>1. meta[k] = args[k] /\ Alive(k)
    BY <1>1, BackupFacts DEF BackupOK, PauseOK, Underway, Ended, Alive
  <2>2. meta[k] # "none"
    BY <1>1, <2>1, BackupFacts DEF BackupsInv, BackupsOK
  <2>3. pc'[c] = "stop" /\ got'[c] = <<TRUE>>
    BY <1>3, <2>1, <2>2
  <2> QED BY <1>1, <1>2, <2>1, <2>3 DEF BackupOK, KOf
<1> QED BY <1>1, <1>2, <1>3, <1>4, <1>5, <1>6, GoesOn DEF PlacesOf

LEMMA ResticStep ==
  ASSUME Base, BackupsInv, NEW c \in Coming, OfBackups(c), Restic(c) PROVE BackupsInv'
<1> DEFINE k == KOf(c)
           s == [snapshot[c] EXCEPT !.rest = k \in stopped]
<1>1. Pauses(c) /\ Is(c, "backup") /\ pc[c] = "restic" /\ k \in Con /\ Coming' = Coming
  BY BackupFacts DEF Restic, Pauses, Is, OfBackups, MovesOnly
<1>2. UNCHANGED <<con, args, stopped, meta, overlapped>>
  BY DEF Restic
<1>3. pc'[c] = "saving" /\ got'[c] = got[c]
  BY StepMoves DEF Restic, Base
<1>4. /\ s \in [meta : Con \cup {"none"}, rest : BOOLEAN] /\ s.meta = snapshot[c].meta
      /\ k \in stopped => s.rest = TRUE
  <2>1. CASE k \in stopped
    <3>1. s = [snapshot[c] EXCEPT !.rest = TRUE]
      BY <2>1
    <3> QED BY <3>1, BackupFacts
  <2>2. CASE k \notin stopped
    <3>1. (k \in stopped) = FALSE
      BY <2>2
    <3>2. s = [snapshot[c] EXCEPT !.rest = FALSE]
      BY <3>1, Zenon
    <3> QED BY <2>2, <3>2, BackupFacts
  <2> QED BY <2>1, <2>2
<1>5. snapshot' = [snapshot EXCEPT ![c] = s]
  BY DEF Restic, KOf
<1> HIDE DEF s
<1>6. snapshot'[c] = s /\ \A d \in Coming \ {c} : snapshot'[d] = snapshot[d]
  BY <1>5 DEF BackupsInv, BackupsOK
<1>7. BackupsOK'
  <2>1. s \in [meta : Con \cup {"none"}, rest : BOOLEAN]
    BY <1>4
  <2> QED BY <1>1, <1>2, <1>5, <2>1 DEF BackupsInv, BackupsOK
<1>8. MetaOK(k)'
  BY <1>1, <1>2, BackupFacts DEF MetaOK, Been
<1>9. SavedOK(c)'
  <2>1. snapshot'[c].meta = snapshot[c].meta
    BY <1>4, <1>6
  <2> QED BY <1>1, <1>2, <2>1, BackupFacts DEF SavedOK, Been, KOf
<1>10. BackupOK(c)'
  <2> SUFFICES ASSUME c \notin overlapped PROVE BackupOK(c)'
    BY <1>2 DEF BackupOK
  <2>1. meta[k] = args[k] /\ got[c] = <<TRUE>> /\ k \in stopped
    BY <1>1, BackupFacts DEF BackupOK
  <2>2. snapshot'[c].rest = TRUE
    BY <1>4, <1>6, <2>1
  <2> QED BY <1>1, <1>2, <1>3, <2>1, <2>2 DEF BackupOK, KOf
<1> QED BY <1>1, <1>2, <1>3, <1>6, <1>7, <1>8, <1>9, <1>10, GoesOn DEF PlacesOf

LEMMA SavedStep ==
  ASSUME Base, BackupsInv, NEW c \in Coming, OfBackups(c), Saved(c) PROVE BackupsInv'
<1> DEFINE k == KOf(c)
           s == [snapshot[c] EXCEPT !.meta = IF got[c][1] THEN meta[k] ELSE "none"]
<1>1. Pauses(c) /\ Is(c, "backup") /\ pc[c] = "saving" /\ k \in Con /\ Coming' = Coming
  BY BackupFacts DEF Saved, Pauses, Is, OfBackups, MovesOnly
<1>2. UNCHANGED <<con, args, stopped, meta, overlapped>>
  BY DEF Saved
<1>3. s \in [meta : Con \cup {"none"}, rest : BOOLEAN] /\ s.rest = snapshot[c].rest
      /\ s.meta = IF got[c][1] THEN meta[k] ELSE "none"
  BY <1>1, BackupFacts DEF BackupsInv, BackupsOK
<1>4. pc'[c] = "continue" /\ \/ got'[c] = <<"ok">> /\ snapshot' = [snapshot EXCEPT ![c] = s]
                             \/ got'[c] = <<"error">> /\ UNCHANGED snapshot
  BY FinishMoves DEF Saved, Base, KOf
<1> HIDE DEF s
<1>5. /\ snapshot'[c] = s \/ (snapshot'[c] = snapshot[c] /\ got'[c] = <<"error">>)
      /\ \A d \in Coming \ {c} : snapshot'[d] = snapshot[d]
  <2>1. snapshot = [d \in Coming |-> snapshot[d]]
    BY DEF BackupsInv, BackupsOK
  <2> QED BY <1>4, <2>1
<1>6. BackupsOK'
  BY <1>1, <1>2, <1>3, <1>4 DEF BackupsInv, BackupsOK
<1>7. MetaOK(k)'
  BY <1>1, <1>2, BackupFacts DEF MetaOK, Been
<1>8. SavedOK(c)'
  BY <1>1, <1>2, <1>3, <1>5, BackupFacts DEF SavedOK, MetaOK, Been, KOf
<1>9. BackupOK(c)'
  <2> SUFFICES ASSUME c \notin overlapped PROVE BackupOK(c)'
    BY <1>2 DEF BackupOK
  <2>1. meta[k] = args[k] /\ got[c] = <<TRUE>> /\ snapshot[c].rest = TRUE
    BY <1>1, BackupFacts DEF BackupOK
  <2>2. s.meta = args[k] /\ s.rest = TRUE
    BY <1>3, <2>1
  <2> QED BY <1>1, <1>2, <1>4, <1>5, <2>2 DEF BackupOK, AtRest, KOf
<1> QED BY <1>1, <1>2, <1>4, <1>5, <1>6, <1>7, <1>8, <1>9, GoesOn DEF PlacesOf

LEMMA RemoveMetaStep ==
  ASSUME Base, BackupsInv, NEW c \in Coming, OfBackups(c), RemoveMeta(c) PROVE BackupsInv'
<1> DEFINE k == KOf(c)
<1>1. Pauses(c) /\ Is(c, "backup") /\ pc[c] = "clean" /\ k \in Con /\ Coming' = Coming
  BY BackupFacts DEF RemoveMeta, Pauses, Is, OfBackups, MovesOnly
<1>2. UNCHANGED <<con, args, stopped, snapshot, overlapped>> /\ meta' = [meta EXCEPT ![k] = "none"]
  BY DEF RemoveMeta, KOf
<1>3. pc'[c] = got[c][1] /\ pc'[c] \in {"ok", "error"}
  BY <1>1, StepMoves, BackupFacts DEF RemoveMeta, Base, PauseOK
<1>4. meta' \in [Con -> Con \cup {"none"}] /\ \A o \in Con \ {k} : meta'[o] = meta[o]
  BY <1>1, <1>2 DEF BackupsInv, BackupsOK
<1>5. BackupsOK'
  BY <1>1, <1>2, <1>4 DEF BackupsInv, BackupsOK
<1>6. MetaOK(k)'
  BY <1>1, <1>2 DEF MetaOK, BackupsInv, BackupsOK
<1>7. SavedOK(c)' /\ BackupOK(c)'
  BY <1>1, <1>2, <1>3, BackupFacts DEF SavedOK, Been, BackupOK, AtRest, KOf
<1> QED BY <1>1, <1>2, <1>3, <1>4, <1>5, <1>6, <1>7, GoesOn DEF PlacesOf

LEMMA ArchiveStep ==
  ASSUME Base, BackupsInv, NEW c \in Coming, OfBackups(c), Zflist(c) \/ Unpack(c) \/ Empty(c) \/ Pack(c)
  PROVE  BackupsInv'
<1>1. Pauses(c) /\ Is(c, "flist.create") /\ pc[c] # "new" /\ KOf(c) \in Con /\ Coming' = Coming
  BY BackupFacts DEF Zflist, Unpack, Empty, Pack, Pauses, Is, OfBackups, MovesOnly
<1>2. UNCHANGED <<con, args, stopped, meta, snapshot, overlapped>>
  BY DEF Zflist, Unpack, Empty, Pack
<1>3. /\ pc'[c] \in {"unpack", "empty", "pack", "continue"}
      /\ pc'[c] = "continue" => got'[c][1] \in {"ok", "error"}
  BY StepMoves, FinishMoves DEF Zflist, Unpack, Empty, Pack, Base
<1>4. BackupsOK' /\ MetaOK(KOf(c))'
  BY <1>1, <1>2, BackupFacts DEF BackupsInv, BackupsOK, MetaOK, Been
<1>5. SavedOK(c)' /\ BackupOK(c)'
  BY <1>1, <1>2, BackupFacts DEF SavedOK, BackupOK, Is
<1> QED BY <1>1, <1>2, <1>3, <1>4, <1>5, GoesOn DEF PlacesOf, Is

\* A backup or an flist_create that finds others with its container overlaps them.
LEMMA FindStep ==
  ASSUME Base, BackupsInv, NEW c \in Coming, OfBackups(c), FindContainer(c) PROVE BackupsInv'
<1> DEFINE k == KOf(c)
<1>1. Pauses(c) /\ pc[c] = "new" /\ k \in Con /\ Coming' = Coming
  BY BackupFacts DEF FindContainer, OfBackups, MovesOnly
<1>2. UNCHANGED <<con, args, stopped, meta, snapshot>>
  BY DEF FindContainer
<1>3. IF con[k] = "running" /\ Does[c].valid
      THEN /\ pc'[c] = IF Is(c, "backup") THEN "meta" ELSE "stop"
           /\ overlapped' = IF On(k) = {} THEN overlapped ELSE overlapped \cup On(k) \cup {c}
      ELSE pc'[c] = "error" /\ UNCHANGED overlapped
  BY StepMoves DEF FindContainer, KOf, Base
<1>4. overlapped \subseteq overlapped'
  BY <1>3
<1>5. \A e \in Coming \ {c} : Busy(e)' <=> Busy(e)
  BY DEF OfBackups, MovesOnly, Busy, Underway, Ended, Pauses
<1>6. \A e \in Coming : Busy(e) /\ KOf(e) = k <=> e \in On(k)
  BY DEF Busy, On, KOf
<1>7. Busy(c)' => con[k] = "running"
  BY <1>3 DEF Busy, Underway, Ended
<1>8. ASSUME NEW d \in Coming, d # c PROVE CommandOK(d)'
  <2>1. ASSUME Busy(d), d \notin overlapped'
        PROVE  /\ con'[KOf(d)] = "running" /\ meta'[KOf(d)] = meta[KOf(d)]
               /\ KOf(d) \in stopped => KOf(d) \in stopped'
               /\ \A e \in Coming \ {d} : Busy(e)' => KOf(e) # KOf(d)
    <3>1. con[KOf(d)] = "running" /\ \A e \in Coming \ {d} : Busy(e) => KOf(e) # KOf(d)
      BY <1>4, <2>1, BackupFacts DEF PauseOK, Busy
    <3>2. Busy(c)' => KOf(d) # k
      <4>1. ~(Busy(c)' /\ d \in On(k))
        BY <1>3, <2>1 DEF Busy, Underway, Ended
      <4> QED BY <4>1, <1>6, <2>1
    <3> QED BY <1>2, <1>5, <3>1, <3>2
  <2>2. UNCHANGED <<pc[d], got[d]>> /\ ArgsKept
    BY <1>2, <1>8 DEF OfBackups, MovesOnly, ArgsKept, Been
  <2> QED BY <1>1, <1>2, <1>4, <2>1, <2>2, Bystander
<1>9. CommandOK(c)'
  <2>1. PauseOK(c)'
    <3>1. ASSUME Busy(c)', c \notin overlapped', NEW d \in Coming, d # c, Busy(d)' PROVE KOf(d) # k
      <4>1. On(k) = {}
        BY <1>3, <3>1 DEF Busy, Underway, Ended
      <4> QED BY <1>5, <1>6, <3>1, <4>1
    <3>2. c \notin overlapped' /\ Busy(c)' =>
            con'[k] = "running" /\ \A d \in Coming' \ {c} : Busy(d)' => KOf(d) # k
      BY <1>1, <1>2, <1>7, <3>1
    <3>3. pc'[c] \in {"meta", "stop", "error"} /\ (Is(c, "backup") => pc'[c] # "stop")
          /\ (~Is(c, "backup") => pc'[c] # "meta")
      BY <1>3
    <3>4. pc'[c] # "error" => Been(k)'
      BY <1>2, <1>3 DEF Been
    <3> QED BY <3>2, <3>3, <3>4 DEF PauseOK, Busy, KOf, Pauses, Is
  <2>2. SavedOK(c)' /\ BackupOK(c)' /\ RestoreOK(c)'
    BY <1>1, <1>2, <1>3, BackupFacts DEF SavedOK, BackupOK, RestoreOK, Pauses, Is, Been, KOf
  <2> QED BY <2>1, <2>2 DEF CommandOK
<1>10. BackupsOK' /\ \A o \in Con : MetaOK(o)'
  BY <1>1, <1>2 DEF BackupsInv, BackupsOK, MetaOK, Been
<1> QED BY <1>1, <1>8, <1>9, <1>10 DEF BackupsInv

\* A restore has to do with no container that is there.
LEMMA RestoreStep ==
  ASSUME Base, BackupsInv, NEW c \in Coming, OfBackups(c), RestoreMeta(c) \/ RestoreCreate(c)
  PROVE  BackupsInv'
<1>1. Is(c, "restore") /\ ~Pauses(c) /\ ~Is(c, "backup") /\ Coming' = Coming
  BY DEF RestoreMeta, RestoreCreate, Pauses, Is, OfBackups, MovesOnly
<1>2. UNCHANGED <<stopped, meta, snapshot, overlapped>>
  BY DEF RestoreMeta, RestoreCreate, backups
<1>3. /\ ArgsKept /\ con' \in [Con -> {"absent", "starting", "running", "ended"}]
      /\ args' \in [Con -> Con]
      /\ \A k \in Con : con[k] = "running" => con'[k] = "running"
  <2>1. CASE UNCHANGED <<con, args>>
    BY <2>1 DEF ArgsKept, Been, BackupsInv, BackupsOK
  <2>2. CASE pc[c] = "create" /\ \E k \in Con : /\ con[k] = "absent"
                             /\ con' = [con EXCEPT ![k] = "starting"]
                             /\ args' = [args EXCEPT ![k] = got[c][1]]
    <3>1. got[c][1] \in Con
      BY <1>1, <2>2, BackupFacts DEF RestoreOK, BackupsInv, BackupsOK
    <3> QED BY <2>2, <3>1 DEF ArgsKept, Been, BackupsInv, BackupsOK
  <2> QED BY <2>1, <2>2 DEF RestoreMeta, RestoreCreate, backups
<1>4. ASSUME NEW d \in Coming, d # c PROVE CommandOK(d)'
  <2>1. ASSUME Busy(d), d \notin overlapped'
        PROVE  con'[KOf(d)] = "running" /\ \A e \in Coming \ {d} : Busy(e)' => KOf(e) # KOf(d)
    <3>1. con[KOf(d)] = "running" /\ \A e \in Coming \ {d} : Busy(e) => KOf(e) # KOf(d)
      BY <1>2, <2>1, BackupFacts DEF PauseOK, Busy
    <3>2. \A e \in Coming : Busy(e)' => Busy(e)
      BY <1>1 DEF OfBackups, MovesOnly, Busy, Underway, Ended, Pauses
    <3>3. KOf(d) \in Con
      BY <2>1, BackupFacts DEF Busy
    <3> QED BY <1>3, <3>1, <3>2, <3>3
  <2>2. UNCHANGED <<pc[d], got[d]>>
    BY <1>4 DEF OfBackups, MovesOnly
  <2> QED BY <1>1, <1>2, <1>3, <2>1, <2>2, Bystander
<1>5. RestoreOK(c)'
  <2>1. CASE RestoreMeta(c)
    <3> DEFINE b == Does[c].from
    <3>1. \/ /\ pc[b] = "ok" /\ snapshot[b].meta # "none"
             /\ pc'[c] = "create" /\ got'[c] = <<snapshot[b].meta>>
          \/ pc'[c] = "error"
      BY <2>1, StepMoves DEF RestoreMeta, Base
    <3>2. UNCHANGED <<con, args>>
      BY <2>1 DEF RestoreMeta, backups
    <3>3. b \in Coming /\ KOf(b) = OfRestored(c)
      BY <1>1, BackupFacts DEF KOf, OfRestored
    <3>4. SavedOK(b)
      BY <3>3, BackupFacts
    <3> QED BY <3>1, <3>2, <3>3, <3>4 DEF RestoreOK, SavedOK, Been, OfRestored
  <2>2. CASE RestoreCreate(c)
    <3>1. pc[c] = "create" /\ pc'[c] \in {"ok", "error"} /\ got'[c] = got[c]
      BY <2>2, StepMoves DEF RestoreCreate, Base
    <3> QED BY <1>1, <1>3, <3>1, BackupFacts DEF RestoreOK, ArgsKept, OfRestored
  <2> QED BY <2>1, <2>2
<1>6. CommandOK(c)'
  BY <1>1, <1>2, <1>5, BackupFacts DEF CommandOK, PauseOK, SavedOK, BackupOK, Pauses, Is
<1>7. BackupsOK' /\ \A k \in Con : MetaOK(k)'
  BY <1>1, <1>2, <1>3 DEF BackupsInv, BackupsOK, MetaOK, ArgsKept
<1> QED BY <1>1, <1>4, <1>6, <1>7 DEF BackupsInv

\* A container that gets its PID or ends; whoever has to do with one that ends is overlapped.
LEMMA ContainerStep ==
  ASSUME Base, BackupsInv, NEW k \in Con, GetsPID(k) \/ Ends(k) PROVE BackupsInv'
<1>1. UNCHANGED <<pc, got, snapshot, args>> /\ Coming' = Coming
  BY DEF GetsPID, Ends, commands, Coming
<1>2. \A d \in Coming : Busy(d)' <=> Busy(d)
  BY <1>1 DEF Busy, Underway, Ended, Pauses
<1>3. /\ con' \in [Con -> {"absent", "starting", "running", "ended"}] /\ ArgsKept
      /\ meta' \in [Con -> Con \cup {"none"}] /\ \A o \in Con : MetaOK(o)'
  BY <1>1 DEF GetsPID, Ends, BackupsInv, BackupsOK, ArgsKept, MetaOK, Been
<1>4. ASSUME NEW d \in Coming, Busy(d), d \notin overlapped'
      PROVE  /\ con'[KOf(d)] = "running" /\ meta'[KOf(d)] = meta[KOf(d)]
             /\ KOf(d) \in stopped => KOf(d) \in stopped'
             /\ \A e \in Coming \ {d} : Busy(e)' => KOf(e) # KOf(d)
  <2>1. d \notin overlapped /\ KOf(d) \in Con
    BY <1>4, BackupFacts DEF GetsPID, Ends, Busy
  <2>2. con[KOf(d)] = "running" /\ \A e \in Coming \ {d} : Busy(e) => KOf(e) # KOf(d)
    BY <1>4, <2>1, BackupFacts DEF PauseOK, Busy
  <2>3. CASE GetsPID(k)
    BY <1>2, <2>1, <2>2, <2>3 DEF GetsPID, BackupsInv, BackupsOK
  <2>4. CASE Ends(k)
    <3>1. d \notin On(k)
      BY <1>4, <2>4 DEF Ends
    <3>2. KOf(d) # k
      BY <1>4, <3>1 DEF On, Busy, KOf
    <3> QED BY <1>2, <2>1, <2>2, <2>4, <3>2 DEF Ends, BackupsInv, BackupsOK
  <2> QED BY <2>3, <2>4
<1>5. \A d \in Coming : CommandOK(d)'
  BY <1>1, <1>3, <1>4, Bystander DEF GetsPID, Ends
<1> QED BY <1>1, <1>3, <1>5 DEF BackupsInv, BackupsOK

LEMMA BackupsStep == Base /\ BackupsInv /\ [Next]_vars => BackupsInv'
<1> SUFFICES ASSUME Base, BackupsInv, [Next]_vars PROVE BackupsInv'
  OBVIOUS
<1>1. ASSUME NEW c \in Coming, OfBackups(c) PROVE BackupsInv'
  BY <1>1, FindStep, StopStep, ContinueStep, WriteMetaStep, ListRootStep, ResticStep, SavedStep,
     RemoveMetaStep, ArchiveStep, RestoreStep
  DEF OfBackups, BackupStep
<1>2. CASE UNCHANGED backups /\ Stay(BackupCommands)
  <2>1. Coming' = Coming /\ ArgsKept
    BY <1>2 DEF backups, Stay, ArgsKept, Been
  <2>2. ASSUME NEW d \in Coming, Does[d].do \in BackupCommands PROVE CommandOK(d)'
    <3>1. \A e \in Coming : Busy(e)' <=> Busy(e)
      BY <1>2 DEF Stay, BackupCommands, Busy, Underway, Ended, Pauses
    <3>2. Busy(d) /\ d \notin overlapped =>
            con[KOf(d)] = "running" /\ \A e \in Coming \ {d} : Busy(e) => KOf(e) # KOf(d)
      BY BackupFacts DEF PauseOK, Busy
    <3>3. UNCHANGED <<pc[d], got[d]>>
      BY <1>2, <2>2 DEF Stay
    <3> QED BY <1>2, <2>1, <3>1, <3>2, <3>3, Bystander DEF backups
  <2>3. ASSUME NEW d \in Coming, Does[d].do \notin BackupCommands PROVE CommandOK(d)'
    BY <1>2, <2>3, BackupFacts
    DEF backups, CommandOK, PauseOK, SavedOK, BackupOK, RestoreOK, Pauses, Is, BackupCommands
  <2> QED BY <1>2, <2>1, <2>2, <2>3 DEF BackupsInv, BackupsOK, MetaOK, Been, backups
<1> QED BY <1>1, <1>2, ContainerStep, BackupSteps

LEMMA BackupsInit == Init => BackupsInv
<1> SUFFICES ASSUME Init PROVE BackupsInv
  OBVIOUS
<1>1. \A c \in Coming : pc[c] = "new" /\ got[c] = <<>>
  BY BaseInit
<1>2. BackupsOK /\ \A k \in Con : MetaOK(k)
  <2>1. NoSnapshot \in [meta : Con \cup {"none"}, rest : BOOLEAN]
    BY DEF NoSnapshot
  <2> QED BY <2>1 DEF Init, InitBackups, BackupsOK, MetaOK
<1>3. ASSUME NEW c \in Coming PROVE CommandOK(c)
  <2>1. snapshot[c].meta = "none"
    BY DEF Init, InitBackups, NoSnapshot
  <2> QED BY <1>1, <2>1 DEF CommandOK, PauseOK, SavedOK, BackupOK, RestoreOK, Underway
<1> QED BY <1>2, <1>3 DEF BackupsInv

\* The flist that one flist_create alone makes is torn only while it is packed, or when that failed.
Alone(c) == \A d \in Coming \ {c} : Is(d, "flist.create") => Made(d) # Made(c)
TornOK(c) ==
  Is(c, "flist.create") /\ Alone(c) /\ archive[Made(c)] = "torn" =>
    \/ pc[c] \in {"pack", "error"}
    \/ pc[c] = "continue" /\ got[c][1] = "error"
TornInv == /\ archive = [a \in Con \X Archive |-> archive[a]]
           /\ \A c \in Coming : TornOK(c)

LEMMA TornCommand ==
  ASSUME Base, BackupsInv, TornInv, NEW c \in Coming, OfBackups(c) PROVE TornInv'
<1>1. MovesOnly(c)
  BY DEF OfBackups
<1>2. \A d \in Coming : Is(d, "flist.create") => Made(d) \in Con \X Archive
  BY BackupsAssumption, CommandsAssumption DEF Base, Is, Made
<1>0. PacksToo(c) = {} \/ ~Alone(c)
  <2> SUFFICES ASSUME NEW d \in PacksToo(c) PROVE ~Alone(c)
    OBVIOUS
  <2>1. d \in Coming \ {c} /\ Pauses(d) /\ pc[d] = "pack" /\ Made(d) = Made(c)
    BY DEF PacksToo, On
  <2>2. PauseOK(d)
    BY <2>1, BackupFacts
  <2>3. Is(d, "flist.create")
    BY <2>1, <2>2 DEF PauseOK, Pauses, Is
  <2> QED BY <2>1, <2>3 DEF Alone
<1>3. CASE UNCHANGED archive
  <2>1. ASSUME NEW d \in Coming, d # c PROVE TornOK(d)'
    <3>1. Alone(d)' <=> Alone(d)
      BY <1>1 DEF Alone, MovesOnly, Is, Made
    <3>2. pc'[d] = pc[d] /\ got'[d] = got[d] /\ archive'[Made(d)] = archive[Made(d)]
      BY <1>1, <1>3, <2>1 DEF MovesOnly
    <3>3. TornOK(d)
      BY DEF TornInv
    <3> QED BY <3>1, <3>2, <3>3 DEF TornOK, Is, Made
  <2>2. TornOK(c)'
    <3> SUFFICES ASSUME Is(c, "flist.create"), Alone(c), archive[Made(c)] = "torn"
                 PROVE  pc'[c] \in {"pack", "error"} \/ (pc'[c] = "continue" /\ got'[c][1] = "error")
      BY <1>1, <1>3 DEF TornOK, Alone, MovesOnly, Is, Made
    <3>1. pc[c] \in {"pack", "error"} \/ (pc[c] = "continue" /\ got[c][1] = "error")
      BY DEF TornInv, TornOK
    <3>2. CASE Continue(c)
      <4>1. pc'[c] = got[c][1]
        BY <3>2, StepMoves DEF Continue, Base, Is
      <4> QED BY <3>1, <3>2, <4>1 DEF Continue
    <3>3. CASE Pack(c)
      <4>1. pc[c] = "pack" /\ Made(c) \in Con \X Archive /\ PacksToo(c) = {}
        BY <1>0, <1>2, <3>3 DEF Pack
      <4>2. ~Finish(c, "ok")
        <5> SUFFICES ASSUME Finish(c, "ok") PROVE FALSE
          OBVIOUS
        <5>1. got'[c] = <<"ok">>
          BY FinishMoves DEF Base
        <5>2. ~Finish(c, "error") /\ ~FinishFault(c)
          BY <5>1, FinishMoves DEF Base
        <5>3. PICK a \in {"whole"} \cup {"torn" : d \in PacksToo(c)} :
                     archive' = [archive EXCEPT ![Made(c)] = a]
          BY <3>3, <5>2 DEF Pack
        <5>4. a = "whole"
          BY <4>1
        <5>5. archive'[Made(c)] = "whole"
          BY <4>1, <5>3, <5>4 DEF TornInv
        <5> QED BY <1>3, <5>5
      <4>3. pc'[c] = "continue" /\ got'[c] = <<"error">>
        BY <3>3, <4>2, FinishMoves DEF Pack, Base
      <4> QED BY <4>3
    <3> QED
      BY <3>1, <3>2, <3>3
      DEF OfBackups, BackupStep, FindContainer, Stop, WriteMeta, ListRoot, Restic, Saved, RemoveMeta,
          Zflist, Unpack, Empty, RestoreMeta, RestoreCreate, Ended, Is, Pauses
  <2> QED BY <1>1, <1>3, <2>1, <2>2 DEF TornInv, MovesOnly
<1>4. CASE ~UNCHANGED archive
  <2>1. Is(c, "flist.create") /\ (Zflist(c) \/ Empty(c) \/ Pack(c))
    BY <1>4
    DEF OfBackups, BackupStep, FindContainer, Stop, Continue, WriteMeta, ListRoot, Restic, Saved,
        RemoveMeta, Zflist, Unpack, Empty, Pack, RestoreMeta, RestoreCreate, backups
  <2>2. PICK a : archive' = [archive EXCEPT ![Made(c)] = a]
                 /\ (a = "torn" => pc'[c] = "pack" \/ ~Alone(c))
    <3>1. CASE Zflist(c)
      BY <1>4, <3>1 DEF Zflist
    <3>2. CASE Empty(c)
      BY <1>4, <3>2, StepMoves DEF Empty, Base
    <3>3. CASE Pack(c)
      <4>1. PICK a \in {"whole"} \cup {"torn" : d \in PacksToo(c)} :
                   archive' = [archive EXCEPT ![Made(c)] = a]
        BY <1>4, <3>3 DEF Pack
      <4>2. a = "torn" => ~Alone(c)
        BY <1>0, <4>1
      <4> QED BY <4>1, <4>2
    <3> QED BY <2>1, <3>1, <3>2, <3>3
  <2>3. Made(c) \in Con \X Archive /\ archive'[Made(c)] = a
        /\ \A x \in Con \X Archive : x # Made(c) => archive'[x] = archive[x]
    BY <1>2, <2>1, <2>2 DEF TornInv
  <2>4. ASSUME NEW d \in Coming, d # c, Is(d, "flist.create"), Alone(d)' PROVE TornOK(d)'
    <3>1. Made(d) # Made(c) /\ Alone(d)
      BY <1>1, <2>1, <2>4 DEF Alone, MovesOnly, Is, Made
    <3> QED BY <1>1, <1>2, <2>3, <2>4, <3>1 DEF TornInv, TornOK, MovesOnly, Made
  <2>5. ASSUME NEW d \in Coming, d # c PROVE TornOK(d)'
    BY <2>4, <2>5 DEF TornOK, Is
  <2>6. TornOK(c)'
    BY <1>1, <2>2, <2>3 DEF TornOK, Alone, MovesOnly, Is, Made
  <2> QED BY <1>1, <2>2, <2>5, <2>6 DEF TornInv, MovesOnly
<1> QED BY <1>3, <1>4

LEMMA TornStep == Base /\ BackupsInv /\ TornInv /\ [Next]_vars => TornInv'
<1> SUFFICES ASSUME Base, BackupsInv, TornInv, [Next]_vars PROVE TornInv'
  OBVIOUS
<1>1. \A d \in Coming : Is(d, "flist.create") => Made(d) \in Con \X Archive
  BY BackupsAssumption, CommandsAssumption DEF Base, Is, Made
<1>2. CASE UNCHANGED archive /\ Stay({"flist.create"})
  <2>1. ASSUME NEW d \in Coming, Is(d, "flist.create") PROVE TornOK(d)'
    <3>1. UNCHANGED <<pc[d], got[d], archive>> /\ Coming' = Coming
      BY <1>2, <2>1 DEF Stay, Is
    <3>2. TornOK(d)
      BY DEF TornInv
    <3> QED BY <3>1, <3>2 DEF TornOK, Alone, Is, Made
  <2>2. ASSUME NEW d \in Coming, ~Is(d, "flist.create") PROVE TornOK(d)'
    BY <2>2 DEF TornOK, Is
  <2> QED BY <1>2, <2>1, <2>2 DEF TornInv, Stay
<1>3. ASSUME NEW k \in Con, Ends(k), UNCHANGED <<pc, got>> PROVE TornInv'
  <2>1. archive' = [x \in Con \X Archive |-> IF x[1] = k THEN "none" ELSE archive[x]]
    BY <1>3 DEF Ends, TornInv
  <2>2. Coming' = Coming
    BY <1>3 DEF Coming
  <2> QED BY <1>1, <1>3, <2>1, <2>2 DEF TornInv, TornOK, Alone, Is, Made
<1>4. ASSUME NEW k \in Con, GetsPID(k), UNCHANGED <<pc, got, todo>> PROVE TornInv'
  BY <1>2, <1>4, StaysSo DEF GetsPID, Base
<1>5. CASE UNCHANGED backups /\ Stay(BackupCommands)
  <2>1. Stay({"flist.create"})
    BY <1>5 DEF Stay, BackupCommands
  <2> QED BY <1>2, <1>5, <2>1 DEF backups
<1> QED BY <1>3, <1>4, <1>5, TornCommand, BackupSteps

\* For any containers, any backups, restores and flist_creates in any order, and however
\* any of them fails: the backup that nothing crossed was read at rest and has its container's
\* arguments, what is restored was backed up, and an flist that is answered is whole
\* (backup.go:102-131, flist.go:88-123).
THEOREM SnapshotsRightHolds == Spec => []SnapshotsRight
<1>1. Init => TornInv
  <2> SUFFICES ASSUME Init PROVE TornInv
    OBVIOUS
  <2>1. archive = [a \in Con \X Archive |-> "none"]
    BY DEF Init, InitBackups
  <2>2. ASSUME NEW c \in Coming, Is(c, "flist.create") PROVE Made(c) \in Con \X Archive
    BY <2>2, BaseInit, BackupsAssumption, CommandsAssumption DEF Base, Is, Made
  <2> QED BY <2>1, <2>2 DEF TornInv, TornOK
<1>2. Base /\ BackupsInv /\ TornInv => SnapshotsRight
  <2> SUFFICES ASSUME Base, BackupsInv, TornInv PROVE SnapshotsRight
    OBVIOUS
  <2>1. ASSUME NEW b \in Coming, Is(b, "backup"), pc[b] = "ok", b \notin overlapped
        PROVE  snapshot[b] = [meta |-> args[Does[b].con], rest |-> TRUE]
    <3>1. snapshot[b].meta = args[Does[b].con] /\ snapshot[b].rest = TRUE
      BY <2>1, BackupFacts DEF BackupOK, AtRest, KOf
    <3>2. snapshot[b] \in [meta : Con \cup {"none"}, rest : BOOLEAN]
      BY BackupFacts
    <3> QED BY <3>1, <3>2
  <2>2. ASSUME NEW r \in Coming, Is(r, "restore"), pc[r] = "ok"
        PROVE  got[r][1] = args[Does[Does[r].from].con]
    BY <2>2, BackupFacts DEF RestoreOK, OfRestored
  <2>3. ASSUME NEW c \in Coming, Is(c, "flist.create"), pc[c] = "ok", archive[Made(c)] = "torn"
        PROVE  \E d \in Coming \ {c} : Is(d, "flist.create") /\ Made(d) = Made(c)
    BY <2>3 DEF TornInv, TornOK, Alone
  <2> QED BY <2>1, <2>2, <2>3 DEF SnapshotsRight
<1> QED BY <1>1, <1>2, BaseInit, BaseStep, BackupsInit, BackupsStep, TornStep, PTL DEF Spec

-----------------------------------------------------------------------------
(* Control groups *)

Within(c) == ForGroup(c) /\ pc[c] # "new" /\ ~Ended(c)

GroupOK(g) ==
  /\ g[1] \in Subsystems
  /\ group[g] = [mem |-> group[g].mem, swap |-> group[g].swap,
                 cpus |-> group[g].cpus, mems |-> group[g].mems]
  /\ group[g].mem \in Nat /\ group[g].swap \in Nat
  /\ group[g].mem <= group[g].swap /\ group[g].swap <= Unlimited
GroupsOK ==
  /\ group = [g \in DOMAIN group |-> group[g]]
  /\ \A g \in DOMAIN group : GroupOK(g)
\* A process is in a group that there is, or in the root.
MembersOK ==
  /\ member = [s \in Subsystems |-> [p \in Process |-> member[s][p]]]
  /\ \A s \in Subsystems, p \in Process :
       member[s][p] = "" \/ <<s, member[s][p]>> \in DOMAIN group
\* An error of a command for the group was left aside.
Excused(g) == \E d \in dropped : GroupName(d) = g
\* A cpuset that takes no processes is being filled in by whoever made it, or was not.
FilledOK ==
  \A g \in DOMAIN group : g[1] = "cpuset" /\ ~Excused(g) =>
    /\ group[g].cpus = {} => \E d \in Coming : Within(d) /\ GroupName(d) = g /\ pc[d] = "reset"
    /\ group[g].mems = {} =>
         \E d \in Coming : Within(d) /\ GroupName(d) = g /\ pc[d] \in {"reset", "reset again"}
CrossedOK ==
  \A c, d \in Coming : c # d /\ Within(c) /\ Within(d) /\ GroupName(c) = GroupName(d) =>
    c \in crossed /\ d \in crossed

GroupPlaces(c) ==
  IF Is(c, "cgroup.ensure") THEN {"new", "stat", "mkdir", "reset", "reset again", "ok", "error"} ELSE
  IF Is(c, "cgroup.remove") THEN {"new", "tasks", "moving", "ok", "error"} ELSE
  IF Is(c, "cgroup.memory.spec")
  THEN {"new", "stat", "mkdir", "reset", "reset again", "got", "limit", "limit again", "told", "ok", "error"}
  ELSE {"new", "stat", "mkdir", "reset", "reset again", "got", "mems", "ok", "error"}
PlaceOK(c) ==
  /\ pc[c] \in GroupPlaces(c)
  /\ pc[c] \in {"stat", "mkdir"} => Does[c].subsystem \in Subsystems
\* A limit is the one asked for, or, after an error that was left aside, the one there was.
MemIs(c, mem) == mem = Does[c].mem \/ (c \in dropped /\ mem = got[c][1])
SwapIs(c, swap) == swap = Does[c].mem + Does[c].swap \/ (c \in dropped /\ swap = got[c][2])
\* What a command that nothing crossed has come to.
UncrossedOK(c) ==
  c \notin crossed =>
    /\ pc[c] \in {"reset", "reset again", "got", "limit", "limit again", "told"} => There(c)
    /\ Is(c, "cgroup.memory.spec") =>
         /\ pc[c] = "limit" => Does[c].mem # 0 /\ got[c] = Limits(c)
         /\ pc[c] = "limit again" =>
              /\ Does[c].mem # 0
              /\ IF SwapFirst(c) THEN SwapIs(c, Limits(c)[2]) /\ Limits(c)[1] = got[c][1]
                                 ELSE MemIs(c, Limits(c)[1]) /\ Limits(c)[2] = got[c][2]
         /\ pc[c] = "told" /\ Does[c].mem # 0 => MemIs(c, Limits(c)[1]) /\ SwapIs(c, Limits(c)[2])
GroupCommandOK(c) == ForGroup(c) => PlaceOK(c) /\ UncrossedOK(c)
GroupsInv == GroupsOK /\ MembersOK /\ FilledOK /\ CrossedOK /\ \A c \in Coming : GroupCommandOK(c)

\* What a step does to the group of its command.
Touches(c) ==
  /\ group' = [h \in DOMAIN group' |-> group'[h]]
  /\ \A h : h # GroupName(c) =>
       /\ h \in DOMAIN group' <=> h \in DOMAIN group
       /\ h \in DOMAIN group => group'[h] = group[h]
Writes(c, mem, swap, cpus, mems) ==
  /\ Touches(c) /\ (There(c) <=> There(c)')
  /\ There(c) => group'[GroupName(c)] = [mem |-> mem, swap |-> swap, cpus |-> cpus, mems |-> mems]

LEMMA SetsField ==
  ASSUME GroupsOK, NEW c, NEW v
  PROVE  LET g == group[GroupName(c)] IN
         /\ SetGroup(c, "mem", v) => Writes(c, v, g.swap, g.cpus, g.mems)
         /\ SetGroup(c, "swap", v) => Writes(c, g.mem, v, g.cpus, g.mems)
         /\ SetGroup(c, "cpus", v) => Writes(c, g.mem, g.swap, v, g.mems)
         /\ SetGroup(c, "mems", v) => Writes(c, g.mem, g.swap, g.cpus, v)
<1> DEFINE n == GroupName(c)
           g == group[n]
<1>1. group = [h \in DOMAIN group |-> group[h]]
  BY DEF GroupsOK
<1>2. n \in DOMAIN group => g = [mem |-> g.mem, swap |-> g.swap, cpus |-> g.cpus, mems |-> g.mems]
  BY DEF GroupsOK, GroupOK
<1>3. CASE ~There(c)
  BY <1>1, <1>3 DEF SetGroup, Writes, Touches, There
<1>4. CASE There(c)
  <2>1. n \in DOMAIN group
    BY <1>4 DEF There
  <2>2. ASSUME SetGroup(c, "mem", v) PROVE Writes(c, v, g.swap, g.cpus, g.mems)
    <3>1. group' = [group EXCEPT ![n]["mem"] = v]
      BY <1>4, <2>2 DEF SetGroup
    <3> HIDE DEF n
    <3> QED BY <1>1, <1>2, <2>1, <3>1 DEF Writes, Touches, There, n
  <2>3. ASSUME SetGroup(c, "swap", v) PROVE Writes(c, g.mem, v, g.cpus, g.mems)
    <3>1. group' = [group EXCEPT ![n]["swap"] = v]
      BY <1>4, <2>3 DEF SetGroup
    <3> HIDE DEF n
    <3> QED BY <1>1, <1>2, <2>1, <3>1 DEF Writes, Touches, There, n
  <2>4. ASSUME SetGroup(c, "cpus", v) PROVE Writes(c, g.mem, g.swap, v, g.mems)
    <3>1. group' = [group EXCEPT ![n]["cpus"] = v]
      BY <1>4, <2>4 DEF SetGroup
    <3> HIDE DEF n
    <3> QED BY <1>1, <1>2, <2>1, <3>1 DEF Writes, Touches, There, n
  <2>5. ASSUME SetGroup(c, "mems", v) PROVE Writes(c, g.mem, g.swap, g.cpus, v)
    <3>1. group' = [group EXCEPT ![n]["mems"] = v]
      BY <1>4, <2>5 DEF SetGroup
    <3> HIDE DEF n
    <3> QED BY <1>1, <1>2, <2>1, <3>1 DEF Writes, Touches, There, n
  <2> QED BY <2>2, <2>3, <2>4, <2>5
<1> QED BY <1>3, <1>4

LEMMA GroupFacts ==
  ASSUME Base, GroupsInv, NEW c \in Coming, ForGroup(c)
  PROVE  /\ PlaceOK(c) /\ UncrossedOK(c) /\ Does[c].name # "" /\ Unlimited \in Nat
         /\ Is(c, "cgroup.memory.spec") =>
              /\ Does[c].subsystem = "memory" /\ Does[c].mem \in Nat /\ Does[c].swap \in Nat
              /\ Does[c].mem + Does[c].swap <= Unlimited
         /\ Is(c, "cgroup.cpuset.spec") => Does[c].subsystem = "cpuset"
         /\ Machine.cpus # {} /\ Machine.mems # {}
         /\ There(c) => GroupOK(GroupName(c))
BY CgroupsAssumption, CommandsAssumption
DEF Base, GroupsInv, GroupCommandOK, GroupsOK, There, Is

LEMMA WritesOK ==
  ASSUME GroupsOK, NEW c, NEW mem, NEW swap, NEW cpus, NEW mems, Writes(c, mem, swap, cpus, mems),
         There(c) => mem \in Nat /\ swap \in Nat /\ mem <= swap /\ swap <= Unlimited
  PROVE  Touches(c) /\ (There(c)' => GroupOK(GroupName(c))')
<1>1. There(c) => GroupName(c)[1] \in Subsystems
  BY DEF There, GroupsOK, GroupOK
<1>2. There(c) => group'[GroupName(c)] = [mem |-> mem, swap |-> swap, cpus |-> cpus, mems |-> mems]
  BY DEF Writes
<1> QED BY <1>1, <1>2 DEF Writes, GroupOK, GroupName

\* Every write keeps memory within memory and swap, and those within what there is.
LEMMA GroupWrites ==
  ASSUME Base, GroupsInv, NEW c \in Coming, ForGroup(c),
         Reset(c) \/ ResetAgain(c) \/ CpusetSpec(c) \/ Limit(c) \/ LimitAgain(c)
  PROVE  Touches(c) /\ (There(c)' => GroupOK(GroupName(c))')
<1> DEFINE g == group[GroupName(c)]
           Right == Touches(c) /\ (There(c)' => GroupOK(GroupName(c))')
<1>0. GroupsOK
  BY DEF GroupsInv
<1>1. There(c) => g.mem \in Nat /\ g.swap \in Nat /\ g.mem <= g.swap /\ g.swap <= Unlimited
  BY GroupFacts DEF GroupOK
<1>2. ASSUME UNCHANGED group PROVE Right
  BY <1>0, <1>2, GroupFacts DEF Touches, There, GroupOK, GroupsOK, GroupName
<1>3. ASSUME NEW v, SetGroup(c, "cpus", v) \/ SetGroup(c, "mems", v) PROVE Right
  <2>1. Writes(c, g.mem, g.swap, v, g.mems) \/ Writes(c, g.mem, g.swap, g.cpus, v)
    BY <1>0, <1>3, SetsField
  <2> QED BY <1>0, <1>1, <2>1, WritesOK
<1>4. ASSUME NEW v \in Nat, SetGroup(c, "mem", v), There(c) => v <= g.swap PROVE Right
  <2>1. Writes(c, v, g.swap, g.cpus, g.mems)
    BY <1>0, <1>4, SetsField
  <2> QED BY <1>0, <1>1, <1>4, <2>1, WritesOK
<1>5. ASSUME NEW v \in Nat, SetGroup(c, "swap", v), There(c) => g.mem <= v, v <= Unlimited PROVE Right
  <2>1. Writes(c, g.mem, v, g.cpus, g.mems)
    BY <1>0, <1>5, SetsField
  <2> QED BY <1>0, <1>1, <1>5, <2>1, WritesOK
<1>6. CASE Reset(c)
  <2>1. Unlimited \in Nat /\ Unlimited <= Unlimited /\ (There(c) => g.mem <= Unlimited)
    <3>1. Unlimited \in Nat
      BY GroupFacts
    <3> HIDE DEF g
    <3> QED BY <3>1, <1>1
  <2>2. SetGroup(c, "swap", Unlimited) \/ (\E v : SetGroup(c, "cpus", v)) \/ UNCHANGED group
    BY <1>6 DEF Reset, ResetSwap, Inherit, Tries
  <2> QED BY <1>2, <1>3, <1>5, <2>1, <2>2
<1>7. CASE ResetAgain(c)
  <2>1. \/ MemFits(c, Unlimited) /\ SetGroup(c, "mem", Unlimited)
        \/ (\E v : SetGroup(c, "mems", v)) \/ UNCHANGED group
    BY <1>7 DEF ResetAgain, ResetMem, Inherit, Tries
  <2>2. MemFits(c, Unlimited) => (There(c) => Unlimited <= g.swap)
    BY DEF MemFits
  <2>3. Unlimited \in Nat
    BY GroupFacts
  <2> QED BY <1>2, <1>3, <1>4, <2>1, <2>2, <2>3
<1>8. CASE CpusetSpec(c)
  <2>1. (\E v : SetGroup(c, "cpus", v) \/ SetGroup(c, "mems", v)) \/ UNCHANGED group
    BY <1>8 DEF CpusetSpec
  <2> QED BY <1>2, <1>3, <2>1
<1>9. CASE Limit(c) \/ LimitAgain(c)
  <2>1. Is(c, "cgroup.memory.spec")
    BY <1>9, GroupFacts DEF Limit, LimitAgain, PlaceOK, GroupPlaces
  <2>2. Does[c].mem \in Nat /\ Does[c].mem + Does[c].swap \in Nat
        /\ Does[c].mem + Does[c].swap <= Unlimited
    <3>1. Does[c].mem \in Nat /\ Does[c].swap \in Nat /\ Does[c].mem + Does[c].swap <= Unlimited
      BY <2>1, GroupFacts
    <3> QED BY <3>1
  <2>3. ASSUME WriteMem(c) PROVE Right
    <3>1. UNCHANGED group \/ (SetGroup(c, "mem", Does[c].mem) /\ Does[c].mem <= g.swap)
      BY <2>3 DEF WriteMem, Tries, MemFits
    <3> QED BY <1>2, <1>4, <2>2, <3>1
  <2>4. ASSUME WriteSwap(c) PROVE Right
    <3> DEFINE v == Does[c].mem + Does[c].swap
    <3>1. UNCHANGED group \/ (SetGroup(c, "swap", v) /\ g.mem <= v)
      BY <2>4 DEF WriteSwap, Tries
    <3> HIDE DEF v
    <3>2. v \in Nat /\ v <= Unlimited
      BY <2>2 DEF v
    <3> QED BY <1>2, <1>5, <3>1, <3>2
  <2> QED BY <1>9, <2>3, <2>4 DEF Limit, LimitAgain
<1> QED BY <1>6, <1>7, <1>8, <1>9

LEMMA GroupTouch ==
  ASSUME Base, GroupsInv, NEW c \in Coming, OfGroups(c)
  PROVE  Touches(c) /\ (There(c)' => GroupOK(GroupName(c))') /\ ForGroup(c) /\ MovesOnly(c)
         /\ (pc[c] = "new" => Crosses(c) /\ UNCHANGED <<group, member>>)
         /\ (pc[c] # "new" => UNCHANGED crossed)
         /\ dropped \subseteq dropped' /\ dropped' \subseteq dropped \cup {c}
<1>0. ForGroup(c) /\ MovesOnly(c)
  BY DEF OfGroups, GroupDo, ForGroup
<1>d. dropped \subseteq dropped' /\ dropped' \subseteq dropped \cup {c}
  <2>1. CASE Reset(c) \/ ResetAgain(c)
    BY <2>1 DEF Reset, ResetAgain, ResetSwap, ResetMem, Inherit, Tries, Drops
  <2>2. CASE Limit(c) \/ LimitAgain(c) \/ LimitsTold(c) \/ MoveTask(c)
    BY <2>2 DEF Limit, LimitAgain, WriteMem, WriteSwap, Tries, Drops, LimitsTold, MoveTask
  <2> QED
    BY <2>1, <2>2
    DEF OfGroups, CgroupStep, GetGroup, Ensure, StatGroup, MakeGroup, Tasks, TaskAdd, TaskRemove,
        RemoveGroup, RemoveTasks, RemoveDir, CpusetSpec, MemorySpec, GroupFault, cgroups
<1>1. CASE Reset(c) \/ ResetAgain(c) \/ CpusetSpec(c) \/ Limit(c) \/ LimitAgain(c)
  <2>1. pc[c] # "new" /\ UNCHANGED crossed
    BY <1>1 DEF Reset, ResetAgain, CpusetSpec, Limit, LimitAgain
  <2> QED BY <1>0, <1>d, <1>1, <2>1, GroupWrites
<1>2. CASE MakeGroup(c) /\ ~UNCHANGED group
  <2>1. /\ group' = [g \in DOMAIN group \cup {GroupName(c)} |->
                       IF g = GroupName(c) THEN NewGroup ELSE group[g]]
        /\ pc[c] = "mkdir" /\ UNCHANGED crossed
    BY <1>2 DEF MakeGroup
  <2>2. Does[c].subsystem \in Subsystems /\ Unlimited \in Nat /\ Unlimited <= Unlimited
    <3>1. Does[c].subsystem \in Subsystems /\ Unlimited \in Nat
      BY <1>0, <2>1, GroupFacts DEF PlaceOK
    <3> QED BY <3>1
  <2>3. Touches(c) /\ group'[GroupName(c)] = NewGroup
    BY <2>1 DEF Touches
  <2>4. GroupOK(GroupName(c))'
    BY <2>2, <2>3 DEF GroupOK, NewGroup, GroupName
  <2> QED BY <1>0, <1>d, <2>1, <2>3, <2>4
<1>3. CASE RemoveDir(c) /\ ~UNCHANGED group
  <2>1. /\ group' = [g \in DOMAIN group \ {GroupName(c)} |-> group[g]]
        /\ pc[c] = "moving" /\ UNCHANGED crossed
    BY <1>3 DEF RemoveDir
  <2> QED BY <1>0, <1>d, <2>1 DEF Touches, There
<1>4. CASE UNCHANGED group
  <2>1. Touches(c) /\ (There(c)' => GroupOK(GroupName(c))')
    BY <1>0, <1>4, GroupFacts DEF GroupsInv, Touches, There, GroupOK, GroupsOK, GroupName
  <2>2. /\ pc[c] = "new" => Crosses(c) /\ UNCHANGED <<group, member>>
        /\ pc[c] # "new" => UNCHANGED crossed
    BY <1>4
    DEF OfGroups, CgroupStep, GetGroup, Ensure, StatGroup, MakeGroup, Reset, ResetAgain, Tasks, TaskAdd,
        TaskRemove, RemoveGroup, RemoveTasks, MoveTask, RemoveDir, CpusetSpec, MemorySpec, Limit,
        LimitAgain, LimitsTold, GroupFault, Fails, cgroups
  <2> QED BY <1>0, <1>d, <2>1, <2>2
<1> QED
  BY <1>1, <1>2, <1>3, <1>4
  DEF OfGroups, CgroupStep, GetGroup, Ensure, StatGroup, Tasks, TaskAdd,
      TaskRemove, RemoveGroup, RemoveTasks, MoveTask, MemorySpec, LimitsTold, GroupFault, cgroups

LEMMA MembersStep ==
  ASSUME Base, GroupsInv, NEW c \in Coming, OfGroups(c) PROVE MembersOK'
<1>0. /\ member = [s \in Subsystems |-> [p \in Process |-> member[s][p]]]
      /\ \A s \in Subsystems, p \in Process : member[s][p] = "" \/ <<s, member[s][p]>> \in DOMAIN group
  BY DEF GroupsInv, MembersOK
<1>1. CASE RemoveDir(c) /\ ~UNCHANGED group
  <2>1. InGroup(GroupName(c)) = {} /\ DOMAIN group' = DOMAIN group \ {GroupName(c)} /\ UNCHANGED member
    BY <1>1 DEF RemoveDir
  <2>2. ASSUME NEW s \in Subsystems, NEW p \in Process PROVE <<s, member[s][p]>> # GroupName(c)
    BY <2>1 DEF InGroup
  <2> QED BY <1>0, <2>1, <2>2 DEF MembersOK
<1>2. CASE MakeGroup(c) /\ ~UNCHANGED group
  BY <1>0, <1>2 DEF MakeGroup, MembersOK
<1>3. CASE Reset(c) \/ ResetAgain(c) \/ CpusetSpec(c) \/ Limit(c) \/ LimitAgain(c)
  <2>1. DOMAIN group' = DOMAIN group
    BY <1>3, <1>0
    DEF Reset, ResetAgain, ResetSwap, ResetMem, Inherit, Tries, CpusetSpec, Limit, LimitAgain, WriteMem,
        WriteSwap, SetGroup, GroupsInv, GroupsOK
  <2>2. UNCHANGED member
    BY <1>3 DEF Reset, ResetAgain, CpusetSpec, Limit, LimitAgain
  <2> QED BY <1>0, <2>1, <2>2 DEF MembersOK
<1>4. ASSUME NEW s, NEW p, NEW v, member' = [member EXCEPT ![s][p] = v], UNCHANGED group,
             v = "" \/ <<s, v>> \in DOMAIN group
      PROVE  MembersOK'
  <2>1. member' = [x \in Subsystems |-> [q \in Process |-> member'[x][q]]]
    BY <1>0, <1>4
  <2>2. \A x \in Subsystems, q \in Process :
           member'[x][q] = IF x = s /\ q = p THEN v ELSE member[x][q]
    BY <1>0, <1>4
  <2>3. ASSUME NEW x \in Subsystems, NEW q \in Process
        PROVE  member'[x][q] = "" \/ <<x, member'[x][q]>> \in DOMAIN group'
    <3>1. CASE x = s /\ q = p
      <4>1. member'[x][q] = v
        BY <2>2, <3>1
      <4> QED BY <1>4, <3>1, <4>1
    <3>2. CASE ~(x = s /\ q = p)
      <4>1. member'[x][q] = member[x][q]
        BY <2>2, <3>2
      <4> QED BY <1>0, <1>4, <4>1
    <3> QED BY <3>1, <3>2
  <2> QED BY <2>1, <2>3 DEF MembersOK
<1>5. CASE UNCHANGED <<group, member>>
  BY <1>0, <1>5 DEF MembersOK
<1>6. CASE TaskAdd(c) \/ TaskRemove(c) \/ MoveTask(c)
  <2>1. CASE TaskAdd(c) /\ ~UNCHANGED member
    BY <1>4, <2>1 DEF TaskAdd, There, GroupName
  <2>2. CASE TaskRemove(c)
    BY <1>4, <2>2 DEF TaskRemove
  <2>3. CASE MoveTask(c) /\ ~UNCHANGED member
    BY <1>4, <2>3 DEF MoveTask
  <2> QED BY <1>5, <1>6, <2>1, <2>2, <2>3 DEF TaskAdd, MoveTask
<1> QED
  BY <1>1, <1>2, <1>3, <1>5, <1>6
  DEF OfGroups, CgroupStep, GetGroup, Ensure, StatGroup, MakeGroup, Tasks, RemoveGroup, RemoveTasks,
      RemoveDir, MemorySpec, LimitsTold, GroupFault, cgroups

LEMMA CrossedStep ==
  ASSUME Base, GroupsInv, NEW c \in Coming, OfGroups(c)
  PROVE  /\ CrossedOK' /\ crossed \subseteq crossed'
         /\ pc[c] # "new" => Within(c) /\ \A d \in Coming \ {c} :
              Within(d) /\ GroupName(d) = GroupName(c) => d \in crossed /\ c \in crossed
<1>1. ForGroup(c) /\ MovesOnly(c) /\ ~Ended(c)
      /\ (pc[c] = "new" => Crosses(c)) /\ (pc[c] # "new" => UNCHANGED crossed)
  BY GroupTouch DEF OfGroups
<1>2. crossed \subseteq crossed'
  BY <1>1 DEF Crosses
<1>3. \A d \in Coming \ {c} : Within(d)' <=> Within(d)
  BY <1>1 DEF MovesOnly, Within, Ended, ForGroup
<1>4. ASSUME NEW d \in Coming, d # c, Within(d), GroupName(d) = GroupName(c)
      PROVE  c \in crossed' /\ d \in crossed'
  <2>1. CASE pc[c] = "new"
    BY <1>1, <1>4, <2>1 DEF Crosses, Within
  <2>2. CASE pc[c] # "new"
    BY <1>1, <1>4, <2>2 DEF GroupsInv, CrossedOK, Within
  <2> QED BY <2>1, <2>2
<1>5. CrossedOK'
  BY <1>1, <1>2, <1>3, <1>4 DEF GroupsInv, CrossedOK, MovesOnly, GroupName
<1>6. ASSUME pc[c] # "new"
      PROVE  Within(c) /\ \A d \in Coming \ {c} :
               Within(d) /\ GroupName(d) = GroupName(c) => d \in crossed /\ c \in crossed
  BY <1>1, <1>6 DEF GroupsInv, CrossedOK, Within
<1> QED BY <1>2, <1>5, <1>6

LEMMA GroupBystander ==
  ASSUME Base, GroupsInv, NEW c \in Coming, OfGroups(c), NEW d \in Coming, d # c
  PROVE  GroupCommandOK(d)'
<1>1. MovesOnly(c) /\ Touches(c) /\ (pc[c] = "new" => UNCHANGED group)
  BY GroupTouch
<1>2. pc'[d] = pc[d] /\ got'[d] = got[d]
  BY <1>1 DEF MovesOnly
<1>d. d \in dropped' <=> d \in dropped
  BY GroupTouch
<1> SUFFICES ASSUME ForGroup(d) PROVE PlaceOK(d)' /\ UncrossedOK(d)'
  BY DEF GroupCommandOK, ForGroup
<1>3. PlaceOK(d)'
  BY <1>2, GroupFacts DEF PlaceOK, GroupPlaces, Is
<1>4. ASSUME d \notin crossed', Within(d)
      PROVE  (There(d)' <=> There(d)) /\ (There(d) => group'[GroupName(d)] = group[GroupName(d)])
  <2>1. CASE pc[c] = "new"
    BY <1>1, <2>1 DEF There, GroupName
  <2>2. CASE pc[c] # "new"
    <3>1. GroupName(d) # GroupName(c)
      BY <1>4, <2>2, CrossedStep
    <3> QED BY <1>1, <3>1 DEF Touches, There, GroupName
  <2> QED BY <2>1, <2>2
<1>5. UncrossedOK(d)'
  <2> SUFFICES ASSUME d \notin crossed', pc[d] \in {"reset", "reset again", "got", "limit", "limit again", "told"}
               PROVE  UncrossedOK(d)'
    BY <1>2 DEF UncrossedOK
  <2>1. Within(d) /\ d \notin crossed /\ UncrossedOK(d)
    BY CrossedStep, GroupFacts DEF Within, Ended
  <2>2. There(d) /\ There(d)' /\ group'[GroupName(d)] = group[GroupName(d)]
    BY <1>4, <2>1 DEF UncrossedOK
  <2>3. Limits(d)' = Limits(d) /\ (SwapFirst(d)' <=> SwapFirst(d))
    BY <1>2, <2>2 DEF Limits, SwapFirst, GroupName
  <2>4. /\ MemIs(d, Limits(d)[1])' <=> MemIs(d, Limits(d)[1])
        /\ SwapIs(d, Limits(d)[2])' <=> SwapIs(d, Limits(d)[2])
    BY <1>2, <1>d, <2>3 DEF MemIs, SwapIs
  <2> QED BY <1>2, <2>1, <2>2, <2>3, <2>4 DEF UncrossedOK, Is
<1> QED BY <1>3, <1>5

LEMMA FilledStep ==
  ASSUME Base, GroupsInv, NEW c \in Coming, OfGroups(c) PROVE FilledOK'
<1> DEFINE n == GroupName(c)
           Waits(d, g, places) == Within(d) /\ GroupName(d) = g /\ pc[d] \in places
<1>1. ForGroup(c) /\ MovesOnly(c) /\ Touches(c) /\ ~Ended(c) /\ GroupsOK
  BY GroupTouch DEF OfGroups, GroupsInv
<1>2. ASSUME NEW d \in Coming, d # c, Within(d) PROVE Within(d)' /\ pc'[d] = pc[d]
  BY <1>1, <1>2 DEF MovesOnly, Within, Ended, ForGroup
<1> SUFFICES ASSUME NEW g \in DOMAIN group', g[1] = "cpuset", ~Excused(g)'
             PROVE  /\ group'[g].cpus = {} => \E d \in Coming' : Waits(d, g, {"reset"})'
                    /\ group'[g].mems = {} => \E d \in Coming' : Waits(d, g, {"reset", "reset again"})'
  BY DEF FilledOK
<1>x. ~Excused(g) /\ (g = n => c \notin dropped')
  BY GroupTouch DEF Excused, GroupName
<1>3. g \in DOMAIN group =>
        /\ group[g].cpus = {} => \E d \in Coming : Waits(d, g, {"reset"})
        /\ group[g].mems = {} => \E d \in Coming : Waits(d, g, {"reset", "reset again"})
  BY <1>x DEF GroupsInv, FilledOK
<1>4. ASSUME NEW d \in Coming, d # c, NEW places, Waits(d, g, places) PROVE Waits(d, g, places)'
  BY <1>2, <1>4 DEF GroupName
<1>5. CASE g # n
  <2>1. g \in DOMAIN group /\ group'[g] = group[g]
    BY <1>1, <1>5 DEF Touches
  <2>2. \A d \in Coming : \A places : Waits(d, g, places) => d # c
    BY <1>5
  <2> QED BY <1>1, <1>3, <1>4, <2>1, <2>2 DEF MovesOnly
<1>6. CASE g = n
  <2>0. Does[c].subsystem = "cpuset"
    BY <1>6 DEF GroupName
  <2>1. CASE MakeGroup(c) /\ ~UNCHANGED group
    <3>1. pc'[c] = "reset"
      BY <2>1, StepMoves DEF MakeGroup, Base
    <3>2. Waits(c, g, {"reset"})' /\ Waits(c, g, {"reset", "reset again"})'
      BY <1>1, <1>6, <3>1 DEF Within, Ended, ForGroup, GroupName
    <3> QED BY <1>1, <3>2 DEF MovesOnly
  <2>2. CASE Reset(c)
    <3>1. SetGroup(c, "cpus", Machine.cpus) /\ pc'[c] = "reset again"
      BY <1>6, <1>x, <2>0, <2>2, OnMoves DEF Reset, Inherit, Tries, Drops, Base
    <3>2. group'[g].cpus = Machine.cpus
      <4>1. Writes(c, group[n].mem, group[n].swap, Machine.cpus, group[n].mems)
        BY <1>1, <3>1, SetsField
      <4> QED BY <1>6, <4>1 DEF Writes, There
    <3>3. Waits(c, g, {"reset", "reset again"})'
      BY <1>1, <1>6, <3>1 DEF Within, Ended, ForGroup, GroupName
    <3> QED BY <1>1, <3>2, <3>3, GroupFacts DEF MovesOnly
  <2>3. CASE ResetAgain(c)
    <3>1. SetGroup(c, "mems", Machine.mems) /\ pc[c] = "reset again"
      BY <1>6, <1>x, <2>0, <2>3 DEF ResetAgain, Inherit, Tries, Drops
    <3>2. g \in DOMAIN group /\ group'[g].mems = Machine.mems /\ group'[g].cpus = group[g].cpus
      <4>1. Writes(c, group[n].mem, group[n].swap, group[n].cpus, Machine.mems)
        BY <1>1, <3>1, SetsField
      <4> QED BY <1>6, <4>1 DEF Writes, There
    <3>3. \A d \in Coming : Waits(d, g, {"reset"}) => d # c
      BY <3>1
    <3> QED BY <1>1, <1>3, <1>4, <3>2, <3>3, GroupFacts DEF MovesOnly
  <2>4. ASSUME pc[c] \notin {"reset", "reset again"}, g \in DOMAIN group,
               group'[g].cpus = {} => group[g].cpus = {}, group'[g].mems = {} => group[g].mems = {}
        PROVE  /\ group'[g].cpus = {} => \E d \in Coming' : Waits(d, g, {"reset"})'
               /\ group'[g].mems = {} => \E d \in Coming' : Waits(d, g, {"reset", "reset again"})'
    <3>1. \A d \in Coming : Waits(d, g, {"reset"}) \/ Waits(d, g, {"reset", "reset again"}) => d # c
      BY <2>4
    <3> QED BY <1>1, <1>3, <1>4, <2>4, <3>1 DEF MovesOnly
  <2>5. CASE CpusetSpec(c)
    <3>1. pc[c] \in {"got", "mems"}
      BY <2>5 DEF CpusetSpec
    <3>2. (\E S : S # {} /\ (SetGroup(c, "cpus", S) \/ SetGroup(c, "mems", S))) \/ UNCHANGED group
      BY <2>5 DEF CpusetSpec
    <3>3. CASE UNCHANGED group
      BY <2>4, <3>1, <3>3
    <3>4. ASSUME NEW S, S # {}, SetGroup(c, "cpus", S) PROVE g \in DOMAIN group
                 /\ group'[g].cpus = S /\ group'[g].mems = group[g].mems
      <4>1. Writes(c, group[n].mem, group[n].swap, S, group[n].mems)
        BY <1>1, <3>4, SetsField
      <4> QED BY <1>6, <4>1 DEF Writes, There
    <3>5. ASSUME NEW S, S # {}, SetGroup(c, "mems", S) PROVE g \in DOMAIN group
                 /\ group'[g].mems = S /\ group'[g].cpus = group[g].cpus
      <4>1. Writes(c, group[n].mem, group[n].swap, group[n].cpus, S)
        BY <1>1, <3>5, SetsField
      <4> QED BY <1>6, <4>1 DEF Writes, There
    <3> QED BY <2>4, <3>1, <3>2, <3>3, <3>4, <3>5
  <2>6. ~Limit(c) /\ ~LimitAgain(c)
    BY <1>1, <2>0, GroupFacts DEF Limit, LimitAgain, PlaceOK, GroupPlaces
  <2>7. CASE RemoveDir(c) /\ ~UNCHANGED group
    BY <1>6, <2>7 DEF RemoveDir
  <2>8. CASE UNCHANGED group /\ ~Reset(c) /\ ~ResetAgain(c)
    <3>1. pc[c] \notin {"reset", "reset again"}
      BY <1>1, <2>8, GroupFacts
      DEF OfGroups, CgroupStep, GetGroup, Ensure, StatGroup, MakeGroup, Tasks, TaskAdd,
          TaskRemove, RemoveGroup, RemoveTasks, MoveTask, RemoveDir, CpusetSpec, MemorySpec, Limit,
          LimitAgain, LimitsTold, GroupFault, Fails
    <3> QED BY <2>4, <2>8, <3>1
  <2> QED
    BY <2>1, <2>2, <2>3, <2>5, <2>6, <2>7, <2>8
    DEF OfGroups, CgroupStep, GetGroup, Ensure, StatGroup, Tasks, TaskAdd, TaskRemove, RemoveGroup,
        RemoveTasks, MoveTask, MemorySpec, LimitsTold, GroupFault, cgroups
<1> QED BY <1>5, <1>6

LEMMA PlaceStep ==
  ASSUME Base, GroupsInv, NEW c \in Coming, OfGroups(c) PROVE PlaceOK(c)'
<1>0. ForGroup(c) /\ PlaceOK(c) /\ CommandsOK
  BY GroupTouch, GroupFacts DEF Base
<1>1. CASE GetGroup(c) \/ Ensure(c) \/ StatGroup(c) \/ MakeGroup(c)
  <2>1. There(c) => Does[c].subsystem \in Subsystems
    BY <1>0, GroupFacts DEF GroupOK, GroupName
  <2>2. /\ pc'[c] \in {"stat", "error", "mkdir", Then(c), "reset"} /\ ~Is(c, "cgroup.remove")
        /\ pc'[c] \in {"stat", "mkdir"} => Does[c].subsystem \in Subsystems
    <3>1. CASE GetGroup(c)
      BY <1>0, <2>1, <3>1, StepMoves DEF GetGroup, Is, Gets
    <3>2. CASE Ensure(c)
      BY <1>0, <3>2, StepMoves DEF Ensure, Is
    <3>3. CASE StatGroup(c)
      BY <1>0, <3>3, StepMoves DEF StatGroup, PlaceOK, GroupPlaces, Is
    <3>4. CASE MakeGroup(c)
      BY <1>0, <3>4, StepMoves DEF MakeGroup, PlaceOK, GroupPlaces, Is
    <3> QED BY <1>1, <3>1, <3>2, <3>3, <3>4
  <2>3. Then(c) \in {"ok", "reset", "got"} /\ (Is(c, "cgroup.ensure") => Then(c) = "ok")
    BY DEF Then, Is
  <2> QED BY <2>2, <2>3 DEF PlaceOK, GroupPlaces, Is
<1>2. CASE Reset(c) \/ ResetAgain(c)
  <2>1. ~Is(c, "cgroup.remove")
    BY <1>0, <1>2 DEF Reset, ResetAgain, PlaceOK, GroupPlaces, Is
  <2>2. pc'[c] \in {"reset again", "ok", Then(c)}
    BY <1>0, <1>2, OnMoves DEF Reset, ResetAgain
  <2>3. Then(c) \in {"ok", "reset", "got"} /\ (Is(c, "cgroup.ensure") => Then(c) = "ok")
    BY DEF Then, Is
  <2> QED BY <2>1, <2>2, <2>3 DEF PlaceOK, GroupPlaces, Is
<1>3. CASE Tasks(c) \/ TaskAdd(c) \/ TaskRemove(c) \/ RemoveGroup(c) \/ RemoveDir(c)
  <2>1. pc'[c] \in {"ok", "error"} \/ (Is(c, "cgroup.remove") /\ pc'[c] = "tasks")
    BY <1>0, <1>3, StepMoves DEF Tasks, TaskAdd, TaskRemove, RemoveGroup, RemoveDir
  <2> QED BY <2>1 DEF PlaceOK, GroupPlaces, Is
<1>4. CASE RemoveTasks(c) \/ MoveTask(c)
  <2>1. pc'[c] = pc[c] \/ (Is(c, "cgroup.remove") /\ pc'[c] \in {"moving", "error"})
    BY <1>0, <1>4, StepMoves DEF RemoveTasks, MoveTask, Goto, CommandsOK
  <2> QED BY <1>0, <2>1 DEF PlaceOK, GroupPlaces, Is
<1>5. CASE CpusetSpec(c)
  <2>1. Is(c, "cgroup.cpuset.spec")
    BY <1>5 DEF CpusetSpec
  <2>2. pc'[c] \in {"error", "mems", "ok"}
    BY <1>0, <1>5, StepMoves DEF CpusetSpec
  <2> QED BY <2>1, <2>2 DEF PlaceOK, GroupPlaces, Is
<1>6. CASE MemorySpec(c) \/ Limit(c) \/ LimitAgain(c) \/ LimitsTold(c)
  <2>1. Is(c, "cgroup.memory.spec")
    BY <1>0, <1>6 DEF MemorySpec, Limit, LimitAgain, LimitsTold, PlaceOK, GroupPlaces
  <2>2. pc'[c] \in {"told", "limit", "limit again", "ok", "error"}
    BY <1>0, <1>6, StepMoves, OnMoves, ToldMoves DEF MemorySpec, Limit, LimitAgain
  <2> QED BY <2>1, <2>2 DEF PlaceOK, GroupPlaces, Is
<1>7. CASE GroupFault(c)
  <2>1. pc'[c] = "error"
    BY <1>0, <1>7, StepMoves DEF GroupFault
  <2> QED BY <2>1 DEF PlaceOK, GroupPlaces
<1> QED BY <1>1, <1>2, <1>3, <1>4, <1>5, <1>6, <1>7 DEF OfGroups, CgroupStep

\* What the writes of a limit do to a group that is there: the one that fits sets its
\* limit, if no error of the command is left aside; none touches the other limit.
LEMMA LimitWrites ==
  ASSUME Base, GroupsInv, NEW c \in Coming, Is(c, "cgroup.memory.spec"), There(c)
  PROVE  /\ WriteMem(c) =>
              /\ There(c)' /\ Limits(c)'[2] = Limits(c)[2]
              /\ Limits(c)'[1] = Does[c].mem \/ Limits(c)'[1] = Limits(c)[1]
              /\ c \notin dropped' /\ Does[c].mem <= Limits(c)[2] => Limits(c)'[1] = Does[c].mem
         /\ WriteSwap(c) =>
              /\ There(c)' /\ Limits(c)'[1] = Limits(c)[1]
              /\ Limits(c)'[2] = Does[c].mem + Does[c].swap \/ Limits(c)'[2] = Limits(c)[2]
              /\ c \notin dropped' /\ Limits(c)[1] <= Does[c].mem + Does[c].swap =>
                   Limits(c)'[2] = Does[c].mem + Does[c].swap
<1> DEFINE g == group[GroupName(c)]
           v == Does[c].mem + Does[c].swap
<1>1. GroupsOK /\ Limits(c) = <<g.mem, g.swap>>
  BY DEF GroupsInv, Limits
<1>2. UNCHANGED group => There(c)' /\ Limits(c)' = Limits(c)
  BY DEF There, Limits, GroupName
<1>3. ASSUME WriteMem(c)
      PROVE  /\ There(c)' /\ Limits(c)'[2] = Limits(c)[2]
             /\ Limits(c)'[1] = Does[c].mem \/ Limits(c)'[1] = Limits(c)[1]
             /\ c \notin dropped' /\ Does[c].mem <= Limits(c)[2] => Limits(c)'[1] = Does[c].mem
  <2>1. SetGroup(c, "mem", Does[c].mem) => There(c)' /\ Limits(c)' = <<Does[c].mem, Limits(c)[2]>>
    <3>1. SetGroup(c, "mem", Does[c].mem) => Writes(c, Does[c].mem, g.swap, g.cpus, g.mems)
      BY <1>1, SetsField
    <3> QED BY <1>1, <3>1 DEF Writes, Limits, GroupName
  <2>2. /\ SetGroup(c, "mem", Does[c].mem) \/ UNCHANGED group
        /\ c \notin dropped' /\ Does[c].mem <= Limits(c)[2] => SetGroup(c, "mem", Does[c].mem)
    BY <1>1, <1>3 DEF WriteMem, Tries, Drops, MemFits
  <2>3. CASE SetGroup(c, "mem", Does[c].mem)
    BY <2>1, <2>3
  <2>4. CASE UNCHANGED group /\ ~SetGroup(c, "mem", Does[c].mem)
    BY <1>2, <2>2, <2>4
  <2> QED BY <2>2, <2>3, <2>4
<1>4. ASSUME WriteSwap(c)
      PROVE  /\ There(c)' /\ Limits(c)'[1] = Limits(c)[1]
             /\ Limits(c)'[2] = v \/ Limits(c)'[2] = Limits(c)[2]
             /\ c \notin dropped' /\ Limits(c)[1] <= v => Limits(c)'[2] = v
  <2>2. /\ SetGroup(c, "swap", v) \/ UNCHANGED group
        /\ c \notin dropped' /\ Limits(c)[1] <= v => SetGroup(c, "swap", v)
    BY <1>1, <1>4 DEF WriteSwap, Tries, Drops
  <2> HIDE DEF v
  <2>1. SetGroup(c, "swap", v) => There(c)' /\ Limits(c)' = <<Limits(c)[1], v>>
    <3>1. SetGroup(c, "swap", v) => Writes(c, g.mem, v, g.cpus, g.mems)
      BY <1>1, SetsField
    <3> QED BY <1>1, <3>1 DEF Writes, Limits, GroupName
  <2>3. CASE SetGroup(c, "swap", v)
    BY <2>1, <2>3
  <2>4. CASE UNCHANGED group /\ ~SetGroup(c, "swap", v)
    BY <1>2, <2>2, <2>4
  <2> QED BY <2>2, <2>3, <2>4
<1> QED BY <1>3, <1>4

LEMMA UncrossedStep ==
  ASSUME Base, GroupsInv, NEW c \in Coming, OfGroups(c) PROVE UncrossedOK(c)'
<1> SUFFICES ASSUME c \notin crossed' PROVE UncrossedOK(c)'
  BY DEF UncrossedOK
<1>0. /\ ForGroup(c) /\ PlaceOK(c) /\ CommandsOK /\ UncrossedOK(c) /\ c \notin crossed /\ GroupsOK
  BY GroupTouch, GroupFacts, CrossedStep DEF Base, GroupsInv
<1>1. CASE GetGroup(c) \/ Ensure(c) \/ Tasks(c) \/ TaskAdd(c) \/ TaskRemove(c) \/ RemoveGroup(c)
           \/ RemoveTasks(c) \/ RemoveDir(c) \/ CpusetSpec(c) \/ MoveTask(c) \/ GroupFault(c)
  <2>1. pc'[c] \in {"stat", "ok", "error", "tasks", "moving", "mems"}
    BY <1>0, <1>1, StepMoves
    DEF GetGroup, Ensure, Tasks, TaskAdd, TaskRemove, RemoveGroup, RemoveTasks, RemoveDir, CpusetSpec,
        MoveTask, GroupFault, Goto, CommandsOK
  <2> QED BY <2>1 DEF UncrossedOK
<1>2. CASE StatGroup(c) \/ MakeGroup(c)
  <2>1. /\ pc'[c] \in {"ok", "reset", "got", "mkdir", "error"}
        /\ pc'[c] \in {"reset", "got"} => There(c)'
    BY <1>0, <1>2, StepMoves DEF StatGroup, MakeGroup, Then, There, cgroups, GroupName
  <2> QED BY <2>1 DEF UncrossedOK
<1>3. CASE Reset(c) \/ ResetAgain(c)
  <2>1. There(c)
    BY <1>0, <1>3 DEF Reset, ResetAgain, UncrossedOK
  <2>2. There(c)'
    <3>1. UNCHANGED group \/ \E v : \/ SetGroup(c, "mem", v) \/ SetGroup(c, "swap", v)
                                    \/ SetGroup(c, "cpus", v) \/ SetGroup(c, "mems", v)
      BY <1>3 DEF Reset, ResetAgain, ResetSwap, ResetMem, Inherit, Tries
    <3> QED BY <1>0, <2>1, <3>1 DEF SetGroup, There, GroupName, GroupsOK
  <2>3. pc'[c] \in {"reset again", "reset", "ok", "got"}
    BY <1>0, <1>3, OnMoves DEF Reset, ResetAgain, Then
  <2> QED BY <2>2, <2>3 DEF UncrossedOK
<1>4. ASSUME MemorySpec(c) \/ Limit(c) \/ LimitAgain(c) \/ LimitsTold(c)
      PROVE  Is(c, "cgroup.memory.spec") /\ There(c)
  BY <1>0, <1>4 DEF MemorySpec, Limit, LimitAgain, LimitsTold, PlaceOK, GroupPlaces, UncrossedOK
<1>5. CASE MemorySpec(c)
  <2>1. There(c)' /\ Limits(c)' = Limits(c)
    BY <1>4, <1>5 DEF MemorySpec, cgroups, There, Limits, GroupName
  <2>2. \/ Does[c].mem = 0 /\ pc'[c] = "told"
        \/ Does[c].mem # 0 /\ pc'[c] = "limit" /\ got'[c] = Limits(c)
    BY <1>0, <1>4, <1>5, StepMoves DEF MemorySpec
  <2> QED BY <2>1, <2>2 DEF UncrossedOK
<1>6. Is(c, "cgroup.memory.spec") /\ There(c) =>
        /\ Does[c].mem \in Nat /\ Does[c].swap \in Nat
        /\ Limits(c) = <<Limits(c)[1], Limits(c)[2]>>
        /\ Limits(c)[1] \in Nat /\ Limits(c)[2] \in Nat /\ Limits(c)[1] <= Limits(c)[2]
  BY <1>0, GroupFacts DEF GroupOK, Limits
<1>d. dropped \subseteq dropped'
  BY GroupTouch
<1>7. CASE Limit(c)
  <2>1. pc[c] = "limit" /\ pc'[c] = "limit again" /\ got'[c] = got[c]
    BY <1>0, <1>7, OnMoves DEF Limit
  <2>2. Does[c].mem # 0 /\ got[c] = Limits(c)
    BY <1>0, <1>4, <1>7, <2>1 DEF UncrossedOK
  <2>3. SwapFirst(c)' <=> SwapFirst(c)
    BY <2>1 DEF SwapFirst
  <2>4. CASE SwapFirst(c)
    <3>1. Limits(c)[2] < Does[c].mem
      BY <2>2, <2>4 DEF SwapFirst
    <3>2. Limits(c)[1] <= Does[c].mem + Does[c].swap
      BY <1>4, <1>6, <1>7, <3>1
    <3>3. /\ There(c)' /\ Limits(c)'[1] = Limits(c)[1]
          /\ Limits(c)'[2] = Does[c].mem + Does[c].swap
               \/ (c \in dropped' /\ Limits(c)'[2] = Limits(c)[2])
      BY <1>4, <1>7, <2>4, <3>2, LimitWrites DEF Limit
    <3>4. SwapIs(c, Limits(c)[2])' /\ Limits(c)'[1] = got'[c][1]
      BY <2>1, <2>2, <3>3 DEF SwapIs
    <3> QED BY <2>1, <2>2, <2>3, <2>4, <3>3, <3>4 DEF UncrossedOK
  <2>5. CASE ~SwapFirst(c)
    <3>1. ~(Limits(c)[2] < Does[c].mem)
      BY <2>2, <2>5 DEF SwapFirst
    <3>2. Does[c].mem <= Limits(c)[2]
      BY <1>4, <1>6, <1>7, <3>1
    <3>3. /\ There(c)' /\ Limits(c)'[2] = Limits(c)[2]
          /\ Limits(c)'[1] = Does[c].mem \/ (c \in dropped' /\ Limits(c)'[1] = Limits(c)[1])
      BY <1>4, <1>7, <2>5, <3>2, LimitWrites DEF Limit
    <3>4. MemIs(c, Limits(c)[1])' /\ Limits(c)'[2] = got'[c][2]
      BY <2>1, <2>2, <3>3 DEF MemIs
    <3> QED BY <2>1, <2>2, <2>3, <2>5, <3>3, <3>4 DEF UncrossedOK
  <2> QED BY <2>4, <2>5
<1>8. CASE LimitAgain(c)
  <2>1. pc[c] = "limit again" /\ pc'[c] = "told" /\ got'[c] = got[c]
    BY <1>0, <1>8, OnMoves DEF LimitAgain
  <2>2. IF SwapFirst(c) THEN SwapIs(c, Limits(c)[2]) /\ Limits(c)[1] = got[c][1]
                        ELSE MemIs(c, Limits(c)[1]) /\ Limits(c)[2] = got[c][2]
    BY <1>0, <1>4, <1>8, <2>1 DEF UncrossedOK
  <2>3. Does[c].mem <= Does[c].mem + Does[c].swap
    BY <1>4, <1>6, <1>8
  <2>4. There(c)' /\ MemIs(c, Limits(c)[1])' /\ SwapIs(c, Limits(c)[2])'
    <3>1. CASE SwapFirst(c)
      <4>1. /\ There(c)' /\ Limits(c)'[2] = Limits(c)[2]
            /\ Limits(c)'[1] = Does[c].mem \/ Limits(c)'[1] = Limits(c)[1]
            /\ c \notin dropped' /\ Does[c].mem <= Limits(c)[2] => Limits(c)'[1] = Does[c].mem
        BY <1>4, <1>8, <3>1, LimitWrites DEF LimitAgain
      <4>2. c \notin dropped' => Does[c].mem <= Limits(c)[2]
        BY <1>d, <2>2, <2>3, <3>1 DEF SwapIs
      <4>3. MemIs(c, Limits(c)[1])'
        BY <2>1, <2>2, <3>1, <4>1, <4>2 DEF MemIs
      <4>4. SwapIs(c, Limits(c)[2])'
        BY <1>d, <2>1, <2>2, <3>1, <4>1 DEF SwapIs
      <4> QED BY <4>1, <4>3, <4>4
    <3>2. CASE ~SwapFirst(c)
      <4>1. /\ There(c)' /\ Limits(c)'[1] = Limits(c)[1]
            /\ Limits(c)'[2] = Does[c].mem + Does[c].swap \/ Limits(c)'[2] = Limits(c)[2]
            /\ c \notin dropped' /\ Limits(c)[1] <= Does[c].mem + Does[c].swap =>
                 Limits(c)'[2] = Does[c].mem + Does[c].swap
        BY <1>4, <1>8, <3>2, LimitWrites DEF LimitAgain
      <4>2. c \notin dropped' => Limits(c)[1] <= Does[c].mem + Does[c].swap
        BY <1>d, <2>2, <2>3, <3>2 DEF MemIs
      <4>3. SwapIs(c, Limits(c)[2])'
        BY <2>1, <2>2, <3>2, <4>1, <4>2 DEF SwapIs
      <4>4. MemIs(c, Limits(c)[1])'
        BY <1>d, <2>1, <2>2, <3>2, <4>1 DEF MemIs
      <4> QED BY <4>1, <4>3, <4>4
    <3> QED BY <3>1, <3>2
  <2> QED BY <2>1, <2>4 DEF UncrossedOK
<1>9. CASE LimitsTold(c)
  <2>1. pc'[c] = "ok"
    BY <1>0, <1>9, ToldMoves
  <2> QED BY <2>1 DEF UncrossedOK
<1> QED BY <1>1, <1>2, <1>3, <1>5, <1>7, <1>8, <1>9 DEF OfGroups, CgroupStep

\* A step of another plugin leaves the groups and their commands alone.
LEMMA GroupSteps ==
  ASSUME Base, [Next]_vars
  PROVE  (\E c \in Coming : OfGroups(c)) \/ (UNCHANGED cgroups /\ Stay(GroupDo))
<1> DEFINE Else == UNCHANGED cgroups /\ Stay(GroupDo)
<1>1. ASSUME NEW c \in Coming, OfFiles(c) \/ OfDisks(c) \/ OfBtrfs(c) PROVE Else
  <2>1. Does[c].do \notin GroupDo
    BY <1>1 DEF OfFiles, OfDisks, OfBtrfs, DiskDo, BtrfsDo, FileCommands, GroupDo, Gets
  <2> QED BY <1>1, <2>1, StaysBut DEF OfFiles, OfDisks, OfBtrfs
<1>2. ASSUME NEW c \in Coming, OfFlists(c) \/ OfBackups(c) PROVE Else
  <2>1. Does[c].do \notin GroupDo
    BY <1>2 DEF OfFlists, OfBackups, BackupCommands, FlistDo, GroupDo, Gets
  <2> QED BY <1>2, <2>1, StaysBut DEF OfFlists, OfBackups
<1>3. ASSUME NEW o \in Mounts, OfDaemon(o) PROVE Else
  <2>1. daemon[o].by \in Coming /\ Does[daemon[o].by].do \notin GroupDo
    BY <1>3 DEF OfDaemon, Base, DaemonInv, Starting, FlistDo, GroupDo, Gets
  <2> QED BY <1>3, <2>1, StaysBut DEF OfDaemon
<1>4. CASE Aside
  <2>1. UNCHANGED cgroups
    BY <1>4 DEF Aside, vars
  <2> QED BY <1>4, <2>1, StaysSo DEF Aside, Base
<1> QED BY <1>1, <1>2, <1>3, <1>4, StorageSteps DEF Base

LEMMA GroupsStep == Base /\ GroupsInv /\ [Next]_vars => GroupsInv'
<1> SUFFICES ASSUME Base, GroupsInv, [Next]_vars PROVE GroupsInv'
  OBVIOUS
<1>1. ASSUME NEW c \in Coming, OfGroups(c) PROVE GroupsInv'
  <2>1. MovesOnly(c) /\ Touches(c) /\ (There(c)' => GroupOK(GroupName(c))')
    BY <1>1, GroupTouch
  <2>2. GroupsOK'
    <3>1. ASSUME NEW g \in DOMAIN group' PROVE GroupOK(g)'
      <4>1. CASE g = GroupName(c)
        BY <2>1, <4>1 DEF There, GroupName
      <4>2. CASE g # GroupName(c)
        <5>1. g \in DOMAIN group /\ group'[g] = group[g] /\ GroupOK(g)
          BY <2>1, <4>2 DEF Touches, GroupsInv, GroupsOK
        <5> QED BY <5>1 DEF GroupOK
      <4> QED BY <4>1, <4>2
    <3> QED BY <2>1, <3>1 DEF GroupsOK, Touches
  <2>3. \A d \in Coming : GroupCommandOK(d)'
    BY <1>1, GroupBystander, PlaceStep, UncrossedStep DEF GroupCommandOK
  <2> QED BY <1>1, <2>1, <2>2, <2>3, MembersStep, FilledStep, CrossedStep DEF GroupsInv, MovesOnly
<1>2. CASE UNCHANGED cgroups /\ Stay(GroupDo)
  <2>1. GroupsOK' /\ MembersOK'
    BY <1>2 DEF GroupsInv, GroupsOK, GroupOK, MembersOK, cgroups
  <2>2. \A d \in Coming : Within(d)' <=> Within(d)
    BY <1>2 DEF Stay, Within, Ended, ForGroup, GroupDo
  <2>3. \A d \in Coming : ForGroup(d) => pc'[d] = pc[d] /\ got'[d] = got[d]
    BY <1>2 DEF Stay, ForGroup, GroupDo
  <2>4. CrossedOK' /\ FilledOK'
    <3>1. CrossedOK'
      BY <1>2, <2>2 DEF Stay, GroupsInv, CrossedOK, cgroups, GroupName
    <3>2. FilledOK'
      <4>1. \A d \in Coming : \A g : Within(d) /\ GroupName(d) = g =>
               Within(d)' /\ GroupName(d)' = g /\ pc'[d] = pc[d]
        BY <2>2, <2>3 DEF Within, GroupName
      <4>2. FilledOK /\ Coming' = Coming /\ UNCHANGED group
        BY <1>2 DEF Stay, GroupsInv, cgroups
      <4>e. \A g : Excused(g)' <=> Excused(g)
        BY <1>2 DEF Excused, cgroups, GroupName
      <4> SUFFICES ASSUME NEW g \in DOMAIN group, g[1] = "cpuset", ~Excused(g)
                   PROVE  /\ group[g].cpus = {} =>
                               \E d \in Coming : Within(d)' /\ GroupName(d)' = g /\ pc'[d] = "reset"
                          /\ group[g].mems = {} =>
                               \E d \in Coming : /\ Within(d)' /\ GroupName(d)' = g
                                                /\ pc'[d] \in {"reset", "reset again"}
        BY <4>2, <4>e DEF FilledOK
      <4>3. group[g].cpus = {} => \E d \in Coming : Within(d) /\ GroupName(d) = g /\ pc[d] = "reset"
        BY <4>2 DEF FilledOK
      <4>4. group[g].mems = {} => \E d \in Coming : Within(d) /\ GroupName(d) = g
                                                   /\ pc[d] \in {"reset", "reset again"}
        BY <4>2 DEF FilledOK
      <4> QED BY <4>1, <4>3, <4>4
    <3> QED BY <3>1, <3>2
  <2>5. ASSUME NEW d \in Coming PROVE GroupCommandOK(d)'
    BY <1>2, <2>3
    DEF GroupsInv, GroupCommandOK, PlaceOK, GroupPlaces, UncrossedOK, ForGroup, Is, There, Limits,
        SwapFirst, MemIs, SwapIs, GroupName, cgroups
  <2> QED BY <1>2, <2>1, <2>4, <2>5 DEF GroupsInv, Stay
<1> QED BY <1>1, <1>2, GroupSteps

LEMMA GroupsInit == Init => GroupsInv
<1> SUFFICES ASSUME Init PROVE GroupsInv
  OBVIOUS
<1>1. \A c \in Coming : pc[c] = "new"
  BY BaseInit
<1>2. DOMAIN group = {} /\ group = [g \in {} |-> NewGroup]
      /\ member = [s \in Subsystems |-> [p \in Process |-> ""]]
  BY DEF Init, InitCgroups
<1>3. GroupsOK /\ MembersOK /\ FilledOK
  BY <1>2 DEF GroupsOK, MembersOK, FilledOK
<1>4. CrossedOK /\ \A c \in Coming : GroupCommandOK(c)
  BY <1>1 DEF CrossedOK, GroupCommandOK, PlaceOK, GroupPlaces, UncrossedOK, Within
<1> QED BY <1>3, <1>4 DEF GroupsInv

LEMMA EnsureTold ==
  ASSUME Base, GroupsInv, GroupsInv', NEW c \in Coming, OfGroups(c), Is(c, "cgroup.ensure"),
         pc'[c] = "ok", c \notin crossed
  PROVE  Takes(GroupName(c))' \/ \E d \in dropped' : GroupName(d) = GroupName(c)
<1> SUFFICES ASSUME ~Excused(GroupName(c))' PROVE Takes(GroupName(c))'
  BY DEF Excused, GroupName
<1>1. StatGroup(c) \/ ResetAgain(c)
  <2>1. ForGroup(c) /\ PlaceOK(c) /\ CommandsOK
    BY GroupTouch, GroupFacts DEF Base
  <2>0. ~GroupFault(c)
    BY <2>1, StepMoves DEF GroupFault
  <2>2. Ensure(c) \/ StatGroup(c) \/ MakeGroup(c) \/ Reset(c) \/ ResetAgain(c)
    BY <2>0, <2>1
    DEF OfGroups, CgroupStep, GetGroup, Tasks, TaskAdd, TaskRemove, RemoveGroup, RemoveTasks, MoveTask,
        RemoveDir, CpusetSpec, MemorySpec, Limit, LimitAgain, LimitsTold, PlaceOK, GroupPlaces, Is, Gets,
        GroupFault
  <2>3. ~Ensure(c)
    BY <2>1, StepMoves DEF Ensure
  <2>4. ~MakeGroup(c)
    BY <2>1, StepMoves DEF MakeGroup
  <2>5. ~Reset(c)
    <3>1. Reset(c) => Proceeds(c, "reset again")
      BY DEF Reset
    <3>2. Proceeds(c, "reset again") => pc'[c] = "reset again"
      BY OnMoves DEF Base
    <3> QED BY <3>1, <3>2
  <2> QED BY <2>2, <2>3, <2>4, <2>5
<1>2. pc[c] # "new" /\ ForGroup(c)
  BY <1>1, GroupTouch DEF StatGroup, ResetAgain
<1>3. There(c)'
  <2>1. CASE StatGroup(c)
    BY <2>1, StepMoves DEF StatGroup, cgroups, There, GroupName, Base
  <2>2. CASE ResetAgain(c)
    <3>1. There(c) /\ group = [g \in DOMAIN group |-> group[g]]
      BY <1>2, <2>2, GroupFacts DEF ResetAgain, UncrossedOK, GroupsInv, GroupsOK
    <3> QED BY <2>2, <3>1 DEF ResetAgain, ResetMem, Inherit, Tries, SetGroup, There, GroupName
  <2> QED BY <1>1, <2>1, <2>2
<1>4. ASSUME NEW d \in Coming', Within(d)', GroupName(d)' = GroupName(c),
             pc'[d] \in {"reset", "reset again"}
      PROVE  FALSE
  <2>1. MovesOnly(c) /\ d # c
    BY <1>4, GroupTouch
  <2>2. d \in Coming /\ Within(d) /\ GroupName(d) = GroupName(c)
    BY <1>4, <2>1 DEF MovesOnly, Within, Ended, GroupName, ForGroup
  <2> QED BY <1>2, <2>1, <2>2, CrossedStep
<1>5. ASSUME GroupName(c)[1] = "cpuset"
      PROVE  group'[GroupName(c)].cpus # {} /\ group'[GroupName(c)].mems # {}
  <2>1. GroupName(c) \in DOMAIN group'
    BY <1>3 DEF There, GroupName
  <2> QED BY <1>4, <1>5, <2>1 DEF GroupsInv, FilledOK
<1> QED BY <1>5 DEF Takes, GroupName

LEMMA RemoveTold ==
  ASSUME Base, GroupsInv, NEW c \in Coming, OfGroups(c), Is(c, "cgroup.remove"), pc'[c] = "ok"
  PROVE  GroupName(c) \notin DOMAIN group' /\ InGroup(GroupName(c))' = {}
<1>0. ForGroup(c) /\ PlaceOK(c) /\ CommandsOK /\ Does[c].name # "" /\ MembersOK
  BY GroupTouch, GroupFacts DEF Base, GroupsInv
<1>1. CASE RemoveGroup(c)
  <2>1. ~There(c) /\ UNCHANGED <<group, member>>
    <3>1. pc'[c] = IF There(c) THEN "tasks" ELSE "ok"
      BY <1>0, <1>1, StepMoves DEF RemoveGroup
    <3> QED BY <1>1, <3>1 DEF RemoveGroup
  <2>2. ASSUME NEW p \in InGroup(GroupName(c)) PROVE FALSE
    <3>1. GroupName(c)[1] \in Subsystems /\ member[GroupName(c)[1]][p] = Does[c].name /\ p \in Process
          /\ GroupName(c) = <<GroupName(c)[1], Does[c].name>>
      BY DEF InGroup, GroupName
    <3>2. <<GroupName(c)[1], Does[c].name>> \in DOMAIN group
      BY <1>0, <3>1 DEF MembersOK
    <3> QED BY <2>1, <3>1, <3>2 DEF There
  <2> QED BY <2>1, <2>2 DEF There, InGroup, GroupName
<1>2. CASE RemoveDir(c)
  <2>1. InGroup(GroupName(c)) = {} /\ UNCHANGED member
        /\ group' = [g \in DOMAIN group \ {GroupName(c)} |-> group[g]]
    <3>1. Step(c, "error") => pc'[c] = "error"
      BY StepMoves DEF Base
    <3> QED BY <1>2, <3>1 DEF RemoveDir
  <2> QED BY <2>1 DEF InGroup, GroupName
<1> QED
  <2>0. ~GroupFault(c)
    <3>1. GroupFault(c) => Fault(c, "error")
      BY DEF GroupFault
    <3>2. Fault(c, "error") => pc'[c] = "error"
      BY <1>0, StepMoves
    <3> QED BY <3>1, <3>2
  <2>1. RemoveGroup(c) \/ RemoveTasks(c) \/ MoveTask(c) \/ RemoveDir(c)
    BY <1>0, <2>0
    DEF OfGroups, CgroupStep, GetGroup, Ensure, StatGroup, MakeGroup, Reset, ResetAgain, Tasks, TaskAdd,
        TaskRemove, CpusetSpec, MemorySpec, Limit, LimitAgain, LimitsTold, PlaceOK, GroupPlaces, Is, Gets
  <2>2. ~RemoveTasks(c)
    <3> SUFFICES ASSUME RemoveTasks(c) PROVE pc'[c] \in {"moving", "error"}
      OBVIOUS
    <3> QED BY <1>0, StepMoves DEF RemoveTasks, Goto, CommandsOK
  <2>3. ~MoveTask(c)
    BY DEF MoveTask
  <2> QED BY <1>1, <1>2, <2>1, <2>2, <2>3

LEMMA SpecTold ==
  ASSUME Base, GroupsInv, NEW c \in Coming, OfGroups(c), Is(c, "cgroup.memory.spec"), Does[c].mem # 0,
         pc'[c] = "ok", c \notin crossed
  PROVE  LET asked == <<Does[c].mem, Does[c].mem + Does[c].swap>>
             set == <<group'[GroupName(c)].mem, group'[GroupName(c)].swap>> IN
         /\ \A i \in 1..2 : set[i] = asked[i] \/ (c \in dropped /\ set[i] = got[c][i])
         /\ got'[c] = <<set[1], set[2] - set[1]>> \/ (c \in dropped' /\ got'[c] = <<0, 0>>)
<1>0. ForGroup(c) /\ PlaceOK(c) /\ UncrossedOK(c) /\ CommandsOK
  BY GroupTouch, GroupFacts DEF Base
<1>1. LimitsTold(c)
  <2>0. ~GroupFault(c)
    BY <1>0, StepMoves DEF GroupFault
  <2>1. \/ GetGroup(c) \/ StatGroup(c) \/ MakeGroup(c) \/ Reset(c) \/ ResetAgain(c)
        \/ MemorySpec(c) \/ Limit(c) \/ LimitAgain(c) \/ LimitsTold(c)
    BY <1>0, <2>0
    DEF OfGroups, CgroupStep, Ensure, Tasks, TaskAdd, TaskRemove, RemoveGroup, RemoveTasks, MoveTask,
        RemoveDir, CpusetSpec, PlaceOK, GroupPlaces, Is
  <2>2. ~GetGroup(c)
    BY <1>0, StepMoves DEF GetGroup
  <2>3. ~StatGroup(c)
    BY <1>0, StepMoves DEF StatGroup, Then, Is
  <2>4. \A p : Step(c, p) => pc'[c] = p
    BY StepMoves DEF Base
  <2>5. ~MakeGroup(c)
    BY <2>4 DEF MakeGroup
  <2>o. \A p : Proceeds(c, p) => pc'[c] = p
    BY OnMoves DEF Base
  <2>6. ~Reset(c)
    <3>1. Reset(c) => Proceeds(c, "reset again")
      BY DEF Reset
    <3> QED BY <2>o, <3>1
  <2>7. ~ResetAgain(c)
    <3>1. ResetAgain(c) => Proceeds(c, Then(c)) /\ Then(c) = "got"
      BY DEF ResetAgain, Then, Is
    <3> QED BY <2>o, <3>1
  <2>8. ~MemorySpec(c)
    <3>1. MemorySpec(c) => Step(c, "told") \/ Step(c, "error") \/ Reads(c, "limit", Limits(c))
      BY DEF MemorySpec
    <3>2. Reads(c, "limit", Limits(c)) => pc'[c] = "limit"
      BY StepMoves DEF Base
    <3> QED BY <2>4, <3>1, <3>2
  <2>9. ~Limit(c) /\ ~LimitAgain(c)
    <3>1. Limit(c) \/ LimitAgain(c) => Proceeds(c, "limit again") \/ Proceeds(c, "told")
      BY DEF Limit, LimitAgain
    <3> QED BY <2>o, <3>1
  <2> QED BY <2>1, <2>2, <2>3, <2>5, <2>6, <2>7, <2>8, <2>9
<1>2. There(c) /\ MemIs(c, Limits(c)[1]) /\ SwapIs(c, Limits(c)[2])
  BY <1>0, <1>1 DEF LimitsTold, UncrossedOK
<1>3. /\ UNCHANGED group
      /\ \/ got'[c] = <<Limits(c)[1], Limits(c)[2] - Limits(c)[1]>>
         \/ c \in dropped' /\ got'[c] = <<0, 0>>
  BY <1>0, <1>1, <1>2, ToldMoves
<1>4. Limits(c) = <<group'[GroupName(c)].mem, group'[GroupName(c)].swap>>
  BY <1>3 DEF Limits
<1> QED BY <1>2, <1>3, <1>4 DEF MemIs, SwapIs

\* For any processes, subsystems, groups and limits, and whatever else comes in between:
\* a command alone with its group sets the limits of memory it asked for, or, where an error
\* was left aside, leaves the one there was, and is told which they are; a group it ensured
\* takes processes, unless the error of a reset was left aside; and one that was removed is
\* gone with nobody in it (cgroups.go:50-126, memorgy.go:57-88, cpuset.go:33-41).
THEOREM LimitsAsToldHolds == Spec => LimitsAsTold
<1> DEFINE AsTold(c) ==
      LET g == GroupName(c) IN
         /\ Is(c, "cgroup.memory.spec") /\ Does[c].mem # 0 =>
              LET asked == <<Does[c].mem, Does[c].mem + Does[c].swap>>
                  set == <<group'[g].mem, group'[g].swap>> IN
              /\ \A i \in 1..2 : set[i] = asked[i] \/ (c \in dropped /\ set[i] = got[c][i])
              /\ got'[c] = <<set[1], set[2] - set[1]>> \/ (c \in dropped' /\ got'[c] = <<0, 0>>)
         /\ Is(c, "cgroup.ensure") => Takes(g)' \/ \E d \in dropped' : GroupName(d) = g
         /\ Is(c, "cgroup.remove") => g \notin DOMAIN group' /\ InGroup(g)' = {}
<1>1. Base /\ GroupsInv /\ GroupsInv' /\ [Next]_vars =>
        [\A c \in Coming : ForGroup(c) /\ ~Ended(c) /\ pc'[c] = "ok" /\ c \notin crossed => AsTold(c)]_vars
  <2> SUFFICES ASSUME Base, GroupsInv, GroupsInv', [Next]_vars, NEW c \in Coming, ForGroup(c),
                      ~Ended(c), pc'[c] = "ok", c \notin crossed
               PROVE  AsTold(c)
    OBVIOUS
  <2>1. ~Stay(GroupDo)
    BY DEF Stay, GroupDo, ForGroup, Ended
  <2>2. PICK d \in Coming : OfGroups(d)
    BY <2>1, GroupSteps
  <2>3. d = c
    BY <2>2 DEF OfGroups, MovesOnly, Ended
  <2>4. OfGroups(c)
    BY <2>2, <2>3
  <2>5. ASSUME Is(c, "cgroup.memory.spec"), Does[c].mem # 0 PROVE AsTold(c)
    <3>1. ~Is(c, "cgroup.ensure") /\ ~Is(c, "cgroup.remove")
      BY <2>5 DEF Is
    <3> QED BY <2>4, <2>5, <3>1, SpecTold
  <2>6. ASSUME Is(c, "cgroup.ensure") PROVE AsTold(c)
    <3>1. ~Is(c, "cgroup.memory.spec") /\ ~Is(c, "cgroup.remove")
      BY <2>6 DEF Is
    <3> QED BY <2>4, <2>6, <3>1, EnsureTold
  <2>7. ASSUME Is(c, "cgroup.remove") PROVE AsTold(c)
    <3>1. ~Is(c, "cgroup.memory.spec") /\ ~Is(c, "cgroup.ensure")
      BY <2>7 DEF Is
    <3> QED BY <2>4, <2>7, <3>1, RemoveTold
  <2> QED BY <2>5, <2>6, <2>7
<1> QED BY <1>1, BaseInit, BaseStep, GroupsInit, GroupsStep, PTL DEF Spec, LimitsAsTold

-----------------------------------------------------------------------------
(* Flists *)

FilesOf(h, v) == DOMAIN Contents[h[1]][v]
DoneIn(h, v, x) == extracted[h][x] = [version |-> v, size |-> Contents[h[1]][v][x]]

FlistsOK ==
  /\ version = [f \in Flist |-> version[f]] /\ \A f \in Flist : version[f] \in Versions(f)
  /\ extracted = [h \in Hash |-> [x \in File |-> extracted[h][x]]]
  /\ valid = [h \in Hash |-> valid[h]] /\ flock = [h \in Hash |-> flock[h]]
\* Served whatever is extracted again.
Doomed(h) == \/ Twins(h) \/ Leftover(h) \/ valid[h].is = "garbled"
             \/ \E v \in Versions(h[1]) : FilesOf(h, v) = {}
ValidOK(h) ==
  /\ valid[h].is \in {"empty", "list", "garbled"}
  /\ valid[h].is = "list" => Doomed(h) \/ (WholeIn(h) /\ Passes(h))
\* Whoever extracts has the lock, and what it has gone through is there.
ExtractsOK(c) ==
  LET h == got[c][1]
      v == got[c][3] IN
  pc[c] \in {"extracting", "filling"} =>
    /\ h \in Hash /\ flock[h] = c /\ v \in Versions(h[1])
    /\ valid[h].is = "empty" \/ Doomed(h)
    /\ todo[c] \in Seq(FilesOf(h, v)) /\ (pc[c] = "filling" => todo[c] # <<>>)
    /\ \A x \in FilesOf(h, v) : DoneIn(h, v, x) \/ \E i \in 1..Len(todo[c]) : todo[c][i] = x
HashedOK(c) == pc[c] = "hashed" => got[c] = <<got[c][1], got[c][2]>> /\ got[c][1] \in Hash
\* An flist is mounted or merged only when its .valid was written.
CheckedOK(c) == pc[c] \in {"checked", "running", "signal"} =>
                  got[c][1] \in Hash /\ valid[got[c][1]].is # "empty"
MountOK(c) == UsesFlist(c) => HashedOK(c) /\ ExtractsOK(c) /\ CheckedOK(c)
DaemonOK(o) == daemon[o].state # "none" =>
                 daemon[o].backend[2] \in Hash /\ valid[daemon[o].backend[2]].is # "empty"
FlistsInv == /\ FlistsOK /\ (\A h \in Hash : ValidOK(h))
             /\ (\A c \in Coming : MountOK(c)) /\ \A o \in Mounts : DaemonOK(o)

LEMMA FlistFacts ==
  ASSUME Base, NEW c \in Coming, UsesFlist(c)
  PROVE  Does[c].flist \in Flist
BY FlistsAssumption, CommandsAssumption DEF Base, UsesFlist

LEMMA HashFacts ==
  /\ \A f \in Flist : \A v \in {0} \cup Versions(f) : <<f, v>> \in Hash
  /\ \A h \in Hash : h[1] \in Flist
  /\ \A h \in Hash : \A v \in Versions(h[1]) :
       FilesOf(h, v) \subseteq File /\ IsFiniteSet(FilesOf(h, v)) /\ v # 0
<1> DEFINE Of(f) == {<<f, v>> : v \in {0} \cup Versions(f)}
<1>0. Hash = UNION {Of(f) : f \in Flist}
  BY DEF Hash
<1>1. ASSUME NEW f \in Flist, NEW v \in {0} \cup Versions(f) PROVE <<f, v>> \in Hash
  <2>1. <<f, v>> \in Of(f)
    OBVIOUS
  <2> HIDE DEF Of
  <2> QED BY <1>0, <2>1
<1>2. ASSUME NEW h \in Hash PROVE h[1] \in Flist
  <2>1. \A f : \A x \in Of(f) : x[1] = f
    OBVIOUS
  <2> HIDE DEF Of
  <2> QED BY <1>0, <2>1
<1>3. ASSUME NEW h \in Hash, NEW v \in Versions(h[1])
      PROVE  FilesOf(h, v) \subseteq File /\ IsFiniteSet(FilesOf(h, v)) /\ v # 0
  <2>1. FilesOf(h, v) \subseteq File /\ IsFiniteSet(File)
    BY <1>2, <1>3, FlistsAssumption DEF FilesOf
  <2>2. Versions(h[1]) = 1..Len(Contents[h[1]]) /\ Len(Contents[h[1]]) \in Nat
    BY <1>2, FlistsAssumption
  <2>3. v # 0
    BY <2>2
  <2> QED BY <2>1, <2>3, FS_Subset
<1> QED BY <1>1, <1>2, <1>3

\* A set gone through in some order is gone through whole.
LEMMA OrderOf ==
  ASSUME NEW S, IsFiniteSet(S)
  PROVE  /\ InSomeOrder(S) \in Seq(S)
         /\ \A x \in S : \E i \in 1..Len(InSomeOrder(S)) : InSomeOrder(S)[i] = x
<1> DEFINE n == Cardinality(S)
           s == InSomeOrder(S)
<1>1. n \in Nat /\ ExistsBijection(1..n, S)
  BY FS_CardinalityType
<1>2. PICK b \in Bijection(1..n, S) : TRUE
  BY <1>1 DEF ExistsBijection
<1>3. b \in [1..n -> S] /\ {b[i] : i \in DOMAIN b} = S
  BY <1>2 DEF Bijection, Injection, Surjection
<1>4. s \in [1..n -> S] /\ {s[i] : i \in DOMAIN s} = S
  BY <1>3 DEF InSomeOrder
<1> HIDE DEF n, s
<1>5. s \in Seq(S) /\ Len(s) = n
  BY <1>1, <1>4
<1>6. \A x \in S : \E i \in 1..Len(s) : s[i] = x
  BY <1>4, <1>5
<1> QED BY <1>5, <1>6 DEF s

\* Unless there are twins, every file at the top is listed with its size.
LEMMA ListedAll ==
  ASSUME NEW h \in Hash, NEW v \in Versions(h[1]), NEW s \in Listed(h, v), NEW x \in FilesOf(h, v)
  PROVE  s # {} /\ (x \in Top /\ ~Twins(h) => <<BaseName[x], Contents[h[1]][v][x]>> \in s)
<1>1. <<BaseName[x], Contents[h[1]][v][x]>> \in Sizes(v, h[1])
  BY DEF Sizes, FilesOf
<1>2. s \subseteq Sizes(v, h[1]) /\ {e[1] : e \in s} = {e[1] : e \in Sizes(v, h[1])}
  BY DEF Listed
<1>3. BaseName[x] \in {e[1] : e \in Sizes(v, h[1])}
  BY <1>1
<1>4. PICK e \in s : e[1] = BaseName[x]
  BY <1>2, <1>3
<1>5. PICK y \in FilesOf(h, v) : e = <<BaseName[y], Contents[h[1]][v][y]>>
  BY <1>2, <1>4 DEF Sizes, FilesOf
<1>6. x \in Top /\ ~Twins(h) => y = x
  <2>1. x \in File /\ y \in File /\ {x, y} \subseteq DOMAIN Contents[h[1]][v]
    BY HashFacts DEF FilesOf
  <2> QED BY <1>4, <1>5, <2>1 DEF Twins
<1> QED BY <1>4, <1>5, <1>6

\* Files that are the same are whole, listed and doomed alike.
LEMMA SameHash ==
  ASSUME NEW h \in Hash, extracted'[h] = extracted[h], valid'[h] = valid[h]
  PROVE  (Doomed(h)' <=> Doomed(h)) /\ (WholeIn(h)' <=> WholeIn(h)) /\ (Passes(h)' <=> Passes(h))
         /\ (ValidOK(h)' <=> ValidOK(h))
<1>1. (Leftover(h)' <=> Leftover(h)) /\ (WholeIn(h)' <=> WholeIn(h)) /\ (Passes(h)' <=> Passes(h))
  BY DEF Leftover, WholeIn, Passes
<1>2. Doomed(h)' <=> Doomed(h)
  BY <1>1 DEF Doomed
<1> QED BY <1>1, <1>2 DEF ValidOK

\* What a step without a command of the plugin may do to its state.
Otherwise ==
  /\ Coming' = Coming /\ UNCHANGED <<extracted, valid, flock>>
  /\ version' = [f \in Flist |-> version'[f]] /\ \A f \in Flist : version'[f] \in Versions(f)
  /\ \A d \in Coming : UsesFlist(d) =>
       got'[d] = got[d] /\ todo'[d] = todo[d] /\ (pc'[d] = pc[d] \/ pc'[d] \in {"ok", "hung"})
  /\ \A o \in Mounts : daemon'[o].state = "none" \/
       (daemon[o].state # "none" /\ daemon'[o].backend = daemon[o].backend)

LEMMA FlistSteps ==
  ASSUME Base, FlistsOK, [Next]_vars
  PROVE  (\E c \in Coming : OfFlists(c)) \/ Otherwise
<1>1. ASSUME UNCHANGED flists, Stay(FlistDo) PROVE Otherwise
  BY <1>1 DEF FlistsOK, Otherwise, Stay, FlistDo, UsesFlist, flists
<1>2. ASSUME NEW c \in Coming, OfFiles(c) \/ OfDisks(c) \/ OfBtrfs(c) PROVE Otherwise
  <2>1. Does[c].do \notin FlistDo
    BY <1>2 DEF OfFiles, OfDisks, OfBtrfs, DiskDo, BtrfsDo, FileCommands, FlistDo
  <2> QED BY <1>1, <1>2, <2>1, StaysBut DEF OfFiles, OfDisks, OfBtrfs
<1>3. ASSUME NEW c \in Coming, OfBackups(c) \/ OfGroups(c) PROVE Otherwise
  <2>1. Does[c].do \notin FlistDo
    BY <1>3 DEF OfGroups, OfBackups, BackupCommands, FlistDo, GroupDo, Gets
  <2> QED BY <1>1, <1>3, <2>1, StaysBut DEF OfGroups, OfBackups
<1>4. ASSUME NEW o \in Mounts, Ready(o) \/ Exits(o), Coming' = Coming, UNCHANGED <<got, todo>>,
             \A d \in Coming : pc'[d] = pc[d] \/ pc'[d] \in {"ok", "hung"}
      PROVE  Otherwise
  <2>1. UNCHANGED <<version, extracted, valid, flock>>
    BY <1>4 DEF Ready, Exits
  <2>2. daemon[o].state # "none" /\ daemon = [x \in Mounts |-> daemon[x]]
        /\ \A x \in Mounts : daemon[x] = [state |-> daemon[x].state, by |-> daemon[x].by,
                                          backend |-> daemon[x].backend]
    BY <1>4 DEF Ready, Exits, Base, DaemonInv, Starting
  <2>3. \/ daemon' = [daemon EXCEPT ![o].state = "serving"]
        \/ daemon' = [daemon EXCEPT ![o].state = "hung"]
        \/ daemon' = [daemon EXCEPT ![o] = NoDaemon]
    BY <1>4 DEF Ready, Exits
  <2>4. \A x \in Mounts : daemon'[x].state = "none" \/
          (daemon[x].state # "none" /\ daemon'[x].backend = daemon[x].backend)
        \/ (daemon[x].state = "none" /\ daemon'[x] = daemon[x])
    BY <2>2, <2>3 DEF NoDaemon
  <2> QED BY <1>4, <2>1, <2>4 DEF Otherwise, FlistsOK
<1>5. ASSUME NEW o \in Mounts, OfDaemon(o) PROVE Otherwise
  <2>1. MovesOnly(daemon[o].by) /\ daemon[o].by \in Coming /\ UNCHANGED <<got, todo>>
        /\ (Ready(o) \/ Exits(o)) /\ daemon[o].state = "starting"
    BY <1>5 DEF OfDaemon, Base, DaemonInv, Starting
  <2>2. pc' = [pc EXCEPT ![daemon[o].by] = "ok"] \/ pc' = [pc EXCEPT ![daemon[o].by] = "hung"]
    BY <2>1 DEF Ready, Exits, Step, Goto
  <2>3. \A d \in Coming : pc'[d] = pc[d] \/ pc'[d] \in {"ok", "hung"}
    BY <2>1, <2>2 DEF Base, CommandsOK
  <2> QED BY <1>4, <2>1, <2>3 DEF MovesOnly
<1>6. ASSUME Aside PROVE Otherwise
  <2>0. UNCHANGED <<pc, got, todo>> /\ Coming' = Coming
    BY <1>6 DEF Aside, Coming
  <2>1. CASE UNCHANGED flists
    BY <1>1, <2>0, <2>1, StaysSo DEF Base
  <2>2. ASSUME NEW o \in Mounts, Exits(o) PROVE Otherwise
    BY <1>4, <2>0, <2>2
  <2>3. ASSUME NEW f \in Flist, Publish(f) PROVE Otherwise
    <3>1. version[f] + 1 \in Versions(f) /\ version' = [version EXCEPT ![f] = version[f] + 1]
          /\ UNCHANGED <<extracted, valid, flock, daemon>>
      BY <2>3 DEF Publish
    <3>2. version' = [g \in Flist |-> version'[g]] /\ \A g \in Flist : version'[g] \in Versions(g)
      BY <3>1 DEF FlistsOK
    <3> QED BY <2>0, <3>1, <3>2 DEF Otherwise
  <2> QED BY <1>6, <2>1, <2>2, <2>3 DEF Aside, vars
<1> QED BY <1>2, <1>3, <1>5, <1>6, StorageSteps DEF Base

LEMMA OtherwiseKeeps ==
  ASSUME FlistsInv, Otherwise PROVE FlistsInv'
<1>1. FlistsOK' /\ \A h \in Hash : ValidOK(h)'
  BY SameHash DEF Otherwise, FlistsInv, FlistsOK
<1>2. ASSUME NEW c \in Coming, UsesFlist(c) PROVE MountOK(c)'
  <2>1. MountOK(c) /\ got'[c] = got[c] /\ todo'[c] = todo[c]
        /\ (pc'[c] = pc[c] \/ pc'[c] \in {"ok", "hung"}) /\ UNCHANGED <<extracted, valid, flock>>
    BY <1>2 DEF FlistsInv, Otherwise
  <2>2. CASE pc'[c] \in {"ok", "hung"}
    BY <2>2 DEF MountOK, HashedOK, ExtractsOK, CheckedOK
  <2>3. CASE pc'[c] = pc[c]
    <3>1. HashedOK(c)' /\ CheckedOK(c)'
      BY <1>2, <2>1, <2>3 DEF MountOK, HashedOK, CheckedOK
    <3>2. ExtractsOK(c)'
      BY <1>2, <2>1, <2>3, SameHash DEF MountOK, ExtractsOK, DoneIn
    <3> QED BY <3>1, <3>2 DEF MountOK
  <2> QED BY <2>1, <2>2, <2>3
<1>3. \A c \in Coming : MountOK(c)'
  BY <1>2 DEF MountOK, UsesFlist
<1>4. \A o \in Mounts : DaemonOK(o)'
  BY DEF Otherwise, FlistsInv, DaemonOK
<1> QED BY <1>1, <1>3, <1>4 DEF FlistsInv, Otherwise

\* A command of the plugin changes only what it has the lock of.
LEMMA LockedMove ==
  ASSUME Base, FlistsInv, NEW c \in Coming, MovesOnly(c), FlistsOK',
         \A h \in Hash : flock'[h] = flock[h] \/ flock[h] \in {c, "free"},
         \A h \in Hash : flock[h] # c => extracted'[h] = extracted[h] /\ valid'[h] = valid[h],
         \A h \in Hash : flock[h] = c =>
            ValidOK(h)' /\ (valid[h].is # "empty" => valid'[h].is # "empty"),
         MountOK(c)',
         \A o \in Mounts : \/ daemon'[o] = daemon[o]
                           \/ daemon'[o].backend[2] \in Hash /\ valid'[daemon'[o].backend[2]].is # "empty"
  PROVE  FlistsInv'
<1>1. \A h \in Hash : ValidOK(h)' /\ (valid[h].is # "empty" => valid'[h].is # "empty")
  BY SameHash DEF FlistsInv
<1>2. ASSUME NEW d \in Coming, d # c, UsesFlist(d) PROVE MountOK(d)'
  <2>1. pc'[d] = pc[d] /\ got'[d] = got[d] /\ todo'[d] = todo[d] /\ MountOK(d)
    BY <1>2 DEF MovesOnly, FlistsInv
  <2>2. HashedOK(d)' /\ CheckedOK(d)'
    BY <1>1, <1>2, <2>1 DEF MountOK, HashedOK, CheckedOK
  <2>3. ExtractsOK(d)'
    <3> SUFFICES ASSUME pc[d] \in {"extracting", "filling"} PROVE ExtractsOK(d)'
      BY <2>1 DEF ExtractsOK
    <3>0. ExtractsOK(d) /\ got[d][1] \in Hash /\ flock[got[d][1]] = d
      BY <1>2, <2>1 DEF MountOK, ExtractsOK
    <3>1. PICK h \in Hash : h = got[d][1]
      BY <3>0
    <3>2. d # "free"
      BY CommandsAssumption DEF Base
    <3>3. flock'[h] = d /\ extracted'[h] = extracted[h] /\ valid'[h] = valid[h]
      BY <1>2, <3>0, <3>1, <3>2
    <3>4. Doomed(h)' <=> Doomed(h)
      BY <3>3, SameHash
    <3> QED BY <2>1, <3>0, <3>1, <3>3, <3>4 DEF ExtractsOK, DoneIn
  <2> QED BY <2>2, <2>3 DEF MountOK
<1>3. \A d \in Coming : MountOK(d)'
  BY <1>2 DEF MountOK, UsesFlist
<1>4. \A o \in Mounts : DaemonOK(o)'
  BY <1>1 DEF FlistsInv, DaemonOK
<1> QED BY <1>1, <1>3, <1>4 DEF FlistsInv, MovesOnly

LEMMA AppendsThird ==
  ASSUME NEW a, NEW b, NEW d PROVE Append(<<a, b>>, d) = <<a, b, d>>
<1>1. <<a, b>> \in Seq({a, b, d}) /\ Len(<<a, b>>) = 2
  OBVIOUS
<1>2. /\ Append(<<a, b>>, d) \in Seq({a, b, d}) /\ Len(Append(<<a, b>>, d)) = 3
      /\ Append(<<a, b>>, d)[1] = a /\ Append(<<a, b>>, d)[2] = b /\ Append(<<a, b>>, d)[3] = d
  BY <1>1, AppendProperties
<1>3. <<a, b, d>> \in Seq({a, b, d}) /\ Len(<<a, b, d>>) = 3
  OBVIOUS
<1>4. \A i \in 1..3 : Append(<<a, b>>, d)[i] = <<a, b, d>>[i]
  <2>1. \A i \in 1..3 : i = 1 \/ i = 2 \/ i = 3
    OBVIOUS
  <2> QED BY <1>2, <2>1
<1> QED BY <1>2, <1>3, <1>4, SeqEqual

LEMMA QuietFlist ==
  ASSUME Base, FlistsInv, NEW c \in Coming, OfFlists(c),
         Hashed(c) \/ Validate(c) \/ Backend(c) \/ RunDaemon(c) \/ Layer(c) \/ Reload(c)
  PROVE  FlistsInv'
<1>0. UsesFlist(c) /\ MovesOnly(c) /\ MountOK(c) /\ CommandsOK /\ FlistsOK /\ UNCHANGED <<version, extracted, valid>>
  BY DEF OfFlists, FlistDo, UsesFlist, FlistsInv, Base, Hashed, Validate, Backend, RunDaemon, Layer, Reload,
         flists
<1>1. \A h \in Hash : ValidOK(h)'
  BY <1>0, SameHash DEF FlistsInv
<1>2. ASSUME FlistsOK', \A h \in Hash : flock'[h] = flock[h] \/ flock[h] = "free",
             MountOK(c)',
             \A o \in Mounts : \/ daemon'[o] = daemon[o]
                               \/ daemon'[o].backend[2] \in Hash /\ valid'[daemon'[o].backend[2]].is # "empty"
      PROVE  FlistsInv'
  BY <1>0, <1>1, <1>2, LockedMove
<1>3. ASSUME UNCHANGED <<flock, daemon>>, MountOK(c)' PROVE FlistsInv'
  BY <1>0, <1>2, <1>3 DEF FlistsOK
<1>4. CASE Hashed(c)
  <2>1. UNCHANGED <<flock, daemon>>
    BY <1>4 DEF Hashed, flists
  <2>2. pc'[c] = "error" \/ \E x : pc'[c] = "hashed" /\ got'[c] = <<HashOf(Does[c].flist), x>>
    BY <1>0, <1>4, StepMoves DEF Hashed
  <2>3. HashOf(Does[c].flist) \in Hash
    BY <1>0, FlistFacts, HashFacts DEF HashOf, FlistsOK
  <2>4. MountOK(c)'
    BY <2>2, <2>3 DEF MountOK, HashedOK, ExtractsOK, CheckedOK
  <2> QED BY <1>3, <2>1, <2>4
<1>5. CASE Validate(c)
  <2>1. pc[c] = "hashed" /\ got[c] = <<got[c][1], got[c][2]>> /\ got[c][1] \in Hash
    BY <1>0, <1>5 DEF Validate, MountOK, HashedOK
  <2>2. PICK h \in Hash : h = got[c][1]
    BY <2>1
  <2>3. ValidOK(h) /\ flock[h] = "free" /\ UNCHANGED daemon
    BY <1>5, <2>2 DEF Validate, FlistsInv
  <2>4. CASE Passes(h) /\ Step(c, "checked") /\ UNCHANGED flock
    <3>1. pc'[c] = "checked" /\ got'[c] = got[c]
      BY <1>0, <2>4, StepMoves
    <3>2. valid[h].is = "list"
      BY <2>4 DEF Passes
    <3>3. MountOK(c)'
      BY <1>0, <2>2, <3>1, <3>2 DEF MountOK, HashedOK, ExtractsOK, CheckedOK
    <3> QED BY <1>3, <2>3, <2>4, <3>3
  <2>5. CASE Step(c, "error") /\ UNCHANGED flock
    <3>1. pc'[c] = "error"
      BY <1>0, <2>5, StepMoves
    <3>2. MountOK(c)'
      BY <3>1 DEF MountOK, HashedOK, ExtractsOK, CheckedOK
    <3> QED BY <1>3, <2>3, <2>5, <3>2
  <2>6. CASE ~Passes(h) /\ Goto(c, "extracting") /\ flock' = [flock EXCEPT ![h] = c]
             /\ got' = [got EXCEPT ![c] = Append(got[c], version[h[1]])]
             /\ todo' = [todo EXCEPT ![c] = InSomeOrder(DOMAIN Contents[h[1]][version[h[1]]])]
    <3>1. PICK v \in Versions(h[1]) : v = version[h[1]]
      BY <1>0, HashFacts DEF FlistsOK
    <3>2. got'[c] = <<h, got[c][2], v>> /\ pc'[c] = "extracting"
          /\ todo'[c] = InSomeOrder(FilesOf(h, v))
      <4>1. got'[c] = Append(<<h, got[c][2]>>, v)
        BY <1>0, <2>1, <2>2, <2>6, <3>1 DEF CommandsOK
      <4>2. Append(<<h, got[c][2]>>, v) = <<h, got[c][2], v>>
        BY AppendsThird
      <4> QED BY <1>0, <2>6, <3>1, <4>1, <4>2 DEF CommandsOK, Goto, FilesOf
    <3>3. valid[h].is = "empty" \/ Doomed(h)
      BY <2>3, <2>6 DEF ValidOK, Doomed
    <3>4. valid'[h].is = "empty" \/ Doomed(h)'
      BY <1>0, <3>3, SameHash
    <3>5. /\ todo'[c] \in Seq(FilesOf(h, v))
          /\ \A x \in FilesOf(h, v) : \E i \in 1..Len(todo'[c]) : todo'[c][i] = x
      BY <3>2, HashFacts, OrderOf
    <3>6. flock' = [o \in Hash |-> flock'[o]] /\ flock'[h] = c /\ \A o \in Hash \ {h} : flock'[o] = flock[o]
      BY <1>0, <2>6 DEF FlistsOK
    <3>7. MountOK(c)'
      BY <3>2, <3>4, <3>5, <3>6 DEF MountOK, HashedOK, ExtractsOK, CheckedOK
    <3> QED BY <1>0, <1>2, <2>3, <3>6, <3>7 DEF FlistsOK
  <2> QED BY <1>5, <2>2, <2>4, <2>5, <2>6 DEF Validate
<1>6. CASE Backend(c) \/ RunDaemon(c) \/ Layer(c) \/ Reload(c)
  <2>1. /\ pc[c] \in {"checked", "running", "signal"}
        /\ pc'[c] \in {"running", "waiting", "signal", "ok", "error"} /\ got'[c] = got[c]
    BY <1>0, <1>6, StepMoves DEF Backend, RunDaemon, Layer, Reload
  <2>2. got[c][1] \in Hash /\ valid[got[c][1]].is # "empty"
    BY <1>0, <2>1 DEF MountOK, CheckedOK
  <2>3. MountOK(c)'
    BY <1>0, <2>1, <2>2 DEF MountOK, HashedOK, ExtractsOK, CheckedOK
  <2>4. UNCHANGED flock
    BY <1>6 DEF Backend, RunDaemon, Layer, Reload, flists
  <2>5. \A o \in Mounts : \/ daemon'[o] = daemon[o]
                          \/ daemon'[o].backend = <<Does[c].ns, got[c][1]>>
    <3>1. CASE UNCHANGED daemon
      BY <3>1
    <3>2. CASE daemon' = [daemon EXCEPT ![Key(c)] =
               [state |-> "starting", by |-> c, backend |-> <<Does[c].ns, got[c][1]>>]]
      BY <3>2 DEF Base, DaemonInv
    <3> QED BY <1>6, <3>1, <3>2 DEF Backend, RunDaemon, Layer, Reload, flists
  <2> QED BY <1>0, <1>2, <2>2, <2>3, <2>4, <2>5 DEF FlistsOK
<1> QED BY <1>4, <1>5, <1>6

\* One file is written in the directory of a hash.
LEMMA WritesOne ==
  ASSUME FlistsOK, NEW h \in Hash, NEW x \in File, NEW r,
         extracted' = [extracted EXCEPT ![h][x] = r]
  PROVE  /\ extracted' = [g \in Hash |-> [y \in File |-> extracted'[g][y]]]
         /\ extracted'[h][x] = r
         /\ \A y \in File \ {x} : extracted'[h][y] = extracted[h][y]
         /\ \A g \in Hash \ {h} : extracted'[g] = extracted[g]
BY DEF FlistsOK

\* What is served whatever is extracted stays so while files are written.
LEMMA DoomedStays ==
  ASSUME NEW h \in Hash, valid'[h] = valid[h], Doomed(h),
         \A x \in File : extracted'[h][x].version = 0 => extracted[h][x].version = 0
  PROVE  Doomed(h)'
<1>1. CASE Leftover(h)
  <2>1. Leftover(h)'
    BY <1>1, FlistsAssumption DEF Leftover
  <2> QED BY <2>1 DEF Doomed
<1> QED BY <1>1 DEF Doomed

\* The download goes on, or fails and gives the lock back.
LEMMA LockedFlist ==
  ASSUME Base, FlistsInv, NEW c \in Coming, OfFlists(c), Extract(c) \/ Fill(c) \/ WriteValid(c)
  PROVE  FlistsInv'
<1>h. PICK h : h = got[c][1]
  OBVIOUS
<1>v. PICK v : v = got[c][3]
  OBVIOUS
<1>x. PICK x : x = Head(todo[c])
  OBVIOUS
<1>0. /\ UsesFlist(c) /\ MovesOnly(c) /\ MountOK(c) /\ CommandsOK /\ FlistsOK
      /\ pc[c] \in {"extracting", "filling"} /\ UNCHANGED <<version, daemon>>
  BY DEF OfFlists, FlistDo, UsesFlist, FlistsInv, Base, Extract, Fill, WriteValid
<1>1. /\ h \in Hash /\ flock[h] = c /\ v \in Versions(h[1]) /\ (valid[h].is = "empty" \/ Doomed(h))
      /\ todo[c] \in Seq(FilesOf(h, v)) /\ (pc[c] = "filling" => todo[c] # <<>>)
      /\ \A y \in FilesOf(h, v) : DoneIn(h, v, y) \/ \E i \in 1..Len(todo[c]) : todo[c][i] = y
  BY <1>0, <1>h, <1>v DEF MountOK, ExtractsOK
<1>2. /\ FilesOf(h, v) \subseteq File /\ v # 0 /\ ValidOK(h)
      /\ (Extract(c) \/ Fill(c) => x \in FilesOf(h, v))
  <2>1. FilesOf(h, v) \subseteq File /\ v # 0 /\ ValidOK(h)
    BY <1>1, HashFacts DEF FlistsInv
  <2>2. Extract(c) \/ Fill(c) => todo[c] # <<>>
    BY <1>1 DEF Extract, Fill
  <2>3. todo[c] # <<>> => x \in FilesOf(h, v)
    BY <1>1, <1>x
  <2> QED BY <2>1, <2>2, <2>3
\* Whatever becomes of this directory, that of another hash stays.
<1>3. ASSUME \A g \in Hash \ {h} : extracted'[g] = extracted[g] /\ valid'[g] = valid[g],
             flock' = flock \/ flock' = [flock EXCEPT ![h] = "free"],
             extracted' = [g \in Hash |-> [y \in File |-> extracted'[g][y]]],
             valid' = [g \in Hash |-> valid'[g]],
             ValidOK(h)', valid[h].is # "empty" => valid'[h].is # "empty", MountOK(c)'
      PROVE  FlistsInv'
  <2>1. FlistsOK' /\ \A g \in Hash : flock'[g] = flock[g] \/ flock[g] \in {c, "free"}
    BY <1>0, <1>1, <1>3 DEF FlistsOK
  <2>2. \A g \in Hash : flock[g] # c => extracted'[g] = extracted[g] /\ valid'[g] = valid[g]
    BY <1>1, <1>3
  <2>3. \A g \in Hash : ValidOK(g)' /\ (valid[g].is # "empty" => valid'[g].is # "empty")
    BY <1>3, SameHash DEF FlistsInv
  <2>4. \A o \in Mounts : daemon'[o] = daemon[o]
    BY <1>0
  <2>5. MovesOnly(c) /\ MountOK(c)'
    BY <1>0, <1>3
  <2> QED BY <2>1, <2>2, <2>3, <2>4, <2>5, LockedMove
\* A failure leaves the files as they are.
<1>4. ASSUME Fault(c, "error"), Unflock(h), UNCHANGED <<extracted, valid>>
      PROVE  FlistsInv'
  <2>1. pc'[c] = "error"
    BY <1>0, <1>4, StepMoves
  <2>2. MountOK(c)' /\ ValidOK(h)'
    BY <1>1, <1>2, <1>4, <2>1, SameHash DEF MountOK, HashedOK, ExtractsOK, CheckedOK
  <2> QED BY <1>0, <1>3, <1>4, <2>2 DEF Unflock, FlistsOK
\* One file of the version is written, in part or whole.
<1>5. ASSUME Extract(c) \/ Fill(c), NEW n, extracted' = [extracted EXCEPT ![h][x] = [version |-> v, size |-> n]],
             UNCHANGED <<valid, flock>>, got'[c] = got[c],
             \/ pc'[c] = "filling" /\ todo'[c] = todo[c] /\ todo[c] # <<>>
             \/ /\ pc'[c] = "extracting" /\ todo'[c] = Tail(todo[c]) /\ n = Contents[h[1]][v][x]
      PROVE  FlistsInv'
  <2>1. /\ extracted' = [g \in Hash |-> [y \in File |-> extracted'[g][y]]]
        /\ extracted'[h][x] = [version |-> v, size |-> n]
        /\ \A y \in File \ {x} : extracted'[h][y] = extracted[h][y]
        /\ \A g \in Hash \ {h} : extracted'[g] = extracted[g]
    BY <1>0, <1>1, <1>2, <1>5, WritesOne
  <2>2. Doomed(h) => Doomed(h)'
    <3>1. \A y \in File : extracted'[h][y].version = 0 => extracted[h][y].version = 0
      BY <1>2, <2>1
    <3> QED BY <1>1, <1>5, <3>1, DoomedStays
  <2>3. ValidOK(h)'
    BY <1>1, <1>2, <1>5, <2>2 DEF ValidOK
  <2>4. \A y \in FilesOf(h, v) \ {x} : DoneIn(h, v, y)' <=> DoneIn(h, v, y)
    BY <1>2, <2>1, <1>5 DEF DoneIn
  <2>5. /\ todo'[c] \in Seq(FilesOf(h, v)) /\ (pc'[c] = "filling" => todo'[c] # <<>>)
        /\ \A y \in FilesOf(h, v) : DoneIn(h, v, y)' \/ \E i \in 1..Len(todo'[c]) : todo'[c][i] = y
    <3>1. CASE pc'[c] = "filling" /\ todo'[c] = todo[c] /\ todo[c] # <<>>
      <4>1. 1 \in 1..Len(todo[c]) /\ todo[c][1] = x
        BY <1>1, <1>x, <3>1
      <4> QED BY <1>1, <2>4, <3>1, <4>1
    <3>2. CASE pc'[c] = "extracting" /\ todo'[c] = Tail(todo[c]) /\ n = Contents[h[1]][v][x]
      <4>1. todo[c] # <<>>
        BY <1>1, <1>5 DEF Extract, Fill
      <4>2. /\ Tail(todo[c]) \in Seq(FilesOf(h, v))
            /\ \A i \in 1..Len(todo[c]) :
                 todo[c][i] = Head(todo[c]) \/ \E j \in 1..Len(Tail(todo[c])) : Tail(todo[c])[j] = todo[c][i]
        BY <1>1, <4>1, TailKeeps
      <4>3. /\ todo'[c] \in Seq(FilesOf(h, v))
            /\ \A i \in 1..Len(todo[c]) : todo[c][i] = x \/ \E j \in 1..Len(todo'[c]) : todo'[c][j] = todo[c][i]
        BY <1>x, <3>2, <4>2
      <4>4. DoneIn(h, v, x)'
        BY <1>5, <2>1, <3>2 DEF DoneIn
      <4> QED BY <1>1, <2>4, <3>2, <4>3, <4>4
    <3> QED BY <1>5, <3>1, <3>2
  <2>6. MountOK(c)'
    BY <1>h, <1>v, <1>1, <1>5, <2>2, <2>5 DEF MountOK, HashedOK, ExtractsOK, CheckedOK
  <2> QED BY <1>0, <1>3, <1>5, <2>1, <2>3, <2>6 DEF FlistsOK
<1>6. CASE Extract(c)
  <2>0. \/ Fault(c, "error") /\ Unflock(h) /\ UNCHANGED extracted
        \/ /\ extracted' = [extracted EXCEPT ![h][x] = [version |-> v, size |-> 0]]
           /\ Step(c, "filling") /\ UNCHANGED flock
    BY <1>6, <1>h, <1>v, <1>x DEF Extract
  <2>1. CASE Fault(c, "error") /\ Unflock(h) /\ UNCHANGED extracted
    BY <1>4, <1>6, <2>1 DEF Extract
  <2>2. CASE /\ extracted' = [extracted EXCEPT ![h][x] = [version |-> v, size |-> 0]]
             /\ Step(c, "filling") /\ UNCHANGED flock
    <3>1. pc'[c] = "filling" /\ got'[c] = got[c] /\ todo'[c] = todo[c]
      BY <1>0, <2>2, StepMoves
    <3> QED BY <1>5, <1>6, <2>2, <3>1 DEF Extract
  <2> QED BY <2>0, <2>1, <2>2
<1>7. CASE Fill(c)
  <2>0. \/ Fault(c, "error") /\ Unflock(h) /\ UNCHANGED extracted
        \/ /\ extracted' = [extracted EXCEPT ![h][x] = [version |-> v, size |-> Contents[h[1]][v][x]]]
           /\ Goto(c, "extracting") /\ todo' = [todo EXCEPT ![c] = Tail(todo[c])]
           /\ UNCHANGED <<got, faults, flock>>
    BY <1>7, <1>h, <1>v, <1>x DEF Fill
  <2>1. CASE Fault(c, "error") /\ Unflock(h) /\ UNCHANGED extracted
    BY <1>4, <1>7, <2>1 DEF Fill
  <2>2. CASE /\ extracted' = [extracted EXCEPT ![h][x] = [version |-> v, size |-> Contents[h[1]][v][x]]]
             /\ Goto(c, "extracting") /\ todo' = [todo EXCEPT ![c] = Tail(todo[c])]
             /\ UNCHANGED <<got, faults, flock>>
    <3>1. pc'[c] = "extracting" /\ got'[c] = got[c] /\ todo'[c] = Tail(todo[c])
      BY <1>0, <2>2 DEF Goto, CommandsOK
    <3> QED BY <1>5, <1>7, <2>2, <3>1 DEF Fill
  <2> QED BY <2>0, <2>1, <2>2
<1>8. CASE WriteValid(c)
  <2>0. todo[c] = <<>> /\ Unflock(h) /\ UNCHANGED extracted
    BY <1>8, <1>h, <1>v, <1>x DEF WriteValid
  <2>1. \/ Fault(c, "error") /\ valid' = [valid EXCEPT ![h] = [is |-> "garbled", sizes |-> {}]]
        \/ Step(c, "checked") /\ valid[h].is # "empty" /\
             valid' = [valid EXCEPT ![h] = [is |-> "garbled", sizes |-> {}]]
        \/ Step(c, "checked") /\ valid[h].is = "empty" /\
             \E s \in Listed(h, v) : valid' = [valid EXCEPT ![h] = [is |-> "list", sizes |-> s]]
    BY <1>8, <1>h, <1>v, <1>x DEF WriteValid
  <2>2. /\ (pc'[c] = "error" \/ pc'[c] = "checked") /\ got'[c] = got[c]
        /\ valid' = [g \in Hash |-> valid'[g]] /\ \A g \in Hash \ {h} : valid'[g] = valid[g]
    <3>1. (pc'[c] = "error" \/ pc'[c] = "checked") /\ got'[c] = got[c]
      BY <1>0, <2>1, StepMoves
    <3>2. valid' = [g \in Hash |-> valid'[g]] /\ \A g \in Hash \ {h} : valid'[g] = valid[g]
      BY <1>0, <1>1, <2>1 DEF FlistsOK
    <3> QED BY <3>1, <3>2
  <2>3. valid'[h].is # "empty" /\ ValidOK(h)'
    <3>1. CASE valid' = [valid EXCEPT ![h] = [is |-> "garbled", sizes |-> {}]]
      BY <1>0, <1>1, <3>1 DEF FlistsOK, ValidOK
    <3>2. CASE \E s \in Listed(h, v) : valid' = [valid EXCEPT ![h] = [is |-> "list", sizes |-> s]]
      <4>1. PICK s \in Listed(h, v) : valid' = [valid EXCEPT ![h] = [is |-> "list", sizes |-> s]]
        BY <3>2
      <4>2. valid'[h] = [is |-> "list", sizes |-> s]
        BY <1>0, <1>1, <4>1 DEF FlistsOK
      <4>3. SUFFICES ASSUME ~Doomed(h)' PROVE WholeIn(h)' /\ Passes(h)'
        BY <4>2 DEF ValidOK
      <4>4. \A y \in FilesOf(h, v) : DoneIn(h, v, y)
        BY <1>1, <2>0
      <4>5. WholeIn(h)'
        BY <1>1, <2>0, <4>4 DEF WholeIn, DoneIn, FilesOf
      <4>6. ~Twins(h) /\ FilesOf(h, v) # {} /\ ~Leftover(h)'
        BY <1>1, <4>3 DEF Doomed
      <4>7. s # {} /\ \A y \in FilesOf(h, v) : y \in Top => <<BaseName[y], Contents[h[1]][v][y]>> \in s
        BY <1>1, <4>6, ListedAll
      <4>8. ASSUME NEW y \in Top, extracted'[h][y].version # 0
            PROVE  <<BaseName[y], extracted'[h][y].size>> \in valid'[h].sizes
        <5>1. y \in FilesOf(h, v)
          BY <1>1, <4>2, <4>6, <4>8 DEF Leftover, FilesOf
        <5>2. extracted'[h][y] = [version |-> v, size |-> Contents[h[1]][v][y]]
          BY <2>0, <4>4, <5>1 DEF DoneIn
        <5> QED BY <4>2, <4>7, <4>8, <5>1, <5>2
      <4>9. Passes(h)'
        BY <4>2, <4>7, <4>8 DEF Passes
      <4> QED BY <4>5, <4>9
    <3> QED BY <2>1, <3>1, <3>2
  <2>4. MountOK(c)'
    BY <1>h, <1>1, <2>2, <2>3 DEF MountOK, HashedOK, ExtractsOK, CheckedOK
  <2> QED BY <1>0, <1>3, <2>0, <2>2, <2>3, <2>4 DEF Unflock, FlistsOK
<1> QED BY <1>6, <1>7, <1>8

LEMMA FlistsInit == Init => FlistsInv
<1> SUFFICES ASSUME Init PROVE FlistsInv
  OBVIOUS
<1>1. /\ version = [f \in Flist |-> 1] /\ extracted = [g \in Hash |-> [x \in File |-> NoFile]]
      /\ valid = [g \in Hash |-> EmptyList] /\ flock = [g \in Hash |-> "free"]
      /\ daemon = [o \in Mounts |-> NoDaemon]
  BY DEF Init, InitFlists
<1>2. FlistsOK
  <2>1. \A f \in Flist : 1 \in Versions(f)
    <3>1. \A f \in Flist : Versions(f) = 1..Len(Contents[f]) /\ Len(Contents[f]) \in Nat \ {0}
      BY FlistsAssumption
    <3> QED BY <3>1
  <2> QED BY <1>1, <2>1 DEF FlistsOK
<1>3. \A g \in Hash : ValidOK(g)
  BY <1>1 DEF ValidOK, EmptyList
<1>4. \A c \in Coming : MountOK(c)
  BY BaseInit DEF MountOK, HashedOK, ExtractsOK, CheckedOK
<1>5. \A o \in Mounts : DaemonOK(o)
  BY <1>1 DEF DaemonOK, NoDaemon
<1> QED BY <1>2, <1>3, <1>4, <1>5 DEF FlistsInv

LEMMA FlistsStep ==
  ASSUME Base, FlistsInv, [Next]_vars PROVE FlistsInv'
<1>1. FlistsOK
  BY DEF FlistsInv
<1>2. CASE Otherwise
  BY <1>2, OtherwiseKeeps
<1>3. ASSUME NEW c \in Coming, OfFlists(c) PROVE FlistsInv'
  BY <1>3, QuietFlist, LockedFlist DEF OfFlists, FlistStep
<1> QED BY <1>1, <1>2, <1>3, FlistSteps

\* An flist that is told to be there has all the files of one version of it, and
\* they stay whole while a daemon serves them, unless its .valid can never pass
\* (flist.go:112-265: getMeta, metaValidate, extract and MountFList).
THEOREM MountsWholeHolds == Spec => []MountsWhole
<1>1. Init => Base /\ FlistsInv
  BY BaseInit, FlistsInit
<1>2. Base /\ FlistsInv /\ [Next]_vars => (Base /\ FlistsInv)'
  BY BaseStep, FlistsStep
<1>3. Base /\ FlistsInv => MountsWhole
  <2> SUFFICES ASSUME FlistsInv PROVE MountsWhole
    OBVIOUS
  <2>1. ASSUME NEW h \in Hash, valid[h].is # "empty" PROVE Served(h)
    <3>1. Doomed(h) \/ (WholeIn(h) /\ Passes(h))
      BY <2>1 DEF FlistsInv, ValidOK, Doomed
    <3>2. (\E v \in Versions(h[1]) : FilesOf(h, v) = {}) => WholeIn(h)
      BY DEF FilesOf, WholeIn
    <3> QED BY <3>1, <3>2 DEF Doomed, Served
  <2> QED BY <2>1 DEF FlistsInv, MountsWhole, MountOK, CheckedOK, DaemonOK
<1> QED BY <1>1, <1>2, <1>3, PTL DEF Spec
=============================================================================
