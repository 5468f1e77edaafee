--------------------------- MODULE MCHostStorage ---------------------------
(***************************************************************************)
(* Descriptors that are closed and expire while they are used; a disk with *)
(* two partitions that is pulled out; file systems and subvolumes that     *)
(* come and go; one flist published twice, one with two files of one name; *)
(* a container backed up twice at a time.  One thing may fail.             *)
(***************************************************************************)
EXTENDS HostStorage

A == <<"a">>
B == <<"b">>
AB == <<"a", "b">>
BB == <<"b", "b">>
Paths == {A, B, AB, BB}

Arguments ==
  [open   |-> [do |-> "open", path |-> A, mode |-> <<"w">>, perm |-> 420],
   append |-> [do |-> "open", path |-> A, mode |-> <<"a", "+">>, perm |-> 420],
   excl   |-> [do |-> "open", path |-> A, mode |-> <<"x">>, perm |-> 420],
   look   |-> [do |-> "open", path |-> AB, mode |-> <<"r">>, perm |-> 0],
   bad    |-> [do |-> "open", path |-> A, mode |-> <<"r", "w">>, perm |-> 420],
   read   |-> [do |-> "read", fd |-> "append"],
   write  |-> [do |-> "write", fd |-> "append"],
   write2 |-> [do |-> "write", fd |-> "append"],
   close  |-> [do |-> "close", fd |-> "append"],
   mkdir  |-> [do |-> "mkdir", path |-> AB],
   mkdir2 |-> [do |-> "mkdir", path |-> A],
   remove |-> [do |-> "remove", path |-> A],
   exists |-> [do |-> "exists", path |-> AB],
   ls     |-> [do |-> "list", path |-> A],
   move   |-> [do |-> "move", path |-> A, destination |-> B],
   chmod  |-> [do |-> "chmod", path |-> A, perm |-> 448, recursive |-> TRUE],
   chown  |-> [do |-> "chown", path |-> AB, owner |-> "user", recursive |-> FALSE],
   chown2 |-> [do |-> "chown", path |-> A, owner |-> "unknown", recursive |-> TRUE],
   info   |-> [do |-> "disk.getinfo", disk |-> "sda", part |-> ""],
   part   |-> [do |-> "disk.getinfo", disk |-> "sda", part |-> "sda1"],
   notpart |-> [do |-> "disk.getinfo", disk |-> "sda1", part |-> ""],
   lsblk  |-> [do |-> "disk.list"],
   protect |-> [do |-> "disk.protect"],
   mounts |-> [do |-> "disk.mounts"],
   spin   |-> [do |-> "disk.spindown", disk |-> "sda", time |-> 240],
   spin2  |-> [do |-> "disk.spindown", disk |-> "sda", time |-> 241],
   asleep |-> [do |-> "disk.isstandby", disk |-> "sda"],
   mkfs   |-> [do |-> "btrfs.create", devs |-> <<"sda1">>, label |-> "", data |-> "single",
               metadata |-> "", overwrite |-> FALSE],
   mkfs2  |-> [do |-> "btrfs.create", devs |-> <<"sda1", "sdb">>, label |-> "my disk", data |-> "raid1",
               metadata |-> "raid1", overwrite |-> TRUE],
   mkfs3  |-> [do |-> "btrfs.create", devs |-> <<"sda1">>, label |-> "", data |-> "raid7",
               metadata |-> "", overwrite |-> FALSE],
   mount  |-> [do |-> "disk.mount", dev |-> "sda1", place |-> "mnt"],
   elsewhere |-> [do |-> "disk.mount", dev |-> "sda1", place |-> "other"],
   remount |-> [do |-> "disk.mount", dev |-> "sda2", place |-> "mnt"],
   umount |-> [do |-> "disk.umount", place |-> "mnt"],
   add    |-> [do |-> "btrfs.device_add", place |-> "mnt", devs |-> <<"sdb", "sda1">>],
   take   |-> [do |-> "btrfs.device_remove", place |-> "mnt", devs |-> <<"sda1">>],
   show   |-> [do |-> "btrfs.list"],
   df     |-> [do |-> "btrfs.info", place |-> "mnt"],
   nosub  |-> [do |-> "btrfs.subvol_delete", place |-> "mnt", path |-> "s"],
   again  |-> [do |-> "btrfs.subvol_create", place |-> "mnt", path |-> "s"],
   snap   |-> [do |-> "btrfs.subvol_snapshot", place |-> "mnt", path |-> "s", to |-> "t"],
   quota  |-> [do |-> "btrfs.subvol_quota", place |-> "mnt", path |-> "s", limit |-> 1],
   subs   |-> [do |-> "btrfs.subvol_list", place |-> "mnt"],
   fl1    |-> [do |-> "mount", ns |-> "n", flist |-> "hub", target |-> "t"],
   fl2    |-> [do |-> "mount", ns |-> "n", flist |-> "hub", target |-> "u"],
   fl3    |-> [do |-> "mount", ns |-> "n", flist |-> "local", target |-> "u"],
   twin   |-> [do |-> "mount", ns |-> "n", flist |-> "twins", target |-> "t"],
   twin2  |-> [do |-> "mount", ns |-> "n", flist |-> "twins", target |-> "t"],
   less1  |-> [do |-> "mount", ns |-> "n", flist |-> "less", target |-> "t"],
   less2  |-> [do |-> "mount", ns |-> "n", flist |-> "less", target |-> "u"],
   less3  |-> [do |-> "mount", ns |-> "n", flist |-> "less", target |-> "u"],
   tar    |-> [do |-> "mount", ns |-> "n", flist |-> "tar", target |-> "u"],
   merge  |-> [do |-> "merge", ns |-> "n", target |-> "t", base |-> "hub", flist |-> "local"],
   save   |-> [do |-> "backup", con |-> "one", valid |-> TRUE],
   save2  |-> [do |-> "backup", con |-> "one", valid |-> TRUE],
   load   |-> [do |-> "restore", from |-> "save"],
   load2  |-> [do |-> "restore", from |-> "save"],
   pack   |-> [do |-> "flist.create", con |-> "one", to |-> "f", valid |-> TRUE],
   pack2  |-> [do |-> "flist.create", con |-> "one", to |-> "f", valid |-> TRUE],
   memory |-> [do |-> "cgroup.ensure", subsystem |-> "memory", name |-> "g"],
   low    |-> [do |-> "cgroup.memory.spec", subsystem |-> "memory", name |-> "g", mem |-> 2, swap |-> 1],
   high   |-> [do |-> "cgroup.memory.spec", subsystem |-> "memory", name |-> "g", mem |-> 4, swap |-> 0],
   limits |-> [do |-> "cgroup.memory.spec", subsystem |-> "memory", name |-> "g", mem |-> 0, swap |-> 0],
   relax  |-> [do |-> "cgroup.reset", subsystem |-> "memory", name |-> "g"],
   leave  |-> [do |-> "cgroup.remove", subsystem |-> "memory", name |-> "g"],
   cpus   |-> [do |-> "cgroup.ensure", subsystem |-> "cpuset", name |-> "g"],
   cpus2  |-> [do |-> "cgroup.ensure", subsystem |-> "cpuset", name |-> "g"],
   pin    |-> [do |-> "cgroup.cpuset.spec", subsystem |-> "cpuset", name |-> "g", cpus |-> {1}, mems |-> {}],
   pin2   |-> [do |-> "cgroup.cpuset.spec", subsystem |-> "cpuset", name |-> "g", cpus |-> {}, mems |-> {7}],
   enter  |-> [do |-> "cgroup.task-add", subsystem |-> "cpuset", name |-> "g", pid |-> 1],
   exit   |-> [do |-> "cgroup.task-remove", subsystem |-> "cpuset", name |-> "g", pid |-> 1],
   whoin  |-> [do |-> "cgroup.tasks", subsystem |-> "cpuset", name |-> "g"],
   unpin  |-> [do |-> "cgroup.reset", subsystem |-> "cpuset", name |-> "g"],
   drop   |-> [do |-> "cgroup.remove", subsystem |-> "cpuset", name |-> "g"],
   device |-> [do |-> "cgroup.ensure", subsystem |-> "devices", name |-> "g"],
   nosuch |-> [do |-> "cgroup.ensure", subsystem |-> "blkio", name |-> "g"]]
Commands == DOMAIN Arguments
Together ==
  {{"append", "read", "write", "close"}, {"append", "write", "write2"},
   {"open", "excl", "bad", "look"}, {"mkdir", "ls", "chmod", "remove"},
   {"mkdir", "move", "exists", "chown"}, {"mkdir2", "open", "chown2", "exists"},
   {"info", "part", "spin", "notpart"}, {"lsblk", "protect", "spin2"}, {"mounts", "asleep", "umount"},
   {"mkfs", "mount", "show", "mkfs3"}, {"mkfs2", "show", "umount"}, {"mkfs", "elsewhere", "add"},
   {"add", "take", "show", "umount"}, {"umount", "df", "mkfs2", "mount"},
   {"nosub", "again", "quota", "subs"}, {"snap", "nosub", "quota", "subs"},
   {"umount", "remount", "quota", "subs"},
   {"fl1", "fl2"}, {"fl1", "fl3", "merge"}, {"twin", "twin2", "tar"}, {"less1", "less2", "less3"},
   {"save", "save2", "load"}, {"save", "load", "load2"}, {"save", "pack"}, {"pack", "pack2"},
   {"memory", "low", "high"}, {"memory", "low", "relax", "limits"}, {"memory", "high", "leave"},
   {"cpus", "cpus2", "enter"}, {"cpus", "enter", "drop", "whoin"}, {"cpus", "unpin", "drop"},
   {"cpus", "pin", "enter", "exit"}, {"cpus", "pin2", "device", "nosuch"}}
Devices == {"sda", "sda1", "sda2", "sdb", "sr0"}
Sectors ==
  [sda  |-> [type |-> "disk", parent |-> "", start |-> 0, sectors |-> 6, block |-> 1],
   sda1 |-> [type |-> "part", parent |-> "sda", start |-> 1, sectors |-> 2, block |-> 1],
   sda2 |-> [type |-> "part", parent |-> "sda", start |-> 3, sectors |-> 2, block |-> 1],
   sdb  |-> [type |-> "disk", parent |-> "", start |-> 0, sectors |-> 4, block |-> 8],
   sr0  |-> [type |-> "rom", parent |-> "", start |-> 0, sectors |-> 0, block |-> 4]]
Places == {"mnt", "other"}
Profiles == {"single", "raid1", ""}
Words == {"my disk"}
Found == [volumes |-> {[id |-> 1, label |-> "data", total |-> 1, devs |-> {"sdb"}],
                       [id |-> 2, label |-> "", total |-> 1, devs |-> {"sda2"}]},
          subs |-> {[id |-> 1, volume |-> v, path |-> "s", quota |-> 0] : v \in {1, 2}},
          number |-> <<2, 2>>,
          at |-> [p \in Places |-> IF p = "mnt" THEN 1 ELSE 0]]
Flists == {"hub", "local", "twins", "less", "tar"}
Published ==
  [hub   |-> <<[x |-> 1, y |-> 1], [x |-> 2, y |-> 1]>>,
   local |-> <<[x |-> 1], [x |-> 2, y |-> 1]>>,
   twins |-> <<[x |-> 1, d |-> 2]>>,
   less  |-> <<[x |-> 1, y |-> 1], [x |-> 1]>>,
   tar   |-> <<[x |-> 1]>>]
FromHub == {"hub", "twins"}
Archives == {"hub", "local", "twins", "less"}
Names == [x |-> "x", y |-> "y", d |-> "x"]
Uppermost == {"x", "y"}
One == {"n"}
Two == {"t", "u"}
Containers == {"one", "two"}
First == {"one"}
Made1 == {"f"}
Running == {1}
Root == [cpus |-> {1, 2}, mems |-> {1}]
=============================================================================
