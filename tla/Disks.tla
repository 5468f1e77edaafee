------------------------------- MODULE Disks -------------------------------
(***************************************************************************)
(* The disk plugin.  It changes little and reads much, one program or one  *)
(* file of /sys after the other, while devices come and go.  The kernel    *)
(* counts in sectors of 512 bytes; the plugin multiplies these counts by   *)
(* the logical block size of the disk, in words that wrap round.           *)
(***************************************************************************)
EXTENDS HostCommands

CONSTANTS
  Dev,       \* block devices
  Geometry,  \* of each: type, parent, start, sectors, and sectors in a logical block
  Word,      \* numbers wrap round at this one: 2^64
  Place      \* where a file system may be mounted

VARIABLES
  present,   \* devices that are plugged in
  spindown,  \* the time after which each spins down, 0: not set
  at         \* the file system that is mounted at each place, 0: none

disks == <<present, spindown, at>>

InitDisks ==
  /\ present = Dev
  /\ spindown = [d \in Dev |-> 0]

Whole(d) == Geometry[d].type # "part"

-----------------------------------------------------------------------------
(* What /sys says.  Only whole devices have a directory of their own in      *)
(* /sys/block, a partition has one in that of its disk.                      *)

IsBlockDevice(d) == d \in present
HasBlockSize(d) == d \in present /\ Whole(d)
HasPart(d, p) == {d, p} \subseteq present /\ Geometry[p].parent = d /\ ~Whole(p)

Times(n, d) == (n * Geometry[d].block) % Word
Less1(n) == (n + Word - 1) % Word

OfDisk(d) ==
  [start |-> 0, size |-> Times(Geometry[d].sectors, d),
   end |-> Less1(Times(Geometry[d].sectors, d))]
OfPart(d, p) ==
  LET start == Times(Geometry[p].start, d)
      size == Times(Geometry[p].sectors, d) IN
  [start |-> start, size |-> size, end |-> Less1((start + size) % Word)]

\* parted's free blocks, in bytes as they are; none where it finds no table.
FreeBlocks(d) ==
  LET taken == UNION {Geometry[p].start..(Geometry[p].start + Geometry[p].sectors - 1) :
                        p \in {q \in present : HasPart(d, q)}} IN
  (0..(Geometry[d].sectors - 1)) \ taken

-----------------------------------------------------------------------------
(* getinfo: lsblk, then the files of /sys, then parted.                      *)

GetInfo(c) ==
  LET a == Does[c] IN
  /\ Is(c, "disk.getinfo") /\ pc[c] = "new"
  /\ \/ {a.disk, a.part} \ {""} \subseteq present /\ Step(c, "lsblk")
     \/ ~({a.disk, a.part} \ {""} \subseteq present) /\ Step(c, "error")
     \/ Fault(c, "error")
  /\ UNCHANGED disks

GetInfoRead(c) ==
  LET d == Does[c].disk
      p == Does[c].part IN
  /\ Is(c, "disk.getinfo") /\ pc[c] = "lsblk"
  /\ \/ p = "" /\ HasBlockSize(d) /\ Reads(c, "parted", <<OfDisk(d)>>)
     \/ p # "" /\ HasBlockSize(d) /\ HasPart(d, p) /\ Reads(c, "ok", <<OfPart(d, p)>>)
     \/ ~(HasBlockSize(d) /\ (p = "" \/ HasPart(d, p))) /\ Step(c, "error")
  /\ UNCHANGED disks

GetInfoFree(c) ==
  /\ Is(c, "disk.getinfo") /\ pc[c] = "parted"
  /\ \/ Does[c].disk \in present /\ Reads(c, "ok", Append(got[c], FreeBlocks(Does[c].disk)))
     \/ Does[c].disk \notin present /\ Step(c, "error")
     \/ Fault(c, "error")
  /\ UNCHANGED disks

\* list: lsblk prints the whole devices, its partitions within them; each is looked up
\* then, and one that cannot be ends the command.  protect lists first: it expects
\* another type than list returns and ends there, whatever the partition.
List(c) ==
  /\ Does[c].do \in {"disk.list", "disk.protect"} /\ pc[c] = "new"
  /\ \/ /\ Goto(c, "listing") /\ UNCHANGED <<got, faults>>
        /\ todo' = [todo EXCEPT ![c] = InSomeOrder({d \in present : Whole(d)})]
     \/ Fault(c, "error")
  /\ UNCHANGED disks

ListOne(c) ==
  LET d == Head(todo[c]) IN
  /\ Does[c].do \in {"disk.list", "disk.protect"} /\ pc[c] = "listing"
  /\ \/ /\ todo[c] # <<>> /\ HasBlockSize(d)
        /\ got' = [got EXCEPT ![c] = Append(@,
                     IF Geometry[d].type = "disk" THEN <<d, OfDisk(d), FreeBlocks(d)>> ELSE <<d>>)]
        /\ todo' = [todo EXCEPT ![c] = Tail(@)] /\ UNCHANGED <<pc, faults>>
     \/ todo[c] # <<>> /\ ~HasBlockSize(d) /\ Step(c, "error")
     \/ todo[c] = <<>> /\ Step(c, IF Is(c, "disk.protect") THEN "error" ELSE "ok")
  /\ UNCHANGED disks

\* mounts: /proc/mounts at once, by device.
ListMounts(c) ==
  /\ Is(c, "disk.mounts") /\ pc[c] = "new"
  /\ Reads(c, "ok", <<{<<p, at[p]>> : p \in {q \in Place : at[q] # 0}}>>)
  /\ UNCHANGED disks

\* hdparm -S; 0 passes the test that says 1 - 240.
Spindown(c) ==
  LET a == Does[c] IN
  /\ Is(c, "disk.spindown") /\ pc[c] = "new"
  /\ \/ /\ a.disk \in present /\ a.time < 241 /\ Step(c, "ok")
        /\ spindown' = [spindown EXCEPT ![a.disk] = a.time]
     \/ (a.disk \notin present \/ a.time >= 241) /\ Step(c, "error") /\ UNCHANGED spindown
     \/ Fault(c, "error") /\ UNCHANGED spindown
  /\ UNCHANGED <<present, at>>

\* isstandby, smartctl-info, smartctl-health and seektime: one program, whose text may
\* not be what it should.
Ask(c) ==
  /\ Does[c].do \in {"disk.isstandby", "disk.smart", "disk.seektime"} /\ pc[c] = "new"
  /\ \/ Does[c].disk \in present /\ Step(c, "ok")
     \/ Does[c].disk \notin present /\ Step(c, "error")
     \/ Fault(c, "error")
  /\ UNCHANGED disks

\* Devices are pulled out and put in; that counts as a fault.
Unplug(d) ==
  /\ d \in present /\ Faulty
  /\ present' = present \ {e \in Dev : e = d \/ Geometry[e].parent = d}
  /\ UNCHANGED <<pc, got, todo, spindown, at>>

DiskStep(c) ==
  \/ GetInfo(c) \/ GetInfoRead(c) \/ GetInfoFree(c) \/ List(c) \/ ListOne(c)
  \/ ListMounts(c) \/ Spindown(c) \/ Ask(c)
=============================================================================
