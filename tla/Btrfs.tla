------------------------------- MODULE Btrfs -------------------------------
(***************************************************************************)
(* The btrfs plugin: file systems on the devices of Disks, mounted at its  *)
(* places, and their subvolumes.  What each program does to them is        *)
(* external; the plugin runs one after the other and keeps nothing.        *)
(***************************************************************************)
EXTENDS Disks

CONSTANTS
  Profile,  \* the profiles Validate knows
  Spaced,   \* labels that Sscanf does not read as one word
  Before    \* what is there at first: volumes, subvolumes and what is mounted

VARIABLES
  volumes,  \* file systems: id, label, how many devices, and which
  subs,     \* subvolumes: id, volume, path, quota, 0: none
  quotas,   \* file systems with quotas enabled
  number    \* of each file system: the next id of a subvolume of it

btrfs == <<volumes, subs, quotas, number>>

\* File systems are called 1, 2, ... by their age, and each numbers its own subvolumes.
ASSUME BtrfsAssumption ==
  /\ Before.number \in Seq(Nat)
  /\ \A v \in Before.volumes :
       /\ v = [id |-> v.id, label |-> v.label, total |-> v.total, devs |-> v.devs]
       /\ v.id \in DOMAIN Before.number
  /\ \A s \in Before.subs :
       /\ s = [id |-> s.id, volume |-> s.volume, path |-> s.path, quota |-> s.quota]
       /\ s.volume \in DOMAIN Before.number /\ s.id \in 0..(Before.number[s.volume] - 1)
       /\ \A t \in Before.subs : s.volume = t.volume /\ s.id = t.id => s = t
  /\ Before.at \in [Place -> {0} \cup DOMAIN Before.number]
  /\ \A c \in Cmd :
       Does[c].do \in {"btrfs.subvol_create", "btrfs.subvol_snapshot"} => Does[c].place \in Place

InitBtrfs ==
  /\ volumes = Before.volumes /\ subs = Before.subs /\ quotas = {}
  /\ at = Before.at /\ number = Before.number

Mounted(v) == \E p \in Place : at[p] = v
InUse == UNION {v.devs : v \in {w \in volumes : Mounted(w.id)}}
Formatted == UNION {v.devs : v \in volumes}
MountedAt(p) == {v \in volumes : v.id = at[p]}
Losing(devs) == {[v EXCEPT !.devs = @ \ devs] : v \in volumes}
SetOf(s) == {s[i] : i \in DOMAIN s}

-----------------------------------------------------------------------------
(* create and the devices *)

Valid(a) == a.devs # <<>> /\ {a.data, a.metadata} \subseteq Profile
Makes(a) ==  \* what mkfs.btrfs asks for
  /\ SetOf(a.devs) \subseteq present \ InUse
  /\ a.overwrite \/ SetOf(a.devs) \cap Formatted = {}
CreateFs(c) ==
  LET a == Does[c] IN
  /\ Is(c, "btrfs.create") /\ pc[c] = "new"
  /\ \/ /\ Valid(a) /\ Makes(a) /\ Step(c, "ok") /\ number' = Append(number, 1)
        /\ volumes' = Losing(SetOf(a.devs)) \cup
             {[id |-> Len(number) + 1, label |-> a.label, total |-> Len(a.devs), devs |-> SetOf(a.devs)]}
     \/ ~(Valid(a) /\ Makes(a)) /\ Step(c, "error") /\ UNCHANGED <<volumes, number>>
     \/ Valid(a) /\ Fault(c, "error") /\ UNCHANGED <<volumes, number>>
  /\ UNCHANGED <<disks, subs, quotas>>

\* The program takes its devices one by one: those before the first that it cannot add
\* or remove are added or removed.
CanAdd(v, devs, n) == SetOf(SubSeq(devs, 1, n)) \subseteq present \ InUse
CanRemove(v, devs, n) == LET S == SetOf(SubSeq(devs, 1, n)) IN S \subseteq v.devs /\ S # v.devs
DeviceChange(c) ==
  LET a == Does[c] IN
  /\ Does[c].do \in {"btrfs.device_add", "btrfs.device_remove"} /\ pc[c] = "new"
  /\ \/ MountedAt(a.place) = {} /\ Step(c, "error") /\ UNCHANGED volumes
     \/ \E v \in MountedAt(a.place), n \in 0..Len(a.devs) :
          LET S == SetOf(SubSeq(a.devs, 1, n))
              can(k) == IF Is(c, "btrfs.device_add") THEN CanAdd(v, a.devs, k)
                        ELSE CanRemove(v, a.devs, k)
              now == IF Is(c, "btrfs.device_add") THEN v.devs \cup S ELSE v.devs \ S IN
          /\ can(n)
          /\ volumes' = (Losing(S) \ {[v EXCEPT !.devs = @ \ S]})
                        \cup {[id |-> v.id, label |-> v.label, total |-> Cardinality(now), devs |-> now]}
          /\ IF n = Len(a.devs) THEN Step(c, "ok")
             ELSE IF can(n + 1) THEN Fault(c, "error") ELSE Step(c, "error")
  /\ UNCHANGED <<disks, subs, quotas, number>>

\* mount and umount, commands of the disk extension.
Mount(c) ==
  LET a == Does[c] IN
  /\ Is(c, "disk.mount") /\ pc[c] = "new"
  /\ \/ \E v \in volumes : /\ a.dev \in v.devs /\ at[a.place] = 0
                           /\ at' = [at EXCEPT ![a.place] = v.id] /\ Step(c, "ok")
     \/ /\ a.dev \notin Formatted \/ at[a.place] # 0
        /\ Step(c, "error") /\ UNCHANGED at
  /\ UNCHANGED <<present, spindown, btrfs>>
Unmount(c) ==
  /\ Is(c, "disk.umount") /\ pc[c] = "new"
  /\ Step(c, IF at[Does[c].place] = 0 THEN "error" ELSE "ok")
  /\ at' = [at EXCEPT ![Does[c].place] = 0]
  /\ UNCHANGED <<present, spindown, btrfs>>

-----------------------------------------------------------------------------
(* list and info.  A label that is two words ends the reading of all.        *)

Shown(v) == [id |-> v.id, label |-> IF v.label = "" THEN "none" ELSE v.label, total |-> v.total,
             devs |-> v.devs \cap present,
             warns |-> Cardinality(v.devs \cap present) < v.total]
Parsed(c, vs, place) ==
  IF \E v \in vs : v.label \in Spaced THEN Step(c, "error")
  ELSE Reads(c, place, <<{Shown(v) : v \in vs}>>)

ListFs(c) ==
  /\ Is(c, "btrfs.list") /\ pc[c] = "new"
  /\ Parsed(c, volumes, "ok") \/ Fault(c, "error")
  /\ UNCHANGED <<disks, btrfs>>

\* show and then df of a place: what it has mounted may be another by then.
InfoFs(c) ==
  /\ Is(c, "btrfs.info") /\ pc[c] = "new"
  /\ \/ MountedAt(Does[c].place) # {} /\ Parsed(c, MountedAt(Does[c].place), "df")
     \/ MountedAt(Does[c].place) = {} /\ Step(c, "error")
  /\ UNCHANGED <<disks, btrfs>>
InfoDf(c) ==
  /\ Is(c, "btrfs.info") /\ pc[c] = "df"
  /\ IF at[Does[c].place] = 0 THEN Step(c, "error")
     ELSE Reads(c, "ok", Append(got[c], at[Does[c].place]))
  /\ UNCHANGED <<disks, btrfs>>

-----------------------------------------------------------------------------
(* Subvolumes: one is named by the place and the path under it.              *)

Sub(p, path) == {s \in subs : s.volume = at[p] /\ s.path = path}
NewSub(p, path) == [id |-> number[at[p]], volume |-> at[p], path |-> path, quota |-> 0]
Numbered(p) == number' = [number EXCEPT ![at[p]] = @ + 1]

SubvolCreate(c) ==
  LET a == Does[c] IN
  /\ Is(c, "btrfs.subvol_create") /\ pc[c] = "new"
  /\ \/ /\ at[a.place] # 0 /\ Sub(a.place, a.path) = {} /\ Step(c, "ok")
        /\ subs' = subs \cup {NewSub(a.place, a.path)} /\ Numbered(a.place)
     \/ /\ at[a.place] = 0 \/ Sub(a.place, a.path) # {}
        /\ Step(c, "error") /\ UNCHANGED <<subs, number>>
  /\ UNCHANGED <<disks, volumes, quotas>>

SubvolDelete(c) ==
  LET gone == Sub(Does[c].place, Does[c].path) IN
  /\ Is(c, "btrfs.subvol_delete") /\ pc[c] = "new"
  /\ Step(c, IF at[Does[c].place] = 0 \/ gone = {} THEN "error" ELSE "ok")
  /\ subs' = IF at[Does[c].place] = 0 THEN subs ELSE subs \ gone
  /\ UNCHANGED <<disks, volumes, quotas, number>>

SubvolSnapshot(c) ==
  LET a == Does[c] IN
  /\ Is(c, "btrfs.subvol_snapshot") /\ pc[c] = "new"
  /\ IF at[a.place] # 0 /\ Sub(a.place, a.path) # {} /\ Sub(a.place, a.to) = {}
     THEN Step(c, "ok") /\ subs' = subs \cup {NewSub(a.place, a.to)} /\ Numbered(a.place)
     ELSE Step(c, "error") /\ UNCHANGED <<subs, number>>
  /\ UNCHANGED <<disks, volumes, quotas>>

\* quota enable, then qgroup limit; when that fails the quotas stay enabled.
QuotaEnable(c) ==
  LET p == Does[c].place IN
  /\ Is(c, "btrfs.subvol_quota") /\ pc[c] = "new"
  /\ IF at[p] # 0 /\ Sub(p, Does[c].path) # {}
     THEN Step(c, "limiting") /\ quotas' = quotas \cup {at[p]}
     ELSE Step(c, "error") /\ UNCHANGED quotas
  /\ UNCHANGED <<disks, volumes, subs, number>>
QuotaLimit(c) ==
  LET s == Sub(Does[c].place, Does[c].path) IN
  /\ Is(c, "btrfs.subvol_quota") /\ pc[c] = "limiting"
  /\ \/ /\ at[Does[c].place] # 0 /\ s # {} /\ Step(c, "ok")
        /\ subs' = (subs \ s) \cup {[v EXCEPT !.quota = Does[c].limit] : v \in s}
     \/ (at[Does[c].place] = 0 \/ s = {}) /\ Step(c, "error") /\ UNCHANGED subs
     \/ Fault(c, "error") /\ UNCHANGED subs
  /\ UNCHANGED <<disks, volumes, quotas, number>>

\* subvolume list, then qgroup show; an error of that is taken for quotas that are not
\* enabled, whatever it says (btrfs.go:341).
SubvolList(c) ==
  LET p == Does[c].place IN
  /\ Is(c, "btrfs.subvol_list") /\ pc[c] = "new"
  /\ IF at[p] = 0 THEN Step(c, "error")
     ELSE Reads(c, "groups", <<{[s EXCEPT !.quota = 0] : s \in {t \in subs : t.volume = at[p]}}>>)
  /\ UNCHANGED <<disks, btrfs>>

QGroups(p) == IF at[p] \in quotas THEN {s \in subs : s.volume = at[p]} ELSE {}
\* Mutant: the groups are matched by path.
ByPath(s, groups) == {g \in groups : g.path = s.path}
GroupOf(s, groups) == {g \in groups : g.id = s.id}
WithQuota(s, groups) ==
  [s EXCEPT !.quota = IF GroupOf(s, groups) = {} THEN 0
                      ELSE (CHOOSE g \in GroupOf(s, groups) : TRUE).quota]
SubvolGroups(c) ==
  LET groups == QGroups(Does[c].place) IN
  /\ Is(c, "btrfs.subvol_list") /\ pc[c] = "groups"
  /\ \/ Reads(c, "ok", <<{WithQuota(s, groups) : s \in got[c][1]}>>)
     \/ Fault(c, "error")
     \/ Fault(c, "ok")
  /\ UNCHANGED <<disks, btrfs>>

BtrfsStep(c) ==
  \/ CreateFs(c) \/ DeviceChange(c) \/ Mount(c) \/ Unmount(c) \/ ListFs(c) \/ InfoFs(c)
  \/ InfoDf(c) \/ SubvolCreate(c) \/ SubvolDelete(c) \/ SubvolSnapshot(c)
  \/ QuotaEnable(c) \/ QuotaLimit(c) \/ SubvolList(c) \/ SubvolGroups(c)
=============================================================================
