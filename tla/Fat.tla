-------------------------------- MODULE Fat --------------------------------
(***************************************************************************)
(* The FAT32 driver (fs/fat32.c) at work: every operation computes what it *)
(* writes and leaves the FAT in memory as FatDriver says, and the disk     *)
(* takes the writes one sector at a time.  The machine may stop between    *)
(* two of them and start again.  Operations do not overlap: they are made  *)
(* by system calls, which run with interrupts off and do not wait.         *)
(*                                                                         *)
(* Between operations the cached FAT sector is clean (Synced), so which    *)
(* one it is makes no difference, and what only reads is not an action.    *)
(* The size in the inode and the one in its directory entry change         *)
(* together, so the model has the second one only.                         *)
(***************************************************************************)
EXTENDS FatDriver

CONSTANTS
    DirNames,    \* the names that mkdir is asked for
    MaxSize,     \* bound: sectors in a file
    MaxCrashes   \* bound: how often the machine stops

ASSUME FatBoundsAssumption ==
    MaxSize \in Nat /\ MaxCrashes \in Nat /\ DirNames \subseteq Names

VARIABLES
    disk,      \* the volume: fat, and sec, what the clusters hold
    ram,       \* the driver's variables
    pending,   \* the sector writes still to be made
    busy,      \* the first cluster of the file the operation is about
    want,      \* by first cluster, what was created and written, and where
    torn,      \* files whose operation a crash cut short
    leaky,     \* clusters may be lost: a crash, or a directory deleted full
    crashes

vars == <<disk, ram, pending, busy, want, torn, leaky, crashes>>

Files == [dir : Clusters, name : Names, at : Clusters \X (1..PerCluster),
          data : UNION {[1..n -> Values \cup {Blank}] : n \in 0..MaxSize}]

Slots == [kind : {"end", "deleted", "lfn", "file", "dir", "dot"},
          name : Names \cup {"", "."}, first : Clusters \cup {0}, size : 0..MaxSize]

\* Types of the volume on the disk and of the driver's variables.
TypeOK ==
    /\ disk.fat \in [Clusters -> Clusters \cup {Unused, Eoc}]
    /\ \A c \in Clusters : disk.sec[c] \in Values \/ disk.sec[c] \in [1..PerCluster -> Slots]
    /\ ram.fat \in [Clusters -> Clusters \cup {Unused, Eoc}]
    /\ ram.cache \in FatSectors \cup {NoSector} /\ ram.dirty \in BOOLEAN
    /\ ram.hint \in Clusters
    /\ DOMAIN want \subseteq Clusters /\ \A f \in DOMAIN want : want[f] \in Files
    /\ torn \subseteq Clusters /\ busy \in Clusters \cup {Unused}
    /\ leaky \in BOOLEAN /\ crashes \in 0..MaxCrashes

\* fat32_init on a volume that holds the root directory only.
Mounted(fat) == [fat |-> fat, cache |-> NoSector, dirty |-> FALSE, hint |-> RootDir + 1]

Init ==
    /\ disk = [fat |-> [c \in Clusters |-> IF c = RootDir THEN Eoc ELSE Unused],
               sec |-> [c \in Clusters |-> Blank]]
    /\ ram = Mounted(disk.fat)
    /\ pending = <<>> /\ busy = Unused
    /\ want = <<>>
    /\ torn = {} /\ leaky = FALSE /\ crashes = 0

-----------------------------------------------------------------------------
\* The files, and what is known of them, without f and what f contains, and
\* with f.
Without(f) == [g \in {x \in DOMAIN want \ {f} : want[x].dir # f} |-> want[g]]
With(f, file) == [g \in DOMAIN want \cup {f} |-> IF g = f THEN file ELSE want[g]]

\* The volume as an operation finds it.
Volume == [fat |-> ram.fat, cache |-> ram.cache, dirty |-> ram.dirty, hint |-> ram.hint,
           sec |-> disk.sec, log |-> <<>>, ok |-> TRUE]

Idle == pending = <<>>

\* The operation about file f leaves the driver as in d.
Perform(d, f) ==
    /\ pending' = d.log
    /\ ram' = [fat |-> d.fat, cache |-> IF d.dirty THEN d.cache ELSE NoSector,
               dirty |-> d.dirty, hint |-> d.hint]
    /\ busy' = IF d.log = <<>> THEN Unused ELSE f
    /\ UNCHANGED <<disk, crashes>>

\* The directories there are.
Dirs == {RootDir} \cup
        {s.first : s \in {x \in Range(DirSlots(disk, RootDir)) : x.kind = "dir"}}

\* fat32_vfs_create, fat32_vfs_mkdir: a cluster, the entry, and for a
\* directory its own first entries.  Without room for the entry the cluster
\* is freed again.
Make(dir, name, kind) ==
    LET f     == NextFree(Volume)
        new   == Allocate(Volume)
        added == AddEntry(new, dir, name, kind, f)
        dots  == AddEntry(AddEntry(added, f, ".", "dot", f), f, ".", "dot", dir)
        file  == [dir |-> dir, name |-> name, data |-> <<>>,
                  at |-> Room(new, dir, SlotsOf(name))[SlotsOf(name)]]
    IN  /\ Idle
        /\ ~Exists(disk, dir, name)
        /\ \/ /\ new.ok /\ added.ok
              /\ Perform(Sync(IF kind = "dir" THEN dots ELSE added), f)
              /\ want' = With(f, file)
              /\ torn' = torn \ {f}
           \/ /\ ~new.ok
              /\ Perform(new, Unused)
              /\ UNCHANGED <<want, torn>>
           \/ /\ new.ok /\ ~added.ok
              /\ Perform(Sync(FreeChain(added, f)), Unused)
              /\ UNCHANGED <<want, torn>>
        /\ UNCHANGED leaky

Create(dir, name) == Make(dir, name, "file")
\* Bound: directories are made in the root only.
Mkdir(name) == Make(RootDir, name, "dir")

\* Mutant: the clusters are freed before the entry is deleted.
UnlinkFreesFirst(dir, name) ==
    LET at == Lookup(disk, dir, name)
        s  == SlotAt(disk, at)
    IN  /\ Idle
        /\ Exists(disk, dir, name)
        /\ Perform(PutSlot(Sync(FreeChain(Volume, s.first)), at, Slot("deleted", "", 0)), s.first)
        /\ want' = Without(s.first)
        /\ torn' = torn \ {s.first}
        /\ leaky' = (leaky \/ (s.kind = "dir" /\ \E x \in Range(DirSlots(disk, s.first)) : Entry(x)))

\* fat32_vfs_unlink.  The LFN slot stays: lfn_feed_entry has reset the count
\* of slots when it hands the long name out.
Unlink(dir, name) ==
    LET at == Lookup(disk, dir, name)
        s  == SlotAt(disk, at)
    IN  /\ Idle
        /\ Exists(disk, dir, name)
        /\ Perform(Sync(FreeChain(PutSlot(Volume, at, Slot("deleted", "", 0)), s.first)), s.first)
        /\ want' = Without(s.first)
        /\ torn' = torn \ {s.first}
        /\ leaky' = (leaky \/ (s.kind = "dir" /\ \E x \in Range(DirSlots(disk, s.first)) : Entry(x)))

-----------------------------------------------------------------------------
\* n clusters more behind tail, or as many as the disk has.
Extend(d, tail, n) ==
    LET grown[k \in 0..n] ==
          IF k = 0 THEN [vol |-> d, tail |-> tail]
          ELSE LET g == grown[k - 1]
                   c == NextFree(g.vol)
               IN  IF ~g.vol.ok THEN g
                   ELSE IF c = Unused THEN [g EXCEPT !.vol = Allocate(g.vol)]
                   ELSE [vol |-> SetNext(Allocate(g.vol), g.tail, c), tail |-> c]
    IN  grown[n].vol

\* The clusters that a file of this size is taken to have.
Owned(size) == IF size = 0 THEN 1 ELSE size

\* fat32_vfs_write's first half: as many clusters as the write needs.
Extended(d, s, offset, len) ==
    IF offset + len > Owned(s.size)
    THEN Extend(d, Last(ChainOf(d.fat, s.first)), offset + len - Owned(s.size))
    ELSE d

\* Mutant: the write starts at the chain's first cluster.
StoredAtStart(d, at, offset, len, v) ==
    LET s     == SlotAt(d, at)
        chain == ChainOf(d.fat, s.first)
        end   == Min({offset + len, Len(chain)})
        body[k \in 0..end] ==
          IF k = 0 THEN d
          ELSE IF k > len THEN Get(body[k - 1], chain[k])
          ELSE Get(Put(body[k - 1], chain[k], v), chain[k])
    IN  IF end > s.size THEN PutSlot(body[end], at, [s EXCEPT !.size = end]) ELSE body[end]

\* Its second half: the walk to the offset, the sectors, the size in the entry.
Stored(d, at, offset, len, v) ==
    LET s     == SlotAt(d, at)
        chain == ChainOf(d.fat, s.first)
        end   == Min({offset + len, Len(chain)})
        body[k \in 0..end] ==
          IF k = 0 THEN d
          ELSE IF k <= offset THEN Get(body[k - 1], chain[k])
          ELSE Get(Put(body[k - 1], chain[k], v), chain[k])
    IN  IF end > s.size THEN PutSlot(body[end], at, [s EXCEPT !.size = end]) ELSE body[end]

Overwritten(data, offset, len, v) ==
    [i \in 1..Max({Len(data), offset + len}) |->
        IF i \in (offset + 1)..(offset + len) THEN v
        ELSE IF i <= Len(data) THEN data[i] ELSE Blank]

\* fat32_vfs_write on an open file: the disk fills up, or the write is made.
Write(dir, name, offset, len, v) ==
    LET at    == Lookup(disk, dir, name)
        s     == SlotAt(disk, at)
        room  == Extended(Volume, s, offset, len)
        f     == s.first
    IN  /\ Idle
        /\ Exists(disk, dir, name)
        /\ s.kind = "file"
        /\ \/ /\ ~room.ok
              /\ Perform(Sync(room), Unused)
              /\ UNCHANGED want
           \/ /\ room.ok
              /\ Perform(Sync(Stored(room, at, offset, len, v)), f)
              /\ want' = IF f \in DOMAIN want
                         THEN [want EXCEPT ![f].data = Overwritten(@, offset, len, v)]
                         ELSE want
        /\ UNCHANGED <<torn, leaky>>

-----------------------------------------------------------------------------
\* ata_write_sector.
DiskWrite ==
    /\ pending # <<>>
    /\ disk' = Written(disk, Head(pending))
    /\ pending' = Tail(pending)
    /\ busy' = IF Tail(pending) = <<>> THEN Unused ELSE busy
    /\ UNCHANGED <<ram, want, torn, leaky, crashes>>

\* The machine stops, and starts again on the disk as it is.
Crash ==
    /\ crashes < MaxCrashes
    /\ crashes' = crashes + 1
    /\ ram' = Mounted(disk.fat)
    /\ pending' = <<>> /\ busy' = Unused
    /\ want' = Without(busy)
    /\ torn' = torn \cup ({busy} \ {Unused})
    /\ leaky' = (leaky \/ pending # <<>>)
    /\ UNCHANGED disk

Next ==
    \/ \E name \in DirNames : Mkdir(name)
    \/ \E name \in Names :
        \/ \E dir \in Dirs :
            \/ Create(dir, name)
            \/ Unlink(dir, name)
            \/ \E offset \in 0..(MaxSize - 1), v \in Values : \E len \in 1..(MaxSize - offset) :
                Write(dir, name, offset, len, v)
    \/ DiskWrite
    \/ Crash

Spec == Init /\ [][Next]_vars

-----------------------------------------------------------------------------
\* The entries and chains of the disk, whatever is still pending.
Entries(dir) == {s \in Range(DirSlots(disk, dir)) : Entry(s)}
Live   == UNION {Entries(dir) : dir \in Dirs}
Chains == {ChainOf(disk.fat, c) : c \in {RootDir} \cup {s.first : s \in Live}}

\* After every single sector write, so after every crash, each file and
\* directory has a chain of its own: no cluster twice, none free, and an end.
ChainsSound ==
    /\ \A s \in Chains : s # <<>> /\ IsInjective(s) /\ disk.fat[Last(s)] = Eoc
    /\ \A s, t \in Chains : s # t => Range(s) \cap Range(t) = {}
    /\ \A s, t \in Live : s.first = t.first => s = t

\* Between operations every cluster in use belongs to a file or directory,
\* unless a crash or the deletion of a full directory lost some.
NoLostCluster ==
    pending = <<>> /\ ~leaky =>
        {c \in Clusters : disk.fat[c] # Unused} = UNION {Range(s) : s \in Chains}

\* Whatever an operation has written of other files, and whenever it is cut
\* short, a file that was written completely is on the disk as written.
Intact ==
    \A f \in DOMAIN want \ {busy} :
        LET at == want[f].at
            s  == SlotAt(disk, at)
        IN  /\ Entry(s) /\ s.name = want[f].name /\ s.first = f
            /\ s.size = Len(want[f].data)
            /\ Content(disk, s) = want[f].data

\* An operation leaves nothing of the FAT in memory only.
Synced == pending = <<>> => ram.fat = disk.fat /\ ~ram.dirty

\* A file's size never exceeds its chain, but for the one sector that the
\* last link of a write under way, or of one that a crash cut short, still
\* owes.  A later write to such a file finds its chain long enough to walk to
\* the offset: it never takes the end mark for a cluster's number.
SizeCovered ==
    \A s \in Live :
        \/ s.size <= Len(ChainOf(disk.fat, s.first))
        \/ s.first \in torn \cup {busy} /\ s.size = Len(ChainOf(disk.fat, s.first)) + 1

Found(f) ==
    /\ Exists(disk, want[f].dir, want[f].name)
    /\ Lookup(disk, want[f].dir, want[f].name) = want[f].at

\* What was created under a name that fits 8.3 is found again.
ShortFindable == pending = <<>> => \A f \in DOMAIN want : want[f].name \notin LongNames => Found(f)

\* What was created is found again, its name long or short.
Findable == pending = <<>> => \A f \in DOMAIN want : Found(f)
=============================================================================
