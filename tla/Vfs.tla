-------------------------------- MODULE Vfs --------------------------------
(***************************************************************************)
(* Files as processes see them: descriptors (syscall/fops.c, vfs/files.c), *)
(* the cache of dentries in front of the disk (vfs/filesystem.c), and the  *)
(* mount of devfs at /dev (fs/devfs.c).  The FAT driver is a table of      *)
(* directories here; its sectors and chains are module Fat's.  A system    *)
(* call runs with interrupts off, so each is one action.                   *)
(*                                                                         *)
(* Dentries and open files are never reused: one that the kernel has freed *)
(* is marked so, and a call that goes through it, through a directory      *)
(* sector that is free again or through a null pointer is undefined: wild  *)
(* says so and the run ends there.  An inode lives and dies with its       *)
(* dentry and is part of it.                                               *)
(***************************************************************************)
EXTENDS Integers, Sequences, SequencesExt, FiniteSets

CONSTANTS
    MaxTasks,
    Fds,        \* the descriptors open gives, from 3 on
    Clusters,   \* those of the disk; 1 is the root directory's, 2 that of /dev
    Names,      \* the names of files
    Answers,    \* the names each entry answers to: other cases, short aliases
    Paths,      \* what calls are given: [abs, steps]
    Moves,      \* the offsets lseek is given
    Wrap,       \* 2^32: inode.size and the offset lseek stores are uint32_t
    MaxSize,    \* bound: the size of a file
    MaxCalls    \* bound: system calls of a run

\* The components of paths; strtok gives no empty one.
Words == Names \cup {".", "..", "dev", "tty"}

ASSUME VfsAssumption ==
    /\ MaxTasks \in Nat \ {0} /\ {1, 2} \subseteq Clusters /\ Clusters \subseteq Nat \ {0}
    /\ Fds \subseteq Nat /\ {"", "dev", "tty"} \cap Names = {}
    /\ \A n \in Names : n \in Answers[n] /\ Answers[n] \subseteq Names
    \* "/" has no steps; the empty string is not given.
    /\ \A q \in Paths : q.abs \in BOOLEAN /\ q.steps \in Seq(Words) /\ (q.steps = <<>> => q.abs)
    /\ Moves \subseteq Int /\ MaxSize \in Nat /\ Wrap \in Nat /\ MaxSize < Wrap /\ MaxCalls \in Nat

VARIABLES
    disk,       \* the slots of each directory, by its cluster
    taken,      \* the clusters in use
    dentry,     \* every dentry there has been, with its inode
    file,       \* every file_t there has been
    task,       \* of each task, its fd_table and cwd
    wild,       \* the kernel has gone through a pointer that is freed or null
    calls

vars == <<disk, taken, dentry, file, task, wild, calls>>

Tasks == 1..MaxTasks
Null  == 0
Hole  == [name |-> "", kind |-> "file", cluster |-> 0, size |-> 0]

\* The dentries there are at boot.
Root    == 1
Dev     == 2    \* the directory /dev, covered
DevRoot == 3    \* what covers it
Tty     == 4

IsDirectory(d) == d.kind \in {"dir", "devdir", "vdir"}

-----------------------------------------------------------------------------
(* The FAT driver.                                                         *)

\* The slots that are not marked as deleted.
Used(dk, c) == {i \in 1..Len(dk[c]) : dk[c][i].name # Hole.name}
Least(S) == CHOOSE i \in S : \A j \in S : i <= j

\* The names a directory entry answers to: its own, other cases of an 8.3 name,
\* the short alias of a long one.
AnswersOf(name) == IF name \in Names THEN Answers[name] ELSE {name}

\* The slots of directory c that answer to a name; fat32_vfs_lookup and unlink
\* take the first.
Matching(dk, c, name) == {i \in Used(dk, c) : name \in AnswersOf(dk[c][i].name)}

\* fat32_add_entry_named takes the first free slot, or one more.
PlaceIn(dk, c) ==
    LET holes == (1..Len(dk[c])) \ Used(dk, c)
    IN  IF holes = {} THEN Len(dk[c]) + 1 ELSE Least(holes)

WithEntry(dk, c, entry) ==
    LET i == PlaceIn(dk, c) IN
    [dk EXCEPT ![c] = IF i > Len(@) THEN Append(@, entry) ELSE [@ EXCEPT ![i] = entry]]

\* fat32_vfs_create and fat32_vfs_mkdir: the disk after them, [disk, taken, ok].
Made(c, name, kind) ==
    LET free == Clusters \ taken
        new  == Least(free)
    IN  IF Matching(disk, c, name) # {} \/ free = {}
        THEN [disk |-> disk, taken |-> taken, ok |-> FALSE]
        ELSE [disk |-> [WithEntry(disk, c, [name |-> name, kind |-> kind,
                                            cluster |-> new, size |-> 0]) EXCEPT ![new] = <<>>],
              taken |-> taken \cup {new}, ok |-> TRUE]

-----------------------------------------------------------------------------
(* The cache of dentries.                                                  *)

\* A dentry; its driver finds the entry's size and cluster again at slot.
Dentry(name, up, kind, cluster, size, slot) ==
    [name |-> name, up |-> up, kids |-> <<>>, kind |-> kind, cluster |-> cluster,
     size |-> size, slot |-> slot, covered |-> Null, live |-> TRUE]

\* Mutant: every new dentry has the root for its parent.
LinkedToRoot(cache, d) ==
    LET id == Len(cache) + 1
    IN  Append([cache EXCEPT ![d.up].kids = <<id>> \o @], [d EXCEPT !.up = Root])

\* A new dentry at the head of its parent's children.
Linked(cache, d) ==
    LET id == Len(cache) + 1
    IN  Append([cache EXCEPT ![d.up].kids = <<id>> \o @], d)

KidsNamed(cache, at, name) == {k \in 1..Len(cache[at].kids) : cache[cache[at].kids[k]].name = name}

\* The cache once the driver of directory at has been asked for a name that is
\* not cached.  The children of a virtual directory are all in the cache.
Cached(cache, at, name) ==
    LET slots == Matching(disk, cache[at].cluster, name)
        e     == disk[cache[at].cluster][Least(slots)]
    IN  IF cache[at].kind # "dir" \/ slots = {} THEN cache
        ELSE Linked(cache, Dentry(name, at, e.kind, e.cluster, e.size, Least(slots)))

\* Through the mount, if this dentry is covered.
Through(cache, d) == IF cache[d].covered # Null THEN cache[d].covered ELSE d

\* One component of vfs_get_dentry.  A walk has come to a dentry, or has failed,
\* or has gone through a freed dentry.
Component(w, name) ==
    LET here  == w.cache[w.at]
        cache == IF KidsNamed(w.cache, w.at, name) = {} THEN Cached(w.cache, w.at, name)
                 ELSE w.cache
        kids  == KidsNamed(cache, w.at, name)
    IN  IF w.end # "at" THEN w
        ELSE IF ~here.live THEN [w EXCEPT !.end = "wild"]
        ELSE IF ~IsDirectory(here) THEN [w EXCEPT !.end = "none"]
        ELSE IF name = "." THEN w
        ELSE IF name = ".." THEN [w EXCEPT !.at = IF here.up # Null THEN here.up ELSE @]
        ELSE IF kids = {} THEN [w EXCEPT !.end = "none"]
        ELSE [cache |-> cache, end |-> "at", at |-> Through(cache, cache[w.at].kids[Least(kids)])]

\* vfs_get_dentry, from the root or the caller's directory, on the given cache.
WalkOn(cache, p, abs, steps) ==
    LET start == [cache |-> cache, end |-> "at", at |-> IF abs THEN Root ELSE task[p].cwd]
        walk[i \in 0..Len(steps)] == IF i = 0 THEN start ELSE Component(walk[i - 1], steps[i])
        w     == walk[Len(steps)]
    IN  IF w.end = "at" /\ ~w.cache[w.at].live THEN [w EXCEPT !.end = "wild"] ELSE w

Walk(p, path) == WalkOn(dentry, p, path.abs, path.steps)

\* The parent that create, mkdir and unlink cut off the path.
ParentWalk(cache, p, path) == WalkOn(cache, p, path.abs, Front(path.steps))
LastName(path) == Last(path.steps)

-----------------------------------------------------------------------------
Init ==
    /\ disk = [c \in Clusters |->
         IF c # 1 THEN <<>> ELSE <<[name |-> "dev", kind |-> "dir", cluster |-> 2, size |-> 0]>>]
    /\ taken = {1, 2}
    /\ dentry = <<[Dentry("/", Null, "dir", 1, 0, Null) EXCEPT !.kids = <<Dev>>],
                  [Dentry("dev", Root, "dir", 2, 0, 1) EXCEPT !.covered = DevRoot],
                  [Dentry("dev", Root, "devdir", 0, 0, Null) EXCEPT !.kids = <<Tty>>],
                  Dentry("tty", DevRoot, "dev", 0, 0, Null)>>
    /\ file = <<>>
    /\ task = [t \in Tasks |-> [state |-> IF t = 1 THEN "live" ELSE "none", parent |-> 0,
                                fd |-> [d \in Fds |-> Null], cwd |-> Root]]
    /\ wild = "no"
    /\ calls = 0

Kinds    == {"file", "dir", "dev", "devdir", "vdir"}
Entries  == [name : Words \cup {Hole.name}, kind : {"file", "dir"}, cluster : Nat, size : 0..MaxSize]
Dentries == [name : Words \cup {"/"}, up : Nat, kids : Seq(Nat), kind : Kinds, cluster : Nat,
             size : 0..MaxSize, slot : Nat, covered : Nat, live : BOOLEAN]
Files    == [dentry : Nat, offset : Nat, live : BOOLEAN]
Records  == [state : {"none", "live", "gone"}, parent : 0..MaxTasks, fd : [Fds -> Nat], cwd : Nat]

\* An entry has a cluster of the disk.
DiskOK(dk) ==
    /\ dk \in [Clusters -> Seq(Entries)]
    /\ \A c \in Clusters : \A i \in Used(dk, c) : dk[c][i].cluster \in Clusters

\* Every link leads to a dentry, and from a child its parent link back; only a
\* root has no parent.
CacheOK(cache) ==
    /\ cache \in Seq(Dentries) /\ Len(cache) >= Tty
    /\ \A d \in 1..Len(cache) :
         /\ cache[d].up \in 0..Len(cache) /\ cache[d].covered \in 0..Len(cache)
         /\ \A k \in 1..Len(cache[d].kids) :
              cache[d].kids[k] \in 1..Len(cache) /\ cache[cache[d].kids[k]].up = d
         /\ cache[d].kind = "dir" => cache[d].cluster \in Clusters
         /\ cache[d].kind = "file" => cache[d].up # Null /\ cache[cache[d].up].kind = "dir"

\* Types, and what they leave unsaid.  The offset in a directory counts names.
TypeOK ==
    /\ DiskOK(disk) /\ CacheOK(dentry)
    /\ taken \subseteq Clusters
    /\ file \in Seq(Files)
    /\ \A f \in 1..Len(file) :
         /\ file[f].dentry \in 1..Len(dentry)
         /\ IsDirectory(dentry[file[f].dentry]) \/ file[f].offset < Wrap
    /\ task \in [Tasks -> Records]
    /\ \A t \in Tasks : task[t].cwd \in 1..Len(dentry) /\ \A d \in Fds : task[t].fd[d] <= Len(file)
    /\ wild \in {"no", "freed", "null"} /\ calls \in 0..MaxCalls

\* A system call of task p.
Call(p) ==
    /\ task[p].state = "live" /\ wild = "no"
    /\ calls < MaxCalls
    /\ calls' = calls + 1

\* The call goes through such a pointer, and what follows is undefined.
GoesWild(how) == wild' = how /\ UNCHANGED <<disk, taken, dentry, file, task>>

\* vfs_open: a file_t at offset 0, in slot fd of p's table.
OpenAt(p, fd, cache, d) ==
    /\ dentry' = cache
    /\ file' = Append(file, [dentry |-> d, offset |-> 0, live |-> TRUE])
    /\ task' = [task EXCEPT ![p].fd[fd] = Len(file) + 1]
    /\ UNCHANGED wild

FreeFds(p) == {d \in Fds : task[p].fd[d] = Null}

\* sys_open finds the path.
Open(p, path) ==
    LET w == Walk(p, path) IN
    /\ Call(p)
    /\ FreeFds(p) # {}
    /\ \/ w.end = "wild" /\ GoesWild("freed")
       \/ w.end = "at" /\ OpenAt(p, Least(FreeFds(p)), w.cache, w.at) /\ UNCHANGED <<disk, taken>>

\* sys_open does not find the path, which "/" never is: without O_CREAT nothing
\* but the cache changes; with it vfs_create makes the file and it is looked up
\* again.
OpenMissing(p, path, creat) ==
    LET w   == Walk(p, path)
        up  == ParentWalk(w.cache, p, path)
        dir == up.cache[up.at]
        new == Made(dir.cluster, LastName(path), "file")
        id  == Len(up.cache) + 1
    IN
    /\ Call(p)
    /\ FreeFds(p) # {} /\ path.steps # <<>> /\ w.end = "none"
    /\ \/ creat /\ up.end = "wild" /\ GoesWild("freed")
       \/ creat /\ up.end = "at" /\ dir.kind = "dev" /\ GoesWild("null")
       \/ /\ creat /\ up.end = "at" /\ dir.kind = "dir" /\ new.ok
          /\ disk' = new.disk /\ taken' = new.taken
          /\ OpenAt(p, Least(FreeFds(p)),
                    Linked(up.cache, Dentry(LastName(path), up.at, "file", Least(Clusters \ taken),
                                            0, PlaceIn(disk, dir.cluster))), id)
       \/ /\ ~creat \/ up.end = "none" \/ dir.kind \notin {"dev", "dir"}
                    \/ (dir.kind = "dir" /\ ~new.ok)
          /\ dentry' = up.cache
          /\ UNCHANGED <<disk, taken, file, task, wild>>

\* A call on descriptor fd, which reaches the inode through file and dentry.
OnFile(p, fd) == task[p].fd[fd] # Null
FileOf(p, fd) == file[task[p].fd[fd]]
InodeLives(p, fd) == FileOf(p, fd).live /\ dentry[FileOf(p, fd).dentry].live
GoesWildUnless(reach) == ~reach /\ GoesWild("freed")

\* Mutant: close frees the file_t but leaves the caller's slot.
ClearedSlotNot(fds, fd) == fds

\* sys_close empties the caller's slot; a task that shares the file keeps its own.
ClearedSlot(fds, fd) == [fds EXCEPT ![fd] = Null]

\* sys_close, vfs_close.
Close(p, fd) ==
    LET f == task[p].fd[fd] IN
    /\ Call(p)
    /\ OnFile(p, fd)
    /\ \/ GoesWildUnless(FileOf(p, fd).live)
       \/ /\ FileOf(p, fd).live
          /\ file' = [file EXCEPT ![f].live = FALSE]
          /\ task' = [task EXCEPT ![p].fd = ClearedSlot(@, fd)]
          /\ UNCHANGED <<disk, taken, dentry, wild>>

\* vfs_read on a file of the disk: as much of n as lies before its end.
Read(p, fd, n) ==
    LET f    == task[p].fd[fd]
        size == dentry[FileOf(p, fd).dentry].size
        off  == FileOf(p, fd).offset
    IN
    /\ Call(p)
    /\ OnFile(p, fd)
    /\ \/ GoesWildUnless(InodeLives(p, fd))
       \/ /\ InodeLives(p, fd) /\ dentry[FileOf(p, fd).dentry].kind = "file"
          /\ off < size
          /\ file' = [file EXCEPT ![f].offset = IF off + n > size THEN size ELSE off + n]
          /\ UNCHANGED <<disk, taken, dentry, task, wild>>

\* fat32_vfs_write records a grown size in the entry the inode was found at.
Sized(dk, d, size) == [dk EXCEPT ![dentry[d.up].cluster][d.slot].size = size]

\* The sector of a file's directory entry is still that of its directory.
EntryLives(id) == dentry[dentry[id].up].live

\* vfs_write on a file of the disk, which grows if it is written past its end.
Write(p, fd, n) ==
    LET f   == task[p].fd[fd]
        id  == FileOf(p, fd).dentry
        end == FileOf(p, fd).offset + n
    IN
    /\ Call(p)
    /\ OnFile(p, fd)
    /\ \/ GoesWildUnless(/\ InodeLives(p, fd)
                         /\ dentry[id].kind = "file" /\ end > dentry[id].size => EntryLives(id))
       \/ /\ InodeLives(p, fd) /\ dentry[id].kind = "file"
          /\ end <= MaxSize /\ (end > dentry[id].size => EntryLives(id))
          /\ file' = [file EXCEPT ![f].offset = end]
          /\ IF end > dentry[id].size
             THEN /\ dentry' = [dentry EXCEPT ![id].size = end]
                  /\ disk' = Sized(disk, dentry[id], end)
             ELSE UNCHANGED <<dentry, disk>>
          /\ UNCHANGED <<taken, task, wild>>

\* sys_lseek with SEEK_SET, SEEK_CUR or SEEK_END, from which it is base.
Lseek(p, fd, base, move) ==
    LET f == task[p].fd[fd] IN
    /\ Call(p)
    /\ OnFile(p, fd)
    /\ \/ GoesWildUnless(IF base = "end" THEN InodeLives(p, fd) ELSE FileOf(p, fd).live)
       \/ /\ FileOf(p, fd).live /\ (base = "end" => InodeLives(p, fd))
          /\ LET to == move + CASE base = "set" -> 0
                                [] base = "cur" -> FileOf(p, fd).offset
                                [] base = "end" -> dentry[FileOf(p, fd).dentry].size
             IN  to >= 0 /\ file' = [file EXCEPT ![f].offset = to % Wrap]
          /\ UNCHANGED <<disk, taken, dentry, task, wild>>

\* sys_stat, and a sys_chdir to what is no directory: the walk fills the cache.
Stat(p, path) ==
    LET w == Walk(p, path) IN
    /\ Call(p)
    /\ \/ w.end = "wild" /\ GoesWild("freed")
       \/ w.end # "wild" /\ dentry' = w.cache /\ UNCHANGED <<disk, taken, file, task, wild>>

\* sys_fstat changes nothing, but reaches the inode.
Fstat(p, fd) ==
    /\ Call(p)
    /\ OnFile(p, fd)
    /\ GoesWildUnless(InodeLives(p, fd))

\* Where the names of a directory end: its slots on the disk, or its children.
NamesEnd(d) == IF d.kind = "dir" THEN Len(disk[d.cluster]) ELSE Len(d.kids)

\* sys_getdents64, with a buffer for all the names that are left.
Getdents(p, fd) ==
    LET f == task[p].fd[fd]
        d == dentry[FileOf(p, fd).dentry]
    IN
    /\ Call(p)
    /\ OnFile(p, fd)
    /\ \/ GoesWildUnless(InodeLives(p, fd))
       \/ /\ InodeLives(p, fd) /\ d.kind \in {"dir", "devdir"}
          /\ FileOf(p, fd).offset < NamesEnd(d)
          /\ file' = [file EXCEPT ![f].offset = NamesEnd(d)]
          /\ UNCHANGED <<disk, taken, dentry, task, wild>>

\* sys_chdir, vfs_chdir.
Chdir(p, path) ==
    LET w == Walk(p, path) IN
    /\ Call(p)
    /\ w.end = "at" /\ IsDirectory(w.cache[w.at])
    /\ dentry' = w.cache
    /\ task' = [task EXCEPT ![p].cwd = w.at]
    /\ UNCHANGED <<disk, taken, file, wild>>

\* sys_mkdir: the driver's mkdir on the disk, whose result is not cached, or a
\* directory in memory, where vfs_mkdir_at looks at the cache for the name.  It
\* refuses "/", which ends in no name.
Mkdir(p, path) ==
    LET up  == ParentWalk(dentry, p, path)
        dir == up.cache[up.at]
        new == Made(dir.cluster, LastName(path), "dir")
    IN
    /\ Call(p)
    /\ path.steps # <<>>
    /\ \/ up.end = "wild" /\ GoesWild("freed")
       \/ /\ up.end = "at" /\ dir.kind = "dir" /\ new.ok
          /\ disk' = new.disk /\ taken' = new.taken /\ dentry' = up.cache
          /\ UNCHANGED <<file, task, wild>>
       \/ /\ up.end = "at" /\ dir.kind \in {"devdir", "vdir"}
          /\ KidsNamed(up.cache, up.at, LastName(path)) = {}
          /\ dentry' = Linked(up.cache, Dentry(LastName(path), up.at, "vdir", 0, 0, Null))
          /\ UNCHANGED <<disk, taken, file, task, wild>>

\* Mutant: the directory entry goes, and the dentry stays in the cache.
EvictedNot(cache, at, name) == cache

\* The dentry of that name, and its inode, are freed.
Evicted(cache, at, name) ==
    LET kids == KidsNamed(cache, at, name)
        k    == Least(kids)
    IN  IF kids = {} THEN cache
        ELSE [[cache EXCEPT ![cache[at].kids[k]].live = FALSE] EXCEPT ![at].kids = RemoveAt(@, k)]

\* vfs_unlink: the first slot that answers to the name, and its cluster.
Unlink(p, path) ==
    LET up    == ParentWalk(dentry, p, path)
        dir   == up.cache[up.at]
        slots == Matching(disk, dir.cluster, LastName(path))
        e     == disk[dir.cluster][Least(slots)]
    IN
    /\ Call(p)
    /\ path.steps # <<>>
    /\ \/ up.end = "wild" /\ GoesWild("freed")
       \/ /\ up.end = "at" /\ dir.kind = "dir" /\ slots # {}
          /\ disk' = [disk EXCEPT ![dir.cluster][Least(slots)] = Hole]
          /\ taken' = taken \ {e.cluster}
          /\ dentry' = Evicted(up.cache, up.at, LastName(path))
          /\ UNCHANGED <<file, task, wild>>

\* fork: the child has the parent's descriptors, and with them its file_ts.
Fork(p) ==
    /\ Call(p)
    /\ \E c \in Tasks :
         /\ task[c].state = "none" /\ \A d \in Tasks : task[d].state = "none" => c <= d
         /\ task' = [task EXCEPT ![c] = [task[p] EXCEPT !.parent = p]]
    /\ UNCHANGED <<disk, taken, dentry, file, wild>>

\* exit closes nothing.
Exit(p) ==
    /\ Call(p)
    /\ task' = [task EXCEPT ![p].state = "gone"]
    /\ UNCHANGED <<disk, taken, dentry, file, wild>>

Next == \E p \in Tasks :
    \/ \E path \in Paths :
         \/ Open(p, path)
         \/ \E creat \in BOOLEAN : OpenMissing(p, path, creat)
         \/ Stat(p, path)
         \/ Chdir(p, path)
         \/ Mkdir(p, path)
         \/ Unlink(p, path)
    \/ \E fd \in Fds :
         \/ Close(p, fd)
         \/ Read(p, fd, 1)
         \/ Write(p, fd, 1)
         \/ \E base \in {"set", "cur", "end"}, move \in Moves : Lseek(p, fd, base, move)
         \/ Fstat(p, fd)
         \/ Getdents(p, fd)
    \/ Fork(p)
    \/ Exit(p)

Spec == Init /\ [][Next]_vars

-----------------------------------------------------------------------------
(* Properties.                                                             *)

\* Where a path leads on the disk itself: an entry, the root's, or Nowhere.
RootEntry == [name |-> "/", kind |-> "dir", cluster |-> 1, size |-> 0]
Nowhere   == [name |-> "", kind |-> "none", cluster |-> 0, size |-> 0]
Into(e, name) ==
    LET slots == Matching(disk, e.cluster, name)
    IN  IF e.kind # "dir" \/ slots = {} THEN Nowhere ELSE disk[e.cluster][Least(slots)]
OnDisk(steps) ==
    LET along[i \in 0..Len(steps)] == IF i = 0 THEN RootEntry ELSE Into(along[i - 1], steps[i])
    IN  along[Len(steps)]

\* The paths from the root down that do not lead under /dev.
DiskPaths == {q \in Paths : q.abs /\ \A i \in 1..Len(q.steps) : q.steps[i] \notin {"dev", ".", ".."}}

\* The cache in front of the disk is never seen: looking a path up gives the
\* cluster and the size that a walk over the directories themselves would give,
\* or nothing when that finds nothing, however files were made, written, removed
\* and made again.
LookupAgreesWithDisk ==
    wild = "no" => \A q \in DiskPaths :
      LET w == Walk(1, q)
          e == OnDisk(q.steps)
      IN  IF w.end = "at" THEN w.cache[w.at].cluster = e.cluster /\ w.cache[w.at].size = e.size
          ELSE e = Nowhere

\* fork is what shares a descriptor.
Related(t) == task[t].parent # 0 \/ \E u \in Tasks : task[u].parent = t

\* A process that has neither been forked nor forked holds no descriptor of a
\* file_t that is freed; those that share one through fork may, since close frees
\* it under the others.
FdSound ==
    \A t \in Tasks : task[t].state = "live" /\ ~Related(t) =>
      \A fd \in Fds : task[t].fd[fd] # Null => file[task[t].fd[fd]].live

\* vfs_getcwd: the names from the root down.
Getcwd(d) ==
    LET names[x \in 1..Len(dentry)] ==
          IF dentry[x].up = Null THEN <<>> ELSE Append(names[dentry[x].up], dentry[x].name)
    IN  names[d]

\* No directory on the way from the root is removed, nor the one under a mount.
Whole(d) ==
    LET whole[x \in 1..Len(dentry)] ==
          /\ dentry[x].live
          /\ dentry[x].up # Null => whole[dentry[x].up]
          /\ \A y \in 1..Len(dentry) : dentry[y].covered = x => dentry[y].live
    IN  whole[d]

\* What getcwd answers leads back to the current directory, through the mount
\* as well, unless that directory has been removed.
CwdResolves ==
    wild = "no" => \A t \in Tasks :
      task[t].state = "live" /\ Whole(task[t].cwd) =>
        LET w == WalkOn(dentry, t, TRUE, Getcwd(task[t].cwd))
        IN  w.end = "at" /\ w.at = task[t].cwd

\* A call goes through freed memory or a freed sector only with a descriptor
\* that fork shares, or after something was removed.
WildNeedsSharing ==
    wild = "freed" => (\E t \in Tasks : Related(t)) \/ \E d \in 1..Len(dentry) : ~dentry[d].live

\* "The next lookup is forced back to the disk driver instead of returning a
\* pointer to a since-deleted inode/cluster" (filesystem.c:347): every cached
\* dentry of the disk names a cluster that is in use.
NoDeletedInode ==
    \A d \in 1..Len(dentry) :
      dentry[d].live /\ dentry[d].kind \in {"file", "dir"} /\ Whole(d) => dentry[d].cluster \in taken
=============================================================================
