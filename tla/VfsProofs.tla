----------------------------- MODULE VfsProofs -----------------------------
(***************************************************************************)
(* Proofs about Vfs, for any number of tasks, any disk, any names and any  *)
(* paths: descriptors and links lead where they should; the cache of       *)
(* dentries is a tree whose names lead back to where they came from, and,  *)
(* if no entry of the disk has an alias, is never seen.                    *)
(***************************************************************************)
EXTENDS Vfs, SequenceTheorems, WellFoundedInduction, TLAPS

-----------------------------------------------------------------------------
(* Least elements.                                                          *)

\* A set of numbers has a least element; this stands in for induction.
LEMMA LeastIs ==
    ASSUME NEW S \in SUBSET Nat, S # {}
    PROVE  Least(S) \in S /\ \A j \in S : Least(S) <= j
  <1> DEFINE R == {ss \in Nat \X Nat : ss[1] < ss[2]}
  <1>1. IsWellFoundedOn(R, Nat)
    BY NatLessThanWellFounded DEF OpToRel
  <1>2. PICK x \in S : \A y \in S : ~ (<<y, x>> \in R)
    <2> HIDE DEF R
    <2> QED
      BY <1>1, WFMin
  <1>3. \A y \in S : ~ (y < x)
    BY <1>2
  <1>4. \E i \in S : \A j \in S : i <= j
    BY <1>3
  <1> QED
    BY <1>4 DEF Least

-----------------------------------------------------------------------------
(* The cache of dentries.                                                   *)

\* One cache goes on from another: what a dentry is and whether it lives stay.
Grows(c, d) ==
    /\ Len(c) <= Len(d)
    /\ \A i \in 1..Len(c) : d[i].kind = c[i].kind /\ d[i].live = c[i].live

AllLive(c) == \A d \in 1..Len(c) : c[d].live

Walks == [cache : Seq(Dentries), end : {"at", "none", "wild"}, at : Nat]

\* A walk has come to a dentry of its cache, and goes wild only through a freed one.
WalkOK(c, w) ==
    /\ w \in Walks
    /\ CacheOK(w.cache) /\ Grows(c, w.cache)
    /\ w.at \in 1..Len(w.cache)
    /\ AllLive(c) => AllLive(w.cache) /\ w.end # "wild"

LEMMA ConstantFacts ==
    /\ Null = 0 /\ Root = 1 /\ Tty = 4 /\ Clusters \subseteq Nat /\ 0 \notin Clusters
    /\ 1 \in Clusters /\ 2 \in Clusters /\ Fds \subseteq Nat
    /\ MaxSize \in Nat /\ Wrap \in Nat /\ MaxSize < Wrap /\ Wrap > 0 /\ Moves \subseteq Int
    /\ MaxTasks \in Nat \ {0} /\ MaxCalls \in Nat
  <1>1. /\ Clusters \subseteq Nat \ {0} /\ {1, 2} \subseteq Clusters
        /\ Fds \subseteq Nat /\ Moves \subseteq Int
    BY VfsAssumption, Zenon
  <1>2. /\ MaxSize \in Nat /\ Wrap \in Nat /\ MaxSize < Wrap
        /\ MaxTasks \in Nat \ {0} /\ MaxCalls \in Nat
    BY VfsAssumption, Zenon
  <1>3. 1 \in Clusters /\ 2 \in Clusters /\ Clusters \subseteq Nat /\ 0 \notin Clusters
    BY <1>1
  <1> QED
    BY <1>1, <1>2, <1>3 DEF Null, Root, Tty

LEMMA GrowsSelf == \A c \in Seq(Dentries) : Grows(c, c)
  BY DEF Grows

LEMMA GrowsOn ==
    ASSUME NEW a \in Seq(Dentries), NEW b \in Seq(Dentries), NEW c \in Seq(Dentries),
           Grows(a, b), Grows(b, c)
    PROVE  Grows(a, c)
  <1>1. Len(a) \in Nat /\ Len(b) \in Nat /\ Len(c) \in Nat
    OBVIOUS
  <1> QED
    BY <1>1 DEF Grows

LEMMA HeadOn ==
    ASSUME NEW id \in Nat, NEW q \in Seq(Nat)
    PROVE  /\ <<id>> \o q \in Seq(Nat) /\ Len(<<id>> \o q) = 1 + Len(q)
           /\ \A k \in 1..(1 + Len(q)) : (<<id>> \o q)[k] = IF k = 1 THEN id ELSE q[k - 1]
  <1> DEFINE s == <<id>>
  <1>1. s \in Seq(Nat) /\ Len(s) = 1 /\ s[1] = id /\ Len(q) \in Nat
    OBVIOUS
  <1> HIDE DEF s
  <1>2. /\ s \o q \in Seq(Nat) /\ Len(s \o q) = Len(s) + Len(q)
        /\ \A k \in 1..Len(s) + Len(q) :
             (s \o q)[k] = IF k <= Len(s) THEN s[k] ELSE q[k - Len(s)]
    BY <1>1, ConcatProperties
  <1>3. \A k \in 1..(1 + Len(q)) : (s \o q)[k] = IF k = 1 THEN id ELSE q[k - 1]
    BY <1>1, <1>2
  <1> QED
    BY <1>1, <1>2, <1>3 DEF s

\* A cache with one dentry more, at the head of its parent's children.
LEMMA LinkedOK ==
    ASSUME NEW c, CacheOK(c), NEW d \in Dentries, d.up \in 1..Len(c), d.live, d.covered = Null,
           d.kids = <<>>, d.kind = "dir" => d.cluster \in Clusters,
           d.kind = "file" => c[d.up].kind = "dir"
    PROVE  /\ CacheOK(Linked(c, d)) /\ Grows(c, Linked(c, d))
           /\ Len(Linked(c, d)) = Len(c) + 1 /\ Linked(c, d)[Len(c) + 1] = d
           /\ AllLive(c) => AllLive(Linked(c, d))
  <1> DEFINE n   == Len(c)
             id  == n + 1
             p   == d.up
             new == [c[p] EXCEPT !.kids = <<id>> \o @]
             b   == [c EXCEPT ![p] = new]
             l   == Append(b, d)
  <1>1. c \in Seq(Dentries) /\ n \in Nat /\ n >= Tty /\ id \in Nat /\ p \in 1..n
    BY DEF CacheOK
  <1>2. c[p] \in Dentries /\ c[p].kids \in Seq(Nat)
    <2>1. c[p] \in Dentries
      BY <1>1
    <2> QED
      BY <2>1 DEF Dentries
  <1>3. /\ <<id>> \o c[p].kids \in Seq(Nat)
        /\ Len(<<id>> \o c[p].kids) = 1 + Len(c[p].kids)
        /\ \A k \in 1..(1 + Len(c[p].kids)) :
              (<<id>> \o c[p].kids)[k] = IF k = 1 THEN id ELSE c[p].kids[k - 1]
    BY <1>1, <1>2, HeadOn
  <1>4. /\ new \in Dentries /\ new.kids = <<id>> \o c[p].kids
        /\ new.up = c[p].up /\ new.kind = c[p].kind /\ new.cluster = c[p].cluster
        /\ new.covered = c[p].covered /\ new.live = c[p].live
    BY <1>2, <1>3 DEF Dentries
  <1>5. Linked(c, d) = l
    BY Zenon DEF Linked
  <1> HIDE DEF new, id
  <1>6. b \in Seq(Dentries) /\ Len(b) = n /\ \A i \in 1..n : b[i] = IF i = p THEN new ELSE c[i]
    BY <1>1, <1>4
  <1> HIDE DEF b
  <1>7. /\ l \in Seq(Dentries) /\ Len(l) = n + 1 /\ l[n + 1] = d
        /\ \A i \in 1..n : l[i] = IF i = p THEN new ELSE c[i]
    BY <1>1, <1>6, AppendProperties
  <1> HIDE DEF l, n
  <1>8. Grows(c, l)
    BY <1>1, <1>4, <1>7 DEF Grows, n
  <1>9. AllLive(c) => AllLive(l)
    <2>1. \A i \in 1..(n + 1) : i \in 1..n \/ i = n + 1
      BY <1>1
    <2> QED
      BY <1>4, <1>7, <2>1 DEF AllLive, n
  <1>10. ASSUME NEW i \in 1..n
         PROVE  /\ l[i].up = c[i].up /\ l[i].kind = c[i].kind /\ l[i].cluster = c[i].cluster
                /\ l[i].covered = c[i].covered
    BY <1>4, <1>7
  <1>11. /\ c \in Seq(Dentries)
         /\ \A i \in 1..n :
             /\ c[i].up \in 0..n /\ c[i].covered \in 0..n
             /\ \A k \in 1..Len(c[i].kids) : c[i].kids[k] \in 1..n /\ c[c[i].kids[k]].up = i
             /\ c[i].kind = "dir" => c[i].cluster \in Clusters
             /\ c[i].kind = "file" => c[i].up # Null /\ c[c[i].up].kind = "dir"
    BY DEF CacheOK, n
  <1>12. ASSUME NEW i \in 1..n
         PROVE  /\ l[i].up \in 0..(n + 1) /\ l[i].covered \in 0..(n + 1)
                /\ \A k \in 1..Len(l[i].kids) :
                     l[i].kids[k] \in 1..(n + 1) /\ l[l[i].kids[k]].up = i
                /\ l[i].kind = "dir" => l[i].cluster \in Clusters
                /\ l[i].kind = "file" => l[i].up # Null /\ l[l[i].up].kind = "dir"
    <2>1. l[i].up \in 0..(n + 1) /\ l[i].covered \in 0..(n + 1)
      BY <1>1, <1>10, <1>11
    <2>2. l[i].kind = "dir" => l[i].cluster \in Clusters
      BY <1>10, <1>11
    <2>3. l[i].kind = "file" => l[i].up # Null /\ l[l[i].up].kind = "dir"
      <3>1. l[i].kind = "file" => c[i].up \in 1..n
        <4>1. c[i].up \in 0..n /\ (c[i].kind = "file" => c[i].up # 0)
          BY <1>11, ConstantFacts
        <4>2. c[i].kind = "file" => c[i].up \in 1..n
          BY <1>1, <4>1
        <4> QED
          BY <1>10, <4>2
      <3> QED
        BY <1>10, <1>11, <3>1
    <2>4. ASSUME NEW k \in 1..Len(l[i].kids)
          PROVE  l[i].kids[k] \in 1..(n + 1) /\ l[l[i].kids[k]].up = i
      <3>1. CASE i # p
        <4>1. l[i].kids = c[i].kids
          BY <1>7, <3>1
        <4>2. c[i].kids[k] \in 1..n /\ c[c[i].kids[k]].up = i
          BY <1>11, <2>4, <4>1
        <4> QED
          BY <1>1, <1>10, <4>1, <4>2
      <3>2. CASE i = p
        <4>1. l[i].kids = <<id>> \o c[p].kids /\ Len(c[p].kids) \in Nat
          <5>1. l[i] = new /\ Len(c[p].kids) \in Nat
            BY <1>2, <1>7, <3>2
          <5> QED
            BY <1>4, <5>1
        <4>2. k \in 1..(1 + Len(c[p].kids))
          BY <1>3, <4>1
        <4>3. CASE k = 1
          <5>1. l[i].kids[k] = n + 1
            BY <1>3, <4>1, <4>2, <4>3 DEF id
          <5> QED
            BY <1>1, <1>7, <3>2, <5>1
        <4>4. CASE k # 1
          <5>1. k - 1 \in 1..Len(c[p].kids)
            BY <4>1, <4>2, <4>4
          <5>2. l[i].kids[k] = c[p].kids[k - 1]
            BY <1>3, <4>1, <4>2, <4>4
          <5>3. c[p].kids[k - 1] \in 1..n /\ c[c[p].kids[k - 1]].up = p
            BY <1>1, <1>11, <5>1
          <5> QED
            BY <1>1, <1>10, <3>2, <5>2, <5>3
        <4> QED
          BY <4>3, <4>4
      <3> QED
        BY <3>1, <3>2
    <2> QED
      BY <2>1, <2>2, <2>3, <2>4
  <1>13. /\ d.up \in 0..(n + 1) /\ d.covered \in 0..(n + 1) /\ d.kids = <<>>
         /\ d.kind = "dir" => d.cluster \in Clusters
         /\ d.kind = "file" => d.up # Null /\ l[d.up].kind = "dir"
    BY <1>1, <1>10, ConstantFacts DEF p
  <1>14. CacheOK(l)
    <2>1. Len(l) >= Tty
      BY <1>1, <1>7, ConstantFacts
    <2>2. \A i \in 1..Len(l) : i \in 1..n \/ i = n + 1
      BY <1>1, <1>7
    <2>3. \A k \in 1..Len(d.kids) : FALSE
      BY <1>13
    <2>4. \A i \in 1..Len(l) :
         /\ l[i].up \in 0..Len(l) /\ l[i].covered \in 0..Len(l)
         /\ \A k \in 1..Len(l[i].kids) :
              l[i].kids[k] \in 1..Len(l) /\ l[l[i].kids[k]].up = i
         /\ l[i].kind = "dir" => l[i].cluster \in Clusters
         /\ l[i].kind = "file" => l[i].up # Null /\ l[l[i].up].kind = "dir"
      BY <1>7, <1>12, <1>13, <2>2, <2>3
    <2> QED
      BY <1>7, <2>1, <2>4 DEF CacheOK
  <1> QED
    BY <1>5, <1>7, <1>8, <1>9, <1>14 DEF n

LEMMA DentryIs ==
    ASSUME NEW name \in Words, NEW up \in Nat, NEW kind \in Kinds, NEW cluster \in Nat,
           NEW size \in 0..MaxSize, NEW slot \in Nat
    PROVE  LET d == Dentry(name, up, kind, cluster, size, slot)
           IN  /\ d \in Dentries /\ d.up = up /\ d.kind = kind /\ d.cluster = cluster
               /\ d.kids = <<>> /\ d.covered = Null /\ d.live
  <1>1. <<>> \in Seq(Nat) /\ Null \in Nat
    BY ConstantFacts
  <1> QED
    BY <1>1 DEF Dentry, Dentries

\* The first slot that answers to a name holds an entry with a cluster.
LEMMA MatchIs ==
    ASSUME NEW dk, DiskOK(dk), NEW c \in Clusters, NEW name, Matching(dk, c, name) # {}
    PROVE  LET i == Least(Matching(dk, c, name))
           IN  /\ i \in 1..Len(dk[c]) /\ i \in Nat
               /\ dk[c][i] \in Entries /\ dk[c][i].cluster \in Clusters
  <1> DEFINE i == Least(Matching(dk, c, name))
  <1>1. dk[c] \in Seq(Entries)
    BY DEF DiskOK
  <1>2. Used(dk, c) \subseteq 1..Len(dk[c]) /\ Matching(dk, c, name) \subseteq Used(dk, c)
    BY DEF Used, Matching
  <1>3. Matching(dk, c, name) \in SUBSET Nat
    BY <1>1, <1>2
  <1>4. i \in Matching(dk, c, name)
    BY <1>3, LeastIs
  <1> HIDE DEF i
  <1>5. i \in Used(dk, c) /\ i \in 1..Len(dk[c])
    BY <1>2, <1>4
  <1>6. dk[c][i] \in Entries /\ i \in Nat
    BY <1>1, <1>5
  <1>7. dk[c][i].cluster \in Clusters
    BY <1>5 DEF DiskOK
  <1> QED
    BY <1>5, <1>6, <1>7 DEF i

LEMMA CachedOK ==
    ASSUME DiskOK(disk), NEW c, CacheOK(c), NEW at \in 1..Len(c), NEW name \in Words
    PROVE  /\ CacheOK(Cached(c, at, name)) /\ Grows(c, Cached(c, at, name))
           /\ AllLive(c) => AllLive(Cached(c, at, name))
  <1> DEFINE slots == Matching(disk, c[at].cluster, name)
             i == Least(slots)
             e == disk[c[at].cluster][i]
             d == Dentry(name, at, e.kind, e.cluster, e.size, i)
  <1>1. c \in Seq(Dentries) /\ Grows(c, c)
    BY GrowsSelf DEF CacheOK
  <1>2. CASE c[at].kind # "dir" \/ slots = {}
    <2>1. Cached(c, at, name) = c
      BY <1>2 DEF Cached
    <2> QED
      BY <1>1, <2>1
  <1>3. CASE c[at].kind = "dir" /\ slots # {}
    <2>1. Cached(c, at, name) = Linked(c, d)
      BY <1>3, Zenon DEF Cached
    <2>2. c[at].cluster \in Clusters
      BY <1>3 DEF CacheOK
    <2>3. i \in Nat /\ e \in Entries /\ e.cluster \in Clusters
      BY <1>3, <2>2, MatchIs
    <2> HIDE DEF slots, i, e
    <2>4. e.kind \in Kinds /\ e.cluster \in Nat /\ e.size \in 0..MaxSize
      BY <2>3 DEF Entries, Kinds
    <2>5. at \in Nat
      BY <1>1
    <2>6. /\ d \in Dentries /\ d.up = at /\ d.kind = e.kind /\ d.cluster = e.cluster
          /\ d.kids = <<>> /\ d.covered = Null /\ d.live
      BY <2>3, <2>4, <2>5, DentryIs
    <2> HIDE DEF d
    <2>7. CacheOK(Linked(c, d)) /\ Grows(c, Linked(c, d)) /\ (AllLive(c) => AllLive(Linked(c, d)))
      BY <1>3, <2>3, <2>6, LinkedOK
    <2> QED
      BY <2>1, <2>7
  <1> QED
    BY <1>2, <1>3

-----------------------------------------------------------------------------
(* Walks.                                                                   *)

LEMMA ComponentOK ==
    ASSUME DiskOK(disk), NEW c \in Seq(Dentries), NEW w, WalkOK(c, w), NEW name \in Words
    PROVE  WalkOK(c, Component(w, name))
  <1> DEFINE here  == w.cache[w.at]
             cache == IF KidsNamed(w.cache, w.at, name) = {} THEN Cached(w.cache, w.at, name)
                      ELSE w.cache
             kids  == KidsNamed(cache, w.at, name)
             v     == Component(w, name)
  <1>1. /\ w \in Walks /\ CacheOK(w.cache) /\ Grows(c, w.cache) /\ w.at \in 1..Len(w.cache)
        /\ w.cache \in Seq(Dentries)
        /\ AllLive(c) => AllLive(w.cache) /\ w.end # "wild"
    BY DEF WalkOK, CacheOK
  <1>2. /\ CacheOK(cache) /\ Grows(w.cache, cache) /\ cache \in Seq(Dentries)
        /\ AllLive(w.cache) => AllLive(cache)
    <2>1. CASE KidsNamed(w.cache, w.at, name) = {}
      <3>1. cache = Cached(w.cache, w.at, name)
        BY <2>1
      <3>2. CacheOK(cache) /\ Grows(w.cache, cache) /\ (AllLive(w.cache) => AllLive(cache))
        BY <1>1, <3>1, CachedOK
      <3>3. cache \in Seq(Dentries)
        BY <3>2 DEF CacheOK
      <3> QED
        BY <3>2, <3>3
    <2>2. CASE KidsNamed(w.cache, w.at, name) # {}
      <3>1. cache = w.cache
        BY <2>2
      <3> QED
        BY <1>1, <3>1, GrowsSelf
    <2> QED
      BY <2>1, <2>2
  <1>3. v = IF w.end # "at" THEN w
            ELSE IF ~here.live THEN [w EXCEPT !.end = "wild"]
            ELSE IF ~IsDirectory(here) THEN [w EXCEPT !.end = "none"]
            ELSE IF name = "." THEN w
            ELSE IF name = ".." THEN [w EXCEPT !.at = IF here.up # Null THEN here.up ELSE @]
            ELSE IF kids = {} THEN [w EXCEPT !.end = "none"]
            ELSE [cache |-> cache, end |-> "at",
                  at |-> Through(cache, cache[w.at].kids[Least(kids)])]
    BY Zenon DEF Component
  <1>4. here \in Dentries /\ here.up \in 0..Len(w.cache)
    BY <1>1 DEF CacheOK
  <1> HIDE DEF v, cache, here
  <1>5. CASE v = w
    BY <1>5 DEF v
  <1>6. CASE v = [w EXCEPT !.end = "none"]
    <2>1. v \in Walks /\ v.cache = w.cache /\ v.at = w.at /\ v.end = "none"
      BY <1>1, <1>6 DEF Walks
    <2> QED
      BY <1>1, <2>1 DEF WalkOK, v
  <1>7. CASE v = [w EXCEPT !.end = "wild"] /\ ~here.live
    <2>1. v \in Walks /\ v.cache = w.cache /\ v.at = w.at
      BY <1>1, <1>7 DEF Walks
    <2>2. ~AllLive(w.cache)
      BY <1>1, <1>7 DEF AllLive, here
    <2> QED
      BY <1>1, <2>1, <2>2 DEF WalkOK, v
  <1>8. CASE v = [w EXCEPT !.at = IF here.up # Null THEN here.up ELSE @]
    <2>1. \E a \in 1..Len(w.cache) : v = [w EXCEPT !.at = a]
      <3>1. here.up # Null => here.up \in 1..Len(w.cache)
        BY <1>1, <1>4, ConstantFacts
      <3> QED
        BY <1>1, <1>8, <3>1
    <2>2. PICK a \in 1..Len(w.cache) : v = [w EXCEPT !.at = a]
      BY <2>1
    <2>3. v \in Walks /\ v.cache = w.cache /\ v.at = a /\ v.end = w.end
      BY <1>1, <2>2 DEF Walks
    <2> QED
      BY <1>1, <2>3 DEF WalkOK, v
  <1>9. CASE /\ kids # {}
             /\ v = [cache |-> cache, end |-> "at",
                     at |-> Through(cache, cache[w.at].kids[Least(kids)])]
    <2> DEFINE k == Least(kids)
               d == cache[w.at].kids[k]
    <2>1. w.at \in 1..Len(cache) /\ cache[w.at] \in Dentries
      BY <1>1, <1>2 DEF Grows
    <2>2. kids \in SUBSET Nat /\ kids \subseteq 1..Len(cache[w.at].kids)
      <3>1. cache[w.at].kids \in Seq(Nat)
        BY <2>1 DEF Dentries
      <3> QED
        BY <3>1 DEF KidsNamed
    <2>3. k \in 1..Len(cache[w.at].kids)
      BY <1>9, <2>2, LeastIs
    <2> HIDE DEF k
    <2>4. d \in 1..Len(cache)
      BY <1>2, <2>1, <2>3 DEF CacheOK
    <2> HIDE DEF d
    <2>5. Through(cache, d) \in 1..Len(cache)
      <3>1. cache[d].covered \in 0..Len(cache) /\ Len(cache) \in Nat
        BY <1>2, <2>4 DEF CacheOK
      <3>2. cache[d].covered # Null => cache[d].covered \in 1..Len(cache)
        BY <3>1, ConstantFacts
      <3> QED
        BY <2>4, <3>2 DEF Through
    <2>6. v = [cache |-> cache, end |-> "at", at |-> Through(cache, d)]
      BY <1>9 DEF d, k
    <2>7. v \in Walks /\ v.cache = cache /\ v.end = "at" /\ v.at \in 1..Len(cache)
      BY <1>2, <2>5, <2>6 DEF Walks
    <2>8. Grows(c, cache)
      BY <1>1, <1>2, GrowsOn
    <2> QED
      BY <1>1, <1>2, <2>7, <2>8 DEF WalkOK, v
  <1> QED
    BY <1>3, <1>5, <1>6, <1>7, <1>8, <1>9

\* f holds the walk from start after each of the first n components.
IsWalk(f, n, start, steps) ==
    f = [i \in 0..n |-> IF i = 0 THEN start ELSE Component(f[i - 1], steps[i])]

\* A walk is defined along its components.
LEMMA WalkDefined ==
    ASSUME NEW start, NEW steps, Len(steps) \in Nat
    PROVE  \E f : IsWalk(f, Len(steps), start, steps)
  <1> DEFINE n == Len(steps)
             Is(f, m) == IsWalk(f, m, start, steps)
             Bad == {m \in Nat : ~ \E f : Is(f, m)}
  <1>1. n \in Nat
    OBVIOUS
  <1>2. SUFFICES ASSUME Bad # {}
                 PROVE  FALSE
    BY <1>1
  <1> DEFINE m == Least(Bad)
  <1> HIDE DEF Is
  <1>3. Bad \in SUBSET Nat
    OBVIOUS
  <1>4. m \in Bad /\ \A j \in Bad : m <= j
    BY <1>2, <1>3, LeastIs
  <1> HIDE DEF m
  <1>5. m # 0
    <2>1. Is([i \in 0..0 |-> start], 0)
      <3>1. \A i \in 0..0 : i = 0
        OBVIOUS
      <3> QED
        BY <3>1 DEF Is, IsWalk
    <2> QED
      BY <1>4, <2>1
  <1>6. m \in Nat /\ m - 1 \in Nat /\ m - 1 \notin Bad
    BY <1>4, <1>5
  <1>7. PICK g : Is(g, m - 1)
    BY <1>6
  <1> DEFINE h == [i \in 0..m |-> IF i = m THEN Component(g[m - 1], steps[m]) ELSE g[i]]
  <1>8. Is(h, m)
    <2>1. \A i \in 0..(m - 1) : g[i] = IF i = 0 THEN start ELSE Component(g[i - 1], steps[i])
      BY <1>7 DEF Is, IsWalk
    <2>2. \A i \in 0..m : h[i] = IF i = 0 THEN start ELSE Component(h[i - 1], steps[i])
      <3> TAKE i \in 0..m
      <3>1. h[i] = IF i = m THEN Component(g[m - 1], steps[m]) ELSE g[i]
        OBVIOUS
      <3>2. i # 0 => i - 1 \in 0..m /\ i - 1 # m
        BY <1>6
      <3>3. i # 0 => h[i - 1] = g[i - 1]
        BY <3>2
      <3> HIDE DEF h
      <3>4. i # m => i \in 0..(m - 1)
        BY <1>6
      <3> QED
        BY <1>5, <2>1, <3>1, <3>3, <3>4
    <2> QED
      BY <2>2 DEF Is, IsWalk
  <1> QED
    BY <1>4, <1>8

\* A walk from a good place comes to a good place.
LEMMA WalkOnOK ==
    ASSUME DiskOK(disk), NEW cache, CacheOK(cache), NEW p \in Tasks,
           task[p].cwd \in 1..Len(cache), NEW abs \in BOOLEAN, NEW steps \in Seq(Words)
    PROVE  WalkOK(cache, WalkOn(cache, p, abs, steps))
  <1> DEFINE start == [cache |-> cache, end |-> "at", at |-> IF abs THEN Root ELSE task[p].cwd]
             n == Len(steps)
             walk == CHOOSE f : f = [i \in 0..n |->
                                      IF i = 0 THEN start ELSE Component(f[i - 1], steps[i])]
             w == walk[n]
             v == WalkOn(cache, p, abs, steps)
  <1>1. v = IF w.end = "at" /\ ~w.cache[w.at].live THEN [w EXCEPT !.end = "wild"] ELSE w
    BY Zenon DEF WalkOn
  <1>2. walk = [i \in 0..n |-> IF i = 0 THEN start ELSE Component(walk[i - 1], steps[i])]
    <2>1. PICK s : s = start
      OBVIOUS
    <2> HIDE DEF start
    <2>2. \E f : IsWalk(f, n, s, steps)
      <3>1. Len(steps) \in Nat
        OBVIOUS
      <3> QED
        BY <3>1, WalkDefined
    <2>3. \E f : IsWalk(f, n, start, steps)
      BY <2>1, <2>2
    <2> QED
      BY <2>3, Zenon DEF IsWalk
  <1> HIDE DEF walk, v
  <1>3. n \in Nat /\ \A i \in 1..n : steps[i] \in Words
    OBVIOUS
  <1>4. \A i \in 0..n : walk[i] = IF i = 0 THEN start ELSE Component(walk[i - 1], steps[i])
    BY <1>2
  <1>5. cache \in Seq(Dentries) /\ Len(cache) \in Nat /\ Len(cache) >= 4
    BY ConstantFacts DEF CacheOK
  <1>6. WalkOK(cache, start)
    <2>1. start \in Walks /\ start.cache = cache /\ start.end = "at" /\ start.at \in 1..Len(cache)
      BY <1>5, ConstantFacts DEF Walks
    <2> HIDE DEF start
    <2> QED
      BY <1>5, <2>1, GrowsSelf DEF WalkOK
  <1> HIDE DEF start
  <1> DEFINE Bad == {i \in 0..n : ~WalkOK(cache, walk[i])}
  <1>7. Bad = {}
    <2>1. SUFFICES ASSUME Bad # {}
                   PROVE  FALSE
      OBVIOUS
    <2> DEFINE i == Least(Bad)
    <2>2. Bad \in SUBSET Nat
      OBVIOUS
    <2>3. i \in Bad /\ \A j \in Bad : i <= j
      BY <2>1, <2>2, LeastIs
    <2> HIDE DEF i
    <2>4. i # 0
      BY <1>3, <1>4, <1>6, <2>3
    <2>5. i \in 1..n /\ i - 1 \in 0..n /\ i - 1 \notin Bad
      BY <1>3, <2>3, <2>4
    <2>6. WalkOK(cache, walk[i - 1]) /\ walk[i] = Component(walk[i - 1], steps[i])
      BY <1>4, <2>4, <2>5
    <2>7. WalkOK(cache, walk[i])
      BY <1>3, <1>5, <2>5, <2>6, ComponentOK
    <2> QED
      BY <2>3, <2>7
  <1>8. WalkOK(cache, w)
    BY <1>3, <1>7
  <1> HIDE DEF w
  <1>9. CASE v = w
    BY <1>8, <1>9 DEF v
  <1>10. CASE ~w.cache[w.at].live /\ v = [w EXCEPT !.end = "wild"]
    <2>1. v \in Walks /\ v.cache = w.cache /\ v.at = w.at
      BY <1>8, <1>10 DEF WalkOK, Walks
    <2>2. ~AllLive(w.cache)
      BY <1>8, <1>10 DEF AllLive, WalkOK
    <2> QED
      BY <1>8, <2>1, <2>2 DEF WalkOK, v
  <1> QED
    BY <1>1, <1>9, <1>10

-----------------------------------------------------------------------------
(* The disk.                                                                *)

LEMMA HoleIs == Hole \in Entries
  <1>1. 0 \in Nat /\ 0 \in 0..MaxSize
    BY ConstantFacts
  <1> QED
    BY <1>1 DEF Hole, Entries

LEMMA UsedIs ==
    ASSUME NEW dk \in [Clusters -> Seq(Entries)], NEW c \in Clusters, NEW i
    PROVE  i \in Used(dk, c) <=> i \in 1..Len(dk[c]) /\ dk[c][i].name # Hole.name
  BY DEF Used

\* A directory is rewritten with entries whose clusters are the disk's.
LEMMA RewrittenOK ==
    ASSUME NEW dk, DiskOK(dk), NEW c \in Clusters, NEW s \in Seq(Entries),
           \A i \in 1..Len(s) : s[i].name # Hole.name => s[i].cluster \in Clusters
    PROVE  DiskOK([dk EXCEPT ![c] = s])
  <1> DEFINE dl == [dk EXCEPT ![c] = s]
  <1>1. dk \in [Clusters -> Seq(Entries)]
    BY DEF DiskOK
  <1>2. dl \in [Clusters -> Seq(Entries)] /\ \A b \in Clusters : dl[b] = IF b = c THEN s ELSE dk[b]
    BY <1>1
  <1> HIDE DEF dl
  <1>3. ASSUME NEW b \in Clusters, NEW i \in Used(dl, b)
        PROVE  dl[b][i].cluster \in Clusters
    <2>1. i \in 1..Len(dl[b]) /\ dl[b][i].name # Hole.name
      BY <1>2, <1>3, UsedIs
    <2>2. CASE b = c
      BY <1>2, <2>1, <2>2
    <2>3. CASE b # c
      <3>1. dl[b] = dk[b]
        BY <1>2, <2>3
      <3>2. i \in Used(dk, b)
        BY <1>1, <2>1, <3>1, UsedIs
      <3> QED
        BY <3>1, <3>2 DEF DiskOK
    <2> QED
      BY <2>2, <2>3
  <1> QED
    BY <1>2, <1>3 DEF DiskOK, dl

\* The entries of a directory.
LEMMA SlotsAre ==
    ASSUME NEW dk, DiskOK(dk), NEW c \in Clusters
    PROVE  /\ dk \in [Clusters -> Seq(Entries)] /\ dk[c] \in Seq(Entries) /\ Len(dk[c]) \in Nat
           /\ \A i \in 1..Len(dk[c]) : dk[c][i].name # Hole.name => dk[c][i].cluster \in Clusters
  <1>1. dk \in [Clusters -> Seq(Entries)]
    BY DEF DiskOK
  <1>2. \A i \in 1..Len(dk[c]) : dk[c][i].name # Hole.name => dk[c][i].cluster \in Clusters
    BY <1>1, UsedIs DEF DiskOK
  <1> QED
    BY <1>1, <1>2

LEMMA EntryPut ==
    ASSUME NEW dk, DiskOK(dk), NEW c \in Clusters, NEW i \in 1..Len(dk[c]), NEW e \in Entries,
           e.name # Hole.name => e.cluster \in Clusters
    PROVE  DiskOK([dk EXCEPT ![c][i] = e])
  <1> DEFINE s == [dk[c] EXCEPT ![i] = e]
  <1>1. /\ dk \in [Clusters -> Seq(Entries)] /\ dk[c] \in Seq(Entries) /\ Len(dk[c]) \in Nat
        /\ \A k \in 1..Len(dk[c]) : dk[c][k].name # Hole.name => dk[c][k].cluster \in Clusters
    BY SlotsAre
  <1>2. /\ s \in Seq(Entries) /\ Len(s) = Len(dk[c])
        /\ \A k \in 1..Len(s) : s[k] = IF k = i THEN e ELSE dk[c][k]
    <2>1. PICK t \in Seq(Entries) : t = dk[c]
      BY <1>1
    <2>2. i \in 1..Len(t)
      BY <2>1
    <2>3. /\ [t EXCEPT ![i] = e] \in Seq(Entries) /\ Len([t EXCEPT ![i] = e]) = Len(t)
          /\ \A k \in 1..Len(t) : [t EXCEPT ![i] = e][k] = IF k = i THEN e ELSE t[k]
      BY <2>2, ExceptSeq
    <2> QED
      BY <2>1, <2>3
  <1>3. [dk EXCEPT ![c][i] = e] = [dk EXCEPT ![c] = s]
    BY <1>1
  <1> HIDE DEF s
  <1>4. \A k \in 1..Len(s) : s[k].name # Hole.name => s[k].cluster \in Clusters
    BY <1>1, <1>2
  <1> QED
    BY <1>2, <1>3, <1>4, RewrittenOK

LEMMA PlaceIs ==
    ASSUME NEW dk, DiskOK(dk), NEW c \in Clusters
    PROVE  /\ PlaceIn(dk, c) \in Nat \ {0}
           /\ PlaceIn(dk, c) > Len(dk[c]) => PlaceIn(dk, c) = Len(dk[c]) + 1
  <1> DEFINE holes == (1..Len(dk[c])) \ Used(dk, c)
  <1>1. PlaceIn(dk, c) = IF holes = {} THEN Len(dk[c]) + 1 ELSE Least(holes)
    BY Zenon DEF PlaceIn
  <1>2. Len(dk[c]) \in Nat
    BY SlotsAre
  <1>3. holes \in SUBSET Nat /\ holes \subseteq 1..Len(dk[c])
    BY <1>2
  <1> HIDE DEF holes
  <1>4. holes # {} => Least(holes) \in 1..Len(dk[c])
    BY <1>3, LeastIs
  <1> QED
    BY <1>1, <1>2, <1>4

LEMMA WithEntryOK ==
    ASSUME NEW dk, DiskOK(dk), NEW c \in Clusters, NEW e \in Entries, e.cluster \in Clusters
    PROVE  DiskOK(WithEntry(dk, c, e))
  <1> DEFINE i == PlaceIn(dk, c)
             s == Append(dk[c], e)
  <1>1. /\ dk \in [Clusters -> Seq(Entries)] /\ dk[c] \in Seq(Entries) /\ Len(dk[c]) \in Nat
        /\ \A k \in 1..Len(dk[c]) : dk[c][k].name # Hole.name => dk[c][k].cluster \in Clusters
    BY SlotsAre
  <1>2. WithEntry(dk, c, e)
          = [dk EXCEPT ![c] = IF i > Len(@) THEN Append(@, e) ELSE [@ EXCEPT ![i] = e]]
    BY Zenon DEF WithEntry
  <1>3. i \in Nat \ {0}
    BY PlaceIs
  <1> HIDE DEF i
  <1>4. CASE i > Len(dk[c])
    <2>1. WithEntry(dk, c, e) = [dk EXCEPT ![c] = s]
      BY <1>1, <1>2, <1>4
    <2>2. /\ s \in Seq(Entries) /\ Len(s) = Len(dk[c]) + 1 /\ s[Len(dk[c]) + 1] = e
          /\ \A k \in 1..Len(dk[c]) : s[k] = dk[c][k]
      BY <1>1, AppendProperties
    <2> HIDE DEF s
    <2>3. \A k \in 1..Len(s) : k \in 1..Len(dk[c]) \/ k = Len(dk[c]) + 1
      BY <1>1, <2>2
    <2>4. \A k \in 1..Len(s) : s[k].name # Hole.name => s[k].cluster \in Clusters
      BY <1>1, <2>2, <2>3
    <2>5. DiskOK([dk EXCEPT ![c] = s])
      BY <2>2, <2>4, RewrittenOK
    <2> QED
      BY <2>1, <2>5
  <1>5. CASE ~(i > Len(dk[c]))
    <2>1. WithEntry(dk, c, e) = [dk EXCEPT ![c][i] = e]
      BY <1>1, <1>2, <1>5
    <2>2. i \in 1..Len(dk[c])
      BY <1>1, <1>3, <1>5
    <2>3. DiskOK([dk EXCEPT ![c][i] = e])
      BY <2>2, EntryPut
    <2> QED
      BY <2>1, <2>3
  <1> QED
    BY <1>4, <1>5

\* What create and mkdir make of the disk.
LEMMA MadeOK ==
    ASSUME DiskOK(disk), taken \subseteq Clusters, NEW c \in Clusters, NEW name \in Words,
           NEW kind \in {"file", "dir"}
    PROVE  LET new == Made(c, name, kind)
           IN  /\ DiskOK(new.disk) /\ new.taken \subseteq Clusters
               /\ new.ok => Least(Clusters \ taken) \in Clusters
  <1> DEFINE new  == Made(c, name, kind)
             free == Clusters \ taken
             n    == Least(free)
             e    == [name |-> name, kind |-> kind, cluster |-> n, size |-> 0]
             dk   == WithEntry(disk, c, e)
  <1>1. new = IF Matching(disk, c, name) # {} \/ free = {}
              THEN [disk |-> disk, taken |-> taken, ok |-> FALSE]
              ELSE [disk |-> [dk EXCEPT ![n] = <<>>], taken |-> taken \cup {n}, ok |-> TRUE]
    BY Zenon DEF Made
  <1>2. free \in SUBSET Nat /\ free \subseteq Clusters
    BY ConstantFacts
  <1> HIDE DEF new, free
  <1>3. CASE Matching(disk, c, name) # {} \/ free = {}
    <2>1. new.disk = disk /\ new.taken = taken /\ new.ok = FALSE
      BY <1>1, <1>3
    <2> QED
      BY <2>1 DEF new
  <1>4. CASE ~(Matching(disk, c, name) # {} \/ free = {})
    <2>1. n \in Clusters /\ n \in Nat
      BY <1>2, <1>4, LeastIs
    <2>2. new.disk = [dk EXCEPT ![n] = <<>>] /\ new.taken = taken \cup {n}
      BY <1>1, <1>4
    <2> HIDE DEF n
    <2>3. e \in Entries /\ e.cluster \in Clusters
      BY <2>1, ConstantFacts DEF Entries
    <2> HIDE DEF e
    <2>4. DiskOK(dk)
      BY <2>3, WithEntryOK
    <2>5. DiskOK([dk EXCEPT ![n] = <<>>])
      <3>1. <<>> \in Seq(Entries) /\ \A k \in 1..Len(<<>>) : FALSE
        OBVIOUS
      <3> HIDE DEF dk
      <3> QED
        BY <2>1, <2>4, <3>1, RewrittenOK
    <2> QED
      BY <2>1, <2>2, <2>5 DEF new, n, free
  <1> QED
    BY <1>3, <1>4

\* The entry of a file is found again at its slot.
LEMMA SizedOK ==
    ASSUME NEW dk, DiskOK(dk), CacheOK(dentry), NEW id \in 1..Len(dentry),
           dentry[id].kind = "file", NEW size \in 0..MaxSize
    PROVE  DiskOK(Sized(dk, dentry[id], size))
  <1> DEFINE c == dentry[dentry[id].up].cluster
             i == dentry[id].slot
             e == [dk[c][i] EXCEPT !.size = size]
  <1>1. Sized(dk, dentry[id], size) = [dk EXCEPT ![c][i].size = size]
    BY DEF Sized
  <1>2. c \in Clusters
    <2>1. /\ dentry \in Seq(Dentries)
          /\ \A d \in 1..Len(dentry) :
                /\ dentry[d].up \in 0..Len(dentry)
                /\ dentry[d].kind = "dir" => dentry[d].cluster \in Clusters
                /\ dentry[d].kind = "file" => dentry[d].up # Null /\ dentry[dentry[d].up].kind = "dir"
      BY DEF CacheOK
    <2>2. dentry[id].up \in 1..Len(dentry) /\ dentry[dentry[id].up].kind = "dir"
      BY <2>1, ConstantFacts
    <2> QED
      BY <2>1, <2>2
  <1> HIDE DEF c, i
  <1>3. /\ dk \in [Clusters -> Seq(Entries)] /\ dk[c] \in Seq(Entries)
        /\ \A k \in 1..Len(dk[c]) : dk[c][k].name # Hole.name => dk[c][k].cluster \in Clusters
    BY <1>2, SlotsAre
  <1>4. CASE i \in 1..Len(dk[c])
    <2>1. dk[c][i] \in Entries
      BY <1>3, <1>4
    <2>2. e \in Entries /\ e.name = dk[c][i].name /\ e.cluster = dk[c][i].cluster
      BY <2>1 DEF Entries
    <2>3. [dk EXCEPT ![c][i].size = size] = [dk EXCEPT ![c][i] = e]
      OBVIOUS
    <2> HIDE DEF e
    <2>4. DiskOK([dk EXCEPT ![c][i] = e])
      BY <1>2, <1>3, <1>4, <2>2, EntryPut
    <2> QED
      BY <1>1, <2>3, <2>4
  <1>5. CASE i \notin 1..Len(dk[c])
    <2>1. PICK s \in Seq(Entries) : s = dk[c]
      BY <1>3
    <2>2. [s EXCEPT ![i].size = size] = s
      BY <1>5, <2>1
    <2>3. [dk EXCEPT ![c][i].size = size] = [dk EXCEPT ![c] = [s EXCEPT ![i].size = size]]
      BY <2>1
    <2>4. [dk EXCEPT ![c] = s] = dk
      BY <1>3, <2>1
    <2> QED
      BY <1>1, <2>2, <2>3, <2>4
  <1> QED
    BY <1>4, <1>5

-----------------------------------------------------------------------------
(* The cache after a removal.                                               *)

\* One cache goes on from another: what a dentry is stays.
Keeps(c, d) == Len(c) <= Len(d) /\ \A i \in 1..Len(c) : d[i].kind = c[i].kind

LEMMA KeepsOn ==
    ASSUME NEW a \in Seq(Dentries), NEW b \in Seq(Dentries), NEW c \in Seq(Dentries),
           Grows(a, b), Keeps(b, c)
    PROVE  Keeps(a, c)
  <1>1. Len(a) \in Nat /\ Len(b) \in Nat /\ Len(c) \in Nat
    OBVIOUS
  <1> QED
    BY <1>1 DEF Grows, Keeps

\* A sequence without its k-th element.
LEMMA WithoutIs ==
    ASSUME NEW q \in Seq(Nat), NEW k \in 1..Len(q)
    PROVE  LET s == SubSeq(q, 1, k - 1) \o SubSeq(q, k + 1, Len(q))
           IN  /\ s \in Seq(Nat) /\ \A j \in 1..Len(s) : \E i \in 1..Len(q) : s[j] = q[i]
               /\ Len(s) = Len(q) - 1
               /\ \A j \in 1..Len(s) : s[j] = IF j < k THEN q[j] ELSE q[j + 1]
  <1> DEFINE a == SubSeq(q, 1, k - 1)
             b == SubSeq(q, k + 1, Len(q))
             s == a \o b
  <1>1. Len(q) \in Nat /\ k \in Nat /\ k >= 1 /\ k <= Len(q)
    OBVIOUS
  <1>2. /\ a \in Seq(Nat) /\ Len(a) = k - 1 /\ \A i \in 1..(k - 1) : a[i] = q[i]
    <2>1. 1 \in Int /\ k - 1 \in Int /\ \A i \in 1..(k - 1) : q[i] \in Nat
      BY <1>1
    <2>2. /\ a \in Seq(Nat) /\ Len(a) = IF 1 <= k - 1 THEN (k - 1) - 1 + 1 ELSE 0
          /\ \A i \in 1..((k - 1) - 1 + 1) : a[i] = q[1 + i - 1]
      BY <2>1, SubSeqProperties
    <2> HIDE DEF a
    <2>3. \A i \in 1..(k - 1) : 1 + i - 1 = i /\ i \in 1..((k - 1) - 1 + 1)
      BY <1>1
    <2> QED
      BY <1>1, <2>2, <2>3
  <1>3. /\ b \in Seq(Nat) /\ Len(b) = Len(q) - k
        /\ \A i \in 1..(Len(q) - k) : b[i] = q[k + i]
    <2>1. k + 1 \in Int /\ Len(q) \in Int /\ \A i \in (k + 1)..Len(q) : q[i] \in Nat
      BY <1>1
    <2>2. /\ b \in Seq(Nat) /\ Len(b) = IF k + 1 <= Len(q) THEN Len(q) - (k + 1) + 1 ELSE 0
          /\ \A i \in 1..(Len(q) - (k + 1) + 1) : b[i] = q[(k + 1) + i - 1]
      BY <2>1, SubSeqProperties
    <2> HIDE DEF b
    <2>3. \A i \in 1..(Len(q) - k) : (k + 1) + i - 1 = k + i /\ i \in 1..(Len(q) - (k + 1) + 1)
      BY <1>1
    <2>4. Len(b) = Len(q) - k
      <3>1. CASE k + 1 <= Len(q)
        <4>1. Len(b) = Len(q) - (k + 1) + 1
          BY <2>2, <3>1
        <4> QED
          BY <1>1, <4>1
      <3>2. CASE ~(k + 1 <= Len(q))
        <4>1. Len(b) = 0 /\ k = Len(q)
          BY <1>1, <2>2, <3>2
        <4> QED
          BY <1>1, <4>1
      <3> QED
        BY <3>1, <3>2
    <2>5. \A i \in 1..(Len(q) - k) : b[i] = q[k + i]
      BY <2>2, <2>3
    <2> QED
      BY <2>2, <2>4, <2>5
  <1> HIDE DEF a, b
  <1>4. /\ s \in Seq(Nat) /\ Len(s) = Len(a) + Len(b)
        /\ \A i \in 1..(Len(a) + Len(b)) : s[i] = IF i <= Len(a) THEN a[i] ELSE b[i - Len(a)]
    BY <1>2, <1>3, ConcatProperties
  <1> HIDE DEF s
  <1>5. ASSUME NEW j \in 1..Len(s)
        PROVE  \E i \in 1..Len(q) : s[j] = q[i]
    <2>1. CASE j <= Len(a)
      <3>1. j \in 1..(k - 1) /\ j \in 1..Len(q)
        BY <1>1, <1>2, <1>3, <1>4, <2>1
      <3>2. s[j] = a[j]
        BY <1>4, <2>1
      <3> QED
        BY <1>2, <3>1, <3>2
    <2>2. CASE ~(j <= Len(a))
      <3>1. /\ j - (k - 1) \in 1..(Len(q) - k) /\ k + (j - (k - 1)) \in 1..Len(q)
            /\ s[j] = b[j - (k - 1)]
        BY <1>1, <1>2, <1>3, <1>4, <2>2
      <3> QED
        BY <1>3, <3>1
    <2> QED
      BY <2>1, <2>2
  <1>6. Len(s) = Len(q) - 1
    BY <1>1, <1>2, <1>3, <1>4
  <1>7. ASSUME NEW j \in 1..Len(s)
        PROVE  s[j] = IF j < k THEN q[j] ELSE q[j + 1]
    <2>1. CASE j < k
      <3>1. j \in 1..(k - 1) /\ j <= Len(a)
        BY <1>1, <1>2, <2>1
      <3>2. s[j] = a[j]
        BY <1>4, <3>1
      <3> QED
        BY <1>2, <2>1, <3>1, <3>2
    <2>2. CASE ~(j < k)
      <3>1. ~(j <= Len(a)) /\ j - Len(a) \in 1..(Len(q) - k) /\ k + (j - Len(a)) = j + 1
        BY <1>1, <1>2, <1>6, <2>2
      <3>2. s[j] = b[j - Len(a)]
        BY <1>4, <3>1
      <3> QED
        BY <1>3, <2>2, <3>1, <3>2
    <2> QED
      BY <2>1, <2>2
  <1> QED
    BY <1>4, <1>5, <1>6, <1>7 DEF s, a, b

\* A dentry is replaced with one that has no new children.
LEMMA ReplacedOK ==
    ASSUME NEW c, CacheOK(c), NEW p \in 1..Len(c), NEW d \in Dentries,
           d.up = c[p].up, d.kind = c[p].kind, d.cluster = c[p].cluster, d.covered = c[p].covered,
           \A j \in 1..Len(d.kids) : \E i \in 1..Len(c[p].kids) : d.kids[j] = c[p].kids[i]
    PROVE  LET b == [c EXCEPT ![p] = d]
           IN  CacheOK(b) /\ Keeps(c, b) /\ Len(b) = Len(c)
  <1> DEFINE n == Len(c)
             b == [c EXCEPT ![p] = d]
  <1>1. /\ c \in Seq(Dentries) /\ n \in Nat /\ n >= Tty
        /\ \A i \in 1..n :
             /\ c[i].up \in 0..n /\ c[i].covered \in 0..n
             /\ \A j \in 1..Len(c[i].kids) : c[i].kids[j] \in 1..n /\ c[c[i].kids[j]].up = i
             /\ c[i].kind = "dir" => c[i].cluster \in Clusters
             /\ c[i].kind = "file" => c[i].up # Null /\ c[c[i].up].kind = "dir"
    BY DEF CacheOK
  <1>2. b \in Seq(Dentries) /\ Len(b) = n /\ \A i \in 1..n : b[i] = IF i = p THEN d ELSE c[i]
    BY <1>1
  <1> HIDE DEF b
  <1>3. \A i \in 1..n : /\ b[i].up = c[i].up /\ b[i].kind = c[i].kind
                        /\ b[i].cluster = c[i].cluster /\ b[i].covered = c[i].covered
    BY <1>2
  <1>4. ASSUME NEW i \in 1..n
        PROVE  /\ b[i].up \in 0..n /\ b[i].covered \in 0..n
               /\ \A j \in 1..Len(b[i].kids) : b[i].kids[j] \in 1..n /\ b[b[i].kids[j]].up = i
               /\ b[i].kind = "dir" => b[i].cluster \in Clusters
               /\ b[i].kind = "file" => b[i].up # Null /\ b[b[i].up].kind = "dir"
    <2>1. \A j \in 1..Len(b[i].kids) : b[i].kids[j] \in 1..n /\ b[b[i].kids[j]].up = i
      <3>1. CASE i # p
        BY <1>1, <1>2, <1>3, <3>1
      <3>2. CASE i = p
        <4>1. b[i].kids = d.kids
          BY <1>2, <3>2
        <4>2. \A j \in 1..Len(d.kids) : d.kids[j] \in 1..n /\ c[d.kids[j]].up = p
          <5> TAKE j \in 1..Len(d.kids)
          <5>1. PICK m \in 1..Len(c[p].kids) : d.kids[j] = c[p].kids[m]
            OBVIOUS
          <5> QED
            BY <1>1, <5>1
        <4>3. \A j \in 1..Len(d.kids) : b[d.kids[j]].up = i
          BY <1>3, <3>2, <4>2
        <4> QED
          BY <4>1, <4>2, <4>3
      <3> QED
        BY <3>1, <3>2
    <2>2. c[i].kind = "file" => c[i].up \in 1..n
      <3>1. c[i].kind = "file" => c[i].up \in 0..n /\ c[i].up # 0
        BY <1>1, ConstantFacts
      <3> QED
        BY <1>1, <3>1
    <2>3. b[i].kind = "file" => b[i].up # Null /\ b[b[i].up].kind = "dir"
      BY <1>1, <1>3, <2>2
    <2> QED
      BY <1>1, <1>3, <2>1, <2>3
  <1>5. Keeps(c, b)
    BY <1>1, <1>2, <1>3 DEF Keeps
  <1>6. CacheOK(b)
    BY <1>1, <1>2, <1>4 DEF CacheOK
  <1> QED
    BY <1>2, <1>5, <1>6 DEF b

LEMMA EvictedOK ==
    ASSUME NEW c, CacheOK(c), NEW at \in 1..Len(c), NEW name \in Words
    PROVE  CacheOK(Evicted(c, at, name)) /\ Keeps(c, Evicted(c, at, name))
  <1> DEFINE kids == KidsNamed(c, at, name)
             k == Least(kids)
             x == c[at].kids[k]
             q == RemoveAt(c[at].kids, k)
             freed == [c[x] EXCEPT !.live = FALSE]
             b == [c EXCEPT ![x] = freed]
             bare == [b[at] EXCEPT !.kids = q]
             e == [b EXCEPT ![at] = bare]
  <1>1. c \in Seq(Dentries) /\ c[at] \in Dentries
    BY DEF CacheOK
  <1>2. CASE kids = {}
    <2>1. Evicted(c, at, name) = c
      BY <1>2 DEF Evicted
    <2>2. Keeps(c, c)
      BY <1>1 DEF Keeps
    <2> QED
      BY <2>1, <2>2
  <1>3. CASE kids # {}
    <2>1. c[at].kids \in Seq(Nat)
      BY <1>1 DEF Dentries
    <2>2. kids \in SUBSET Nat /\ kids \subseteq 1..Len(c[at].kids)
      BY <2>1 DEF KidsNamed
    <2>3. Evicted(c, at, name)
            = [[c EXCEPT ![c[at].kids[k]].live = FALSE] EXCEPT ![at].kids = RemoveAt(@, k)]
      BY <1>3, Zenon DEF Evicted
    <2> HIDE DEF kids
    <2>4. k \in 1..Len(c[at].kids)
      BY <1>3, <2>2, LeastIs
    <2> HIDE DEF k
    <2>5. x \in 1..Len(c)
      BY <2>4 DEF CacheOK
    <2>6. q \in Seq(Nat) /\ \A j \in 1..Len(q) : \E i \in 1..Len(c[at].kids) : q[j] = c[at].kids[i]
      BY <2>1, <2>4, WithoutIs DEF RemoveAt
    <2>7. Evicted(c, at, name) = [[c EXCEPT ![x].live = FALSE] EXCEPT ![at].kids = RemoveAt(@, k)]
      BY <2>3
    <2> HIDE DEF x
    <2>8. /\ c[x] \in Dentries /\ freed \in Dentries /\ freed.up = c[x].up /\ freed.kind = c[x].kind
          /\ freed.cluster = c[x].cluster /\ freed.covered = c[x].covered /\ freed.kids = c[x].kids
      <3>1. c[x] \in Dentries
        BY <1>1, <2>5
      <3> QED
        BY <3>1 DEF Dentries
    <2>9. [c EXCEPT ![x].live = FALSE] = b
      OBVIOUS
    <2> HIDE DEF freed
    <2>10. CacheOK(b) /\ Keeps(c, b) /\ Len(b) = Len(c)
      BY <2>5, <2>8, ReplacedOK
    <2>11. b[at].kids = c[at].kids /\ b[at] \in Dentries
      BY <1>1, <2>5, <2>8
    <2> HIDE DEF b
    <2>12. Evicted(c, at, name) = e
      <3>1. Evicted(c, at, name) = [b EXCEPT ![at].kids = RemoveAt(@, k)]
        BY <2>7, <2>9
      <3>2. [b EXCEPT ![at].kids = RemoveAt(@, k)] = [b EXCEPT ![at].kids = RemoveAt(b[at].kids, k)]
        OBVIOUS
      <3> QED
        BY <2>11, <3>1, <3>2
    <2> HIDE DEF q
    <2>13. /\ bare \in Dentries /\ bare.up = b[at].up /\ bare.kind = b[at].kind /\ bare.kids = q
           /\ bare.cluster = b[at].cluster /\ bare.covered = b[at].covered
      BY <2>6, <2>11 DEF Dentries
    <2> HIDE DEF bare
    <2>14. \A j \in 1..Len(bare.kids) : \E i \in 1..Len(b[at].kids) : bare.kids[j] = b[at].kids[i]
      BY <2>6, <2>11, <2>13
    <2>15. CacheOK(e) /\ Keeps(b, e) /\ Len(e) = Len(b)
      BY <2>10, <2>13, <2>14, ReplacedOK
    <2>16. Keeps(c, e)
      BY <1>1, <2>10, <2>15 DEF Keeps
    <2> QED
      BY <2>12, <2>15, <2>16
  <1> QED
    BY <1>2, <1>3

-----------------------------------------------------------------------------
(* The parts of the type invariant that the actions disturb.                *)

\* Every file_t leads to a dentry; the offset in a file is an unsigned number.
FilesOK(fs, c) ==
    /\ fs \in Seq(Files)
    /\ \A f \in 1..Len(fs) : /\ fs[f].dentry \in 1..Len(c)
                             /\ IsDirectory(c[fs[f].dentry]) \/ fs[f].offset < Wrap

\* The descriptors and the directory of every task lead somewhere.
TasksOK(ts, c, fs) ==
    /\ ts \in [Tasks -> Records]
    /\ \A t \in Tasks : ts[t].cwd \in 1..Len(c) /\ \A d \in Fds : ts[t].fd[d] <= Len(fs)

LEMMA TypeParts ==
    TypeOK <=> /\ DiskOK(disk) /\ CacheOK(dentry) /\ taken \subseteq Clusters
               /\ FilesOK(file, dentry) /\ TasksOK(task, dentry, file)
               /\ wild \in {"no", "freed", "null"} /\ calls \in 0..MaxCalls
  BY DEF TypeOK, FilesOK, TasksOK

LEMMA FilesKept ==
    ASSUME NEW c \in Seq(Dentries), NEW d \in Seq(Dentries), Keeps(c, d), NEW fs, FilesOK(fs, c)
    PROVE  FilesOK(fs, d)
  <1>1. Len(c) \in Nat /\ Len(d) \in Nat
    OBVIOUS
  <1> QED
    BY <1>1 DEF FilesOK, Keeps, IsDirectory

LEMMA TasksKept ==
    ASSUME NEW c \in Seq(Dentries), NEW d \in Seq(Dentries), Keeps(c, d), NEW fs,
           NEW ts, TasksOK(ts, c, fs)
    PROVE  TasksOK(ts, d, fs)
  <1>1. Len(c) \in Nat /\ Len(d) \in Nat
    OBVIOUS
  <1> QED
    BY <1>1 DEF TasksOK, Keeps

\* One file_t is given another offset, or is freed.
LEMMA FileMoved ==
    ASSUME NEW c, NEW fs, FilesOK(fs, c), NEW f \in 1..Len(fs), NEW offset \in Nat,
           IsDirectory(c[fs[f].dentry]) \/ offset < Wrap
    PROVE  LET gs == [fs EXCEPT ![f].offset = offset] IN FilesOK(gs, c) /\ Len(gs) = Len(fs)
  <1> DEFINE new == [fs[f] EXCEPT !.offset = offset]
             gs  == [fs EXCEPT ![f] = new]
  <1>1. fs \in Seq(Files) /\ fs[f] \in Files
    BY DEF FilesOK
  <1>2. new \in Files /\ new.dentry = fs[f].dentry /\ new.offset = offset
    BY <1>1 DEF Files
  <1>3. [fs EXCEPT ![f].offset = offset] = gs
    OBVIOUS
  <1> HIDE DEF new
  <1>4. gs \in Seq(Files) /\ Len(gs) = Len(fs) /\ \A g \in 1..Len(fs) : gs[g] = IF g = f THEN new ELSE fs[g]
    BY <1>1, <1>2
  <1> HIDE DEF gs
  <1>5. FilesOK(gs, c)
    BY <1>2, <1>4 DEF FilesOK
  <1> QED
    BY <1>3, <1>4, <1>5

LEMMA FileFreed ==
    ASSUME NEW c, NEW fs, FilesOK(fs, c), NEW f \in 1..Len(fs)
    PROVE  LET gs == [fs EXCEPT ![f].live = FALSE] IN FilesOK(gs, c) /\ Len(gs) = Len(fs)
  <1> DEFINE new == [fs[f] EXCEPT !.live = FALSE]
             gs  == [fs EXCEPT ![f] = new]
  <1>1. fs \in Seq(Files) /\ fs[f] \in Files
    BY DEF FilesOK
  <1>2. new \in Files /\ new.dentry = fs[f].dentry /\ new.offset = fs[f].offset
    BY <1>1 DEF Files
  <1>3. [fs EXCEPT ![f].live = FALSE] = gs
    OBVIOUS
  <1> HIDE DEF new
  <1>4. gs \in Seq(Files) /\ Len(gs) = Len(fs) /\ \A g \in 1..Len(fs) : gs[g] = IF g = f THEN new ELSE fs[g]
    BY <1>1, <1>2
  <1> HIDE DEF gs
  <1>5. FilesOK(gs, c)
    BY <1>2, <1>4 DEF FilesOK
  <1> QED
    BY <1>3, <1>4, <1>5

\* What a descriptor that is in use leads to.
LEMMA FileIs ==
    ASSUME TypeOK, NEW p \in Tasks, NEW fd \in Fds, OnFile(p, fd)
    PROVE  /\ task[p].fd[fd] \in 1..Len(file)
           /\ FileOf(p, fd) = file[task[p].fd[fd]]
           /\ FileOf(p, fd) \in Files /\ FileOf(p, fd).offset \in Nat
           /\ FileOf(p, fd).dentry \in 1..Len(dentry)
           /\ dentry[FileOf(p, fd).dentry] \in Dentries
           /\ dentry[FileOf(p, fd).dentry].size \in 0..MaxSize
  <1>1. task[p] \in Records /\ task[p].fd[fd] <= Len(file)
    BY DEF TypeOK
  <1>2. task[p].fd[fd] \in Nat /\ task[p].fd[fd] # 0
    BY <1>1, ConstantFacts DEF Records, OnFile
  <1>3. file \in Seq(Files) /\ task[p].fd[fd] \in 1..Len(file)
    BY <1>1, <1>2 DEF TypeOK
  <1>4. FileOf(p, fd) \in Files /\ FileOf(p, fd).dentry \in 1..Len(dentry)
    BY <1>3 DEF FileOf, TypeOK
  <1>5. FileOf(p, fd).offset \in Nat
    BY <1>4 DEF Files
  <1>6. dentry[FileOf(p, fd).dentry] \in Dentries
    BY <1>4 DEF TypeOK, CacheOK
  <1>7. dentry[FileOf(p, fd).dentry].size \in 0..MaxSize
    BY <1>6 DEF Dentries
  <1> QED
    BY <1>3, <1>4, <1>5, <1>6, <1>7 DEF FileOf

\* The walks of system calls.
LEMMA WalkIs ==
    ASSUME TypeOK, NEW p \in Tasks, NEW path \in Paths
    PROVE  WalkOK(dentry, Walk(p, path))
  <1>1. PICK c : c = dentry
    OBVIOUS
  <1>2. path.abs \in BOOLEAN /\ path.steps \in Seq(Words)
    BY VfsAssumption
  <1>3. DiskOK(disk) /\ CacheOK(c) /\ task[p].cwd \in 1..Len(c)
    BY <1>1 DEF TypeOK
  <1>4. WalkOK(c, WalkOn(c, p, path.abs, path.steps))
    BY <1>2, <1>3, WalkOnOK
  <1> QED
    BY <1>1, <1>4 DEF Walk

LEMMA ParentIs ==
    ASSUME TypeOK, NEW p \in Tasks, NEW path \in Paths, path.steps # <<>>,
           NEW c, CacheOK(c), Grows(dentry, c)
    PROVE  WalkOK(c, ParentWalk(c, p, path)) /\ LastName(path) \in Words
  <1> DEFINE q == path.steps
  <1>1. path.abs \in BOOLEAN /\ q \in Seq(Words) /\ q # <<>>
    BY VfsAssumption
  <1>2. Len(q) \in Nat \ {0}
    BY <1>1
  <1>3. q[Len(q)] \in Words
    BY <1>1, <1>2
  <1>4. SubSeq(q, 1, Len(q) - 1) \in Seq(Words)
    <2>1. 1 \in Int /\ Len(q) - 1 \in Int /\ \A i \in 1..(Len(q) - 1) : q[i] \in Words
      BY <1>1, <1>2
    <2> QED
      BY <2>1, SubSeqProperties
  <1>5. task[p].cwd \in 1..Len(c)
    <2>1. task[p].cwd \in 1..Len(dentry) /\ Len(dentry) \in Nat /\ Len(c) \in Nat
      BY DEF TypeOK, CacheOK
    <2> QED
      BY <2>1 DEF Grows
  <1>6. DiskOK(disk)
    BY DEF TypeOK
  <1>7. WalkOK(c, WalkOn(c, p, path.abs, SubSeq(q, 1, Len(q) - 1)))
    BY <1>1, <1>4, <1>5, <1>6, WalkOnOK
  <1> QED
    BY <1>3, <1>7 DEF ParentWalk, LastName, Front, Last

-----------------------------------------------------------------------------
(* TypeOK is inductive.                                                     *)

LEMMA CallIs ==
    ASSUME TypeOK, NEW p \in Tasks, Call(p)
    PROVE  calls' \in 0..MaxCalls /\ wild = "no" /\ task[p].state = "live"
  <1>1. calls \in 0..MaxCalls /\ MaxCalls \in Nat
    BY VfsAssumption DEF TypeOK
  <1> QED
    BY <1>1 DEF Call

LEMMA WildTypes ==
    ASSUME TypeOK, NEW p \in Tasks, Call(p), NEW how \in {"freed", "null"}, GoesWild(how)
    PROVE  TypeOK'
  <1>1. calls' \in 0..MaxCalls
    BY CallIs
  <1> QED
    BY <1>1 DEF TypeOK, GoesWild

\* A call that changes nothing but the cache.
LEMMA CacheTypes ==
    ASSUME TypeOK, NEW p \in Tasks, Call(p), CacheOK(dentry'), Keeps(dentry, dentry'),
           UNCHANGED <<file, task, wild>>, DiskOK(disk'), taken' \subseteq Clusters
    PROVE  TypeOK'
  <1>1. dentry \in Seq(Dentries) /\ dentry' \in Seq(Dentries)
    BY DEF TypeOK, CacheOK
  <1>2. /\ FilesOK(file, dentry) /\ TasksOK(task, dentry, file)
        /\ wild \in {"no", "freed", "null"} /\ calls' \in 0..MaxCalls
    BY TypeParts, CallIs
  <1>3. PICK c, d, fs, ts : c = dentry /\ d = dentry' /\ fs = file /\ ts = task
    OBVIOUS
  <1>4. FilesOK(fs, d)
    BY <1>1, <1>2, <1>3, FilesKept
  <1>5. TasksOK(ts, d, fs)
    BY <1>1, <1>2, <1>3, TasksKept
  <1>6. FilesOK(file', dentry') /\ TasksOK(task', dentry', file')
    BY <1>3, <1>4, <1>5
  <1> QED
    BY <1>2, <1>6 DEF TypeOK, FilesOK, TasksOK

\* A call that changes nothing but the file_ts.
LEMMA FileTypes ==
    ASSUME TypeOK, NEW p \in Tasks, Call(p), FilesOK(file', dentry), Len(file') = Len(file),
           UNCHANGED <<disk, taken, dentry, task, wild>>
    PROVE  TypeOK'
  <1>1. /\ TasksOK(task, dentry, file) /\ calls' \in 0..MaxCalls
        /\ wild \in {"no", "freed", "null"} /\ taken \subseteq Clusters
    BY TypeParts, CallIs
  <1>2. TasksOK(task', dentry', file')
    BY <1>1 DEF TasksOK
  <1>3. FilesOK(file', dentry')
    OBVIOUS
  <1>4. DiskOK(disk') /\ CacheOK(dentry')
    BY DEF TypeOK
  <1> QED
    BY <1>1, <1>2, <1>3, <1>4 DEF TypeOK, FilesOK, TasksOK

LEMMA FreeFdIs ==
    ASSUME TypeOK, NEW p \in Tasks, FreeFds(p) # {}
    PROVE  Least(FreeFds(p)) \in Fds /\ task[p].fd[Least(FreeFds(p))] = Null
  <1>1. PICK S : S = FreeFds(p)
    OBVIOUS
  <1>2. S \in SUBSET Nat
    BY <1>1, ConstantFacts DEF FreeFds
  <1>3. Least(S) \in S
    BY <1>1, <1>2, LeastIs
  <1> QED
    BY <1>1, <1>3 DEF FreeFds

LEMMA OpenAtTypes ==
    ASSUME TypeOK, NEW p \in Tasks, Call(p), NEW fd \in Fds, NEW cache, NEW d \in 1..Len(cache),
           CacheOK(cache), Grows(dentry, cache), OpenAt(p, fd, cache, d),
           DiskOK(disk'), taken' \subseteq Clusters
    PROVE  TypeOK'
  <1> DEFINE new == [dentry |-> d, offset |-> 0, live |-> TRUE]
  <1>1. /\ FilesOK(file, dentry) /\ TasksOK(task, dentry, file)
        /\ wild \in {"no", "freed", "null"} /\ calls' \in 0..MaxCalls
    BY TypeParts, CallIs
  <1>2. /\ dentry' = cache /\ wild' = wild /\ file' = Append(file, new)
        /\ task' = [task EXCEPT ![p].fd[fd] = Len(file) + 1]
    BY DEF OpenAt
  <1>3. dentry \in Seq(Dentries) /\ cache \in Seq(Dentries) /\ d \in Nat
    BY DEF TypeOK, CacheOK
  <1>4. Keeps(dentry, cache)
    BY DEF Keeps, Grows
  <1>5. PICK c, fs, ts : c = dentry /\ fs = file /\ ts = task
    OBVIOUS
  <1>6. FilesOK(fs, cache) /\ TasksOK(ts, cache, fs)
    BY <1>1, <1>3, <1>4, <1>5, FilesKept, TasksKept
  <1>7. new \in Files /\ new.dentry = d /\ new.offset = 0
    BY <1>3 DEF Files
  <1> HIDE DEF new
  <1> DEFINE gs == Append(fs, new)
             us == [ts EXCEPT ![p].fd[fd] = Len(fs) + 1]
  <1>8. fs \in Seq(Files) /\ Len(fs) \in Nat
    BY <1>6 DEF FilesOK
  <1>9. /\ gs \in Seq(Files) /\ Len(gs) = Len(fs) + 1 /\ gs[Len(fs) + 1] = new
        /\ \A f \in 1..Len(fs) : gs[f] = fs[f]
    BY <1>7, <1>8, AppendProperties
  <1> HIDE DEF gs
  <1>10. FilesOK(gs, cache)
    <2>1. \A f \in 1..Len(gs) : f \in 1..Len(fs) \/ f = Len(fs) + 1
      BY <1>8, <1>9
    <2>2. new.offset < Wrap
      BY <1>7, ConstantFacts
    <2>3. \A f \in 1..Len(fs) : /\ fs[f].dentry \in 1..Len(cache)
                                /\ IsDirectory(cache[fs[f].dentry]) \/ fs[f].offset < Wrap
      BY <1>6 DEF FilesOK
    <2>4. \A f \in 1..Len(gs) : /\ gs[f].dentry \in 1..Len(cache)
                                /\ IsDirectory(cache[gs[f].dentry]) \/ gs[f].offset < Wrap
      BY <1>7, <1>9, <2>1, <2>2, <2>3
    <2> QED
      BY <1>9, <2>4 DEF FilesOK
  <1>11. TasksOK(us, cache, gs)
    <2> DEFINE fds == [ts[p].fd EXCEPT ![fd] = Len(fs) + 1]
               rec == [ts[p] EXCEPT !.fd = fds]
    <2>1. ts \in [Tasks -> Records] /\ ts[p] \in Records /\ ts[p].fd \in [Fds -> Nat]
      <3>1. ts \in [Tasks -> Records] /\ ts[p] \in Records
        BY <1>6 DEF TasksOK
      <3> QED
        BY <3>1 DEF Records
    <2>2. fds \in [Fds -> Nat] /\ \A e \in Fds : fds[e] = IF e = fd THEN Len(fs) + 1 ELSE ts[p].fd[e]
      BY <1>8, <2>1
    <2> HIDE DEF fds
    <2>3. rec \in Records /\ rec.fd = fds /\ rec.cwd = ts[p].cwd
      BY <2>1, <2>2 DEF Records
    <2>4. us = [ts EXCEPT ![p] = rec]
      BY DEF fds
    <2> HIDE DEF rec
    <2>5. us \in [Tasks -> Records] /\ \A t \in Tasks : us[t] = IF t = p THEN rec ELSE ts[t]
      BY <2>1, <2>3, <2>4
    <2> HIDE DEF us
    <2>6. \A t \in Tasks : ts[t].cwd \in 1..Len(cache) /\ \A e \in Fds : ts[t].fd[e] <= Len(fs) /\ ts[t].fd[e] \in Nat
      BY <1>6 DEF TasksOK, Records
    <2>7. ASSUME NEW t \in Tasks
          PROVE  us[t].cwd \in 1..Len(cache) /\ \A e \in Fds : us[t].fd[e] <= Len(gs)
      <3>1. CASE t = p
        <4>1. us[t] = rec
          BY <2>5, <3>1
        <4>2. \A e \in Fds : fds[e] <= Len(fs) + 1
          BY <1>8, <2>2, <2>6
        <4> QED
          BY <1>9, <2>3, <2>6, <4>1, <4>2
      <3>2. CASE t # p
        <4>1. us[t] = ts[t]
          BY <2>5, <3>2
        <4>2. \A e \in Fds : ts[t].fd[e] <= Len(fs) + 1
          BY <1>8, <2>6
        <4> QED
          BY <1>9, <2>6, <4>1, <4>2
      <3> QED
        BY <3>1, <3>2
    <2> QED
      BY <2>5, <2>7 DEF TasksOK
  <1>12. FilesOK(file', dentry') /\ TasksOK(task', dentry', file')
    BY <1>2, <1>5, <1>10, <1>11 DEF gs
  <1>13. CacheOK(dentry')
    BY <1>2
  <1> QED
    BY <1>1, <1>2, <1>12, <1>13 DEF TypeOK, FilesOK, TasksOK

LEMMA DentriesAre ==
    ASSUME TypeOK
    PROVE  /\ dentry \in Seq(Dentries) /\ CacheOK(dentry) /\ Grows(dentry, dentry)
           /\ DiskOK(disk) /\ taken \subseteq Clusters
  <1>1. PICK c : c = dentry
    OBVIOUS
  <1>2. c \in Seq(Dentries)
    BY <1>1 DEF TypeOK, CacheOK
  <1>3. Grows(c, c)
    BY <1>2, GrowsSelf
  <1> QED
    BY <1>1, <1>2, <1>3 DEF TypeOK

\* What a good walk leaves is a cache for the next.
LEMMA WalkLeaves ==
    ASSUME TypeOK, NEW w, WalkOK(dentry, w)
    PROVE  /\ CacheOK(w.cache) /\ w.cache \in Seq(Dentries) /\ w.at \in 1..Len(w.cache)
           /\ Grows(dentry, w.cache) /\ Keeps(dentry, w.cache)
  BY DEF WalkOK, CacheOK, Grows, Keeps

LEMMA OpenTypes ==
    ASSUME TypeOK, NEW p \in Tasks, NEW path \in Paths, Open(p, path)
    PROVE  TypeOK'
  <1>1. PICK w : w = Walk(p, path)
    OBVIOUS
  <1>2. WalkOK(dentry, w)
    BY <1>1, WalkIs
  <1>3. /\ Call(p) /\ FreeFds(p) # {}
        /\ \/ w.end = "wild" /\ GoesWild("freed")
           \/ /\ w.end = "at" /\ OpenAt(p, Least(FreeFds(p)), w.cache, w.at)
              /\ UNCHANGED <<disk, taken>>
    BY <1>1 DEF Open
  <1>4. CASE GoesWild("freed")
    BY <1>3, <1>4, WildTypes
  <1>5. CASE OpenAt(p, Least(FreeFds(p)), w.cache, w.at) /\ UNCHANGED <<disk, taken>>
    <2>1. PICK fd \in Fds : fd = Least(FreeFds(p))
      BY <1>3, FreeFdIs
    <2>2. OpenAt(p, fd, w.cache, w.at)
      BY <1>5, <2>1
    <2>3. CacheOK(w.cache) /\ Grows(dentry, w.cache) /\ w.at \in 1..Len(w.cache)
      BY <1>2, WalkLeaves
    <2>4. DiskOK(disk') /\ taken' \subseteq Clusters
      BY <1>5, DentriesAre
    <2> QED
      BY <1>3, <2>2, <2>3, <2>4, OpenAtTypes
  <1> QED
    BY <1>3, <1>4, <1>5

\* The dentry of a file that is made.
LEMMA MadeLinked ==
    ASSUME TypeOK, NEW c \in Seq(Dentries), CacheOK(c), NEW at \in 1..Len(c), c[at].kind = "dir",
           NEW name \in Words, NEW kind \in {"file", "dir"}, Made(c[at].cluster, name, kind).ok
    PROVE  LET d == Dentry(name, at, kind, Least(Clusters \ taken), 0, PlaceIn(disk, c[at].cluster))
           IN  /\ CacheOK(Linked(c, d)) /\ Grows(c, Linked(c, d))
               /\ Len(Linked(c, d)) = Len(c) + 1
               /\ Linked(c, d) \in Seq(Dentries)
  <1>1. PICK n, i : n = Least(Clusters \ taken) /\ i = PlaceIn(disk, c[at].cluster)
    OBVIOUS
  <1>2. c[at].cluster \in Clusters /\ DiskOK(disk) /\ taken \subseteq Clusters
    BY DentriesAre DEF CacheOK
  <1>3. PICK dk : dk = disk
    OBVIOUS
  <1>4. DiskOK(dk) /\ PlaceIn(dk, c[at].cluster) \in Nat
    BY <1>2, <1>3, PlaceIs
  <1>5. n \in Clusters /\ n \in Nat /\ i \in Nat
    BY <1>1, <1>2, <1>3, <1>4, MadeOK, ConstantFacts
  <1> DEFINE d == Dentry(name, at, kind, n, 0, i)
  <1>6. at \in Nat /\ 0 \in 0..MaxSize /\ kind \in Kinds
    BY ConstantFacts DEF Kinds
  <1>7. /\ d \in Dentries /\ d.up = at /\ d.kind = kind /\ d.cluster = n
        /\ d.kids = <<>> /\ d.covered = Null /\ d.live
    BY <1>5, <1>6, DentryIs
  <1> HIDE DEF d
  <1>8. /\ CacheOK(Linked(c, d)) /\ Grows(c, Linked(c, d)) /\ Len(Linked(c, d)) = Len(c) + 1
    BY <1>5, <1>7, LinkedOK
  <1>9. Linked(c, d) \in Seq(Dentries)
    BY <1>8 DEF CacheOK
  <1> QED
    BY <1>1, <1>8, <1>9 DEF d

LEMMA OpenMissingTypes ==
    ASSUME TypeOK, NEW p \in Tasks, NEW path \in Paths, NEW creat \in BOOLEAN,
           OpenMissing(p, path, creat)
    PROVE  TypeOK'
  <1>1. PICK w : w = Walk(p, path)
    OBVIOUS
  <1>2. PICK up : up = ParentWalk(w.cache, p, path)
    OBVIOUS
  <1> DEFINE dir  == up.cache[up.at]
             name == LastName(path)
             new  == Made(dir.cluster, name, "file")
             id   == Len(up.cache) + 1
             d    == Dentry(name, up.at, "file", Least(Clusters \ taken), 0,
                            PlaceIn(disk, dir.cluster))
  <1>3. /\ Call(p) /\ FreeFds(p) # {} /\ path.steps # <<>>
        /\ \/ creat /\ up.end = "wild" /\ GoesWild("freed")
           \/ creat /\ up.end = "at" /\ dir.kind = "dev" /\ GoesWild("null")
           \/ /\ creat /\ up.end = "at" /\ dir.kind = "dir" /\ new.ok
              /\ disk' = new.disk /\ taken' = new.taken
              /\ OpenAt(p, Least(FreeFds(p)), Linked(up.cache, d), id)
           \/ /\ dentry' = up.cache
              /\ UNCHANGED <<disk, taken, file, task, wild>>
    BY <1>1, <1>2 DEF OpenMissing
  <1>4. /\ CacheOK(w.cache) /\ w.cache \in Seq(Dentries) /\ Grows(dentry, w.cache)
    BY <1>1, WalkIs, WalkLeaves
  <1>5. WalkOK(w.cache, up) /\ name \in Words
    BY <1>2, <1>3, <1>4, ParentIs
  <1>6. /\ CacheOK(up.cache) /\ up.cache \in Seq(Dentries) /\ up.at \in 1..Len(up.cache)
        /\ Grows(w.cache, up.cache)
    BY <1>5 DEF WalkOK, CacheOK
  <1>7. Grows(dentry, up.cache)
    <2>1. PICK c : c = dentry
      OBVIOUS
    <2> QED
      BY <1>4, <1>6, <2>1, DentriesAre, GrowsOn
  <1>8. CASE GoesWild("freed") \/ GoesWild("null")
    BY <1>3, <1>8, WildTypes
  <1>9. CASE /\ dir.kind = "dir" /\ new.ok /\ disk' = new.disk /\ taken' = new.taken
             /\ OpenAt(p, Least(FreeFds(p)), Linked(up.cache, d), id)
    <2>1. PICK fd \in Fds : fd = Least(FreeFds(p))
      BY <1>3, FreeFdIs
    <2>2. PICK cache : cache = Linked(up.cache, d)
      OBVIOUS
    <2>3. /\ CacheOK(cache) /\ Grows(up.cache, cache) /\ Len(cache) = id
          /\ cache \in Seq(Dentries)
      BY <1>5, <1>6, <1>9, <2>2, MadeLinked
    <2>4. Grows(dentry, cache)
      <3>1. PICK c : c = dentry
        OBVIOUS
      <3> QED
        BY <1>6, <1>7, <2>3, <3>1, DentriesAre, GrowsOn
    <2>5. id \in 1..Len(cache)
      BY <1>6, <2>3
    <2>6. DiskOK(disk') /\ taken' \subseteq Clusters
      <3>1. dir.cluster \in Clusters
        BY <1>6, <1>9 DEF CacheOK
      <3>2. DiskOK(new.disk) /\ new.taken \subseteq Clusters
        BY <1>5, <3>1, DentriesAre, MadeOK
      <3> QED
        BY <1>9, <3>2
    <2>7. OpenAt(p, fd, cache, id)
      BY <1>9, <2>1, <2>2
    <2> HIDE DEF id
    <2> QED
      BY <1>3, <2>3, <2>4, <2>5, <2>6, <2>7, OpenAtTypes
  <1>10. CASE dentry' = up.cache /\ UNCHANGED <<disk, taken, file, task, wild>>
    <2>1. CacheOK(dentry') /\ Keeps(dentry, dentry')
      BY <1>6, <1>7, <1>10 DEF Grows, Keeps
    <2>2. DiskOK(disk') /\ taken' \subseteq Clusters
      BY <1>10, DentriesAre
    <2> QED
      BY <1>3, <1>10, <2>1, <2>2, CacheTypes
  <1> QED
    BY <1>3, <1>8, <1>9, <1>10

LEMMA CloseTypes ==
    ASSUME TypeOK, NEW p \in Tasks, NEW fd \in Fds, Close(p, fd)
    PROVE  TypeOK'
  <1> DEFINE f == task[p].fd[fd]
  <1>1. /\ Call(p) /\ OnFile(p, fd)
        /\ \/ GoesWild("freed")
           \/ /\ file' = [file EXCEPT ![f].live = FALSE]
              /\ task' = [task EXCEPT ![p].fd = [@ EXCEPT ![fd] = Null]]
              /\ UNCHANGED <<disk, taken, dentry, wild>>
    BY DEF Close, GoesWildUnless, ClearedSlot
  <1>2. CASE GoesWild("freed")
    BY <1>1, <1>2, WildTypes
  <1>3. CASE /\ file' = [file EXCEPT ![f].live = FALSE]
             /\ task' = [task EXCEPT ![p].fd = [@ EXCEPT ![fd] = Null]]
             /\ UNCHANGED <<disk, taken, dentry, wild>>
    <2>1. /\ FilesOK(file, dentry) /\ TasksOK(task, dentry, file)
          /\ wild \in {"no", "freed", "null"} /\ calls' \in 0..MaxCalls
      BY <1>1, TypeParts, CallIs
    <2>2. PICK c, fs, g : c = dentry /\ fs = file /\ g = f
      OBVIOUS
    <2>3. g \in 1..Len(fs)
      BY <1>1, <2>2, FileIs
    <2>4. LET gs == [fs EXCEPT ![g].live = FALSE] IN FilesOK(gs, c) /\ Len(gs) = Len(fs)
      BY <2>1, <2>2, <2>3, FileFreed
    <2>5. FilesOK(file', dentry') /\ Len(file') = Len(file)
      BY <1>3, <2>2, <2>4
    <2>6. TasksOK(task', dentry', file')
      <3> DEFINE fds == [task[p].fd EXCEPT ![fd] = Null]
                 rec == [task[p] EXCEPT !.fd = fds]
      <3>1. task \in [Tasks -> Records] /\ task[p] \in Records /\ task[p].fd \in [Fds -> Nat]
        <4>1. task \in [Tasks -> Records] /\ task[p] \in Records
          BY <2>1 DEF TasksOK
        <4> QED
          BY <4>1 DEF Records
      <3>2. fds \in [Fds -> Nat] /\ \A e \in Fds : fds[e] = IF e = fd THEN 0 ELSE task[p].fd[e]
        BY <3>1, ConstantFacts
      <3>3. task' = [task EXCEPT ![p] = rec]
        BY <1>3
      <3> HIDE DEF fds
      <3>4. rec \in Records /\ rec.fd = fds /\ rec.cwd = task[p].cwd
        BY <3>1, <3>2 DEF Records
      <3> HIDE DEF rec
      <3>5. task' \in [Tasks -> Records] /\ \A t \in Tasks : task'[t] = IF t = p THEN rec ELSE task[t]
        BY <3>1, <3>3, <3>4
      <3>6. Len(file) \in Nat
        BY <2>1 DEF FilesOK
      <3>7. \A t \in Tasks : task[t].cwd \in 1..Len(dentry) /\ \A e \in Fds : task[t].fd[e] <= Len(file)
        BY <2>1 DEF TasksOK
      <3>8. \A t \in Tasks : task'[t].cwd \in 1..Len(dentry) /\ \A e \in Fds : task'[t].fd[e] <= Len(file)
        BY <3>2, <3>4, <3>5, <3>6, <3>7
      <3> QED
        BY <1>3, <2>5, <3>5, <3>8 DEF TasksOK
    <2>7. DiskOK(disk') /\ CacheOK(dentry') /\ taken' \subseteq Clusters /\ wild' \in {"no", "freed", "null"}
      BY <1>3, <2>1, DentriesAre
    <2> QED
      BY <2>1, <2>5, <2>6, <2>7 DEF TypeOK, FilesOK, TasksOK
  <1> QED
    BY <1>1, <1>2, <1>3

\* A call that only moves an offset.
LEMMA MoveTypes ==
    ASSUME TypeOK, NEW p \in Tasks, Call(p), NEW fd \in Fds, OnFile(p, fd), NEW offset \in Nat,
           IsDirectory(dentry[FileOf(p, fd).dentry]) \/ offset < Wrap,
           file' = [file EXCEPT ![task[p].fd[fd]].offset = offset],
           UNCHANGED <<disk, taken, dentry, task, wild>>
    PROVE  TypeOK'
  <1>1. PICK c, fs, f : c = dentry /\ fs = file /\ f = task[p].fd[fd]
    OBVIOUS
  <1>2. f \in 1..Len(fs) /\ FileOf(p, fd) = fs[f]
    BY <1>1, FileIs
  <1>3. FilesOK(fs, c)
    BY <1>1, TypeParts
  <1>4. IsDirectory(c[fs[f].dentry]) \/ offset < Wrap
    BY <1>1, <1>2
  <1>5. LET gs == [fs EXCEPT ![f].offset = offset] IN FilesOK(gs, c) /\ Len(gs) = Len(fs)
    BY <1>2, <1>3, <1>4, FileMoved
  <1>6. FilesOK(file', dentry) /\ Len(file') = Len(file)
    BY <1>1, <1>5
  <1> QED
    BY <1>6, FileTypes

LEMMA ReadTypes ==
    ASSUME TypeOK, NEW p \in Tasks, NEW fd \in Fds, NEW n \in Nat, Read(p, fd, n)
    PROVE  TypeOK'
  <1> DEFINE size == dentry[FileOf(p, fd).dentry].size
             off  == FileOf(p, fd).offset
             to   == IF off + n > size THEN size ELSE off + n
  <1>1. /\ Call(p) /\ OnFile(p, fd)
        /\ \/ GoesWild("freed")
           \/ /\ file' = [file EXCEPT ![task[p].fd[fd]].offset = to]
              /\ UNCHANGED <<disk, taken, dentry, task, wild>>
    BY DEF Read, GoesWildUnless
  <1>2. CASE GoesWild("freed")
    BY <1>1, <1>2, WildTypes
  <1>3. CASE /\ file' = [file EXCEPT ![task[p].fd[fd]].offset = to]
             /\ UNCHANGED <<disk, taken, dentry, task, wild>>
    <2>1. size \in 0..MaxSize /\ off \in Nat
      BY <1>1, FileIs
    <2>2. to \in Nat /\ to < Wrap
      <3> HIDE DEF size, off
      <3> QED
        BY <2>1, ConstantFacts
    <2>3. PICK offset : offset = to
      OBVIOUS
    <2> HIDE DEF to
    <2> QED
      BY <1>1, <1>3, <2>2, <2>3, MoveTypes
  <1> QED
    BY <1>1, <1>2, <1>3

LEMMA LseekTypes ==
    ASSUME TypeOK, NEW p \in Tasks, NEW fd \in Fds, NEW base \in {"set", "cur", "end"},
           NEW move \in Moves, Lseek(p, fd, base, move)
    PROVE  TypeOK'
  <1> DEFINE from == CASE base = "set" -> 0
                       [] base = "cur" -> FileOf(p, fd).offset
                       [] base = "end" -> dentry[FileOf(p, fd).dentry].size
             to == move + from
  <1>1. /\ Call(p) /\ OnFile(p, fd)
        /\ \/ GoesWild("freed")
           \/ /\ to >= 0 /\ file' = [file EXCEPT ![task[p].fd[fd]].offset = to % Wrap]
              /\ UNCHANGED <<disk, taken, dentry, task, wild>>
    BY DEF Lseek, GoesWildUnless
  <1>2. CASE GoesWild("freed")
    BY <1>1, <1>2, WildTypes
  <1>3. CASE /\ to >= 0 /\ file' = [file EXCEPT ![task[p].fd[fd]].offset = to % Wrap]
             /\ UNCHANGED <<disk, taken, dentry, task, wild>>
    <2>1. dentry[FileOf(p, fd).dentry].size \in 0..MaxSize /\ FileOf(p, fd).offset \in Nat
      BY <1>1, FileIs
    <2>2. move \in Int /\ Wrap \in Nat /\ Wrap > 0
      BY ConstantFacts
    <2>3. from \in Int
      BY <2>1, ConstantFacts
    <2> HIDE DEF from
    <2>4. to \in Int
      BY <2>2, <2>3
    <2> HIDE DEF to
    <2>5. to % Wrap \in Nat /\ to % Wrap < Wrap
      BY <2>2, <2>4
    <2>6. PICK offset : offset = to % Wrap
      OBVIOUS
    <2>7. offset \in Nat /\ offset < Wrap /\ file' = [file EXCEPT ![task[p].fd[fd]].offset = offset]
      BY <1>3, <2>5, <2>6
    <2> QED
      BY <1>1, <1>3, <2>7, MoveTypes
  <1> QED
    BY <1>1, <1>2, <1>3

LEMMA GetdentsTypes ==
    ASSUME TypeOK, NEW p \in Tasks, NEW fd \in Fds, Getdents(p, fd)
    PROVE  TypeOK'
  <1> DEFINE d == dentry[FileOf(p, fd).dentry]
  <1>1. /\ Call(p) /\ OnFile(p, fd)
        /\ \/ GoesWild("freed")
           \/ /\ d.kind \in {"dir", "devdir"}
              /\ file' = [file EXCEPT ![task[p].fd[fd]].offset = NamesEnd(d)]
              /\ UNCHANGED <<disk, taken, dentry, task, wild>>
    BY DEF Getdents, GoesWildUnless
  <1>2. CASE GoesWild("freed")
    BY <1>1, <1>2, WildTypes
  <1>3. CASE /\ d.kind \in {"dir", "devdir"}
             /\ file' = [file EXCEPT ![task[p].fd[fd]].offset = NamesEnd(d)]
             /\ UNCHANGED <<disk, taken, dentry, task, wild>>
    <2>1. d \in Dentries /\ FileOf(p, fd).dentry \in 1..Len(dentry)
      BY <1>1, FileIs
    <2>2. IsDirectory(d)
      BY <1>3 DEF IsDirectory
    <2>3. d.kind = "dir" => d.cluster \in Clusters
      BY <2>1, DentriesAre DEF CacheOK
    <2>4. d.kids \in Seq(Nat) /\ disk \in [Clusters -> Seq(Entries)]
      BY <2>1, DentriesAre DEF Dentries, DiskOK
    <2>5. NamesEnd(d) \in Nat
      BY <2>3, <2>4 DEF NamesEnd
    <2>6. PICK offset : offset = NamesEnd(d)
      OBVIOUS
    <2> QED
      BY <1>1, <1>3, <2>2, <2>5, <2>6, MoveTypes
  <1> QED
    BY <1>1, <1>2, <1>3

LEMMA WriteTypes ==
    ASSUME TypeOK, NEW p \in Tasks, NEW fd \in Fds, NEW n \in Nat, Write(p, fd, n)
    PROVE  TypeOK'
  <1> DEFINE f   == task[p].fd[fd]
             id  == FileOf(p, fd).dentry
             end == FileOf(p, fd).offset + n
  <1>1. /\ Call(p) /\ OnFile(p, fd)
        /\ \/ GoesWild("freed")
           \/ /\ dentry[id].kind = "file" /\ end <= MaxSize
              /\ file' = [file EXCEPT ![f].offset = end]
              /\ IF end > dentry[id].size
                 THEN /\ dentry' = [dentry EXCEPT ![id].size = end]
                      /\ disk' = Sized(disk, dentry[id], end)
                 ELSE UNCHANGED <<dentry, disk>>
              /\ UNCHANGED <<taken, task, wild>>
    BY DEF Write, GoesWildUnless
  <1>2. CASE GoesWild("freed")
    BY <1>1, <1>2, WildTypes
  <1>3. CASE /\ dentry[id].kind = "file" /\ end <= MaxSize
             /\ file' = [file EXCEPT ![f].offset = end]
             /\ IF end > dentry[id].size
                THEN /\ dentry' = [dentry EXCEPT ![id].size = end]
                     /\ disk' = Sized(disk, dentry[id], end)
                ELSE UNCHANGED <<dentry, disk>>
             /\ UNCHANGED <<taken, task, wild>>
    <2>1. /\ FileOf(p, fd).offset \in Nat /\ id \in 1..Len(dentry) /\ dentry[id] \in Dentries
          /\ f \in 1..Len(file)
      BY <1>1, FileIs
    <2>2. PICK to, c, fs, ts, dk, g, x :
            to = end /\ c = dentry /\ fs = file /\ ts = task /\ dk = disk /\ g = f /\ x = id
      OBVIOUS
    <2>3. to \in Nat /\ to \in 0..MaxSize /\ to < Wrap
      <3>1. end \in Nat
        BY <2>1
      <3> HIDE DEF end
      <3> QED
        BY <1>3, <2>2, <3>1, ConstantFacts
    <2>4. /\ FilesOK(fs, c) /\ TasksOK(ts, c, fs) /\ DiskOK(dk) /\ CacheOK(c)
          /\ wild \in {"no", "freed", "null"} /\ calls' \in 0..MaxCalls /\ c \in Seq(Dentries)
      BY <1>1, <2>2, TypeParts, CallIs, DentriesAre
    <2>5. LET gs == [fs EXCEPT ![g].offset = to] IN FilesOK(gs, c) /\ Len(gs) = Len(fs)
      <3>1. g \in 1..Len(fs) /\ (IsDirectory(c[fs[g].dentry]) \/ to < Wrap)
        BY <2>1, <2>2, <2>3
      <3> QED
        BY <2>3, <2>4, <3>1, FileMoved
    <2>6. FilesOK(file', c) /\ TasksOK(task', c, file')
      BY <1>3, <2>2, <2>4, <2>5 DEF TasksOK
    <2>7. CASE end > dentry[id].size
      <3> DEFINE new == [c[x] EXCEPT !.size = to]
                 d   == [c EXCEPT ![x] = new]
      <3>1. x \in 1..Len(c) /\ c[x] \in Dentries
        BY <2>1, <2>2
      <3>2. /\ new \in Dentries /\ new.up = c[x].up /\ new.kind = c[x].kind /\ new.cluster = c[x].cluster
            /\ new.covered = c[x].covered /\ new.kids = c[x].kids
        BY <2>3, <3>1 DEF Dentries
      <3>3. dentry' = d
        BY <1>3, <2>2, <2>7
      <3> HIDE DEF new
      <3>4. CacheOK(d) /\ Keeps(c, d)
        BY <2>4, <3>1, <3>2, ReplacedOK
      <3> HIDE DEF d
      <3>5. d \in Seq(Dentries)
        BY <3>4 DEF CacheOK
      <3>6. PICK gs, us : gs = file' /\ us = task'
        OBVIOUS
      <3>7. FilesOK(gs, d) /\ TasksOK(us, d, gs)
        BY <2>4, <2>6, <3>4, <3>5, <3>6, FilesKept, TasksKept
      <3>8. DiskOK(disk')
        <4>1. DiskOK(Sized(dk, dentry[x], to))
          BY <1>3, <2>1, <2>2, <2>3, <2>4, SizedOK
        <4> QED
          BY <1>3, <2>2, <2>7, <4>1
      <3>9. CacheOK(dentry') /\ FilesOK(file', dentry') /\ TasksOK(task', dentry', file')
        BY <3>3, <3>4, <3>6, <3>7
      <3>10. taken' \subseteq Clusters /\ wild' \in {"no", "freed", "null"}
        BY <1>3, <2>4, DentriesAre
      <3> QED
        BY <2>4, <3>8, <3>9, <3>10 DEF TypeOK, FilesOK, TasksOK
    <2>8. CASE ~(end > dentry[id].size)
      <3>1. dentry' = dentry /\ disk' = disk
        BY <1>3, <2>8
      <3>2. CacheOK(dentry') /\ DiskOK(disk') /\ FilesOK(file', dentry') /\ TasksOK(task', dentry', file')
        BY <2>2, <2>4, <2>6, <3>1
      <3>3. taken' \subseteq Clusters /\ wild' \in {"no", "freed", "null"}
        BY <1>3, <2>4, DentriesAre
      <3> QED
        BY <2>4, <3>2, <3>3 DEF TypeOK, FilesOK, TasksOK
    <2> QED
      BY <2>7, <2>8
  <1> QED
    BY <1>1, <1>2, <1>3

LEMMA StatTypes ==
    ASSUME TypeOK, NEW p \in Tasks, NEW path \in Paths, Stat(p, path)
    PROVE  TypeOK'
  <1>1. PICK w : w = Walk(p, path)
    OBVIOUS
  <1>2. CacheOK(w.cache) /\ Keeps(dentry, w.cache)
    BY <1>1, WalkIs, WalkLeaves
  <1>3. /\ Call(p)
        /\ GoesWild("freed") \/ (dentry' = w.cache /\ UNCHANGED <<disk, taken, file, task, wild>>)
    BY <1>1 DEF Stat
  <1>4. CASE GoesWild("freed")
    BY <1>3, <1>4, WildTypes
  <1>5. CASE dentry' = w.cache /\ UNCHANGED <<disk, taken, file, task, wild>>
    <2>1. DiskOK(disk') /\ taken' \subseteq Clusters /\ CacheOK(dentry') /\ Keeps(dentry, dentry')
      BY <1>2, <1>5, DentriesAre
    <2> QED
      BY <1>3, <1>5, <2>1, CacheTypes
  <1> QED
    BY <1>3, <1>4, <1>5

LEMMA FstatTypes ==
    ASSUME TypeOK, NEW p \in Tasks, NEW fd \in Fds, Fstat(p, fd)
    PROVE  TypeOK'
  BY WildTypes DEF Fstat, GoesWildUnless

LEMMA ChdirTypes ==
    ASSUME TypeOK, NEW p \in Tasks, NEW path \in Paths, Chdir(p, path)
    PROVE  TypeOK'
  <1>1. PICK w : w = Walk(p, path)
    OBVIOUS
  <1>2. /\ Call(p) /\ dentry' = w.cache /\ task' = [task EXCEPT ![p].cwd = w.at]
        /\ UNCHANGED <<disk, taken, file, wild>>
    BY <1>1 DEF Chdir
  <1>3. /\ CacheOK(w.cache) /\ Keeps(dentry, w.cache) /\ w.cache \in Seq(Dentries)
        /\ w.at \in 1..Len(w.cache)
    BY <1>1, WalkIs, WalkLeaves
  <1>4. PICK c, d, fs, ts : c = dentry /\ d = w.cache /\ fs = file /\ ts = task
    OBVIOUS
  <1>5. /\ FilesOK(fs, c) /\ TasksOK(ts, c, fs) /\ c \in Seq(Dentries)
        /\ wild \in {"no", "freed", "null"} /\ calls' \in 0..MaxCalls
    BY <1>2, <1>4, TypeParts, CallIs, DentriesAre
  <1>6. FilesOK(fs, d) /\ TasksOK(ts, d, fs)
    BY <1>3, <1>4, <1>5, FilesKept, TasksKept
  <1> DEFINE rec == [ts[p] EXCEPT !.cwd = w.at]
             us  == [ts EXCEPT ![p] = rec]
  <1>7. TasksOK(us, d, fs)
    <2>1. ts \in [Tasks -> Records] /\ ts[p] \in Records
      BY <1>6 DEF TasksOK
    <2>2. rec \in Records /\ rec.fd = ts[p].fd /\ rec.cwd = w.at
      <3>1. w.at \in Nat
        BY <1>3
      <3> QED
        BY <2>1, <3>1 DEF Records
    <2> HIDE DEF rec
    <2>3. us \in [Tasks -> Records] /\ \A t \in Tasks : us[t] = IF t = p THEN rec ELSE ts[t]
      BY <2>1, <2>2
    <2> HIDE DEF us
    <2>4. \A t \in Tasks : us[t].cwd \in 1..Len(d) /\ \A e \in Fds : us[t].fd[e] <= Len(fs)
      BY <1>3, <1>4, <1>6, <2>2, <2>3 DEF TasksOK
    <2> QED
      BY <2>3, <2>4 DEF TasksOK
  <1>8. task' = us /\ dentry' = d /\ file' = fs
    BY <1>2, <1>4
  <1> HIDE DEF us
  <1>9. FilesOK(file', dentry') /\ TasksOK(task', dentry', file')
    BY <1>6, <1>7, <1>8
  <1>10. DiskOK(disk') /\ CacheOK(dentry') /\ taken' \subseteq Clusters /\ wild' \in {"no", "freed", "null"}
    BY <1>2, <1>3, <1>5, DentriesAre
  <1> QED
    BY <1>5, <1>9, <1>10 DEF TypeOK, FilesOK, TasksOK

LEMMA MkdirTypes ==
    ASSUME TypeOK, NEW p \in Tasks, NEW path \in Paths, Mkdir(p, path)
    PROVE  TypeOK'
  <1>1. PICK up : up = ParentWalk(dentry, p, path)
    OBVIOUS
  <1> DEFINE dir  == up.cache[up.at]
             name == LastName(path)
             new  == Made(dir.cluster, name, "dir")
             d    == Dentry(name, up.at, "vdir", 0, 0, Null)
  <1>2. /\ Call(p) /\ path.steps # <<>>
        /\ \/ GoesWild("freed")
           \/ /\ dir.kind = "dir" /\ disk' = new.disk /\ taken' = new.taken /\ dentry' = up.cache
              /\ UNCHANGED <<file, task, wild>>
           \/ dentry' = Linked(up.cache, d) /\ UNCHANGED <<disk, taken, file, task, wild>>
    BY <1>1 DEF Mkdir
  <1>3. WalkOK(dentry, up) /\ name \in Words
    BY <1>1, <1>2, DentriesAre, ParentIs
  <1>4. /\ CacheOK(up.cache) /\ Keeps(dentry, up.cache) /\ Grows(dentry, up.cache)
        /\ up.cache \in Seq(Dentries) /\ up.at \in 1..Len(up.cache)
    BY <1>3, WalkLeaves
  <1>5. CASE GoesWild("freed")
    BY <1>2, <1>5, WildTypes
  <1>6. CASE /\ dir.kind = "dir" /\ disk' = new.disk /\ taken' = new.taken /\ dentry' = up.cache
             /\ UNCHANGED <<file, task, wild>>
    <2>1. dir.cluster \in Clusters
      BY <1>4, <1>6 DEF CacheOK
    <2>2. DiskOK(new.disk) /\ new.taken \subseteq Clusters
      BY <1>3, <2>1, DentriesAre, MadeOK
    <2>3. DiskOK(disk') /\ taken' \subseteq Clusters /\ CacheOK(dentry') /\ Keeps(dentry, dentry')
      BY <1>4, <1>6, <2>2
    <2> QED
      BY <1>2, <1>6, <2>3, CacheTypes
  <1>7. CASE dentry' = Linked(up.cache, d) /\ UNCHANGED <<disk, taken, file, task, wild>>
    <2>1. /\ d \in Dentries /\ d.up = up.at /\ d.kind = "vdir"
          /\ d.kids = <<>> /\ d.covered = Null /\ d.live
      <3>1. up.at \in Nat /\ "vdir" \in Kinds /\ 0 \in Nat /\ 0 \in 0..MaxSize /\ Null \in Nat
        BY <1>4, ConstantFacts DEF Kinds
      <3> QED
        BY <1>3, <3>1, DentryIs
    <2> HIDE DEF d
    <2>2. PICK cache : cache = Linked(up.cache, d)
      OBVIOUS
    <2>3. CacheOK(cache) /\ Grows(up.cache, cache)
      BY <1>4, <2>1, <2>2, LinkedOK
    <2>4. Keeps(dentry, cache)
      <3>1. PICK c : c = dentry
        OBVIOUS
      <3>2. cache \in Seq(Dentries) /\ c \in Seq(Dentries)
        BY <2>3, <3>1, DentriesAre DEF CacheOK
      <3>3. Grows(c, cache)
        BY <1>4, <2>3, <3>1, <3>2, GrowsOn
      <3> QED
        BY <3>1, <3>3 DEF Grows, Keeps
    <2>5. DiskOK(disk') /\ taken' \subseteq Clusters /\ CacheOK(dentry') /\ Keeps(dentry, dentry')
      BY <1>7, <2>2, <2>3, <2>4, DentriesAre
    <2> QED
      BY <1>2, <1>7, <2>5, CacheTypes
  <1> QED
    BY <1>2, <1>5, <1>6, <1>7

LEMMA UnlinkTypes ==
    ASSUME TypeOK, NEW p \in Tasks, NEW path \in Paths, Unlink(p, path)
    PROVE  TypeOK'
  <1>1. PICK up : up = ParentWalk(dentry, p, path)
    OBVIOUS
  <1> DEFINE dir   == up.cache[up.at]
             name  == LastName(path)
             slots == Matching(disk, dir.cluster, name)
             e     == disk[dir.cluster][Least(slots)]
  <1>2. /\ Call(p) /\ path.steps # <<>>
        /\ \/ GoesWild("freed")
           \/ /\ dir.kind = "dir" /\ slots # {}
              /\ disk' = [disk EXCEPT ![dir.cluster][Least(slots)] = Hole]
              /\ taken' = taken \ {e.cluster}
              /\ dentry' = Evicted(up.cache, up.at, name)
              /\ UNCHANGED <<file, task, wild>>
    BY <1>1 DEF Unlink
  <1>3. WalkOK(dentry, up) /\ name \in Words
    BY <1>1, <1>2, DentriesAre, ParentIs
  <1>4. /\ CacheOK(up.cache) /\ Grows(dentry, up.cache)
        /\ up.cache \in Seq(Dentries) /\ up.at \in 1..Len(up.cache)
    BY <1>3, WalkLeaves
  <1>5. CASE GoesWild("freed")
    BY <1>2, <1>5, WildTypes
  <1>6. CASE /\ dir.kind = "dir" /\ slots # {}
             /\ disk' = [disk EXCEPT ![dir.cluster][Least(slots)] = Hole]
             /\ taken' = taken \ {e.cluster}
             /\ dentry' = Evicted(up.cache, up.at, name)
             /\ UNCHANGED <<file, task, wild>>
    <2>1. PICK dk, c : dk = disk /\ c = dir.cluster
      OBVIOUS
    <2>2. c \in Clusters /\ DiskOK(dk)
      BY <1>4, <1>6, <2>1, DentriesAre DEF CacheOK
    <2>3. Least(Matching(dk, c, name)) \in 1..Len(dk[c])
      BY <1>6, <2>1, <2>2, MatchIs
    <2>4. DiskOK([dk EXCEPT ![c][Least(Matching(dk, c, name))] = Hole])
      <3>1. PICK i : i = Least(Matching(dk, c, name))
        OBVIOUS
      <3>2. DiskOK([dk EXCEPT ![c][i] = Hole])
        BY <2>2, <2>3, <3>1, HoleIs, EntryPut
      <3> QED
        BY <3>1, <3>2
    <2>5. PICK cache : cache = Evicted(up.cache, up.at, name)
      OBVIOUS
    <2>6. CacheOK(cache) /\ Keeps(up.cache, cache)
      BY <1>3, <1>4, <2>5, EvictedOK
    <2>7. Keeps(dentry, cache)
      <3>1. PICK b : b = dentry
        OBVIOUS
      <3>2. cache \in Seq(Dentries) /\ b \in Seq(Dentries)
        BY <2>6, <3>1, DentriesAre DEF CacheOK
      <3> QED
        BY <1>4, <2>6, <3>1, <3>2, KeepsOn
    <2>8. DiskOK(disk') /\ taken' \subseteq Clusters /\ CacheOK(dentry') /\ Keeps(dentry, dentry')
      BY <1>6, <2>1, <2>4, <2>5, <2>6, <2>7, DentriesAre
    <2> QED
      BY <1>2, <1>6, <2>8, CacheTypes
  <1> QED
    BY <1>2, <1>5, <1>6

\* A call that changes nothing but the record of a task, not what it leads to.
LEMMA RecordTypes ==
    ASSUME TypeOK, NEW p \in Tasks, Call(p), NEW c \in Tasks, NEW t \in Tasks,
           NEW rec \in Records, rec.fd = task[t].fd, rec.cwd = task[t].cwd,
           task' = [task EXCEPT ![c] = rec], UNCHANGED <<disk, taken, dentry, file, wild>>
    PROVE  TypeOK'
  <1>1. /\ FilesOK(file, dentry) /\ TasksOK(task, dentry, file)
        /\ wild \in {"no", "freed", "null"} /\ calls' \in 0..MaxCalls
    BY TypeParts, CallIs
  <1>2. task' \in [Tasks -> Records] /\ \A u \in Tasks : task'[u] = IF u = c THEN rec ELSE task[u]
    BY <1>1 DEF TasksOK
  <1>3. TasksOK(task', dentry, file)
    BY <1>1, <1>2 DEF TasksOK
  <1>4. FilesOK(file', dentry') /\ TasksOK(task', dentry', file')
    BY <1>1, <1>3
  <1>5. DiskOK(disk') /\ CacheOK(dentry') /\ taken' \subseteq Clusters /\ wild' \in {"no", "freed", "null"}
    BY <1>1, DentriesAre
  <1> QED
    BY <1>1, <1>4, <1>5 DEF TypeOK, FilesOK, TasksOK

LEMMA RecordIs ==
    ASSUME TypeOK, NEW t \in Tasks
    PROVE  task \in [Tasks -> Records] /\ task[t] \in Records
  BY DEF TypeOK

LEMMA ForkTypes ==
    ASSUME TypeOK, NEW p \in Tasks, Fork(p)
    PROVE  TypeOK'
  <1>1. PICK c \in Tasks : task' = [task EXCEPT ![c] = [task[p] EXCEPT !.parent = p]]
    BY DEF Fork
  <1>2. Call(p) /\ UNCHANGED <<disk, taken, dentry, file, wild>>
    BY DEF Fork
  <1>3. PICK rec : rec = [task[p] EXCEPT !.parent = p]
    OBVIOUS
  <1>4. rec \in Records /\ rec.fd = task[p].fd /\ rec.cwd = task[p].cwd
    <2>1. p \in 0..MaxTasks
      BY ConstantFacts DEF Tasks
    <2> QED
      BY <1>3, <2>1, RecordIs DEF Records
  <1> QED
    BY <1>1, <1>2, <1>3, <1>4, RecordTypes

LEMMA ExitTypes ==
    ASSUME TypeOK, NEW p \in Tasks, Exit(p)
    PROVE  TypeOK'
  <1>1. PICK rec : rec = [task[p] EXCEPT !.state = "gone"]
    OBVIOUS
  <1>2. /\ Call(p) /\ UNCHANGED <<disk, taken, dentry, file, wild>>
        /\ task' = [task EXCEPT ![p] = rec]
    BY <1>1 DEF Exit
  <1>3. rec \in Records /\ rec.fd = task[p].fd /\ rec.cwd = task[p].cwd
    BY <1>1, RecordIs DEF Records
  <1> QED
    BY <1>2, <1>3, RecordTypes

LEMMA NextTypes == TypeOK /\ [Next]_vars => TypeOK'
  <1>1. CASE UNCHANGED vars
    BY <1>1 DEF vars, TypeOK
  <1>2. CASE Next
    BY <1>2, OpenTypes, OpenMissingTypes, StatTypes, ChdirTypes, MkdirTypes, UnlinkTypes,
       CloseTypes, ReadTypes, WriteTypes, LseekTypes, FstatTypes, GetdentsTypes,
       ForkTypes, ExitTypes DEF Next
  <1> QED
    BY <1>1, <1>2

\* What there is at boot.
LEMMA InitTypes == Init => TypeOK
  <1> SUFFICES ASSUME Init
               PROVE  TypeOK
    OBVIOUS
  <1> DEFINE entry == [name |-> "dev", kind |-> "dir", cluster |-> 2, size |-> 0]
             root  == [Dentry("/", Null, "dir", 1, 0, Null) EXCEPT !.kids = <<Dev>>]
             dev   == [Dentry("dev", Root, "dir", 2, 0, 1) EXCEPT !.covered = DevRoot]
             devs  == [Dentry("dev", Root, "devdir", 0, 0, Null) EXCEPT !.kids = <<Tty>>]
             tty   == Dentry("tty", DevRoot, "dev", 0, 0, Null)
  <1>1. /\ 0 \in Nat /\ 1 \in Nat /\ 2 \in Nat /\ 0 \in 0..MaxSize /\ <<2>> \in Seq(Nat) /\ <<4>> \in Seq(Nat)
        /\ <<>> \in Seq(Nat) /\ 3 \in Nat /\ Null = 0 /\ Root = 1
    BY ConstantFacts
  <1>2. "dev" \in Words /\ "tty" \in Words /\ 1 \in Clusters /\ 2 \in Clusters
    BY ConstantFacts DEF Words
  <1>3. DiskOK(disk)
    <2>1. disk = [c \in Clusters |-> IF c # 1 THEN <<>> ELSE <<entry>>]
      BY DEF Init
    <2>2. entry \in Entries /\ entry.cluster \in Clusters
      BY <1>1, <1>2 DEF Entries
    <2> HIDE DEF entry
    <2>3. /\ <<entry>> \in Seq(Entries) /\ <<>> \in Seq(Entries)
          /\ \A i \in 1..Len(<<entry>>) : <<entry>>[i] = entry
          /\ \A i \in 1..Len(<<>>) : FALSE
      BY <2>2
    <2>4. disk \in [Clusters -> Seq(Entries)]
      BY <2>1, <2>3
    <2>5. ASSUME NEW c \in Clusters, NEW i \in Used(disk, c)
          PROVE  disk[c][i].cluster \in Clusters
      <3>1. i \in 1..Len(disk[c])
        BY <2>5 DEF Used
      <3> QED
        BY <2>1, <2>2, <2>3, <3>1
    <2> QED
      BY <2>4, <2>5 DEF DiskOK
  <1>4. /\ root \in Dentries /\ root.up = 0 /\ root.kids = <<2>> /\ root.kind = "dir"
        /\ root.cluster = 1 /\ root.covered = 0
    BY <1>1, ConstantFacts DEF Dentry, Dentries, Kinds, Dev
  <1>5. /\ dev \in Dentries /\ dev.up = 1 /\ dev.kids = <<>> /\ dev.kind = "dir"
        /\ dev.cluster = 2 /\ dev.covered = 3
    <2>1. PICK b : b = Dentry("dev", Root, "dir", 2, 0, 1)
      OBVIOUS
    <2>2. /\ b \in Dentries /\ b.up = 1 /\ b.kind = "dir" /\ b.cluster = 2 /\ b.kids = <<>>
      <3>1. "dir" \in Kinds
        BY DEF Kinds
      <3> QED
        BY <1>1, <1>2, <2>1, <3>1, DentryIs
    <2>3. dev = [b EXCEPT !.covered = 3]
      BY <2>1 DEF DevRoot
    <2> HIDE DEF dev
    <2> QED
      BY <1>1, <2>2, <2>3 DEF Dentries
  <1>6. /\ devs \in Dentries /\ devs.up = 1 /\ devs.kids = <<4>> /\ devs.kind = "devdir"
        /\ devs.covered = 0
    BY <1>1, <1>2, ConstantFacts DEF Dentry, Dentries, Kinds
  <1>7. /\ tty \in Dentries /\ tty.up = 3 /\ tty.kids = <<>> /\ tty.kind = "dev"
        /\ tty.covered = 0
    BY <1>1, <1>2, ConstantFacts DEF Dentry, Dentries, Kinds, DevRoot
  <1>8. dentry = <<root, dev, devs, tty>>
    BY Zenon DEF Init
  <1> HIDE DEF root, dev, devs, tty
  <1>9. /\ dentry \in Seq(Dentries) /\ Len(dentry) = 4
        /\ dentry[1] = root /\ dentry[2] = dev /\ dentry[3] = devs /\ dentry[4] = tty
    BY <1>4, <1>5, <1>6, <1>7, <1>8
  <1>10. CacheOK(dentry)
    <2>1. \A i \in 1..4 : i = 1 \/ i = 2 \/ i = 3 \/ i = 4
      OBVIOUS
    <2>2. \A i \in 1..4 : /\ dentry[i].up \in 0..4 /\ dentry[i].covered \in 0..4
                          /\ dentry[i].kind = "dir" => dentry[i].cluster \in Clusters
                          /\ dentry[i].kind # "file"
      BY <1>2, <1>4, <1>5, <1>6, <1>7, <1>9, <2>1
    <2>3. \A i \in 1..4 : \A k \in 1..Len(dentry[i].kids) :
                    dentry[i].kids[k] \in 1..4 /\ dentry[dentry[i].kids[k]].up = i
      BY <1>4, <1>5, <1>6, <1>7, <1>9, <2>1
    <2>4. Len(dentry) >= Tty
      BY <1>9, ConstantFacts
    <2>5. \A i \in 1..Len(dentry) :
            /\ dentry[i].up \in 0..Len(dentry) /\ dentry[i].covered \in 0..Len(dentry)
            /\ \A k \in 1..Len(dentry[i].kids) :
                  dentry[i].kids[k] \in 1..Len(dentry) /\ dentry[dentry[i].kids[k]].up = i
            /\ dentry[i].kind = "dir" => dentry[i].cluster \in Clusters
            /\ dentry[i].kind # "file"
      <3> TAKE i \in 1..Len(dentry)
      <3>1. i \in 1..4
        BY <1>9
      <3>2. \A k \in 1..Len(dentry[i].kids) :
              dentry[i].kids[k] \in 1..Len(dentry) /\ dentry[dentry[i].kids[k]].up = i
        BY <1>9, <2>3, <3>1
      <3>3. /\ dentry[i].up \in 0..Len(dentry) /\ dentry[i].covered \in 0..Len(dentry)
            /\ dentry[i].kind = "dir" => dentry[i].cluster \in Clusters
            /\ dentry[i].kind # "file"
        <4>1. Len(dentry) = 4
          BY <1>9
        <4>2. /\ dentry[i].up \in 0..4 /\ dentry[i].covered \in 0..4
              /\ dentry[i].kind = "dir" => dentry[i].cluster \in Clusters
              /\ dentry[i].kind # "file"
          BY <2>2, <3>1
        <4> QED
          BY <4>1, <4>2
      <3> QED
        BY <3>2, <3>3
    <2> QED
      BY <1>9, <2>4, <2>5 DEF CacheOK
  <1>11. taken \subseteq Clusters /\ wild \in {"no", "freed", "null"} /\ calls \in 0..MaxCalls
    BY <1>2, ConstantFacts DEF Init
  <1>12. file \in Seq(Files) /\ Len(file) = 0
    BY DEF Init
  <1>13. task = [t \in Tasks |-> [state |-> IF t = 1 THEN "live" ELSE "none", parent |-> 0,
                                  fd |-> [d \in Fds |-> Null], cwd |-> Root]]
    BY DEF Init
  <1>14. \A t \in Tasks : task[t] \in Records /\ task[t].cwd = 1 /\ \A d \in Fds : task[t].fd[d] = 0
    BY <1>13, ConstantFacts DEF Records
  <1>15. task \in [Tasks -> Records]
    BY <1>13, <1>14
  <1>16. TasksOK(task, dentry, file)
    BY <1>9, <1>12, <1>14, <1>15 DEF TasksOK
  <1>17. FilesOK(file, dentry)
    BY <1>12 DEF FilesOK
  <1> QED
    BY <1>3, <1>10, <1>11, <1>16, <1>17, TypeParts

-----------------------------------------------------------------------------
(* Descriptors and dead memory.                                             *)

\* A task that is not there has no descriptors; a file_t that a process holds
\* which has neither forked nor been forked is open, and no other slot holds it.
FdOwned ==
    \A t \in Tasks :
      /\ task[t].state = "none" => task[t].parent = 0 /\ \A d \in Fds : task[t].fd[d] = Null
      /\ ~Related(t) => \A d \in Fds : task[t].fd[d] # Null =>
           /\ file[task[t].fd[d]].live
           /\ \A u \in Tasks, e \in Fds : task[u].fd[e] = task[t].fd[d] => u = t /\ e = d

IInv == TypeOK /\ FdOwned /\ WildNeedsSharing

\* A step that leaves the tasks and the life of the file_ts alone.
LEMMA OwnedKept ==
    ASSUME FdOwned, UNCHANGED task,
           \A f \in 1..Len(file) : file'[f].live = file[f].live, TypeOK
    PROVE  FdOwned'
  <1>1. \A t \in Tasks, d \in Fds : task[t].fd[d] # Null => task[t].fd[d] \in 1..Len(file)
    <2> TAKE t \in Tasks, d \in Fds
    <2>1. task[t].fd[d] \in Nat /\ task[t].fd[d] <= Len(file) /\ Len(file) \in Nat
      <3>1. task[t] \in Records /\ file \in Seq(Files) /\ task[t].fd[d] <= Len(file)
        BY DEF TypeOK
      <3> QED
        BY <3>1 DEF Records
    <2> QED
      BY <2>1, ConstantFacts
  <1>2. \A t \in Tasks : Related(t)' <=> Related(t)
    BY DEF Related
  <1> QED
    BY <1>1, <1>2 DEF FdOwned

\* A descriptor leads to a file_t there is.
LEMMA SlotIs ==
    ASSUME TypeOK, NEW t \in Tasks, NEW d \in Fds
    PROVE  /\ task[t].fd[d] \in Nat /\ task[t].fd[d] <= Len(file) /\ Len(file) \in Nat
           /\ task[t].fd[d] # Null => task[t].fd[d] \in 1..Len(file)
  <1>1. task[t] \in Records /\ file \in Seq(Files) /\ task[t].fd[d] <= Len(file)
    BY DEF TypeOK
  <1>2. task[t].fd[d] \in Nat /\ Len(file) \in Nat
    BY <1>1 DEF Records
  <1> QED
    BY <1>1, <1>2, ConstantFacts

\* A task that is given its own file_t holds it alone.
LEMMA OpenAtOwned ==
    ASSUME TypeOK, FdOwned, NEW p \in Tasks, Call(p), NEW fd \in Fds, NEW cache, NEW d,
           OpenAt(p, fd, cache, d)
    PROVE  FdOwned'
  <1> DEFINE n == Len(file) + 1
             new == [dentry |-> d, offset |-> 0, live |-> TRUE]
  <1>1. file' = Append(file, new) /\ task' = [task EXCEPT ![p].fd[fd] = n]
    BY DEF OpenAt
  <1>2. new.live = TRUE
    OBVIOUS
  <1> HIDE DEF new
  <1>3. file \in Seq(Files) /\ Len(file) \in Nat /\ n \in Nat /\ n # 0
    BY DEF TypeOK
  <1>4. file'[n] = new /\ \A f \in 1..Len(file) : file'[f] = file[f]
    BY <1>1, <1>3
  <1>5. \A t \in Tasks : /\ task'[t].state = task[t].state /\ task'[t].parent = task[t].parent
                         /\ \A e \in Fds : task'[t].fd[e] = IF t = p /\ e = fd THEN n ELSE task[t].fd[e]
    <2>1. task \in [Tasks -> Records] /\ \A t \in Tasks : task[t].fd \in [Fds -> Nat]
      BY RecordIs DEF Records
    <2>2. task[p] \in Records
      BY <2>1
    <2>3. /\ task'[p].state = task[p].state /\ task'[p].parent = task[p].parent
          /\ task'[p].fd = [task[p].fd EXCEPT ![fd] = n]
      BY <1>1, <2>1, <2>2 DEF Records
    <2>4. \A t \in Tasks : t # p => task'[t] = task[t]
      BY <1>1, <2>1
    <2>5. \A e \in Fds : task'[p].fd[e] = IF e = fd THEN n ELSE task[p].fd[e]
      BY <2>1, <2>3
    <2> QED
      BY <2>3, <2>4, <2>5
  <1>6. \A t \in Tasks : Related(t)' <=> Related(t)
    BY <1>5 DEF Related
  <1>7. \A t \in Tasks, e \in Fds :
          /\ task[t].fd[e] # n
          /\ task[t].fd[e] # Null => file'[task[t].fd[e]] = file[task[t].fd[e]]
    <2> TAKE t \in Tasks, e \in Fds
    <2>1. /\ task[t].fd[e] \in Nat /\ task[t].fd[e] <= Len(file)
          /\ task[t].fd[e] # Null => task[t].fd[e] \in 1..Len(file)
      BY SlotIs
    <2> QED
      BY <1>3, <1>4, <2>1
  <1>8. task[p].state = "live"
    BY DEF Call
  <1> HIDE DEF n
  <1>9. ASSUME NEW t \in Tasks, ~Related(t), NEW e \in Fds, task'[t].fd[e] # Null
        PROVE  /\ file'[task'[t].fd[e]].live
               /\ \A u \in Tasks, g \in Fds : task'[u].fd[g] = task'[t].fd[e] => u = t /\ g = e
    <2>1. CASE t = p /\ e = fd
      BY <1>2, <1>4, <1>5, <1>7, <2>1
    <2>2. CASE ~(t = p /\ e = fd)
      <3>1. task'[t].fd[e] = task[t].fd[e] /\ task[t].fd[e] # Null
        BY <1>5, <1>9, <2>2
      <3>2. /\ file[task[t].fd[e]].live
            /\ \A u \in Tasks, g \in Fds : task[u].fd[g] = task[t].fd[e] => u = t /\ g = e
        BY <1>9, <3>1 DEF FdOwned
      <3> QED
        BY <1>5, <1>7, <3>1, <3>2
    <2> QED
      BY <2>1, <2>2
  <1>10. ASSUME NEW t \in Tasks, task'[t].state = "none"
         PROVE  task'[t].parent = 0 /\ \A e \in Fds : task'[t].fd[e] = Null
    BY <1>5, <1>8, <1>10 DEF FdOwned
  <1> QED
    BY <1>6, <1>9, <1>10 DEF FdOwned

LEMMA CloseOwned ==
    ASSUME TypeOK, FdOwned, NEW p \in Tasks, NEW fd \in Fds, Close(p, fd)
    PROVE  FdOwned'
  <1> DEFINE f == task[p].fd[fd]
  <1>1. /\ OnFile(p, fd) /\ task[p].state = "live"
        /\ \/ GoesWild("freed")
           \/ /\ file' = [file EXCEPT ![f].live = FALSE]
              /\ task' = [task EXCEPT ![p].fd = [@ EXCEPT ![fd] = Null]]
    BY DEF Close, GoesWildUnless, ClearedSlot, Call
  <1>2. CASE GoesWild("freed")
    BY <1>2, OwnedKept DEF GoesWild
  <1>3. CASE /\ file' = [file EXCEPT ![f].live = FALSE]
             /\ task' = [task EXCEPT ![p].fd = [@ EXCEPT ![fd] = Null]]
    <2>1. f \in 1..Len(file) /\ f # Null
      BY <1>1, FileIs DEF OnFile
    <2>2. \A t \in Tasks : /\ task'[t].state = task[t].state /\ task'[t].parent = task[t].parent
                           /\ \A e \in Fds : task'[t].fd[e] = IF t = p /\ e = fd THEN Null ELSE task[t].fd[e]
      <3>1. task \in [Tasks -> Records] /\ \A t \in Tasks : task[t].fd \in [Fds -> Nat]
        BY RecordIs DEF Records
      <3>2. task[p] \in Records
        BY <3>1
      <3>3. /\ task'[p].state = task[p].state /\ task'[p].parent = task[p].parent
            /\ task'[p].fd = [task[p].fd EXCEPT ![fd] = Null]
        BY <1>3, <3>1, <3>2 DEF Records
      <3>4. \A t \in Tasks : t # p => task'[t] = task[t]
        BY <1>3, <3>1
      <3>5. \A e \in Fds : task'[p].fd[e] = IF e = fd THEN Null ELSE task[p].fd[e]
        BY <3>1, <3>3
      <3> QED
        BY <3>3, <3>4, <3>5
    <2>3. \A t \in Tasks : Related(t)' <=> Related(t)
      BY <2>2 DEF Related
    <2>4. ASSUME NEW t \in Tasks, ~Related(t), NEW e \in Fds, task'[t].fd[e] # Null
          PROVE  /\ file'[task'[t].fd[e]].live
                 /\ \A u \in Tasks, g \in Fds : task'[u].fd[g] = task'[t].fd[e] => u = t /\ g = e
      <3>1. task'[t].fd[e] = task[t].fd[e] /\ ~(t = p /\ e = fd)
        BY <2>2, <2>4
      <3>2. /\ file[task[t].fd[e]].live
            /\ \A u \in Tasks, g \in Fds : task[u].fd[g] = task[t].fd[e] => u = t /\ g = e
        BY <2>4, <3>1 DEF FdOwned
      <3>3. task[t].fd[e] # f
        BY <3>1, <3>2
      <3>4. task[t].fd[e] \in 1..Len(file) /\ file \in Seq(Files)
        BY <2>4, <3>1, SlotIs DEF TypeOK
      <3>5. file'[task[t].fd[e]] = file[task[t].fd[e]]
        BY <1>3, <3>3, <3>4
      <3>6. \A u \in Tasks, g \in Fds : task'[u].fd[g] = task'[t].fd[e] => task[u].fd[g] = task[t].fd[e]
        BY <2>2, <2>4, <3>1
      <3> QED
        BY <3>1, <3>2, <3>5, <3>6
    <2>5. ASSUME NEW t \in Tasks, task'[t].state = "none"
          PROVE  task'[t].parent = 0 /\ \A e \in Fds : task'[t].fd[e] = Null
      BY <2>2, <2>5 DEF FdOwned
    <2> QED
      BY <2>3, <2>4, <2>5 DEF FdOwned
  <1> QED
    BY <1>1, <1>2, <1>3

\* The child and the parent are related, and share with nobody else.
LEMMA ForkOwned ==
    ASSUME TypeOK, FdOwned, NEW p \in Tasks, Fork(p)
    PROVE  FdOwned'
  <1>1. PICK c \in Tasks : task[c].state = "none" /\ task' = [task EXCEPT ![c] = [task[p] EXCEPT !.parent = p]]
    BY DEF Fork
  <1>2. task[p].state = "live" /\ file' = file /\ p # 0
    BY ConstantFacts DEF Fork, Call, Tasks
  <1>3. task \in [Tasks -> Records] /\ task[p] \in Records
    BY RecordIs
  <1>4. /\ \A t \in Tasks : t # c => task'[t] = task[t]
        /\ task'[c].state = "live" /\ task'[c].parent = p /\ task'[c].fd = task[p].fd
    BY <1>1, <1>2, <1>3 DEF Records
  <1>5. c # p /\ task[c].parent = 0
    BY <1>1, <1>2 DEF FdOwned
  <1>6. \A t \in Tasks : Related(t) => Related(t)'
    BY <1>4, <1>5 DEF Related
  <1>7. Related(c)' /\ Related(p)'
    BY <1>2, <1>4 DEF Related
  <1>8. ASSUME NEW t \in Tasks, ~(Related(t)'), NEW e \in Fds, task'[t].fd[e] # Null
        PROVE  /\ file'[task'[t].fd[e]].live
               /\ \A u \in Tasks, g \in Fds : task'[u].fd[g] = task'[t].fd[e] => u = t /\ g = e
    <2>1. t # c /\ t # p /\ ~Related(t) /\ task'[t] = task[t]
      BY <1>4, <1>6, <1>7, <1>8
    <2>2. /\ file[task[t].fd[e]].live
          /\ \A u \in Tasks, g \in Fds : task[u].fd[g] = task[t].fd[e] => u = t /\ g = e
      BY <1>8, <2>1 DEF FdOwned
    <2> QED
      BY <1>2, <1>4, <2>1, <2>2
  <1>9. ASSUME NEW t \in Tasks, task'[t].state = "none"
        PROVE  task'[t].parent = 0 /\ \A e \in Fds : task'[t].fd[e] = Null
    BY <1>4, <1>9 DEF FdOwned
  <1> QED
    BY <1>8, <1>9 DEF FdOwned

LEMMA ExitOwned ==
    ASSUME TypeOK, FdOwned, NEW p \in Tasks, Exit(p)
    PROVE  FdOwned'
  <1>1. task' = [task EXCEPT ![p].state = "gone"] /\ file' = file
    BY DEF Exit
  <1>2. task \in [Tasks -> Records] /\ task[p] \in Records
    BY RecordIs
  <1>3. /\ \A t \in Tasks : task'[t].parent = task[t].parent /\ task'[t].fd = task[t].fd
        /\ \A t \in Tasks : task'[t].state = "none" => task[t].state = "none"
    BY <1>1, <1>2 DEF Records
  <1>4. \A t \in Tasks : Related(t)' <=> Related(t)
    BY <1>3 DEF Related
  <1> QED
    BY <1>1, <1>3, <1>4 DEF FdOwned

LEMMA NextOwned ==
    ASSUME TypeOK, FdOwned, Next
    PROVE  FdOwned'
  <1>1. ASSUME UNCHANGED <<file, task>>
        PROVE  FdOwned'
    BY <1>1, OwnedKept
  <1>2. ASSUME NEW p \in Tasks, NEW path \in Paths,
               \/ Open(p, path) \/ Stat(p, path) \/ Chdir(p, path) \/ Mkdir(p, path)
               \/ Unlink(p, path) \/ \E creat \in BOOLEAN : OpenMissing(p, path, creat)
        PROVE  FdOwned'
    <2>1. CASE Open(p, path)
      <3>1. Call(p) /\ FreeFds(p) # {}
        BY <2>1 DEF Open
      <3>2. PICK fd \in Fds : fd = Least(FreeFds(p))
        BY <3>1, FreeFdIs
      <3>3. UNCHANGED <<file, task>> \/ \E cache, d : OpenAt(p, fd, cache, d)
        BY <2>1, <3>2 DEF Open, GoesWild
      <3> QED
        BY <1>1, <3>1, <3>3, OpenAtOwned
    <2>2. CASE \E creat \in BOOLEAN : OpenMissing(p, path, creat)
      <3>1. PICK creat \in BOOLEAN : OpenMissing(p, path, creat)
        BY <2>2
      <3>2. Call(p) /\ FreeFds(p) # {}
        BY <3>1 DEF OpenMissing
      <3>3. PICK fd \in Fds : fd = Least(FreeFds(p))
        BY <3>2, FreeFdIs
      <3>4. UNCHANGED <<file, task>> \/ \E cache, d : OpenAt(p, fd, cache, d)
        BY <3>1, <3>3 DEF OpenMissing, GoesWild
      <3> QED
        BY <1>1, <3>2, <3>4, OpenAtOwned
    <2>3. CASE Chdir(p, path)
      <3>1. PICK at : task' = [task EXCEPT ![p].cwd = at]
        BY <2>3 DEF Chdir
      <3>2. file' = file
        BY <2>3 DEF Chdir
      <3>3. task \in [Tasks -> Records] /\ task[p] \in Records
        BY RecordIs
      <3>4. \A t \in Tasks : /\ task'[t].parent = task[t].parent /\ task'[t].fd = task[t].fd
                             /\ task'[t].state = task[t].state
        BY <3>1, <3>3 DEF Records
      <3>5. \A t \in Tasks : Related(t)' <=> Related(t)
        BY <3>4 DEF Related
      <3> QED
        BY <3>2, <3>4, <3>5 DEF FdOwned
    <2>4. CASE Stat(p, path) \/ Mkdir(p, path) \/ Unlink(p, path)
      <3>1. UNCHANGED <<file, task>>
        BY <2>4 DEF Stat, Mkdir, Unlink, GoesWild
      <3> QED
        BY <1>1, <3>1
    <2> QED
      BY <1>2, <2>1, <2>2, <2>3, <2>4
  <1>3. ASSUME NEW p \in Tasks, NEW fd \in Fds,
               \/ Close(p, fd) \/ Read(p, fd, 1) \/ Write(p, fd, 1) \/ Fstat(p, fd) \/ Getdents(p, fd)
               \/ \E base \in {"set", "cur", "end"}, move \in Moves : Lseek(p, fd, base, move)
        PROVE  FdOwned'
    <2>1. CASE Close(p, fd)
      BY <2>1, CloseOwned
    <2>2. CASE Fstat(p, fd)
      <3>1. UNCHANGED <<file, task>>
        BY <2>2 DEF Fstat, GoesWildUnless, GoesWild
      <3> QED
        BY <1>1, <3>1
    <2>3. CASE \/ Read(p, fd, 1) \/ Write(p, fd, 1) \/ Getdents(p, fd)
               \/ \E base \in {"set", "cur", "end"}, move \in Moves : Lseek(p, fd, base, move)
      <3>1. /\ task' = task
            /\ file' = file \/ \E f, offset : file' = [file EXCEPT ![f].offset = offset]
        BY <2>3 DEF Read, Write, Getdents, Lseek, GoesWildUnless, GoesWild
      <3>2. file \in Seq(Files) /\ \A f \in 1..Len(file) : file[f] \in Files
        BY DEF TypeOK
      <3>3. \A f \in 1..Len(file) : file'[f].live = file[f].live
        <4>1. CASE file' = file
          BY <4>1
        <4>2. CASE \E f, offset : file' = [file EXCEPT ![f].offset = offset]
          <5>1. PICK g, offset : file' = [file EXCEPT ![g].offset = offset]
            BY <4>2
          <5> TAKE f \in 1..Len(file)
          <5>2. file[f] \in Files
            BY <3>2
          <5>3. file'[f] = IF f = g THEN [file[f] EXCEPT !.offset = offset] ELSE file[f]
            BY <3>2, <5>1
          <5> QED
            BY <5>2, <5>3 DEF Files
        <4> QED
          BY <3>1, <4>1, <4>2
      <3> QED
        BY <3>1, <3>3, OwnedKept
    <2> QED
      BY <1>3, <2>1, <2>2, <2>3
  <1>4. ASSUME NEW p \in Tasks, Fork(p) \/ Exit(p)
        PROVE  FdOwned'
    BY <1>4, ForkOwned, ExitOwned
  <1> QED
    BY <1>2, <1>3, <1>4 DEF Next

-----------------------------------------------------------------------------
(* What a call that goes wild says of the state it is made in.              *)

\* Some task is related to another, or some dentry is freed.
Sharing == (\E t \in Tasks : Related(t)) \/ \E d \in 1..Len(dentry) : ~dentry[d].live

LEMMA WalkWild ==
    ASSUME TypeOK, NEW w, WalkOK(dentry, w), w.end = "wild"
    PROVE  Sharing
  BY DEF WalkOK, AllLive, Sharing

LEMMA FileWild ==
    ASSUME TypeOK, FdOwned, NEW p \in Tasks, NEW fd \in Fds, OnFile(p, fd), ~InodeLives(p, fd)
    PROVE  Sharing
  <1>1. FileOf(p, fd) = file[task[p].fd[fd]] /\ FileOf(p, fd).dentry \in 1..Len(dentry)
    BY FileIs
  <1>2. CASE ~FileOf(p, fd).live
    BY <1>1, <1>2 DEF FdOwned, Sharing, OnFile
  <1>3. CASE ~dentry[FileOf(p, fd).dentry].live
    BY <1>1, <1>3 DEF Sharing
  <1> QED
    BY <1>2, <1>3 DEF InodeLives

LEMMA NextWild ==
    ASSUME TypeOK, FdOwned, Next, wild' = "freed"
    PROVE  Sharing /\ UNCHANGED <<task, dentry>>
  <1>1. ASSUME NEW p \in Tasks, NEW path \in Paths,
               \/ Open(p, path) \/ Stat(p, path) \/ Chdir(p, path) \/ Mkdir(p, path)
               \/ Unlink(p, path) \/ \E creat \in BOOLEAN : OpenMissing(p, path, creat)
        PROVE  Sharing /\ UNCHANGED <<task, dentry>>
    <2>1. PICK w, v : w = Walk(p, path) /\ v = ParentWalk(dentry, p, path)
      OBVIOUS
    <2>2. WalkOK(dentry, w) /\ (path.steps # <<>> => WalkOK(dentry, v))
      BY <2>1, WalkIs, ParentIs, DentriesAre
    <2>3. CASE Open(p, path) \/ Stat(p, path) \/ Chdir(p, path)
      <3>1. wild = "no"
        BY <2>3 DEF Open, Stat, Chdir, Call
      <3>2. w.end = "wild" /\ UNCHANGED <<task, dentry>>
        BY <2>1, <2>3, <3>1 DEF Open, OpenAt, Stat, Chdir, GoesWild
      <3> QED
        BY <2>2, <3>2, WalkWild
    <2>4. CASE Mkdir(p, path) \/ Unlink(p, path)
      <3>1. wild = "no" /\ path.steps # <<>>
        BY <2>4 DEF Mkdir, Unlink, Call
      <3>2. v.end = "wild" /\ UNCHANGED <<task, dentry>>
        BY <2>1, <2>4, <3>1 DEF Mkdir, Unlink, GoesWild
      <3> QED
        BY <2>2, <3>1, <3>2, WalkWild
    <2>5. CASE \E creat \in BOOLEAN : OpenMissing(p, path, creat)
      <3>1. PICK creat \in BOOLEAN : OpenMissing(p, path, creat)
        BY <2>5
      <3>2. PICK up : up = ParentWalk(w.cache, p, path)
        OBVIOUS
      <3>3. wild = "no" /\ path.steps # <<>>
        BY <3>1 DEF OpenMissing, Call
      <3>4. up.end = "wild" /\ UNCHANGED <<task, dentry>>
        BY <2>1, <3>1, <3>2, <3>3 DEF OpenMissing, OpenAt, GoesWild
      <3>5. CacheOK(w.cache) /\ Grows(dentry, w.cache) /\ (AllLive(dentry) => AllLive(w.cache))
        BY <2>2 DEF WalkOK
      <3>6. WalkOK(w.cache, up)
        BY <3>2, <3>3, <3>5, ParentIs
      <3>7. ~AllLive(dentry)
        BY <3>4, <3>5, <3>6 DEF WalkOK
      <3> QED
        BY <3>4, <3>7 DEF AllLive, Sharing
    <2> QED
      BY <1>1, <2>3, <2>4, <2>5
  <1>2. ASSUME NEW p \in Tasks, NEW fd \in Fds,
               \/ Close(p, fd) \/ Read(p, fd, 1) \/ Fstat(p, fd) \/ Getdents(p, fd)
               \/ \E base \in {"set", "cur", "end"}, move \in Moves : Lseek(p, fd, base, move)
        PROVE  Sharing /\ UNCHANGED <<task, dentry>>
    <2>1. /\ OnFile(p, fd) /\ wild = "no"
      BY <1>2 DEF Close, Read, Fstat, Getdents, Lseek, Call
    <2>2. /\ ~InodeLives(p, fd) /\ UNCHANGED <<task, dentry>>
      BY <1>2, <2>1 DEF Close, Read, Fstat, Getdents, Lseek, GoesWildUnless, GoesWild, InodeLives
    <2> QED
      BY <2>1, <2>2, FileWild
  <1>3. ASSUME NEW p \in Tasks, NEW fd \in Fds, Write(p, fd, 1)
        PROVE  Sharing /\ UNCHANGED <<task, dentry>>
    <2> DEFINE id == FileOf(p, fd).dentry
    <2>1. OnFile(p, fd) /\ wild = "no"
      BY <1>3 DEF Write, Call
    <2>2. /\ ~InodeLives(p, fd) \/ (dentry[id].kind = "file" /\ ~EntryLives(id))
          /\ UNCHANGED <<task, dentry>>
      BY <1>3, <2>1 DEF Write, GoesWildUnless, GoesWild
    <2>3. CASE ~InodeLives(p, fd)
      BY <2>1, <2>2, <2>3, FileWild
    <2>4. CASE dentry[id].kind = "file" /\ ~EntryLives(id)
      <3>1. id \in 1..Len(dentry)
        BY <2>1, FileIs
      <3>2. dentry[id].up \in 0..Len(dentry) /\ dentry[id].up # Null /\ Len(dentry) \in Nat
        BY <2>4, <3>1, DentriesAre DEF CacheOK
      <3>3. dentry[id].up \in 1..Len(dentry)
        BY <3>2, ConstantFacts
      <3> QED
        BY <2>2, <2>4, <3>3 DEF EntryLives, Sharing
    <2> QED
      BY <2>2, <2>3, <2>4
  <1>4. ASSUME NEW p \in Tasks, Fork(p) \/ Exit(p)
        PROVE  FALSE
    BY <1>4 DEF Fork, Exit, Call
  <1> QED
    BY <1>1, <1>2, <1>3, <1>4 DEF Next

-----------------------------------------------------------------------------
(* The theorems.                                                            *)

\* The inductive invariant: types, the descriptors of each process, and what a
\* call through freed memory presupposes.
THEOREM Invariance == Spec => []IInv
  <1>1. Init => IInv
    <2> SUFFICES ASSUME Init
                 PROVE  IInv
      OBVIOUS
    <2>1. TypeOK
      BY InitTypes
    <2>2. WildNeedsSharing
      BY DEF Init, WildNeedsSharing
    <2>3. FdOwned
      <3>1. task = [t \in Tasks |-> [state |-> IF t = 1 THEN "live" ELSE "none", parent |-> 0,
                                    fd |-> [d \in Fds |-> Null], cwd |-> Root]]
        BY DEF Init
      <3>2. \A t \in Tasks : task[t].parent = 0 /\ \A d \in Fds : task[t].fd[d] = Null
        BY <3>1
      <3> QED
        BY <3>2 DEF FdOwned
    <2> QED
      BY <2>1, <2>2, <2>3 DEF IInv
  <1>2. IInv /\ [Next]_vars => IInv'
    <2> SUFFICES ASSUME IInv, [Next]_vars
                 PROVE  IInv'
      OBVIOUS
    <2>1. CASE UNCHANGED vars
      <3>1. TypeOK'
        BY <2>1, NextTypes DEF IInv
      <3>2. FdOwned'
        BY <2>1 DEF IInv, vars, FdOwned, Related
      <3>3. WildNeedsSharing'
        BY <2>1 DEF IInv, vars, WildNeedsSharing, Related
      <3> QED
        BY <3>1, <3>2, <3>3 DEF IInv
    <2>2. CASE Next
      <3>1. TypeOK'
        BY <2>2, NextTypes DEF IInv
      <3>2. FdOwned'
        BY <2>2, NextOwned DEF IInv
      <3>3. WildNeedsSharing'
        <4>1. wild' = "freed" => Sharing /\ UNCHANGED <<task, dentry>>
          BY <2>2, NextWild DEF IInv
        <4> QED
          BY <4>1 DEF WildNeedsSharing, Sharing, Related
      <3> QED
        BY <3>1, <3>2, <3>3 DEF IInv
    <2> QED
      BY <2>1, <2>2
  <1> QED
    BY <1>1, <1>2, PTL DEF Spec

\* Every descriptor, current directory, link of the cache and entry of the disk
\* leads to what is there, after any sequence of system calls on any disk.
THEOREM TypeCorrect == Spec => []TypeOK
  <1>1. IInv => TypeOK
    BY DEF IInv
  <1> QED
    BY <1>1, Invariance, PTL

\* However many processes there are, one that neither forked nor was forked never
\* holds a descriptor of a freed file_t.
THEOREM DescriptorsSound == Spec => []FdSound
  <1>1. IInv => FdSound
    BY DEF IInv, FdOwned, FdSound
  <1> QED
    BY <1>1, Invariance, PTL

\* Freed memory is reached only through a shared descriptor or after a removal.
THEOREM WildOnlyAfter == Spec => []WildNeedsSharing
  <1>1. IInv => WildNeedsSharing
    BY DEF IInv
  <1> QED
    BY <1>1, Invariance, PTL

-----------------------------------------------------------------------------
(* The inductive invariant.                                                 *)

\* The names that a walk takes for itself.
Dots == {".", ".."}

\* The name is that of one of the children at most, and they live.
KidsOK(c, d) ==
    /\ \A k \in 1..Len(c[d].kids) : c[c[d].kids[k]].live /\ c[d].kids[k] # DevRoot
    /\ \A k, l \in 1..Len(c[d].kids) : c[c[d].kids[k]].name = c[c[d].kids[l]].name => k = l

\* A dentry hangs from an older one, a directory that a walk can come to, and if
\* it lives it is among the children; the root of a mount is not.
HangsOK(c, d) ==
    /\ c[d].up \in 1..(d - 1) /\ IsDirectory(c[c[d].up])
    /\ c[d].up # Dev /\ c[c[d].up].name \notin Dots
    /\ c[d].live /\ d # DevRoot => \E k \in 1..Len(c[c[d].up].kids) : c[c[d].up].kids[k] = d
    /\ d # DevRoot => (c[d].kind \in {"file", "dir"} <=> c[c[d].up].kind = "dir")

\* What was there at boot.
BootOK(c) ==
    /\ c[Root].live /\ c[Root].kind = "dir" /\ c[Root].up = Null /\ c[Root].cluster = 1
    /\ c[Root].size = 0 /\ c[Root].name = "/"
    /\ c[Dev].up = Root /\ c[Dev].name = "dev" /\ c[Dev].covered = DevRoot
    /\ c[DevRoot].live /\ c[DevRoot].kind = "devdir" /\ c[DevRoot].up = Root
    /\ c[DevRoot].name = "dev"

TreeOK(c) ==
    /\ BootOK(c)
    /\ \A d \in 1..Len(c) : KidsOK(c, d) /\ (d # Dev => c[d].covered = Null)
    /\ \A d \in 2..Len(c) : HangsOK(c, d)

\* A walk may rest here.
RestsAt(c, d) == d # Dev /\ c[d].name \notin Dots

PlacesOK == \A t \in Tasks : RestsAt(dentry, task[t].cwd)

\* An entry answers to its own name only.
NoAliases == \A n \in Names : Answers[n] = {n}

\* Directories in use: no name twice, no cluster twice, none that is free.
EntriesOK(dk, tk) ==
    /\ 1 \in tk /\ tk \subseteq Clusters
    /\ \A c \in tk : \A i \in Used(dk, c) :
         /\ dk[c][i].cluster \in tk \ {1}
         /\ \A j \in Used(dk, c) : dk[c][i].name = dk[c][j].name => i = j
         /\ \A b \in tk : \A j \in Used(dk, b) : dk[c][i].cluster = dk[b][j].cluster => c = b /\ i = j

OfDisk(c, d) == c[d].live /\ c[d].kind \in {"file", "dir"}

\* A cached dentry of the disk is as its entry, unless its directory is removed; then
\* no entry in use has its cluster.
CachedOnDisk(dk, tk, c, d) ==
    LET up == c[c[d].up] IN
    /\ c[d].cluster \in tk \ {1}
    /\ up.live => /\ c[d].slot \in Used(dk, up.cluster)
                  /\ dk[up.cluster][c[d].slot] = [name |-> c[d].name, kind |-> c[d].kind,
                                                  cluster |-> c[d].cluster, size |-> c[d].size]
    /\ ~up.live => \A b \in tk : \A i \in Used(dk, b) : dk[b][i].cluster # c[d].cluster

AgreesOK(dk, tk, c) ==
    /\ EntriesOK(dk, tk)
    /\ \A d \in 2..Len(c) : OfDisk(c, d) => CachedOnDisk(dk, tk, c, d)
    /\ \A d, e \in 2..Len(c) : OfDisk(c, d) /\ OfDisk(c, e) /\ c[d].cluster = c[e].cluster => d = e

CacheInv == TreeOK(dentry) /\ PlacesOK /\ (NoAliases => AgreesOK(disk, taken, dentry))

-----------------------------------------------------------------------------
(* Dentries and children.                                                   *)

\* They differ in their children only.
Alike(a, b) ==
    /\ a.name = b.name /\ a.up = b.up /\ a.kind = b.kind /\ a.cluster = b.cluster
    /\ a.size = b.size /\ a.slot = b.slot /\ a.covered = b.covered /\ a.live = b.live

LEMMA CacheIs ==
    ASSUME NEW c, CacheOK(c)
    PROVE  /\ c \in Seq(Dentries) /\ Len(c) \in Nat /\ Len(c) >= 4
           /\ Root \in 1..Len(c) /\ Dev \in 1..Len(c) /\ DevRoot \in 1..Len(c)
           /\ Root = 1 /\ Dev = 2 /\ DevRoot = 3 /\ Null = 0
           /\ \A d \in 1..Len(c) :
                /\ c[d] \in Dentries /\ c[d].kids \in Seq(Nat) /\ Len(c[d].kids) \in Nat
                /\ \A k \in 1..Len(c[d].kids) :
                     c[d].kids[k] \in 1..Len(c) /\ c[c[d].kids[k]].up = d
  <1>1. c \in Seq(Dentries) /\ Len(c) \in Nat /\ Len(c) >= 4
    BY ConstantFacts DEF CacheOK
  <1>2. Root = 1 /\ Dev = 2 /\ DevRoot = 3 /\ Null = 0
    BY DEF Root, Dev, DevRoot, Null
  <1>3. ASSUME NEW d \in 1..Len(c)
        PROVE  c[d] \in Dentries /\ c[d].kids \in Seq(Nat) /\ Len(c[d].kids) \in Nat
    <2>1. c[d] \in Dentries
      BY <1>1
    <2>2. c[d].kids \in Seq(Nat)
      BY <2>1 DEF Dentries
    <2> QED
      BY <2>1, <2>2
  <1>4. \A d \in 1..Len(c) : \A k \in 1..Len(c[d].kids) :
           c[d].kids[k] \in 1..Len(c) /\ c[c[d].kids[k]].up = d
    BY DEF CacheOK
  <1> QED
    BY <1>1, <1>2, <1>3, <1>4

\* What Linked changes.
LEMMA LinkedIs ==
    ASSUME NEW c, CacheOK(c), NEW d \in Dentries, d.up \in 1..Len(c)
    PROVE  LET l == Linked(c, d)
               p == d.up
           IN  /\ l \in Seq(Dentries) /\ Len(l) = Len(c) + 1 /\ l[Len(c) + 1] = d
               /\ \A i \in 1..Len(c) : Alike(l[i], c[i]) /\ (i # p => l[i].kids = c[i].kids)
               /\ Len(l[p].kids) = Len(c[p].kids) + 1 /\ l[p].kids[1] = Len(c) + 1
               /\ \A k \in 1..Len(c[p].kids) : l[p].kids[k + 1] = c[p].kids[k]
  <1> DEFINE n   == Len(c)
             id  == n + 1
             p   == d.up
             q   == c[p].kids
             new == [c[p] EXCEPT !.kids = <<id>> \o @]
             b   == [c EXCEPT ![p] = new]
             l   == Append(b, d)
  <1>1. c \in Seq(Dentries) /\ n \in Nat /\ id \in Nat /\ p \in 1..n
    BY CacheIs
  <1>2. c[p] \in Dentries /\ q \in Seq(Nat) /\ Len(q) \in Nat
    BY <1>1, CacheIs
  <1>3. /\ <<id>> \o q \in Seq(Nat) /\ Len(<<id>> \o q) = 1 + Len(q)
        /\ \A k \in 1..(1 + Len(q)) : (<<id>> \o q)[k] = IF k = 1 THEN id ELSE q[k - 1]
    BY <1>1, <1>2, HeadOn
  <1>4. new \in Dentries /\ new.kids = <<id>> \o q /\ Alike(new, c[p])
    BY <1>2, <1>3 DEF Dentries, Alike
  <1>5. Linked(c, d) = l
    BY Zenon DEF Linked
  <1> HIDE DEF new, id
  <1>6. b \in Seq(Dentries) /\ Len(b) = n /\ \A i \in 1..n : b[i] = IF i = p THEN new ELSE c[i]
    BY <1>1, <1>4
  <1> HIDE DEF b
  <1>7. /\ l \in Seq(Dentries) /\ Len(l) = n + 1 /\ l[n + 1] = d
        /\ \A i \in 1..n : l[i] = IF i = p THEN new ELSE c[i]
    BY <1>1, <1>6, AppendProperties
  <1> HIDE DEF l, n
  <1>8. ASSUME NEW i \in 1..n
        PROVE  Alike(l[i], c[i]) /\ (i # p => l[i].kids = c[i].kids)
    <2>1. Alike(c[i], c[i])
      BY DEF Alike
    <2>2. CASE i = p
      <3>1. l[i] = new
        BY <1>7, <2>2
      <3> QED
        BY <1>4, <2>2, <3>1
    <2>3. CASE i # p
      <3>1. l[i] = c[i]
        BY <1>7, <2>3
      <3> QED
        BY <2>1, <2>3, <3>1
    <2> QED
      BY <2>2, <2>3
  <1>9. l[p].kids = <<id>> \o q
    BY <1>1, <1>4, <1>7
  <1> HIDE DEF q
  <1>10. Len(l[p].kids) = Len(q) + 1 /\ l[p].kids[1] = id
    <2>1. 1 \in 1..(1 + Len(q)) /\ 1 + Len(q) = Len(q) + 1
      BY <1>2
    <2> QED
      BY <1>3, <1>9, <2>1
  <1>11. \A k \in 1..Len(q) : l[p].kids[k + 1] = q[k]
    <2> TAKE k \in 1..Len(q)
    <2>1. k + 1 \in 1..(1 + Len(q)) /\ k + 1 # 1 /\ (k + 1) - 1 = k
      BY <1>2
    <2>2. (<<id>> \o q)[k + 1] = q[(k + 1) - 1]
      BY <1>3, <2>1
    <2> QED
      BY <1>9, <2>1, <2>2
  <1> QED
    BY <1>5, <1>7, <1>8, <1>10, <1>11 DEF q, id, n

\* The child of a name is the one that a lookup takes.
LEMMA ChildFound ==
    ASSUME NEW c, CacheOK(c), NEW d \in 1..Len(c), KidsOK(c, d), NEW k \in 1..Len(c[d].kids)
    PROVE  LET kids == KidsNamed(c, d, c[c[d].kids[k]].name) IN kids # {} /\ Least(kids) = k
  <1> DEFINE kids == KidsNamed(c, d, c[c[d].kids[k]].name)
  <1>1. k \in kids /\ kids \in SUBSET Nat /\ kids \subseteq 1..Len(c[d].kids)
    BY CacheIs DEF KidsNamed
  <1>2. Least(kids) \in kids
    <2> HIDE DEF kids
    <2> QED
      BY <1>1, LeastIs
  <1>3. \A l \in kids : l = k
    BY <1>1 DEF KidsNamed, KidsOK
  <1> QED
    BY <1>1, <1>2, <1>3

\* A lookup that finds something finds a child of that name.
LEMMA FoundChild ==
    ASSUME NEW c, CacheOK(c), NEW d \in 1..Len(c), NEW name, KidsNamed(c, d, name) # {}
    PROVE  LET k == Least(KidsNamed(c, d, name))
           IN  k \in 1..Len(c[d].kids) /\ c[c[d].kids[k]].name = name
  <1> DEFINE kids == KidsNamed(c, d, name)
  <1>1. kids \in SUBSET Nat /\ kids # {}
    BY CacheIs, SMTT(30) DEF KidsNamed
  <1>2. Least(kids) \in kids
    <2> HIDE DEF kids
    <2> QED
      BY <1>1, LeastIs
  <1> QED
    BY <1>2 DEF KidsNamed

-----------------------------------------------------------------------------
(* The tree with one dentry more.                                           *)

LEMMA TreeParts ==
    ASSUME NEW c, CacheOK(c), TreeOK(c), NEW d \in 1..Len(c)
    PROVE  /\ KidsOK(c, d) /\ (d # Dev => c[d].covered = Null)
           /\ d # Root => HangsOK(c, d)
  <1>1. d # Root => d \in 2..Len(c)
    BY CacheIs
  <1> QED
    BY <1>1 DEF TreeOK

\* A new dentry, under a directory that walks come to, of a name not cached there.
NewChild(c, d) ==
    /\ d \in Dentries /\ d.up \in 1..Len(c)
    /\ d.live /\ d.covered = Null /\ d.kids = <<>>
    /\ IsDirectory(c[d.up]) /\ RestsAt(c, d.up)
    /\ KidsNamed(c, d.up, d.name) = {}
    /\ d.kind \in {"file", "dir"} <=> c[d.up].kind = "dir"

LEMMA LinkedTree ==
    ASSUME NEW c, CacheOK(c), TreeOK(c), NEW d, NewChild(c, d)
    PROVE  TreeOK(Linked(c, d))
  <1> DEFINE n == Len(c)
             p == d.up
             l == Linked(c, d)
  <1>1. /\ l \in Seq(Dentries) /\ Len(l) = n + 1 /\ l[n + 1] = d
        /\ \A i \in 1..n : Alike(l[i], c[i]) /\ (i # p => l[i].kids = c[i].kids)
        /\ Len(l[p].kids) = Len(c[p].kids) + 1 /\ l[p].kids[1] = n + 1
        /\ \A k \in 1..Len(c[p].kids) : l[p].kids[k + 1] = c[p].kids[k]
    BY LinkedIs DEF NewChild
  <1>2. /\ n \in Nat /\ n >= 4 /\ p \in 1..n /\ p < n + 1 /\ \A i \in 1..n : i < n + 1
        /\ Root \in 1..n /\ Dev \in 1..n /\ DevRoot \in 1..n
        /\ Root = 1 /\ Dev = 2 /\ DevRoot = 3
    BY CacheIs DEF NewChild
  <1>3. \A i \in 1..n : Len(c[i].kids) \in Nat /\ \A k \in 1..Len(c[i].kids) : c[i].kids[k] \in 1..n
    BY CacheIs
  <1> HIDE DEF l, n, p
  <1>4. BootOK(l)
    BY <1>1, <1>2 DEF TreeOK, BootOK, Alike
  <1>5. \A i \in 1..n : KidsOK(c, i) /\ (i # Dev => c[i].covered = Null) /\ (i # Root => HangsOK(c, i))
    BY TreeParts DEF n
  <1>6. ASSUME NEW i \in 1..n, i # p
        PROVE  KidsOK(l, i)
    <2>1. l[i].kids = c[i].kids
      BY <1>1, <1>6
    <2>2. ASSUME NEW k \in 1..Len(c[i].kids)
          PROVE  l[c[i].kids[k]].live = c[c[i].kids[k]].live /\ l[c[i].kids[k]].name = c[c[i].kids[k]].name
      BY <1>1, <1>3, <2>2 DEF Alike
    <2>3. KidsOK(c, i)
      BY <1>5
    <2> QED
      BY <2>1, <2>2, <2>3, SMTT(30) DEF KidsOK
  <1>7. KidsOK(l, p)
    <2> DEFINE m == Len(c[p].kids)
    <2>1. m \in Nat /\ Len(l[p].kids) = m + 1
      BY <1>1, <1>2, <1>3
    <2>2. ASSUME NEW k \in 1..(m + 1)
          PROVE  \/ k = 1 /\ l[p].kids[k] = n + 1
                 \/ k - 1 \in 1..m /\ l[p].kids[k] = c[p].kids[k - 1] /\ c[p].kids[k - 1] \in 1..n
      <3>1. CASE k = 1
        BY <1>1, <3>1
      <3>2. CASE k # 1
        <4>1. k - 1 \in 1..m /\ (k - 1) + 1 = k
          BY <2>1, <3>2
        <4> QED
          BY <1>1, <1>2, <1>3, <4>1
      <3> QED
        BY <3>1, <3>2
    <2>3. \A k \in 1..m : c[c[p].kids[k]].name # d.name
      BY DEF NewChild, KidsNamed, p
    <2>4. \A k \in 1..m : c[c[p].kids[k]].live /\ c[p].kids[k] # DevRoot
      BY <1>2, <1>5 DEF KidsOK
    <2>5. \A k, j \in 1..m : c[c[p].kids[k]].name = c[c[p].kids[j]].name => k = j
      BY <1>2, <1>5 DEF KidsOK
    <2>6. d.live /\ n + 1 # DevRoot
      BY <1>2 DEF NewChild
    <2> HIDE DEF m
    <2>7. ASSUME NEW k \in 1..(m + 1)
          PROVE  l[l[p].kids[k]].live /\ l[p].kids[k] # DevRoot
      <3>1. CASE k = 1 /\ l[p].kids[k] = n + 1
        BY <1>1, <2>6, <3>1
      <3>2. CASE k - 1 \in 1..m /\ l[p].kids[k] = c[p].kids[k - 1] /\ c[p].kids[k - 1] \in 1..n
        <4>1. l[l[p].kids[k]].live = c[c[p].kids[k - 1]].live
          BY <1>1, <3>2 DEF Alike
        <4> QED
          BY <2>4, <3>2, <4>1
      <3> QED
        BY <2>2, <3>1, <3>2
    <2>8. ASSUME NEW k \in 1..(m + 1), NEW j \in 1..(m + 1),
                 l[l[p].kids[k]].name = l[l[p].kids[j]].name
          PROVE  k = j
      <3>1. ASSUME NEW i \in 1..(m + 1)
            PROVE  \/ i = 1 /\ l[l[p].kids[i]].name = d.name
                   \/ i - 1 \in 1..m /\ l[l[p].kids[i]].name = c[c[p].kids[i - 1]].name
        <4>1. CASE i = 1 /\ l[p].kids[i] = n + 1
          BY <1>1, <4>1
        <4>2. CASE i - 1 \in 1..m /\ l[p].kids[i] = c[p].kids[i - 1] /\ c[p].kids[i - 1] \in 1..n
          BY <1>1, <4>2 DEF Alike
        <4> QED
          BY <2>2, <4>1, <4>2
      <3>2. CASE k = 1 \/ j = 1
        BY <2>3, <2>8, <3>1, <3>2
      <3>3. CASE k # 1 /\ j # 1
        <4>1. k - 1 \in 1..m /\ j - 1 \in 1..m /\ k - 1 = j - 1
          BY <2>5, <2>8, <3>1, <3>3
        <4> QED
          BY <2>1, <4>1
      <3> QED
        BY <3>2, <3>3
    <2> QED
      BY <2>1, <2>7, <2>8 DEF KidsOK
  <1>8. KidsOK(l, n + 1)
    <2>1. Len(l[n + 1].kids) = 0
      BY <1>1 DEF NewChild
    <2>2. \A k \in 1..0 : FALSE
      OBVIOUS
    <2> QED
      BY <2>1, <2>2 DEF KidsOK
  <1>9. ASSUME NEW i \in 2..n
        PROVE  HangsOK(l, i)
    <2>1. i \in 1..n /\ i # Root /\ HangsOK(c, i)
      BY <1>2, <1>5
    <2>2. c[i].up \in 1..n /\ c[i].up \in 1..(i - 1)
      BY <1>2, <2>1 DEF HangsOK
    <2>3. Alike(l[i], c[i]) /\ Alike(l[c[i].up], c[c[i].up])
      BY <1>1, <2>1, <2>2
    <2>4. c[i].live /\ i # DevRoot =>
            \E k \in 1..Len(l[c[i].up].kids) : l[c[i].up].kids[k] = i
      <3> SUFFICES ASSUME c[i].live, i # DevRoot
                   PROVE  \E k \in 1..Len(l[c[i].up].kids) : l[c[i].up].kids[k] = i
        OBVIOUS
      <3>1. PICK k \in 1..Len(c[c[i].up].kids) : c[c[i].up].kids[k] = i
        BY <2>1 DEF HangsOK
      <3>2. CASE c[i].up = p
        <4>1. k \in 1..Len(c[p].kids) /\ Len(c[p].kids) \in Nat /\ c[p].kids[k] = i
          BY <1>2, <1>3, <3>1, <3>2
        <4>2. k + 1 \in 1..Len(l[p].kids)
          BY <1>1, <4>1
        <4>3. l[p].kids[k + 1] = i
          BY <1>1, <4>1
        <4> QED
          BY <3>2, <4>2, <4>3
      <3>3. CASE c[i].up # p
        <4>1. l[c[i].up].kids = c[c[i].up].kids
          BY <1>1, <2>2, <3>3
        <4> QED
          BY <3>1, <4>1
      <3> QED
        BY <3>2, <3>3
    <2>5. IsDirectory(l[c[i].up])
      BY <2>1, <2>3 DEF HangsOK, IsDirectory, Alike
    <2> QED
      BY <2>1, <2>2, <2>3, <2>4, <2>5 DEF HangsOK, Alike
  <1>10. HangsOK(l, n + 1)
    <2>1. /\ d.up = p /\ IsDirectory(c[p]) /\ p # Dev /\ c[p].name \notin Dots
          /\ d.kind \in {"file", "dir"} <=> c[p].kind = "dir"
      BY DEF NewChild, RestsAt, p
    <2>2. Alike(l[p], c[p])
      BY <1>1, <1>2
    <2>3. p \in 1..((n + 1) - 1)
      BY <1>2
    <2>4. \E k \in 1..Len(l[p].kids) : l[p].kids[k] = n + 1
      <3>1. 1 \in 1..Len(l[p].kids)
        BY <1>1, <1>2, <1>3
      <3> QED
        BY <1>1, <3>1
    <2>5. IsDirectory(l[p])
      BY <2>1, <2>2 DEF IsDirectory, Alike
    <2> QED
      BY <1>1, <2>1, <2>2, <2>3, <2>4, <2>5 DEF HangsOK, Alike
  <1>11. \A i \in 1..(n + 1) : i # Dev => l[i].covered = Null
    <2>1. \A i \in 1..(n + 1) : i \in 1..n \/ i = n + 1
      BY <1>2
    <2> QED
      BY <1>1, <1>5, <2>1 DEF NewChild, Alike
  <1>12. \A i \in 1..(n + 1) : KidsOK(l, i)
    <2>1. \A i \in 1..(n + 1) : i \in 1..n \/ i = n + 1
      BY <1>2
    <2> QED
      BY <1>6, <1>7, <1>8, <2>1
  <1>13. \A i \in 2..(n + 1) : HangsOK(l, i)
    <2>1. \A i \in 2..(n + 1) : i \in 2..n \/ i = n + 1
      BY <1>2
    <2> QED
      BY <1>9, <1>10, <2>1
  <1>14. TreeOK(l)
    BY <1>1, <1>4, <1>11, <1>12, <1>13 DEF TreeOK
  <1> QED
    BY <1>14 DEF l

-----------------------------------------------------------------------------
(* One cache goes on from another and keeps its tree.                       *)

Ext(c, d) ==
    /\ Len(c) <= Len(d)
    /\ \A i \in 1..Len(c) :
         /\ d[i].name = c[i].name /\ d[i].up = c[i].up /\ d[i].kind = c[i].kind
         /\ d[i].live = c[i].live /\ d[i].covered = c[i].covered
         /\ \A k \in 1..Len(c[i].kids) : \E j \in 1..Len(d[i].kids) : d[i].kids[j] = c[i].kids[k]

LEMMA ExtSelf == \A c \in Seq(Dentries) : Ext(c, c)
  BY DEF Ext

LEMMA ExtOn ==
    ASSUME NEW a \in Seq(Dentries), NEW b \in Seq(Dentries), NEW c \in Seq(Dentries),
           Ext(a, b), Ext(b, c)
    PROVE  Ext(a, c)
  <1>1. Len(a) \in Nat /\ Len(b) \in Nat /\ Len(c) \in Nat
    OBVIOUS
  <1>2. Len(a) <= Len(c) /\ \A i \in 1..Len(a) : i \in 1..Len(b)
    BY <1>1 DEF Ext
  <1>3. ASSUME NEW i \in 1..Len(a)
        PROVE  /\ c[i].name = a[i].name /\ c[i].up = a[i].up /\ c[i].kind = a[i].kind
               /\ c[i].live = a[i].live /\ c[i].covered = a[i].covered
    BY <1>2 DEF Ext
  <1>4. ASSUME NEW i \in 1..Len(a), NEW k \in 1..Len(a[i].kids)
        PROVE  \E j \in 1..Len(c[i].kids) : c[i].kids[j] = a[i].kids[k]
    <2>1. PICK h \in 1..Len(b[i].kids) : b[i].kids[h] = a[i].kids[k]
      BY DEF Ext
    <2>2. PICK j \in 1..Len(c[i].kids) : c[i].kids[j] = b[i].kids[h]
      BY <1>2 DEF Ext
    <2> QED
      BY <2>1, <2>2
  <1> QED
    BY <1>2, <1>3, <1>4 DEF Ext

LEMMA LinkedExt ==
    ASSUME NEW c, CacheOK(c), NEW d, NewChild(c, d)
    PROVE  Ext(c, Linked(c, d))
  <1> DEFINE n == Len(c)
             p == d.up
             l == Linked(c, d)
  <1>1. /\ Len(l) = n + 1
        /\ \A i \in 1..n : Alike(l[i], c[i]) /\ (i # p => l[i].kids = c[i].kids)
        /\ Len(l[p].kids) = Len(c[p].kids) + 1
        /\ \A k \in 1..Len(c[p].kids) : l[p].kids[k + 1] = c[p].kids[k]
    BY LinkedIs, SMTT(30) DEF NewChild
  <1>2. n \in Nat /\ \A i \in 1..n : Len(c[i].kids) \in Nat
    BY CacheIs
  <1>3. p \in 1..n
    BY DEF NewChild
  <1> HIDE DEF l, p, n
  <1>4. ASSUME NEW i \in 1..n, NEW k \in 1..Len(c[i].kids)
        PROVE  \E j \in 1..Len(l[i].kids) : l[i].kids[j] = c[i].kids[k]
    <2>1. CASE i = p
      <3>1. k + 1 \in 1..Len(l[i].kids) /\ l[i].kids[k + 1] = c[i].kids[k]
        BY <1>1, <1>2, <1>3, <1>4, <2>1
      <3> QED
        BY <3>1
    <2>2. CASE i # p
      <3>1. l[i].kids = c[i].kids
        BY <1>1, <2>2
      <3> QED
        BY <3>1
    <2> QED
      BY <2>1, <2>2
  <1>5. Len(c) <= Len(l)
    BY <1>1, <1>2 DEF n
  <1>6. Ext(c, l)
    BY <1>1, <1>4, <1>5 DEF Ext, Alike, n
  <1> QED
    BY <1>6 DEF l

-----------------------------------------------------------------------------
(* The cache and the disk.                                                  *)

LEMMA UsedName ==
    ASSUME NoAliases, NEW dk, DiskOK(dk), NEW c \in Clusters, NEW name, NEW i
    PROVE  i \in Matching(dk, c, name) <=> i \in Used(dk, c) /\ dk[c][i].name = name
  <1>1. \A n : AnswersOf(n) = {n}
    BY DEF AnswersOf, NoAliases
  <1>2. ASSUME i \in Used(dk, c)
        PROVE  name \in AnswersOf(dk[c][i].name) <=> dk[c][i].name = name
    BY <1>1
  <1> QED
    BY <1>2 DEF Matching

\* A directory of the cache is one of the disk's that is in use.
LEMMA DirectoryTaken ==
    ASSUME NEW dk, NEW tk, NEW c, CacheOK(c), TreeOK(c), AgreesOK(dk, tk, c),
           NEW d \in 1..Len(c), c[d].live, c[d].kind = "dir"
    PROVE  /\ c[d].cluster \in tk /\ c[d].cluster \in Clusters
           /\ d # Root => OfDisk(c, d) /\ d \in 2..Len(c) /\ c[d].cluster # 1
           /\ d = Root => c[d].cluster = 1
  <1>1. tk \subseteq Clusters /\ 1 \in tk
    BY DEF AgreesOK, EntriesOK
  <1>2. CASE d = Root
    <2>1. c[d].cluster = 1
      BY <1>2 DEF TreeOK, BootOK
    <2> QED
      BY <1>1, <1>2, <2>1
  <1>3. CASE d # Root
    <2>1. d \in 2..Len(c)
      BY <1>3, CacheIs
    <2>2. OfDisk(c, d)
      BY DEF OfDisk
    <2>3. c[d].cluster \in tk \ {1}
      BY <2>1, <2>2 DEF AgreesOK, CachedOnDisk
    <2> QED
      BY <1>1, <1>3, <2>1, <2>2, <2>3
  <1> QED
    BY <1>2, <1>3

\* A cached dentry with the cluster of an entry is the child that stands for it.
LEMMA StandsFor ==
    ASSUME NEW dk, NEW tk, NEW c, CacheOK(c), TreeOK(c), AgreesOK(dk, tk, c),
           NEW at \in 1..Len(c), c[at].live, c[at].kind = "dir",
           NEW i \in Used(dk, c[at].cluster),
           NEW z \in 2..Len(c), OfDisk(c, z), c[z].cluster = dk[c[at].cluster][i].cluster
    PROVE  /\ c[z].up = at /\ c[z].slot = i /\ c[z].name = dk[c[at].cluster][i].name
           /\ \E k \in 1..Len(c[at].kids) : c[at].kids[k] = z
  <1> DEFINE up == c[z].up
  <1>1. c[at].cluster \in tk
    BY DirectoryTaken
  <1>2. CachedOnDisk(dk, tk, c, z)
    BY DEF AgreesOK
  <1>3. c[up].live
    BY <1>1, <1>2 DEF CachedOnDisk
  <1>4. z # DevRoot /\ HangsOK(c, z)
    <2>1. z # DevRoot
      BY DEF OfDisk, TreeOK, BootOK
    <2> QED
      BY <2>1 DEF TreeOK
  <1>5. up \in 1..Len(c) /\ c[up].kind = "dir"
    <2>1. up \in 1..(z - 1) /\ Len(c) \in Nat
      BY <1>4, CacheIs DEF HangsOK
    <2>2. c[up].kind = "dir"
      BY <1>4 DEF HangsOK, OfDisk
    <2> QED
      BY <2>1, <2>2
  <1>6. c[up].cluster \in tk
    BY <1>3, <1>5, DirectoryTaken
  <1>7. /\ c[z].slot \in Used(dk, c[up].cluster)
        /\ dk[c[up].cluster][c[z].slot].cluster = c[z].cluster
        /\ dk[c[up].cluster][c[z].slot].name = c[z].name
    BY <1>2, <1>3 DEF CachedOnDisk
  <1>8. c[up].cluster = c[at].cluster /\ c[z].slot = i
    BY <1>1, <1>6, <1>7 DEF AgreesOK, EntriesOK
  <1>9. up = at
    <2>1. CASE up = Root \/ at = Root
      BY <1>3, <1>5, <1>8, <2>1, DirectoryTaken
    <2>2. CASE up # Root /\ at # Root
      <3>1. OfDisk(c, up) /\ OfDisk(c, at) /\ up \in 2..Len(c) /\ at \in 2..Len(c)
        BY <1>3, <1>5, <2>2, DirectoryTaken
      <3> QED
        BY <1>8, <3>1 DEF AgreesOK
    <2> QED
      BY <2>1, <2>2
  <1>10. \E k \in 1..Len(c[at].kids) : c[at].kids[k] = z
    BY <1>4, <1>9 DEF HangsOK, OfDisk
  <1> QED
    BY <1>7, <1>8, <1>9, <1>10

\* A new dentry has an entry of its own.
OwnEntry(dk, tk, c, d) ==
    /\ c[d.up].live /\ d.cluster \in tk \ {1}
    /\ d.slot \in Used(dk, c[d.up].cluster)
    /\ dk[c[d.up].cluster][d.slot] = [name |-> d.name, kind |-> d.kind,
                                      cluster |-> d.cluster, size |-> d.size]
    /\ \A e \in 2..Len(c) : OfDisk(c, e) => c[e].cluster # d.cluster

LEMMA LinkedAgrees ==
    ASSUME NEW dk, NEW tk, NEW c, CacheOK(c), TreeOK(c), AgreesOK(dk, tk, c),
           NEW d, NewChild(c, d), d.kind \in {"file", "dir"} => OwnEntry(dk, tk, c, d)
    PROVE  AgreesOK(dk, tk, Linked(c, d))
  <1> DEFINE n == Len(c)
             l == Linked(c, d)
  <1>1. /\ Len(l) = n + 1 /\ l[n + 1] = d
        /\ \A i \in 1..n : Alike(l[i], c[i])
    BY LinkedIs DEF NewChild
  <1>2. n \in Nat /\ d.up \in 1..n /\ \A i \in 2..n : i \in 1..n
    BY CacheIs DEF NewChild
  <1>3. \A i \in 2..n : c[i].up \in 1..n
    <2>1. \A i \in 2..n : c[i].up \in 1..(i - 1)
      BY DEF TreeOK, HangsOK
    <2> QED
      BY <1>2, <2>1
  <1>4. \A i \in 2..n : OfDisk(l, i) <=> OfDisk(c, i)
    BY <1>1, <1>2 DEF OfDisk, Alike
  <1>5. ASSUME NEW i \in 2..n, OfDisk(l, i)
        PROVE  CachedOnDisk(dk, tk, l, i)
    <2>1. CachedOnDisk(dk, tk, c, i)
      BY <1>4, <1>5 DEF AgreesOK
    <2>2. Alike(l[i], c[i]) /\ Alike(l[c[i].up], c[c[i].up])
      BY <1>1, <1>2, <1>3
    <2> HIDE DEF l, n
    <2> QED
      BY <2>1, <2>2 DEF CachedOnDisk, Alike
  <1>6. OfDisk(l, n + 1) <=> d.kind \in {"file", "dir"}
    BY <1>1 DEF OfDisk, NewChild
  <1>7. OfDisk(l, n + 1) => CachedOnDisk(dk, tk, l, n + 1)
    <2> SUFFICES ASSUME OfDisk(l, n + 1)
                 PROVE  CachedOnDisk(dk, tk, l, n + 1)
      OBVIOUS
    <2>1. OwnEntry(dk, tk, c, d)
      BY <1>6
    <2>2. Alike(l[d.up], c[d.up]) /\ l[n + 1] = d
      BY <1>1, <1>2
    <2> HIDE DEF l, n
    <2> QED
      BY <2>1, <2>2 DEF CachedOnDisk, OwnEntry, Alike
  <1> HIDE DEF l
  <1>8. ASSUME NEW i \in 2..n, OfDisk(l, i), OfDisk(l, n + 1)
        PROVE  l[i].cluster # l[n + 1].cluster
    <2>1. OwnEntry(dk, tk, c, d)
      BY <1>6, <1>8
    <2>2. c[i].cluster # d.cluster
      BY <1>4, <1>8, <2>1 DEF OwnEntry
    <2> QED
      BY <1>1, <1>2, <2>2 DEF Alike
  <1>9. ASSUME NEW i \in 2..n, NEW j \in 2..n, OfDisk(l, i), OfDisk(l, j), l[i].cluster = l[j].cluster
        PROVE  i = j
    <2>1. c[i].cluster = c[j].cluster /\ OfDisk(c, i) /\ OfDisk(c, j)
      BY <1>1, <1>2, <1>4, <1>9 DEF Alike
    <2> QED
      BY <2>1 DEF AgreesOK
  <1>10. \A i \in 2..Len(l) : i \in 2..n \/ i = n + 1
    BY <1>1, <1>2
  <1>11. \A i \in 2..Len(l) : OfDisk(l, i) => CachedOnDisk(dk, tk, l, i)
    BY <1>5, <1>7, <1>10
  <1>12. \A i, j \in 2..Len(l) : OfDisk(l, i) /\ OfDisk(l, j) /\ l[i].cluster = l[j].cluster => i = j
    BY <1>8, <1>9, <1>10
  <1>13. AgreesOK(dk, tk, l)
    BY <1>11, <1>12 DEF AgreesOK
  <1> QED
    BY <1>13 DEF l

-----------------------------------------------------------------------------
(* Walks keep the tree and its agreement with the disk.                     *)

Good(c) == CacheOK(c) /\ TreeOK(c) /\ (NoAliases => AgreesOK(disk, taken, c))

\* A lookup in directory at has made z of the entry that it found.
AddedBy(c, at, name, z) ==
    LET slots == Matching(disk, c[at].cluster, name)
        e     == disk[c[at].cluster][z.slot]
    IN  /\ c[at].kind = "dir" /\ c[at].cluster \in Clusters /\ slots # {}
        /\ z.slot = Least(slots) /\ z.slot \in slots
        /\ e \in Entries /\ NewChild(c, z) /\ z.kind \in {"file", "dir"}
        /\ z.name = name /\ z.up = at /\ z.kind = e.kind /\ z.cluster = e.cluster /\ z.size = e.size

\* What a lookup adds to the cache.
LEMMA CachedIs ==
    ASSUME DiskOK(disk), NEW c, CacheOK(c), NEW at \in 1..Len(c), RestsAt(c, at),
           NEW name \in Words, KidsNamed(c, at, name) = {}
    PROVE  \/ /\ Cached(c, at, name) = c
              /\ c[at].kind = "dir" => Matching(disk, c[at].cluster, name) = {}
           \/ \E z : Cached(c, at, name) = Linked(c, z) /\ AddedBy(c, at, name, z)
  <1> DEFINE slots == Matching(disk, c[at].cluster, name)
             i == Least(slots)
             e == disk[c[at].cluster][i]
             z == Dentry(name, at, e.kind, e.cluster, e.size, i)
  <1>1. CASE c[at].kind # "dir" \/ slots = {}
    <2>1. Cached(c, at, name) = c
      BY <1>1 DEF Cached
    <2> QED
      BY <1>1, <2>1
  <1>2. CASE c[at].kind = "dir" /\ slots # {}
    <2>1. Cached(c, at, name) = Linked(c, z)
      BY <1>2, Zenon DEF Cached
    <2>2. c[at].cluster \in Clusters
      BY <1>2 DEF CacheOK
    <2>3. i \in Nat /\ e \in Entries /\ e.cluster \in Clusters
      BY <1>2, <2>2, MatchIs
    <2>4. i \in slots
      <3>1. slots \in SUBSET Nat
        <4>1. disk[c[at].cluster] \in Seq(Entries)
          BY <2>2 DEF DiskOK
        <4> QED
          BY <4>1 DEF Matching, Used
      <3> HIDE DEF slots
      <3> QED
        BY <1>2, <3>1, LeastIs
    <2>5. e.kind \in Kinds /\ e.cluster \in Nat /\ e.size \in 0..MaxSize /\ e.kind \in {"file", "dir"}
      <3> HIDE DEF e
      <3> QED
        BY <2>3 DEF Entries, Kinds
    <2>6. at \in Nat
      BY CacheIs
    <2>7. /\ z \in Dentries /\ z.kids = <<>> /\ z.covered = Null /\ z.live
          /\ z.name = name /\ z.up = at /\ z.kind = e.kind /\ z.cluster = e.cluster
          /\ z.size = e.size /\ z.slot = i
      <3> HIDE DEF e, i
      <3> DEFINE k == e.kind
                 cl == e.cluster
                 sz == e.size
                 y == Dentry(name, at, k, cl, sz, i)
      <3>1. k \in Kinds /\ cl \in Nat /\ sz \in 0..MaxSize /\ i \in Nat
        BY <2>3, <2>5
      <3> HIDE DEF k, cl, sz
      <3>2. /\ y \in Dentries /\ y.up = at /\ y.kind = k /\ y.cluster = cl
            /\ y.kids = <<>> /\ y.covered = Null /\ y.live
        BY <2>6, <3>1, DentryIs
      <3>3. y.name = name /\ y.size = sz /\ y.slot = i
        BY DEF Dentry
      <3> QED
        BY <3>2, <3>3, Zenon DEF k, cl, sz
    <2> HIDE DEF z
    <2>8. z.kind \in {"file", "dir"}
      BY <2>5, <2>7
    <2>9. NewChild(c, z)
      <3>1. IsDirectory(c[at])
        BY <1>2 DEF IsDirectory
      <3> QED
        BY <1>2, <2>7, <2>8, <3>1 DEF NewChild
    <2>10. AddedBy(c, at, name, z)
      <3>1. z.slot = i
        BY <2>7
      <3> QED
        BY <1>2, <2>2, <2>3, <2>4, <2>7, <2>8, <2>9, <3>1, Zenon DEF AddedBy, e, i, slots
    <2> QED
      BY <2>1, <2>10
  <1> QED
    BY <1>1, <1>2

LEMMA AddedGood ==
    ASSUME DiskOK(disk), NEW c, Good(c), NEW at \in 1..Len(c), RestsAt(c, at), c[at].live,
           NEW name \in Words, KidsNamed(c, at, name) = {}, NEW z, AddedBy(c, at, name, z)
    PROVE  TreeOK(Linked(c, z)) /\ (NoAliases => AgreesOK(disk, taken, Linked(c, z)))
  <1> DEFINE cl == c[at].cluster
             i == z.slot
             e == disk[cl][i]
  <1>1. CacheOK(c) /\ TreeOK(c) /\ NewChild(c, z)
    BY DEF Good, AddedBy
  <1>2. TreeOK(Linked(c, z))
    BY <1>1, LinkedTree
  <1>3. /\ c[at].kind = "dir" /\ cl \in Clusters /\ i \in Matching(disk, cl, name) /\ e \in Entries
        /\ z.kind \in {"file", "dir"}
        /\ z.name = name /\ z.up = at /\ z.kind = e.kind /\ z.cluster = e.cluster /\ z.size = e.size
    BY DEF AddedBy
  <1> HIDE DEF i, e, cl
  <1>4. ASSUME NoAliases
        PROVE  AgreesOK(disk, taken, Linked(c, z))
    <2>1. AgreesOK(disk, taken, c)
      BY <1>4 DEF Good
    <2>2. cl \in taken
      BY <1>1, <1>3, <2>1, DirectoryTaken DEF cl
    <2>3. i \in Used(disk, cl) /\ disk[cl][i].name = name
      BY <1>3, <1>4, UsedName
    <2>4. e.name = name /\ e = disk[cl][i]
      BY <2>3 DEF e
    <2>5. e.cluster \in taken \ {1}
      BY <2>1, <2>2, <2>3, <2>4 DEF AgreesOK, EntriesOK
    <2>6. e = [name |-> z.name, kind |-> z.kind, cluster |-> z.cluster, size |-> z.size]
      BY <1>3, <2>4 DEF Entries
    <2>7. ASSUME NEW y \in 2..Len(c), OfDisk(c, y), c[y].cluster = z.cluster
          PROVE  FALSE
      <3>1. c[y].cluster = disk[c[at].cluster][i].cluster /\ i \in Used(disk, c[at].cluster)
        BY <1>3, <2>3, <2>4, <2>7 DEF cl
      <3>2. /\ c[y].name = disk[c[at].cluster][i].name
            /\ \E k \in 1..Len(c[at].kids) : c[at].kids[k] = y
        BY <1>1, <1>3, <2>1, <2>7, <3>1, StandsFor
      <3>3. c[y].name = name
        BY <2>3, <3>2 DEF cl
      <3>4. KidsNamed(c, at, name) # {}
        BY <3>2, <3>3 DEF KidsNamed
      <3> QED
        BY <3>4
    <2>8. OwnEntry(disk, taken, c, z)
      <3>1. c[z.up].live /\ c[z.up].cluster = cl /\ z.slot = i
        BY <1>3 DEF cl, i
      <3>2. \A y \in 2..Len(c) : OfDisk(c, y) => c[y].cluster # z.cluster
        BY <2>7
      <3>3. z.cluster \in taken \ {1} /\ disk[cl][i] = e
        BY <1>3, <2>4, <2>5
      <3> QED
        BY <2>3, <2>6, <3>1, <3>2, <3>3 DEF OwnEntry
    <2> QED
      BY <1>1, <2>1, <2>8, LinkedAgrees
  <1> QED
    BY <1>2, <1>4

LEMMA CachedGood ==
    ASSUME DiskOK(disk), NEW c, Good(c), NEW at \in 1..Len(c), RestsAt(c, at), c[at].live,
           NEW name \in Words, KidsNamed(c, at, name) = {}
    PROVE  Good(Cached(c, at, name)) /\ Ext(c, Cached(c, at, name))
  <1>1. CacheOK(c) /\ TreeOK(c) /\ c \in Seq(Dentries) /\ CacheOK(Cached(c, at, name))
    <2>1. CacheOK(c) /\ TreeOK(c)
      BY DEF Good
    <2>2. c \in Seq(Dentries)
      BY <2>1, CacheIs
    <2> QED
      BY <2>1, <2>2, CachedOK
  <1>2. CASE Cached(c, at, name) = c
    BY <1>1, <1>2, ExtSelf
  <1>3. ASSUME NEW z, Cached(c, at, name) = Linked(c, z), AddedBy(c, at, name, z)
        PROVE  Good(Cached(c, at, name)) /\ Ext(c, Cached(c, at, name))
    <2>1. Ext(c, Linked(c, z))
      BY <1>1, <1>3, LinkedExt DEF AddedBy
    <2>2. TreeOK(Linked(c, z)) /\ (NoAliases => AgreesOK(disk, taken, Linked(c, z)))
      BY <1>3, AddedGood
    <2> QED
      BY <1>1, <1>3, <2>1, <2>2 DEF Good
  <1>4. \/ Cached(c, at, name) = c
        \/ \E z : Cached(c, at, name) = Linked(c, z) /\ AddedBy(c, at, name, z)
    BY <1>1, CachedIs
  <1> QED
    BY <1>2, <1>3, <1>4

-----------------------------------------------------------------------------
(* One component of a path.                                                 *)

\* The cache once a name has been looked for in directory at.
Asked(c, at, name) == IF KidsNamed(c, at, name) = {} THEN Cached(c, at, name) ELSE c

\* The child that the name leads to.
FoundIn(c, at, name) == c[at].kids[Least(KidsNamed(c, at, name))]

\* What Component does, its cases apart.
LEMMA ComponentIs ==
    ASSUME NEW w, NEW name
    PROVE  LET v    == Component(w, name)
               here == w.cache[w.at]
               b    == Asked(w.cache, w.at, name)
           IN  \/ w.end # "at" /\ v = w
               \/ /\ w.end = "at"
                  /\ \/ ~here.live /\ v = [w EXCEPT !.end = "wild"]
                     \/ here.live /\ ~IsDirectory(here) /\ v = [w EXCEPT !.end = "none"]
                     \/ /\ here.live /\ IsDirectory(here)
                        /\ \/ name = "." /\ v = w
                           \/ name = ".." /\ v = [w EXCEPT !.at = IF here.up # Null THEN here.up ELSE @]
                           \/ /\ name \notin Dots /\ KidsNamed(b, w.at, name) = {}
                              /\ v = [w EXCEPT !.end = "none"]
                           \/ /\ name \notin Dots /\ KidsNamed(b, w.at, name) # {}
                              /\ v = [cache |-> b, end |-> "at",
                                      at |-> Through(b, FoundIn(b, w.at, name))]
  <1> DEFINE v    == Component(w, name)
             here == w.cache[w.at]
             b    == Asked(w.cache, w.at, name)
             kids == KidsNamed(b, w.at, name)
             gone == [w EXCEPT !.end = "wild"]
             none == [w EXCEPT !.end = "none"]
             up   == [w EXCEPT !.at = IF here.up # Null THEN here.up ELSE @]
             down == [cache |-> b, end |-> "at", at |-> Through(b, FoundIn(b, w.at, name))]
  <1>1. v = IF w.end # "at" THEN w
            ELSE IF ~here.live THEN gone
            ELSE IF ~IsDirectory(here) THEN none
            ELSE IF name = "." THEN w
            ELSE IF name = ".." THEN up
            ELSE IF kids = {} THEN none
            ELSE down
    BY Zenon DEF Component, Asked, FoundIn
  <1>2. name \notin Dots <=> name # "." /\ name # ".."
    BY DEF Dots
  <1> HIDE DEF v, here, kids, gone, none, up, down
  <1>3. \/ w.end # "at" /\ v = w
        \/ /\ w.end = "at"
           /\ \/ ~here.live /\ v = gone
              \/ here.live /\ ~IsDirectory(here) /\ v = none
              \/ /\ here.live /\ IsDirectory(here)
                 /\ \/ name = "." /\ v = w
                    \/ name = ".." /\ v = up
                    \/ name \notin Dots /\ kids = {} /\ v = none
                    \/ name \notin Dots /\ kids # {} /\ v = down
    BY <1>1, <1>2
  <1> QED
    BY <1>3, Zenon DEF v, here, kids, gone, none, up, down

LEMMA AskedGood ==
    ASSUME DiskOK(disk), NEW c, Good(c), NEW at \in 1..Len(c), RestsAt(c, at), c[at].live,
           NEW name \in Words
    PROVE  Good(Asked(c, at, name)) /\ Ext(c, Asked(c, at, name))
  <1>1. CASE KidsNamed(c, at, name) = {}
    <2>1. Asked(c, at, name) = Cached(c, at, name)
      BY <1>1 DEF Asked
    <2> QED
      BY <1>1, <2>1, CachedGood
  <1>2. CASE KidsNamed(c, at, name) # {}
    <2>1. Asked(c, at, name) = c
      BY <1>2 DEF Asked
    <2>2. c \in Seq(Dentries)
      BY CacheIs DEF Good
    <2> QED
      BY <2>1, <2>2, ExtSelf
  <1> QED
    BY <1>1, <1>2

\* The child that is found, and where a walk comes to.
LEMMA FoundIs ==
    ASSUME NEW c, CacheOK(c), TreeOK(c), NEW at \in 1..Len(c), NEW name,
           KidsNamed(c, at, name) # {}
    PROVE  LET d == FoundIn(c, at, name)
           IN  /\ d \in 1..Len(c) /\ d # Root /\ d # DevRoot
               /\ c[d].name = name /\ c[d].up = at /\ c[d].live
               /\ \E k \in 1..Len(c[at].kids) : c[at].kids[k] = d
               /\ Through(c, d) = IF d = Dev THEN DevRoot ELSE d
               /\ Through(c, d) \in 1..Len(c)
               /\ name \notin Dots => RestsAt(c, Through(c, d))
  <1> DEFINE k == Least(KidsNamed(c, at, name))
             d == FoundIn(c, at, name)
  <1>1. k \in 1..Len(c[at].kids) /\ d = c[at].kids[k] /\ c[d].name = name
    BY FoundChild DEF FoundIn
  <1> HIDE DEF k, d
  <1>2. d \in 1..Len(c) /\ c[d].up = at
    BY <1>1, CacheIs
  <1>3. c[d].live /\ d # DevRoot
    BY <1>1 DEF TreeOK, KidsOK
  <1>4. /\ Root \in 1..Len(c) /\ Dev \in 1..Len(c) /\ DevRoot \in 1..Len(c)
        /\ Root = 1 /\ Dev = 2 /\ DevRoot = 3 /\ Null = 0 /\ Len(c) \in Nat
    BY CacheIs
  <1>5. c[Root].up = Null /\ c[Dev].covered = DevRoot /\ c[DevRoot].name = "dev"
    BY DEF TreeOK, BootOK
  <1>6. d # Root
    BY <1>2, <1>4, <1>5
  <1>7. d # Dev => c[d].covered = Null
    BY <1>2 DEF TreeOK
  <1>8. Through(c, d) = IF d = Dev THEN DevRoot ELSE d
    BY <1>4, <1>5, <1>7 DEF Through
  <1>9. "dev" \notin Dots
    BY DEF Dots
  <1>10. name \notin Dots => RestsAt(c, Through(c, d))
    BY <1>1, <1>4, <1>5, <1>8, <1>9 DEF RestsAt
  <1> QED
    BY <1>1, <1>2, <1>3, <1>4, <1>6, <1>8, <1>10, Zenon DEF d

\* A walk on from cache c.
GoodWalk(c, w) ==
    WalkOK(c, w) /\ Good(w.cache) /\ RestsAt(w.cache, w.at) /\ Ext(c, w.cache)

LEMMA RestsOn ==
    ASSUME NEW a, NEW b, Ext(a, b), NEW d \in 1..Len(a), RestsAt(a, d)
    PROVE  RestsAt(b, d)
  BY DEF RestsAt, Ext

\* The dentry above is one that a walk may come to.
LEMMA UpRests ==
    ASSUME NEW c, CacheOK(c), TreeOK(c), NEW d \in 1..Len(c), c[d].up # Null
    PROVE  RestsAt(c, c[d].up) /\ c[d].up \in 1..Len(c)
  <1>1. d # Root
    BY DEF TreeOK, BootOK
  <1>2. HangsOK(c, d)
    BY <1>1, TreeParts
  <1>3. c[d].up \in 1..(d - 1) /\ Len(c) \in Nat
    BY <1>2, CacheIs DEF HangsOK
  <1>4. c[d].up \in 1..Len(c)
    BY <1>3
  <1> QED
    BY <1>2, <1>4 DEF HangsOK, RestsAt

LEMMA ComponentGood ==
    ASSUME DiskOK(disk), NEW c \in Seq(Dentries), NEW w, GoodWalk(c, w), NEW name \in Words
    PROVE  GoodWalk(c, Component(w, name)) /\ Ext(w.cache, Component(w, name).cache)
  <1> DEFINE v    == Component(w, name)
             here == w.cache[w.at]
             b    == Asked(w.cache, w.at, name)
  <1>1. /\ w \in Walks /\ CacheOK(w.cache) /\ TreeOK(w.cache) /\ w.at \in 1..Len(w.cache)
        /\ w.cache \in Seq(Dentries) /\ Good(w.cache) /\ RestsAt(w.cache, w.at) /\ Ext(c, w.cache)
    BY CacheIs DEF GoodWalk, WalkOK, Good
  <1>2. WalkOK(c, v)
    BY ComponentOK DEF GoodWalk
  <1>3. Ext(w.cache, w.cache)
    BY <1>1, ExtSelf
  <1> HIDE DEF v, here, b
  <1>4. CASE v.cache = w.cache /\ v.at = w.at
    BY <1>1, <1>2, <1>3, <1>4 DEF GoodWalk, v
  <1>5. CASE v.cache = w.cache /\ here.up # Null /\ v.at = here.up
    <2>1. RestsAt(w.cache, v.at)
      BY <1>1, <1>5, UpRests DEF here
    <2> QED
      BY <1>1, <1>2, <1>3, <1>5, <2>1 DEF GoodWalk, v
  <1>6. CASE /\ here.live /\ name \notin Dots /\ KidsNamed(b, w.at, name) # {}
             /\ v.cache = b /\ v.at = Through(b, FoundIn(b, w.at, name))
    <2>1. Good(b) /\ Ext(w.cache, b)
      BY <1>1, <1>6, AskedGood DEF here, b
    <2>2. CacheOK(b) /\ TreeOK(b) /\ b \in Seq(Dentries)
      BY <2>1, CacheIs DEF Good
    <2>3. w.at \in 1..Len(b)
      <3>1. Len(w.cache) <= Len(b) /\ Len(w.cache) \in Nat /\ Len(b) \in Nat
        BY <1>1, <2>1, <2>2 DEF Ext
      <3> QED
        BY <1>1, <3>1
    <2>4. RestsAt(b, v.at)
      BY <1>6, <2>2, <2>3, FoundIs
    <2>5. Ext(c, b)
      BY <1>1, <2>1, <2>2, ExtOn
    <2> QED
      BY <1>2, <1>6, <2>1, <2>4, <2>5 DEF GoodWalk, v
  <1>7. \/ v = w
        \/ v = [w EXCEPT !.end = "wild"]
        \/ v = [w EXCEPT !.end = "none"]
        \/ v = [w EXCEPT !.at = IF here.up # Null THEN here.up ELSE @]
        \/ /\ here.live /\ name \notin Dots /\ KidsNamed(b, w.at, name) # {}
           /\ v = [cache |-> b, end |-> "at", at |-> Through(b, FoundIn(b, w.at, name))]
    <2>1. LET q == Asked(w.cache, w.at, name)
              h == w.cache[w.at]
              u == Component(w, name)
          IN  \/ w.end # "at" /\ u = w
              \/ /\ w.end = "at"
                 /\ \/ ~h.live /\ u = [w EXCEPT !.end = "wild"]
                    \/ h.live /\ ~IsDirectory(h) /\ u = [w EXCEPT !.end = "none"]
                    \/ /\ h.live /\ IsDirectory(h)
                       /\ \/ name = "." /\ u = w
                          \/ name = ".." /\ u = [w EXCEPT !.at = IF h.up # Null THEN h.up ELSE @]
                          \/ /\ name \notin Dots /\ KidsNamed(q, w.at, name) = {}
                             /\ u = [w EXCEPT !.end = "none"]
                          \/ /\ name \notin Dots /\ KidsNamed(q, w.at, name) # {}
                             /\ u = [cache |-> q, end |-> "at",
                                     at |-> Through(q, FoundIn(q, w.at, name))]
      BY ComponentIs, ZenonT(40)
    <2>2. v = Component(w, name) /\ here = w.cache[w.at] /\ b = Asked(w.cache, w.at, name)
      BY DEF v, here, b
    <2> QED
      BY <2>1, <2>2, SMTT(30)
  <1>8. \/ v.cache = w.cache /\ v.at = w.at
        \/ v.cache = w.cache /\ here.up # Null /\ v.at = here.up
        \/ /\ here.live /\ name \notin Dots /\ KidsNamed(b, w.at, name) # {}
           /\ v.cache = b /\ v.at = Through(b, FoundIn(b, w.at, name))
    BY <1>1, <1>7 DEF Walks
  <1> QED
    BY <1>4, <1>5, <1>6, <1>8

-----------------------------------------------------------------------------
(* Whole walks.                                                             *)

\* A walk ends at a dentry that lives.
Finished(w) == IF w.end = "at" /\ ~w.cache[w.at].live THEN [w EXCEPT !.end = "wild"] ELSE w

Start(c, p, abs) == [cache |-> c, end |-> "at", at |-> IF abs THEN Root ELSE task[p].cwd]

LEMMA WalkSteps ==
    ASSUME NEW c, NEW p, NEW abs, NEW steps, Len(steps) \in Nat
    PROVE  \E f : /\ IsWalk(f, Len(steps), Start(c, p, abs), steps)
                  /\ WalkOn(c, p, abs, steps) = Finished(f[Len(steps)])
  <1> DEFINE start == Start(c, p, abs)
             n == Len(steps)
             walk == CHOOSE f : f = [i \in 0..n |->
                                      IF i = 0 THEN start ELSE Component(f[i - 1], steps[i])]
  <1>1. WalkOn(c, p, abs, steps) = Finished(walk[n])
    BY Zenon DEF WalkOn, Finished, Start
  <1>2. IsWalk(walk, n, start, steps)
    <2>1. PICK s : s = start
      OBVIOUS
    <2> HIDE DEF start
    <2>2. \E f : IsWalk(f, n, s, steps)
      BY WalkDefined
    <2>3. \E f : IsWalk(f, n, start, steps)
      BY <2>1, <2>2
    <2> QED
      BY <2>3, Zenon DEF IsWalk
  <1> QED
    BY <1>1, <1>2

LEMMA WalkAt ==
    ASSUME NEW f, NEW n \in Nat, NEW start, NEW steps, IsWalk(f, n, start, steps)
    PROVE  /\ f[0] = start
           /\ \A i \in 1..n : i - 1 \in 0..n /\ i \in 0..n /\ f[i] = Component(f[i - 1], steps[i])
  <1>1. \A i \in 0..n : f[i] = IF i = 0 THEN start ELSE Component(f[i - 1], steps[i])
    BY DEF IsWalk
  <1>2. 0 \in 0..n /\ \A i \in 1..n : i \in 0..n /\ i # 0 /\ i - 1 \in 0..n
    OBVIOUS
  <1> QED
    BY <1>1, <1>2

\* What holds at the start of a walk and is kept by its components holds along it.
\* (The least component at which it fails is none.)
LEMMA StepsGood ==
    ASSUME DiskOK(disk), NEW c \in Seq(Dentries), NEW start, GoodWalk(c, start),
           NEW steps \in Seq(Words), NEW f, IsWalk(f, Len(steps), start, steps)
    PROVE  /\ \A i \in 0..Len(steps) : GoodWalk(c, f[i])
           /\ \A i \in 1..Len(steps) : Ext(f[i - 1].cache, f[i].cache)
  <1> DEFINE n == Len(steps)
             Bad == {i \in 0..n : ~GoodWalk(c, f[i])}
  <1>1. n \in Nat /\ \A i \in 1..n : steps[i] \in Words
    OBVIOUS
  <1>2. /\ f[0] = start
        /\ \A i \in 1..n : i - 1 \in 0..n /\ i \in 0..n /\ f[i] = Component(f[i - 1], steps[i])
    BY <1>1, WalkAt
  <1>3. ASSUME NEW i \in 1..n, GoodWalk(c, f[i - 1])
        PROVE  GoodWalk(c, f[i]) /\ Ext(f[i - 1].cache, f[i].cache)
    <2>1. f[i] = Component(f[i - 1], steps[i]) /\ steps[i] \in Words
      BY <1>1, <1>2
    <2>2. PICK w : w = f[i - 1]
      OBVIOUS
    <2>3. GoodWalk(c, w)
      BY <1>3, <2>2
    <2>4. GoodWalk(c, Component(w, steps[i])) /\ Ext(w.cache, Component(w, steps[i]).cache)
      BY <2>1, <2>3, ComponentGood
    <2> QED
      BY <2>1, <2>2, <2>4
  <1>4. Bad = {}
    <2>1. SUFFICES ASSUME Bad # {}
                   PROVE  FALSE
      OBVIOUS
    <2> DEFINE i == Least(Bad)
    <2>2. Bad \in SUBSET Nat
      OBVIOUS
    <2>3. i \in Bad /\ \A j \in Bad : i <= j
      BY <2>1, <2>2, LeastIs
    <2> HIDE DEF i
    <2>4. i # 0
      BY <1>2, <2>3
    <2>5. i \in 1..n /\ i - 1 \in 0..n /\ i - 1 \notin Bad
      BY <1>1, <2>3, <2>4
    <2>6. GoodWalk(c, f[i])
      BY <1>3, <2>5
    <2> QED
      BY <2>3, <2>6
  <1>5. \A i \in 0..n : GoodWalk(c, f[i])
    BY <1>4
  <1>6. \A i \in 1..n : Ext(f[i - 1].cache, f[i].cache)
    BY <1>2, <1>3, <1>5
  <1> QED
    BY <1>5, <1>6

LEMMA FinishedGood ==
    ASSUME NEW c, NEW w, GoodWalk(c, w)
    PROVE  /\ WalkOK(c, Finished(w)) => GoodWalk(c, Finished(w))
           /\ Finished(w).cache = w.cache /\ Finished(w).at = w.at
           /\ Finished(w).end # "wild" => Finished(w) = w
           /\ Finished(w).end = "at" => w.cache[w.at].live
  <1> DEFINE v == Finished(w)
  <1>1. w \in Walks
    BY DEF GoodWalk, WalkOK
  <1>2. CASE w.end = "at" /\ ~w.cache[w.at].live
    <2>1. v = [w EXCEPT !.end = "wild"]
      BY <1>2 DEF Finished
    <2>2. v.cache = w.cache /\ v.at = w.at /\ v.end = "wild"
      BY <1>1, <2>1 DEF Walks
    <2> HIDE DEF v
    <2> QED
      BY <2>2 DEF GoodWalk, v
  <1>3. CASE ~(w.end = "at" /\ ~w.cache[w.at].live)
    <2>1. v = w
      BY <1>3 DEF Finished
    <2> QED
      BY <1>3, <2>1
  <1> QED
    BY <1>2, <1>3

LEMMA StartGood ==
    ASSUME NEW c, Good(c), NEW p \in Tasks, task[p].cwd \in 1..Len(c), RestsAt(c, task[p].cwd),
           NEW abs \in BOOLEAN
    PROVE  GoodWalk(c, Start(c, p, abs))
  <1> DEFINE start == Start(c, p, abs)
  <1>1. CacheOK(c) /\ TreeOK(c)
    BY DEF Good
  <1>2. c \in Seq(Dentries) /\ Root \in 1..Len(c) /\ Root = 1 /\ Dev = 2 /\ Len(c) \in Nat
    BY <1>1, CacheIs
  <1>3. start \in Walks /\ start.cache = c /\ start.end = "at" /\ start.at \in 1..Len(c)
    BY <1>2 DEF Walks, Start
  <1>4. RestsAt(c, start.at)
    <2>1. RestsAt(c, Root)
      BY <1>1, <1>2 DEF RestsAt, TreeOK, BootOK, Dots
    <2> QED
      BY <2>1 DEF Start
  <1> HIDE DEF start
  <1>5. WalkOK(c, start)
    BY <1>1, <1>2, <1>3, GrowsSelf DEF WalkOK
  <1>6. Ext(c, c)
    BY <1>2, ExtSelf
  <1>7. GoodWalk(c, start)
    BY <1>3, <1>4, <1>5, <1>6 DEF GoodWalk
  <1> QED
    BY <1>7 DEF start

\* A walk keeps the tree and the agreement with the disk.
LEMMA WalkGood ==
    ASSUME DiskOK(disk), NEW c, Good(c), NEW p \in Tasks, task[p].cwd \in 1..Len(c),
           RestsAt(c, task[p].cwd), NEW abs \in BOOLEAN, NEW steps \in Seq(Words)
    PROVE  GoodWalk(c, WalkOn(c, p, abs, steps))
  <1>1. PICK f : /\ IsWalk(f, Len(steps), Start(c, p, abs), steps)
                 /\ WalkOn(c, p, abs, steps) = Finished(f[Len(steps)])
    BY WalkSteps
  <1>2. GoodWalk(c, Start(c, p, abs)) /\ CacheOK(c)
    BY StartGood DEF Good
  <1>3. c \in Seq(Dentries)
    BY <1>2, CacheIs
  <1>4. Len(steps) \in Nat /\ Len(steps) \in 0..Len(steps)
    OBVIOUS
  <1>5. GoodWalk(c, f[Len(steps)])
    BY <1>1, <1>2, <1>3, <1>4, StepsGood
  <1>6. WalkOK(c, WalkOn(c, p, abs, steps))
    BY <1>2, WalkOnOK
  <1>7. WalkOK(c, Finished(f[Len(steps)]))
    BY <1>1, <1>6
  <1> QED
    BY <1>1, <1>5, <1>7, FinishedGood

-----------------------------------------------------------------------------
(* The same path a second time.                                             *)

At(c, d) == [cache |-> c, end |-> "at", at |-> d]

LEMMA ComponentAt ==
    ASSUME NEW l, NEW at, NEW name
    PROVE  LET x    == At(l, at)
               v    == Component(x, name)
               here == l[at]
               m    == Asked(l, at, name)
           IN  \/ ~here.live
               \/ ~IsDirectory(here)
               \/ name = "." /\ v = x
               \/ name = ".." /\ v = [x EXCEPT !.at = IF here.up # Null THEN here.up ELSE @]
               \/ name \notin Dots /\ KidsNamed(m, at, name) = {} /\ v = [x EXCEPT !.end = "none"]
               \/ /\ name \notin Dots /\ KidsNamed(m, at, name) # {}
                  /\ v = At(m, Through(m, FoundIn(m, at, name)))
  <1>1. PICK w : w = At(l, at)
    OBVIOUS
  <1>2. w.cache = l /\ w.end = "at" /\ w.at = at
    BY <1>1 DEF At
  <1> DEFINE v    == Component(w, name)
             here == w.cache[w.at]
             m    == Asked(w.cache, w.at, name)
  <1>3. \/ w.end # "at"
        \/ ~here.live
        \/ ~IsDirectory(here)
        \/ name = "." /\ v = w
        \/ name = ".." /\ v = [w EXCEPT !.at = IF here.up # Null THEN here.up ELSE @]
        \/ name \notin Dots /\ KidsNamed(m, w.at, name) = {} /\ v = [w EXCEPT !.end = "none"]
        \/ /\ name \notin Dots /\ KidsNamed(m, w.at, name) # {}
           /\ v = At(m, Through(m, FoundIn(m, w.at, name)))
    BY ComponentIs, ZenonT(40) DEF At
  <1>4. /\ v = Component(At(l, at), name) /\ here = l[at] /\ m = Asked(l, at, name)
    BY <1>1, <1>2
  <1> HIDE DEF v, here, m
  <1>5. \/ ~here.live
        \/ ~IsDirectory(here)
        \/ name = "." /\ v = w
        \/ name = ".." /\ v = [w EXCEPT !.at = IF here.up # Null THEN here.up ELSE @]
        \/ name \notin Dots /\ KidsNamed(m, at, name) = {} /\ v = [w EXCEPT !.end = "none"]
        \/ /\ name \notin Dots /\ KidsNamed(m, at, name) # {}
           /\ v = At(m, Through(m, FoundIn(m, at, name)))
    BY <1>2, <1>3
  <1> QED
    BY <1>1, <1>4, <1>5, Zenon

\* A component that was found is found again in every later cache.
LEMMA Again ==
    ASSUME DiskOK(disk), NEW c \in Seq(Dentries), NEW w, GoodWalk(c, w), NEW name \in Words,
           w.end = "at", Component(w, name).end = "at",
           NEW l, Good(l), Ext(Component(w, name).cache, l)
    PROVE  Component(At(l, w.at), name) = At(l, Component(w, name).at)
  <1> DEFINE v    == Component(w, name)
             here == w.cache[w.at]
             b    == Asked(w.cache, w.at, name)
             d    == FoundIn(b, w.at, name)
             x    == At(l, w.at)
             y    == Component(x, name)
             now  == l[w.at]
             m    == Asked(l, w.at, name)
  <1>1. /\ w \in Walks /\ w.at \in 1..Len(w.cache) /\ CacheOK(w.cache) /\ w.cache \in Seq(Dentries)
        /\ Good(w.cache) /\ RestsAt(w.cache, w.at) /\ CacheOK(l) /\ TreeOK(l) /\ l \in Seq(Dentries)
    BY CacheIs DEF GoodWalk, WalkOK, Good
  <1>2. GoodWalk(c, v) /\ Ext(w.cache, v.cache)
    BY ComponentGood
  <1>3. v.cache \in Seq(Dentries)
    BY <1>2 DEF GoodWalk, WalkOK, Walks
  <1>4. Ext(w.cache, l)
    BY <1>1, <1>2, <1>3, ExtOn
  <1>5. now.live = here.live /\ now.kind = here.kind /\ now.up = here.up
    BY <1>1, <1>4 DEF Ext
  <1>6. x.cache = l /\ x.end = "at" /\ x.at = w.at
    BY DEF At
  <1>7. w.at \in 1..Len(l)
    <2>1. Len(w.cache) <= Len(l) /\ Len(w.cache) \in Nat /\ Len(l) \in Nat
      BY <1>1, <1>4 DEF Ext
    <2> QED
      BY <1>1, <2>1
  <1> HIDE DEF v, here, b, d, y, now, m
  <1>8. /\ here.live /\ IsDirectory(here)
        /\ \/ name = "." /\ v = w
           \/ name = ".." /\ v = [w EXCEPT !.at = IF here.up # Null THEN here.up ELSE @]
           \/ name \notin Dots /\ KidsNamed(b, w.at, name) # {} /\ v = At(b, Through(b, d))
    <2>1. v.end = "at"
      BY DEF v
    <2>2. \/ ~here.live /\ v = [w EXCEPT !.end = "wild"]
          \/ here.live /\ ~IsDirectory(here) /\ v = [w EXCEPT !.end = "none"]
          \/ /\ here.live /\ IsDirectory(here)
             /\ \/ name = "." /\ v = w
                \/ name = ".." /\ v = [w EXCEPT !.at = IF here.up # Null THEN here.up ELSE @]
                \/ name \notin Dots /\ v = [w EXCEPT !.end = "none"]
                \/ name \notin Dots /\ KidsNamed(b, w.at, name) # {} /\ v = At(b, Through(b, d))
      BY ComponentIs, ZenonT(40) DEF v, here, b, d, At
    <2>3. v # [w EXCEPT !.end = "wild"] /\ v # [w EXCEPT !.end = "none"]
      BY <1>1, <2>1 DEF Walks
    <2> QED
      BY <2>2, <2>3
  <1>9. now.live /\ IsDirectory(now)
    BY <1>5, <1>8 DEF IsDirectory
  <1>10. \/ name = "." /\ y = x
         \/ name = ".." /\ y = [x EXCEPT !.at = IF now.up # Null THEN now.up ELSE @]
         \/ name \notin Dots /\ KidsNamed(m, w.at, name) = {} /\ y = [x EXCEPT !.end = "none"]
         \/ /\ name \notin Dots /\ KidsNamed(m, w.at, name) # {}
            /\ y = At(m, Through(m, FoundIn(m, w.at, name)))
    <2>1. \/ ~now.live
          \/ ~IsDirectory(now)
          \/ name = "." /\ y = x
          \/ name = ".." /\ y = [x EXCEPT !.at = IF now.up # Null THEN now.up ELSE @]
          \/ name \notin Dots /\ KidsNamed(m, w.at, name) = {} /\ y = [x EXCEPT !.end = "none"]
          \/ /\ name \notin Dots /\ KidsNamed(m, w.at, name) # {}
             /\ y = At(m, Through(m, FoundIn(m, w.at, name)))
      <3>1. PICK a : a = w.at
        OBVIOUS
      <3> QED
        BY <3>1, ComponentAt, Zenon DEF y, now, m
    <2> QED
      BY <1>6, <1>9, <2>1
  <1>11. "." # ".." /\ (name \notin Dots <=> name # "." /\ name # "..")
    BY DEF Dots
  <1>12. CASE name = "." /\ v = w
    <2>1. y = x
      BY <1>10, <1>11, <1>12
    <2> QED
      BY <1>12, <2>1 DEF v, y
  <1>13. CASE name = ".." /\ v = [w EXCEPT !.at = IF here.up # Null THEN here.up ELSE @]
    <2>1. v.at = IF here.up # Null THEN here.up ELSE w.at
      BY <1>1, <1>13 DEF Walks
    <2>2. y = [x EXCEPT !.at = IF now.up # Null THEN now.up ELSE @]
      BY <1>10, <1>11, <1>13
    <2>3. y = At(l, IF now.up # Null THEN now.up ELSE w.at)
      BY <2>2 DEF At
    <2> QED
      BY <1>5, <2>1, <2>3 DEF v, y
  <1>14. CASE name \notin Dots /\ KidsNamed(b, w.at, name) # {} /\ v = At(b, Through(b, d))
    <2>1. v.cache = b /\ v.at = Through(b, d)
      BY <1>14 DEF At
    <2>2. CacheOK(b) /\ TreeOK(b) /\ Ext(b, l) /\ b \in Seq(Dentries) /\ Ext(w.cache, b)
      BY <1>2, <1>3, <2>1 DEF GoodWalk, Good, v
    <2>3. w.at \in 1..Len(b)
      <3>1. Len(w.cache) <= Len(b) /\ Len(w.cache) \in Nat /\ Len(b) \in Nat
        BY <1>1, <2>2 DEF Ext
      <3> QED
        BY <1>1, <3>1
    <2>4. /\ d \in 1..Len(b) /\ b[d].name = name
          /\ \E k \in 1..Len(b[w.at].kids) : b[w.at].kids[k] = d
          /\ Through(b, d) = IF d = Dev THEN DevRoot ELSE d
      BY <1>14, <2>2, <2>3, FoundIs DEF d
    <2>5. PICK j \in 1..Len(l[w.at].kids) : l[w.at].kids[j] = d
      <3>1. PICK k \in 1..Len(b[w.at].kids) : b[w.at].kids[k] = d
        BY <2>4
      <3>2. \E j \in 1..Len(l[w.at].kids) : l[w.at].kids[j] = b[w.at].kids[k]
        BY <2>2, <2>3 DEF Ext
      <3> QED
        BY <3>1, <3>2
    <2>6. l[d].name = name
      BY <2>2, <2>4 DEF Ext
    <2>7. KidsOK(l, w.at)
      BY <1>1, <1>7 DEF TreeOK
    <2>8. KidsNamed(l, w.at, name) # {} /\ Least(KidsNamed(l, w.at, name)) = j
      BY <1>1, <1>7, <2>5, <2>6, <2>7, ChildFound
    <2>9. m = l /\ FoundIn(l, w.at, name) = d
      BY <2>5, <2>8 DEF m, Asked, FoundIn
    <2>10. Through(l, d) = IF d = Dev THEN DevRoot ELSE d
      BY <1>1, <1>7, <2>8, <2>9, FoundIs
    <2>11. y = At(l, Through(l, d))
      BY <1>10, <1>11, <1>14, <2>8, <2>9
    <2> QED
      BY <2>1, <2>4, <2>10, <2>11 DEF v, y
  <1> QED
    BY <1>8, <1>12, <1>13, <1>14

\* Caches along a walk go on from each other.
LEMMA AlongExt ==
    ASSUME NEW n \in Nat, NEW f, \A i \in 0..n : f[i].cache \in Seq(Dentries),
           \A i \in 1..n : Ext(f[i - 1].cache, f[i].cache)
    PROVE  \A i \in 0..n : Ext(f[i].cache, f[n].cache)
  <1> DEFINE Bad == {k \in 0..n : ~Ext(f[n - k].cache, f[n].cache)}
  <1>1. Bad = {}
    <2>1. SUFFICES ASSUME Bad # {}
                   PROVE  FALSE
      OBVIOUS
    <2> DEFINE k == Least(Bad)
    <2>2. Bad \in SUBSET Nat
      OBVIOUS
    <2>3. k \in Bad /\ \A j \in Bad : k <= j
      BY <2>1, <2>2, LeastIs
    <2> HIDE DEF k
    <2>4. k # 0
      <3>1. n - 0 = n /\ n \in 0..n
        OBVIOUS
      <3>2. Ext(f[n].cache, f[n].cache)
        BY <3>1, ExtSelf
      <3> QED
        BY <2>3, <3>1, <3>2
    <2>5. /\ k - 1 \in 0..n /\ k - 1 \notin Bad /\ n - k \in 0..n
          /\ n - (k - 1) \in 1..n /\ (n - (k - 1)) - 1 = n - k /\ n \in 0..n
      <3>1. k \in 1..n
        BY <2>3, <2>4
      <3>2. k - 1 \in Nat /\ ~(k <= k - 1)
        BY <3>1
      <3>3. k - 1 \notin Bad
        BY <2>3, <3>2
      <3> QED
        BY <3>1, <3>3
    <2> DEFINE i == n - (k - 1)
    <2>6. Ext(f[i].cache, f[n].cache)
      BY <2>5
    <2>7. Ext(f[n - k].cache, f[i].cache)
      BY <2>5
    <2>8. i \in 0..n
      BY <2>5
    <2> HIDE DEF i
    <2>9. Ext(f[n - k].cache, f[n].cache)
      BY <2>5, <2>6, <2>7, <2>8, ExtOn
    <2> QED
      BY <2>3, <2>9
  <1>2. ASSUME NEW i \in 0..n
        PROVE  Ext(f[i].cache, f[n].cache)
    <2>1. n - i \in 0..n /\ n - (n - i) = i
      OBVIOUS
    <2> QED
      BY <1>1, <2>1
  <1> QED
    BY <1>2

\* A walk that has ended goes nowhere.
LEMMA EndedStays ==
    ASSUME NEW n \in Nat, NEW start, NEW steps, NEW f, IsWalk(f, n, start, steps),
           NEW i \in 0..n, f[i].end # "at"
    PROVE  \A j \in i..n : f[j] = f[i]
  <1> DEFINE Bad == {j \in i..n : f[j] # f[i]}
  <1>1. SUFFICES ASSUME Bad # {}
                 PROVE  FALSE
    OBVIOUS
  <1> DEFINE j == Least(Bad)
  <1>2. Bad \in SUBSET Nat
    OBVIOUS
  <1>3. j \in Bad /\ \A h \in Bad : j <= h
    BY <1>1, <1>2, LeastIs
  <1> HIDE DEF j
  <1>4. j # i /\ j \in 1..n /\ j - 1 \in i..n /\ j - 1 \notin Bad
    BY <1>3
  <1>5. f[j - 1] = f[i] /\ f[j] = Component(f[j - 1], steps[j])
    BY <1>4, WalkAt
  <1>6. Component(f[i], steps[j]) = f[i]
    BY DEF Component
  <1> QED
    BY <1>3, <1>5, <1>6

\* A component that is not found.
LEMMA ComponentEnds ==
    ASSUME NEW w \in Walks, NEW name, w.end = "at", Component(w, name).end # "at"
    PROVE  LET u == Component(w, name)
           IN  /\ u.cache = w.cache /\ u.at = w.at
               /\ u.end = "none" => \/ ~IsDirectory(w.cache[w.at])
                                   \/ KidsNamed(Asked(w.cache, w.at, name), w.at, name) = {}
  <1> DEFINE u    == Component(w, name)
             here == w.cache[w.at]
             m    == Asked(w.cache, w.at, name)
             up   == [w EXCEPT !.at = IF here.up # Null THEN here.up ELSE @]
             down == [cache |-> m, end |-> "at", at |-> Through(m, FoundIn(m, w.at, name))]
  <1>1. \/ w.end # "at" /\ u = w
        \/ /\ w.end = "at"
           /\ \/ ~here.live /\ u = [w EXCEPT !.end = "wild"]
              \/ here.live /\ ~IsDirectory(here) /\ u = [w EXCEPT !.end = "none"]
              \/ /\ here.live /\ IsDirectory(here)
                 /\ \/ name = "." /\ u = w
                    \/ name = ".." /\ u = up
                    \/ /\ name \notin Dots /\ KidsNamed(m, w.at, name) = {}
                       /\ u = [w EXCEPT !.end = "none"]
                    \/ name \notin Dots /\ KidsNamed(m, w.at, name) # {} /\ u = down
    BY ComponentIs, ZenonT(40)
  <1>2. w.end = "at" /\ u.end # "at" /\ up.end = "at" /\ down.end = "at"
    BY DEF Walks
  <1> HIDE DEF u, here, m, up, down
  <1>3. \/ u = [w EXCEPT !.end = "wild"]
        \/ ~IsDirectory(here) /\ u = [w EXCEPT !.end = "none"]
        \/ KidsNamed(m, w.at, name) = {} /\ u = [w EXCEPT !.end = "none"]
    BY <1>1, <1>2
  <1>4. /\ u.cache = w.cache /\ u.at = w.at
        /\ u.end = "none" => ~IsDirectory(here) \/ KidsNamed(m, w.at, name) = {}
    BY <1>3 DEF Walks
  <1> QED
    BY <1>4 DEF u, here, m

\* When a path is not found, the cache has no child of its last name under what
\* its other names lead to: open with O_CREAT adds no second one.
LEMMA NotCached ==
    ASSUME DiskOK(disk), NEW c, Good(c), NEW p \in Tasks, task[p].cwd \in 1..Len(c),
           RestsAt(c, task[p].cwd), NEW abs \in BOOLEAN, NEW q \in Seq(Words), q # <<>>,
           WalkOn(c, p, abs, q).end = "none"
    PROVE  LET b == WalkOn(c, p, abs, q).cache
               v == WalkOn(b, p, abs, Front(q))
           IN  v.end = "at" /\ v.cache[v.at].kind = "dir" => KidsNamed(v.cache, v.at, Last(q)) = {}
  <1> DEFINE n == Len(q)
             b == WalkOn(c, p, abs, q).cache
             r == Front(q)
             v == WalkOn(b, p, abs, r)
  <1>1. n \in Nat \ {0} /\ n - 1 \in Nat /\ \A i \in 1..n : q[i] \in Words
    BY DEF n
  <1>2. r \in Seq(Words) /\ Len(r) = n - 1 /\ \A i \in 1..(n - 1) : r[i] = q[i]
    <2>1. 1 \in Int /\ n - 1 \in Int /\ \A i \in 1..(n - 1) : q[i] \in Words
      BY <1>1
    <2>2. r = SubSeq(q, 1, n - 1)
      BY DEF Front
    <2> HIDE DEF n, r
    <2>3. \A s : s = SubSeq(q, 1, n - 1) =>
             s \in Seq(Words) /\ Len(s) = (IF 1 <= n - 1 THEN (n - 1) - 1 + 1 ELSE 0)
             /\ \A i \in 1..((n - 1) - 1 + 1) : s[i] = q[1 + i - 1]
      BY <2>1, SubSeqProperties
    <2>4. (n - 1) - 1 + 1 = n - 1 /\ \A i \in 1..(n - 1) : 1 + i - 1 = i
      BY <1>1
    <2> QED
      BY <1>1, <2>2, <2>3, <2>4
  <1>3. PICK f : IsWalk(f, n, Start(c, p, abs), q) /\ WalkOn(c, p, abs, q) = Finished(f[n])
    BY WalkSteps
  <1>4. c \in Seq(Dentries) /\ CacheOK(c)
    BY CacheIs DEF Good
  <1>5. /\ \A i \in 0..n : GoodWalk(c, f[i])
        /\ \A i \in 1..n : Ext(f[i - 1].cache, f[i].cache)
    BY <1>3, <1>4, StartGood, StepsGood
  <1>6. f[n].end = "none" /\ b = f[n].cache
    <2>1. n \in 0..n /\ GoodWalk(c, f[n])
      BY <1>1, <1>5
    <2>2. PICK w : w = f[n]
      OBVIOUS
    <2>3. GoodWalk(c, w) /\ Finished(w).end = "none"
      BY <1>3, <2>1, <2>2
    <2>4. Finished(w) = w
      BY <2>3, FinishedGood
    <2> QED
      BY <1>3, <2>2, <2>3, <2>4
  <1> HIDE DEF b
  <1>7. PICK g : IsWalk(g, n - 1, Start(b, p, abs), r) /\ v = Finished(g[n - 1])
    BY <1>2, WalkSteps, SMTT(30)
  <1> HIDE DEF n, r, v
  <1>8. /\ f[0] = Start(c, p, abs)
        /\ \A i \in 1..n : i - 1 \in 0..n /\ i \in 0..n /\ f[i] = Component(f[i - 1], q[i])
    BY <1>1, <1>3, WalkAt
  <1>9. /\ g[0] = Start(b, p, abs)
        /\ \A i \in 1..(n - 1) : i - 1 \in 0..(n - 1) /\ i \in 0..(n - 1)
                                 /\ g[i] = Component(g[i - 1], r[i])
    BY <1>1, <1>7, WalkAt
  <1>10. \A i \in 0..n : /\ f[i] \in Walks /\ f[i].cache \in Seq(Dentries) /\ Good(f[i].cache)
                         /\ GoodWalk(c, f[i])
    BY <1>5 DEF GoodWalk, WalkOK, Walks
  <1>11. \A i \in 0..n : Ext(f[i].cache, b)
    BY <1>1, <1>5, <1>6, <1>10, AlongExt
  <1>12. \A i \in 0..n : f[i].end # "at" => f[i].end = "none" /\ f[i].cache = b
    <2> SUFFICES ASSUME NEW i \in 0..n, f[i].end # "at"
                 PROVE  f[i].end = "none" /\ f[i].cache = b
      OBVIOUS
    <2>1. n \in i..n
      BY <1>1
    <2>2. f[n] = f[i]
      BY <1>1, <1>3, <2>1, EndedStays
    <2> QED
      BY <1>6, <2>2
  <1>13. Good(b)
    <2>1. n \in 0..n
      BY <1>1
    <2> QED
      BY <1>6, <1>10, <2>1
  <1> DEFINE Same(i) == IF f[i].end = "at" THEN g[i] = At(b, f[i].at) ELSE g[i].end # "at"
             Bad == {i \in 0..(n - 1) : ~Same(i)}
  <1>14. ASSUME NEW i \in 1..(n - 1), Same(i - 1)
         PROVE  Same(i)
    <2>1. i \in 1..n /\ q[i] \in Words /\ r[i] = q[i] /\ i - 1 \in 0..n /\ i \in 0..n
      BY <1>1, <1>2
    <2>2. f[i] = Component(f[i - 1], q[i]) /\ g[i] = Component(g[i - 1], q[i])
      BY <1>8, <1>9, <2>1
    <2>3. CASE f[i - 1].end # "at"
      <3>1. f[i] = f[i - 1] /\ g[i] = g[i - 1]
        BY <1>14, <2>2, <2>3 DEF Component
      <3> QED
        BY <1>14, <2>3, <3>1
    <2>4. CASE f[i - 1].end = "at" /\ f[i].end = "at"
      <3>1. PICK w : w = f[i - 1]
        OBVIOUS
      <3>2. Component(At(b, w.at), q[i]) = At(b, Component(w, q[i]).at)
        <4>1. /\ GoodWalk(c, w) /\ w.end = "at" /\ Component(w, q[i]).end = "at"
              /\ Ext(Component(w, q[i]).cache, b) /\ q[i] \in Words
          BY <1>10, <1>11, <2>1, <2>2, <2>4, <3>1
        <4> QED
          BY <1>4, <1>13, <4>1, Again
      <3>3. g[i - 1] = At(b, w.at)
        BY <1>14, <2>4, <3>1
      <3> QED
        BY <2>2, <2>4, <3>1, <3>2, <3>3
    <2>5. CASE f[i - 1].end = "at" /\ f[i].end # "at"
      <3>1. g[i - 1] = At(b, f[i - 1].at)
        BY <1>14, <2>5
      <3>2. f[i].cache = b
        BY <1>12, <2>1, <2>5
      <3>3. f[i - 1].cache = b
        <4>1. PICK w : w = f[i - 1]
          OBVIOUS
        <4> DEFINE u == Component(w, q[i])
        <4>2. w \in Walks /\ w.end = "at" /\ u.end # "at" /\ u.cache = b
          BY <1>10, <2>1, <2>2, <2>5, <3>2, <4>1
        <4>3. u.cache = w.cache
          BY <4>2, ComponentEnds
        <4> QED
          BY <4>1, <4>2, <4>3
      <3>4. At(b, f[i - 1].at) = f[i - 1]
        BY <1>10, <2>1, <2>5, <3>3 DEF At, Walks
      <3> QED
        BY <2>2, <2>5, <3>1, <3>4
    <2> QED
      BY <2>3, <2>4, <2>5
  <1>15. Same(0)
    <2>1. f[0] = At(c, f[0].at) /\ g[0] = At(b, f[0].at) /\ f[0].end = "at"
      BY <1>8, <1>9 DEF Start, At
    <2> QED
      BY <2>1
  <1>16. Same(n - 1)
    <2> HIDE DEF Same
    <2>1. Bad = {}
      <3>1. SUFFICES ASSUME Bad # {}
                     PROVE  FALSE
        OBVIOUS
      <3> DEFINE i == Least(Bad)
      <3>2. Bad \in SUBSET Nat
        OBVIOUS
      <3>3. i \in Bad /\ \A j \in Bad : i <= j
        BY <3>1, <3>2, LeastIs
      <3> HIDE DEF i
      <3>4. i # 0
        BY <1>15, <3>3
      <3>5. i \in 1..(n - 1) /\ i - 1 \in 0..(n - 1)
        BY <1>1, <3>3, <3>4
      <3>6. i - 1 \notin Bad
        <4>1. ~(i <= i - 1)
          BY <3>5
        <4> QED
          BY <3>3, <4>1
      <3>7. Same(i)
        BY <1>14, <3>5, <3>6
      <3> QED
        BY <3>3, <3>7
    <2>2. n - 1 \in 0..(n - 1)
      BY <1>1
    <2> QED
      BY <2>1, <2>2
  <1>17. ASSUME v.end = "at", v.cache[v.at].kind = "dir"
         PROVE  KidsNamed(v.cache, v.at, q[n]) = {}
    <2> DEFINE w == f[n - 1]
               u == Component(w, q[n])
    <2>1. g[n - 1].end = "at" => v = g[n - 1] \/ v.end = "wild"
      <3>1. PICK x : x = g[n - 1]
        OBVIOUS
      <3>2. x.end = "at" => Finished(x) = x \/ Finished(x) = [x EXCEPT !.end = "wild"]
        BY DEF Finished
      <3>3. ASSUME x = At(b, w.at), Finished(x) = [x EXCEPT !.end = "wild"]
            PROVE  Finished(x).end = "wild"
        <4>1. x = [cache |-> b, end |-> "at", at |-> w.at]
          BY <3>3 DEF At
        <4> HIDE DEF w
        <4> QED
          BY <3>3, <4>1
      <3> HIDE DEF w
      <3> QED
        BY <1>7, <1>16, <3>1, <3>2, <3>3 DEF w
    <2>2. g[n - 1].end # "at" => v.end # "at"
      BY <1>7 DEF Finished
    <2>3. w.end = "at" /\ v = At(b, w.at)
      BY <1>16, <1>17, <2>1, <2>2
    <2>4. n \in 1..n /\ n - 1 \in 0..n /\ f[n] = u
      BY <1>1, <1>8
    <2>5. w \in Walks /\ u.end = "none" /\ u.cache = b
      BY <1>6, <1>10, <2>4
    <2>6. v.cache = b /\ v.at = w.at
      BY <2>3 DEF At
    <2> DEFINE m == Asked(w.cache, w.at, q[n])
               here == w.cache[w.at]
    <2> HIDE DEF u, w
    <2>7. /\ u.cache = w.cache
          /\ u.end = "none" => ~IsDirectory(here) \/ KidsNamed(m, w.at, q[n]) = {}
      BY <2>3, <2>5, ComponentEnds DEF u
    <2>8. w.cache = b /\ (~IsDirectory(here) \/ KidsNamed(m, w.at, q[n]) = {})
      BY <2>5, <2>7
    <2>9. IsDirectory(here)
      BY <1>17, <2>6, <2>8 DEF IsDirectory, here
    <2>10. w.cache = b /\ KidsNamed(m, w.at, q[n]) = {}
      BY <2>8, <2>9
    <2>11. m = b \/ KidsNamed(b, w.at, q[n]) = {}
      BY <2>10 DEF m, Asked
    <2> QED
      BY <2>6, <2>10, <2>11
  <1> QED
    BY <1>17 DEF v, b, r, n, Last

-----------------------------------------------------------------------------
(* What calls change on the disk.                                           *)

\* One slot of one directory is rewritten.
Rewritten(dk, dl, c, i, e) ==
    /\ dl \in [Clusters -> Seq(Entries)]
    /\ \A b \in Clusters : b # c => dl[b] = dk[b] /\ \A j : j \in Used(dl, b) <=> j \in Used(dk, b)
    /\ dl[c][i] = e
    /\ \A j \in Used(dk, c) : j # i => dl[c][j] = dk[c][j]
    /\ \A j : j # i => (j \in Used(dl, c) <=> j \in Used(dk, c))
    /\ i \in Used(dl, c) <=> e.name # Hole.name

LEMMA RewrittenIs ==
    ASSUME NEW dk, DiskOK(dk), NEW c \in Clusters, NEW i, NEW s \in Seq(Entries), NEW e,
           i \in 1..Len(s), s[i] = e,
           \A j : j # i => (j \in 1..Len(s) <=> j \in 1..Len(dk[c])),
           \A j \in 1..Len(s) : j # i => s[j] = dk[c][j]
    PROVE  Rewritten(dk, [dk EXCEPT ![c] = s], c, i, e)
  <1> DEFINE dl == [dk EXCEPT ![c] = s]
  <1>1. dk \in [Clusters -> Seq(Entries)]
    BY DEF DiskOK
  <1>2. dl \in [Clusters -> Seq(Entries)] /\ \A b \in Clusters : dl[b] = IF b = c THEN s ELSE dk[b]
    BY <1>1
  <1> HIDE DEF dl
  <1>3. dl[c] = s
    BY <1>2
  <1>4. ASSUME NEW b \in Clusters, b # c
        PROVE  dl[b] = dk[b] /\ \A j : j \in Used(dl, b) <=> j \in Used(dk, b)
    <2>1. dl[b] = dk[b]
      BY <1>2, <1>4
    <2>2. Used(dl, b) = Used(dk, b)
      BY <2>1 DEF Used
    <2> QED
      BY <2>1, <2>2
  <1>5. ASSUME NEW j
        PROVE  /\ j \in Used(dl, c) <=> j \in 1..Len(s) /\ s[j].name # Hole.name
               /\ j \in Used(dk, c) <=> j \in 1..Len(dk[c]) /\ dk[c][j].name # Hole.name
    BY <1>1, <1>2, <1>3, UsedIs
  <1>6. \A j : j # i => (j \in Used(dl, c) <=> j \in Used(dk, c))
    BY <1>5
  <1>7. i \in Used(dl, c) <=> e.name # Hole.name
    BY <1>5
  <1>8. \A j \in Used(dk, c) : j # i => dl[c][j] = dk[c][j]
    BY <1>3, <1>5
  <1>9. Rewritten(dk, dl, c, i, e)
    BY <1>2, <1>3, <1>4, <1>6, <1>7, <1>8 DEF Rewritten
  <1> QED
    BY <1>9 DEF dl

LEMMA EntryPutIs ==
    ASSUME NEW dk, DiskOK(dk), NEW c \in Clusters, NEW i \in 1..Len(dk[c]), NEW e \in Entries
    PROVE  Rewritten(dk, [dk EXCEPT ![c][i] = e], c, i, e)
  <1> DEFINE s == [dk[c] EXCEPT ![i] = e]
  <1>1. dk \in [Clusters -> Seq(Entries)] /\ dk[c] \in Seq(Entries) /\ Len(dk[c]) \in Nat
    BY SlotsAre
  <1>2. /\ s \in Seq(Entries) /\ Len(s) = Len(dk[c])
        /\ \A k \in 1..Len(s) : s[k] = IF k = i THEN e ELSE dk[c][k]
    <2>1. PICK t \in Seq(Entries) : t = dk[c]
      BY <1>1
    <2>2. i \in 1..Len(t)
      BY <2>1
    <2>3. /\ [t EXCEPT ![i] = e] \in Seq(Entries) /\ Len([t EXCEPT ![i] = e]) = Len(t)
          /\ \A k \in 1..Len(t) : [t EXCEPT ![i] = e][k] = IF k = i THEN e ELSE t[k]
      BY <2>2, ExceptSeq
    <2> QED
      BY <2>1, <2>3
  <1>3. [dk EXCEPT ![c][i] = e] = [dk EXCEPT ![c] = s]
    BY <1>1
  <1> HIDE DEF s
  <1>4. i \in 1..Len(s) /\ s[i] = e
    BY <1>2
  <1>5. \A j : j # i => (j \in 1..Len(s) <=> j \in 1..Len(dk[c]))
    BY <1>2
  <1>6. \A j \in 1..Len(s) : j # i => s[j] = dk[c][j]
    BY <1>2
  <1>7. Rewritten(dk, [dk EXCEPT ![c] = s], c, i, e)
    BY <1>2, <1>4, <1>5, <1>6, RewrittenIs
  <1> QED
    BY <1>3, <1>7

LEMMA WithEntryIs ==
    ASSUME NEW dk, DiskOK(dk), NEW c \in Clusters, NEW e \in Entries
    PROVE  /\ Rewritten(dk, WithEntry(dk, c, e), c, PlaceIn(dk, c), e)
           /\ PlaceIn(dk, c) \notin Used(dk, c)
  <1> DEFINE i == PlaceIn(dk, c)
             s == Append(dk[c], e)
             holes == (1..Len(dk[c])) \ Used(dk, c)
  <1>1. dk \in [Clusters -> Seq(Entries)] /\ dk[c] \in Seq(Entries) /\ Len(dk[c]) \in Nat
    BY SlotsAre
  <1>2. WithEntry(dk, c, e)
          = [dk EXCEPT ![c] = IF i > Len(@) THEN Append(@, e) ELSE [@ EXCEPT ![i] = e]]
    BY Zenon DEF WithEntry
  <1>3. i \in Nat \ {0} /\ (i > Len(dk[c]) => i = Len(dk[c]) + 1)
    BY PlaceIs
  <1>4. i \notin Used(dk, c)
    <2>1. i = IF holes = {} THEN Len(dk[c]) + 1 ELSE Least(holes)
      BY Zenon DEF PlaceIn
    <2>2. holes \in SUBSET Nat
      BY <1>1
    <2>3. Len(dk[c]) + 1 \notin Used(dk, c)
      <3>1. Len(dk[c]) + 1 \notin 1..Len(dk[c])
        BY <1>1
      <3> QED
        BY <1>1, <3>1, UsedIs
    <2>4. \A j \in holes : j \notin Used(dk, c)
      OBVIOUS
    <2> HIDE DEF holes, i
    <2>5. holes # {} => Least(holes) \in holes
      BY <2>2, LeastIs
    <2> QED
      BY <2>1, <2>3, <2>4, <2>5
  <1> HIDE DEF i
  <1>5. CASE i > Len(dk[c])
    <2>1. WithEntry(dk, c, e) = [dk EXCEPT ![c] = s]
      BY <1>1, <1>2, <1>5
    <2>2. i = Len(dk[c]) + 1
      BY <1>3, <1>5
    <2>3. /\ s \in Seq(Entries) /\ Len(s) = Len(dk[c]) + 1 /\ s[Len(dk[c]) + 1] = e
          /\ \A k \in 1..Len(dk[c]) : s[k] = dk[c][k]
      BY <1>1, AppendProperties
    <2> HIDE DEF s
    <2>4. i \in 1..Len(s) /\ s[i] = e
      BY <1>1, <2>2, <2>3
    <2>5. \A j : j # i => (j \in 1..Len(s) <=> j \in 1..Len(dk[c]))
      BY <1>1, <2>2, <2>3
    <2>6. \A j \in 1..Len(s) : j # i => s[j] = dk[c][j]
      BY <2>3, <2>5
    <2>7. Rewritten(dk, [dk EXCEPT ![c] = s], c, i, e)
      BY <2>3, <2>4, <2>5, <2>6, RewrittenIs
    <2> QED
      BY <1>4, <2>1, <2>7 DEF i
  <1>6. CASE ~(i > Len(dk[c]))
    <2>1. WithEntry(dk, c, e) = [dk EXCEPT ![c][i] = e]
      BY <1>1, <1>2, <1>6
    <2>2. i \in 1..Len(dk[c])
      BY <1>1, <1>3, <1>6
    <2>3. Rewritten(dk, [dk EXCEPT ![c][i] = e], c, i, e)
      BY <2>2, EntryPutIs
    <2> QED
      BY <1>4, <2>1, <2>3 DEF i
  <1> QED
    BY <1>5, <1>6

LEMMA WordIs == \A name \in Words : name # Hole.name /\ name \in AnswersOf(name)
  <1> TAKE name \in Words
  <1>1. "" \notin Names /\ (name \in Names => name \in Answers[name])
    BY VfsAssumption, Zenon
  <1>2. name # ""
    BY <1>1 DEF Words
  <1> QED
    BY <1>1, <1>2 DEF Hole, AnswersOf

\* What create and mkdir do to the directories in use.
EntryMade(c, name, kind, dl, tl) ==
    LET n == Least(Clusters \ taken)
        i == PlaceIn(disk, c)
    IN  /\ n \in Clusters /\ n \notin taken /\ tl = taken \cup {n}
        /\ Matching(disk, c, name) = {}
        /\ i \notin Used(disk, c) /\ i \in Used(dl, c)
        /\ dl[c][i] = [name |-> name, kind |-> kind, cluster |-> n, size |-> 0]
        /\ \A j : j \notin Used(dl, n)
        /\ \A b \in taken : \A j \in Used(dl, b) :
             (b = c /\ j = i) \/ (j \in Used(disk, b) /\ dl[b][j] = disk[b][j])
        /\ \A b \in taken : \A j \in Used(disk, b) : j \in Used(dl, b) /\ dl[b][j] = disk[b][j]

LEMMA MadeIs ==
    ASSUME DiskOK(disk), taken \subseteq Clusters, NEW c \in Clusters, c \in taken,
           NEW name \in Words, NEW kind \in {"file", "dir"}, Made(c, name, kind).ok
    PROVE  EntryMade(c, name, kind, Made(c, name, kind).disk, Made(c, name, kind).taken)
  <1> DEFINE new  == Made(c, name, kind)
             free == Clusters \ taken
             n    == Least(free)
             e    == [name |-> name, kind |-> kind, cluster |-> n, size |-> 0]
             dk   == WithEntry(disk, c, e)
             i    == PlaceIn(disk, c)
             dl   == [dk EXCEPT ![n] = <<>>]
  <1>1. new = IF Matching(disk, c, name) # {} \/ free = {}
              THEN [disk |-> disk, taken |-> taken, ok |-> FALSE]
              ELSE [disk |-> dl, taken |-> taken \cup {n}, ok |-> TRUE]
    BY Zenon DEF Made
  <1>2. free \in SUBSET Nat /\ free \subseteq Clusters
    BY ConstantFacts
  <1>3. new.ok
    OBVIOUS
  <1> HIDE DEF new, free, dl
  <1>4. Matching(disk, c, name) = {} /\ free # {} /\ new.disk = dl /\ new.taken = taken \cup {n}
    BY <1>1, <1>3
  <1>5. n \in free /\ n \in Clusters /\ n \in Nat
    BY <1>2, <1>4, LeastIs
  <1>6. n \notin taken /\ n # c
    BY <1>5 DEF free
  <1> HIDE DEF n
  <1>7. e \in Entries /\ e.name # Hole.name /\ e.cluster \in Clusters
    BY <1>5, ConstantFacts, WordIs DEF Entries
  <1> HIDE DEF e
  <1>8. DiskOK(dk) /\ Rewritten(disk, dk, c, i, e) /\ i \notin Used(disk, c)
    <2>1. PICK d : d = disk
      OBVIOUS
    <2>2. DiskOK(d)
      BY <2>1
    <2>3. DiskOK(WithEntry(d, c, e)) /\ Rewritten(d, WithEntry(d, c, e), c, PlaceIn(d, c), e)
          /\ PlaceIn(d, c) \notin Used(d, c)
      BY <1>7, <2>2, WithEntryOK, WithEntryIs
    <2> QED
      BY <2>1, <2>3
  <1> HIDE DEF dk, i
  <1>9. /\ dl[n] = <<>> /\ \A b \in Clusters : b # n => dl[b] = dk[b]
    BY <1>5, <1>8 DEF dl, DiskOK
  <1>10. \A b \in taken : b \in Clusters /\ dl[b] = dk[b] /\ Used(dl, b) = Used(dk, b)
    <2>1. \A b \in taken : b \in Clusters /\ dl[b] = dk[b]
      BY <1>6, <1>9
    <2> QED
      BY <2>1 DEF Used
  <1>11. \A j : j \notin Used(dl, n)
    <2>1. Len(dl[n]) = 0 /\ \A j : j \notin 1..0
      BY <1>9
    <2> QED
      BY <2>1 DEF Used
  <1>12. i \in Used(dl, c) /\ dl[c][i] = e
    BY <1>7, <1>8, <1>10 DEF Rewritten
  <1>13. ASSUME NEW b \in taken, NEW j
         PROVE  /\ j \in Used(dl, b) => (b = c /\ j = i) \/ (j \in Used(disk, b) /\ dl[b][j] = disk[b][j])
                /\ j \in Used(disk, b) => j \in Used(dl, b) /\ dl[b][j] = disk[b][j]
    <2>1. b \in Clusters /\ dl[b] = dk[b] /\ Used(dl, b) = Used(dk, b)
      BY <1>10
    <2>2. CASE b = c
      <3>1. j # i => (j \in Used(dk, c) <=> j \in Used(disk, c))
        BY <1>8 DEF Rewritten
      <3>2. j # i /\ j \in Used(disk, c) => dk[c][j] = disk[c][j]
        BY <1>8 DEF Rewritten
      <3> QED
        BY <1>8, <2>1, <2>2, <3>1, <3>2
    <2>3. CASE b # c
      <3>1. dk[b] = disk[b] /\ (j \in Used(dk, b) <=> j \in Used(disk, b))
        BY <1>8, <2>1, <2>3 DEF Rewritten
      <3> QED
        BY <2>1, <3>1
    <2> QED
      BY <2>2, <2>3
  <1> QED
    BY <1>4, <1>5, <1>6, <1>8, <1>11, <1>12, <1>13, ZenonT(40) DEF EntryMade, new, n, i, e, free

\* A new entry is one that no dentry has, and the cache agrees with it.
LEMMA MadeAgrees ==
    ASSUME DiskOK(disk), NEW c, CacheOK(c), TreeOK(c), AgreesOK(disk, taken, c),
           NEW at \in 1..Len(c), c[at].live, c[at].kind = "dir",
           NEW name \in Words, NEW kind \in {"file", "dir"}, Made(c[at].cluster, name, kind).ok
    PROVE  LET new == Made(c[at].cluster, name, kind)
               z == Dentry(name, at, kind, Least(Clusters \ taken), 0, PlaceIn(disk, c[at].cluster))
           IN  AgreesOK(new.disk, new.taken, c) /\ OwnEntry(new.disk, new.taken, c, z)
  <1> DEFINE cl  == c[at].cluster
             new == Made(cl, name, kind)
             dl  == new.disk
             tl  == new.taken
             n   == Least(Clusters \ taken)
             i   == PlaceIn(disk, cl)
             e   == [name |-> name, kind |-> kind, cluster |-> n, size |-> 0]
             z   == Dentry(name, at, kind, n, 0, i)
  <1>1. cl \in taken /\ cl \in Clusters /\ taken \subseteq Clusters /\ 1 \in taken
    <2>1. taken \subseteq Clusters /\ 1 \in taken
      BY DEF AgreesOK, EntriesOK
    <2>2. cl \in taken /\ cl \in Clusters
      <3>1. PICK dk, tk : dk = disk /\ tk = taken
        OBVIOUS
      <3>2. c[at].cluster \in tk /\ c[at].cluster \in Clusters
        BY <3>1, DirectoryTaken
      <3> QED
        BY <3>1, <3>2
    <2> QED
      BY <2>1, <2>2
  <1>2. /\ n \in Clusters /\ n \notin taken /\ tl = taken \cup {n}
        /\ Matching(disk, cl, name) = {}
        /\ i \notin Used(disk, cl) /\ i \in Used(dl, cl) /\ dl[cl][i] = e
        /\ \A j : j \notin Used(dl, n)
        /\ \A b \in taken : \A j \in Used(dl, b) :
              (b = cl /\ j = i) \/ (j \in Used(disk, b) /\ dl[b][j] = disk[b][j])
        /\ \A b \in taken : \A j \in Used(disk, b) : j \in Used(dl, b) /\ dl[b][j] = disk[b][j]
    <2>1. Made(cl, name, kind).ok
      OBVIOUS
    <2> HIDE DEF cl
    <2> QED
      <3>1. EntryMade(cl, name, kind, dl, tl)
        BY <1>1, <2>1, MadeIs
      <3> HIDE DEF new, dl, tl
      <3> QED
        BY <3>1, Zenon DEF EntryMade
  <1>3. z.name = name /\ z.kind = kind /\ z.cluster = n /\ z.size = 0 /\ z.slot = i /\ z.up = at
    BY DEF Dentry
  <1>4. e.name = name /\ e.cluster = n
    OBVIOUS
  <1> HIDE DEF new, dl, tl, n, i, z, e, cl
  <1>5. \A b \in taken : \A j \in Used(disk, b) :
           /\ disk[b][j].cluster \in taken \ {1}
           /\ \A k \in Used(disk, b) : disk[b][j].name = disk[b][k].name => j = k
           /\ \A a \in taken : \A k \in Used(disk, a) :
                disk[b][j].cluster = disk[a][k].cluster => b = a /\ j = k
    BY DEF AgreesOK, EntriesOK
  <1>6. \A j \in Used(disk, cl) : disk[cl][j].name # name
    <2> SUFFICES ASSUME NEW j \in Used(disk, cl), disk[cl][j].name = name
                 PROVE  FALSE
      OBVIOUS
    <2>1. j \in Matching(disk, cl, name)
      BY WordIs DEF Matching
    <2> QED
      BY <1>2, <2>1
  <1>7. ASSUME NEW b \in tl, NEW j \in Used(dl, b)
        PROVE  /\ b \in taken
               /\ \/ b = cl /\ j = i /\ dl[b][j] = e
                  \/ j \in Used(disk, b) /\ dl[b][j] = disk[b][j]
    <2>1. b \in taken
      BY <1>2
    <2>2. (b = cl /\ j = i) \/ (j \in Used(disk, b) /\ dl[b][j] = disk[b][j])
      BY <1>2, <2>1
    <2> QED
      BY <1>2, <2>1, <2>2
  <1>8. EntriesOK(dl, tl)
    <2>1. 1 \in tl /\ tl \subseteq Clusters
      BY <1>1, <1>2
    <2>2. ASSUME NEW b \in tl, NEW j \in Used(dl, b)
          PROVE  dl[b][j].cluster \in tl \ {1}
      <3>1. b \in taken /\ (dl[b][j] = e \/ (j \in Used(disk, b) /\ dl[b][j] = disk[b][j]))
        BY <1>7
      <3>2. CASE dl[b][j] = e
        BY <1>1, <1>2, <1>4, <3>2
      <3>3. CASE j \in Used(disk, b) /\ dl[b][j] = disk[b][j]
        BY <1>2, <1>5, <3>1, <3>3
      <3> QED
        BY <3>1, <3>2, <3>3
    <2>3. ASSUME NEW b \in tl, NEW j \in Used(dl, b), NEW k \in Used(dl, b),
                 dl[b][j].name = dl[b][k].name
          PROVE  j = k
      <3>1. /\ b \in taken
            /\ \/ b = cl /\ j = i /\ dl[b][j] = e
               \/ j \in Used(disk, b) /\ dl[b][j] = disk[b][j]
        BY <1>7
      <3>2. \/ b = cl /\ k = i /\ dl[b][k] = e
            \/ k \in Used(disk, b) /\ dl[b][k] = disk[b][k]
        BY <1>7
      <3> QED
        BY <1>4, <1>5, <1>6, <2>3, <3>1, <3>2
    <2>4. ASSUME NEW b \in tl, NEW j \in Used(dl, b), NEW a \in tl, NEW k \in Used(dl, a),
                 dl[b][j].cluster = dl[a][k].cluster
          PROVE  b = a /\ j = k
      <3>1. /\ b \in taken
            /\ \/ b = cl /\ j = i /\ dl[b][j] = e
               \/ j \in Used(disk, b) /\ dl[b][j] = disk[b][j]
        BY <1>7
      <3>2. /\ a \in taken
            /\ \/ a = cl /\ k = i /\ dl[a][k] = e
               \/ k \in Used(disk, a) /\ dl[a][k] = disk[a][k]
        BY <1>7
      <3>3. CASE (j \in Used(disk, b) /\ dl[b][j] = disk[b][j]) /\ (k \in Used(disk, a) /\ dl[a][k] = disk[a][k])
        BY <1>5, <2>4, <3>1, <3>2, <3>3
      <3>4. CASE (b = cl /\ j = i /\ dl[b][j] = e) /\ (a = cl /\ k = i /\ dl[a][k] = e)
        BY <3>4
      <3>5. CASE (b = cl /\ j = i /\ dl[b][j] = e) /\ (k \in Used(disk, a) /\ dl[a][k] = disk[a][k])
        BY <1>2, <1>4, <1>5, <2>4, <3>2, <3>5
      <3>6. CASE (j \in Used(disk, b) /\ dl[b][j] = disk[b][j]) /\ (a = cl /\ k = i /\ dl[a][k] = e)
        BY <1>2, <1>4, <1>5, <2>4, <3>1, <3>6
      <3> QED
        BY <3>1, <3>2, <3>3, <3>4, <3>5, <3>6
    <2> QED
      BY <2>1, <2>2, <2>3, <2>4 DEF EntriesOK
  <1>9. \A d \in 2..Len(c) : OfDisk(c, d) => c[d].cluster \in taken
    BY DEF AgreesOK, CachedOnDisk
  <1>10. ASSUME NEW d \in 2..Len(c), OfDisk(c, d)
         PROVE  CachedOnDisk(dl, tl, c, d)
    <2> DEFINE up == c[d].up
    <2>1. CachedOnDisk(disk, taken, c, d)
      BY <1>10 DEF AgreesOK
    <2>2. c[d].cluster \in tl \ {1} /\ c[d].cluster # n
      BY <1>2, <2>1 DEF CachedOnDisk
    <2>3. ASSUME c[up].live
          PROVE  /\ c[d].slot \in Used(dl, c[up].cluster)
                 /\ dl[c[up].cluster][c[d].slot] = [name |-> c[d].name, kind |-> c[d].kind,
                                                    cluster |-> c[d].cluster, size |-> c[d].size]
      <3>1. /\ c[d].slot \in Used(disk, c[up].cluster)
            /\ disk[c[up].cluster][c[d].slot] = [name |-> c[d].name, kind |-> c[d].kind,
                                                 cluster |-> c[d].cluster, size |-> c[d].size]
        BY <2>1, <2>3 DEF CachedOnDisk
      <3>2. up \in 1..Len(c) /\ c[up].kind = "dir"
        <4>1. d # DevRoot /\ HangsOK(c, d)
          BY <1>10 DEF OfDisk, TreeOK, BootOK
        <4>2. up \in 1..(d - 1) /\ Len(c) \in Nat
          BY <4>1, CacheIs DEF HangsOK
        <4>3. c[up].kind = "dir"
          BY <1>10, <4>1 DEF HangsOK, OfDisk
        <4> QED
          BY <4>2, <4>3
      <3>3. c[up].cluster \in taken
        BY <2>3, <3>2, DirectoryTaken
      <3> HIDE DEF up
      <3> QED
        BY <1>2, <3>1, <3>3
    <2>4. ASSUME ~c[up].live, NEW b \in tl, NEW j \in Used(dl, b)
          PROVE  dl[b][j].cluster # c[d].cluster
      <3>1. /\ b \in taken
            /\ \/ b = cl /\ j = i /\ dl[b][j] = e
               \/ j \in Used(disk, b) /\ dl[b][j] = disk[b][j]
        BY <1>7
      <3>2. CASE dl[b][j] = e
        BY <1>4, <2>2, <3>2
      <3>3. CASE j \in Used(disk, b) /\ dl[b][j] = disk[b][j]
        BY <2>1, <2>4, <3>1, <3>3 DEF CachedOnDisk
      <3> QED
        BY <3>1, <3>2, <3>3
    <2> QED
      BY <2>2, <2>3, <2>4 DEF CachedOnDisk
  <1>11. AgreesOK(dl, tl, c)
    BY <1>8, <1>10 DEF AgreesOK
  <1>12. OwnEntry(dl, tl, c, z)
    <2>1. c[z.up].live /\ c[z.up].cluster = cl /\ z.slot = i
      BY <1>3 DEF cl
    <2>2. z.cluster \in tl \ {1}
      BY <1>1, <1>2, <1>3
    <2>3. \A d \in 2..Len(c) : OfDisk(c, d) => c[d].cluster # z.cluster
      BY <1>2, <1>3, <1>9
    <2>4. dl[cl][i] = [name |-> z.name, kind |-> z.kind, cluster |-> z.cluster, size |-> z.size]
      BY <1>2, <1>3 DEF e
    <2> QED
      BY <1>2, <2>1, <2>2, <2>3, <2>4 DEF OwnEntry
  <1> QED
    BY <1>11, <1>12 DEF dl, tl, new, z, n, i, cl

-----------------------------------------------------------------------------
(* The cache after a removal.                                               *)

\* x is no longer there, nor in slot k of the children of at.
Without(c, l, at, k, x) ==
    /\ l \in Seq(Dentries) /\ Len(l) = Len(c)
    /\ \A i \in 1..Len(c) :
         /\ l[i].name = c[i].name /\ l[i].up = c[i].up /\ l[i].kind = c[i].kind
         /\ l[i].cluster = c[i].cluster /\ l[i].size = c[i].size /\ l[i].slot = c[i].slot
         /\ l[i].covered = c[i].covered /\ l[i].live = (c[i].live /\ i # x)
         /\ i # at => l[i].kids = c[i].kids
    /\ Len(l[at].kids) = Len(c[at].kids) - 1
    /\ \A j \in 1..Len(l[at].kids) :
         l[at].kids[j] = IF j < k THEN c[at].kids[j] ELSE c[at].kids[j + 1]

LEMMA EvictedIs ==
    ASSUME NEW c, CacheOK(c), NEW at \in 1..Len(c), NEW name, KidsNamed(c, at, name) # {}
    PROVE  Without(c, Evicted(c, at, name), at, Least(KidsNamed(c, at, name)), FoundIn(c, at, name))
  <1> DEFINE kids == KidsNamed(c, at, name)
             k == Least(kids)
             x == c[at].kids[k]
             q == RemoveAt(c[at].kids, k)
             freed == [c[x] EXCEPT !.live = FALSE]
             b == [c EXCEPT ![x] = freed]
             bare == [b[at] EXCEPT !.kids = q]
             l == [b EXCEPT ![at] = bare]
  <1>1. c \in Seq(Dentries) /\ c[at] \in Dentries /\ c[at].kids \in Seq(Nat) /\ Len(c) \in Nat
    BY CacheIs
  <1>2. k \in 1..Len(c[at].kids)
    BY FoundChild
  <1>3. Evicted(c, at, name)
          = [[c EXCEPT ![c[at].kids[k]].live = FALSE] EXCEPT ![at].kids = RemoveAt(@, k)]
    BY Zenon DEF Evicted
  <1> HIDE DEF kids, k
  <1>4. x \in 1..Len(c) /\ c[x] \in Dentries
    BY <1>1, <1>2, CacheIs
  <1>5. /\ q \in Seq(Nat) /\ Len(q) = Len(c[at].kids) - 1
        /\ \A j \in 1..Len(q) : q[j] = IF j < k THEN c[at].kids[j] ELSE c[at].kids[j + 1]
    BY <1>1, <1>2, WithoutIs DEF RemoveAt
  <1>6. Evicted(c, at, name) = [[c EXCEPT ![x].live = FALSE] EXCEPT ![at].kids = RemoveAt(@, k)]
    BY <1>3
  <1> HIDE DEF x
  <1>7. /\ freed \in Dentries /\ freed.live = FALSE /\ Alike(freed, [c[x] EXCEPT !.live = FALSE])
        /\ freed.kids = c[x].kids
        /\ freed.name = c[x].name /\ freed.up = c[x].up /\ freed.kind = c[x].kind
        /\ freed.cluster = c[x].cluster /\ freed.size = c[x].size /\ freed.slot = c[x].slot
        /\ freed.covered = c[x].covered
    BY <1>4 DEF Dentries, Alike
  <1>8. [c EXCEPT ![x].live = FALSE] = b
    OBVIOUS
  <1> HIDE DEF freed
  <1>9. b \in Seq(Dentries) /\ Len(b) = Len(c) /\ \A i \in 1..Len(c) : b[i] = IF i = x THEN freed ELSE c[i]
    BY <1>1, <1>4, <1>7
  <1> HIDE DEF b
  <1>10. b[at] \in Dentries /\ b[at].kids = c[at].kids
    BY <1>1, <1>4, <1>7, <1>9
  <1>11. Evicted(c, at, name) = l
    <2>1. Evicted(c, at, name) = [b EXCEPT ![at].kids = RemoveAt(@, k)]
      BY <1>6, <1>8
    <2>2. [b EXCEPT ![at].kids = RemoveAt(@, k)] = [b EXCEPT ![at].kids = RemoveAt(b[at].kids, k)]
      OBVIOUS
    <2> QED
      BY <1>10, <2>1, <2>2
  <1> HIDE DEF q
  <1>12. /\ bare \in Dentries /\ bare.kids = q
         /\ bare.name = b[at].name /\ bare.up = b[at].up /\ bare.kind = b[at].kind
         /\ bare.cluster = b[at].cluster /\ bare.size = b[at].size /\ bare.slot = b[at].slot
         /\ bare.covered = b[at].covered /\ bare.live = b[at].live
    BY <1>5, <1>10 DEF Dentries
  <1> HIDE DEF bare
  <1>13. l \in Seq(Dentries) /\ Len(l) = Len(c) /\ \A i \in 1..Len(c) : l[i] = IF i = at THEN bare ELSE b[i]
    BY <1>1, <1>9, <1>12
  <1> HIDE DEF l
  <1>14. ASSUME NEW i \in 1..Len(c)
         PROVE  /\ b[i].name = c[i].name /\ b[i].up = c[i].up /\ b[i].kind = c[i].kind
                /\ b[i].cluster = c[i].cluster /\ b[i].size = c[i].size /\ b[i].slot = c[i].slot
                /\ b[i].covered = c[i].covered /\ b[i].live = (c[i].live /\ i # x)
                /\ b[i].kids = c[i].kids
    <2>1. CASE i = x
      <3>1. b[i] = freed
        BY <1>9, <2>1
      <3> QED
        BY <1>7, <2>1, <3>1
    <2>2. CASE i # x
      <3>1. b[i] = c[i] /\ c[i].live \in BOOLEAN
        <4>1. c[i] \in Dentries
          BY <1>1
        <4> QED
          BY <1>9, <2>2, <4>1 DEF Dentries
      <3> QED
        BY <2>2, <3>1
    <2> QED
      BY <2>1, <2>2
  <1>15. ASSUME NEW i \in 1..Len(c)
         PROVE  /\ l[i].name = c[i].name /\ l[i].up = c[i].up /\ l[i].kind = c[i].kind
                /\ l[i].cluster = c[i].cluster /\ l[i].size = c[i].size /\ l[i].slot = c[i].slot
                /\ l[i].covered = c[i].covered /\ l[i].live = (c[i].live /\ i # x)
                /\ i # at => l[i].kids = c[i].kids
    <2>1. CASE i = at
      <3>1. l[i] = bare
        BY <1>13, <2>1
      <3> QED
        BY <1>12, <1>14, <2>1, <3>1
    <2>2. CASE i # at
      <3>1. l[i] = b[i]
        BY <1>13, <2>2
      <3> QED
        BY <1>14, <2>2, <3>1
    <2> QED
      BY <2>1, <2>2
  <1>16. l[at].kids = q
    BY <1>12, <1>13
  <1>17. Without(c, l, at, k, x)
    BY <1>5, <1>13, <1>15, <1>16, Zenon DEF Without
  <1> QED
    BY <1>11, <1>17 DEF FoundIn, x, k, kids

LEMMA EvictedTree ==
    ASSUME NEW c, CacheOK(c), TreeOK(c), NEW at \in 1..Len(c), NEW name,
           KidsNamed(c, at, name) # {}
    PROVE  TreeOK(Evicted(c, at, name))
  <1> DEFINE n == Len(c)
             l == Evicted(c, at, name)
             k == Least(KidsNamed(c, at, name))
             x == FoundIn(c, at, name)
             m == Len(c[at].kids)
  <1>1. Without(c, l, at, k, x)
    BY EvictedIs
  <1>2. k \in 1..m /\ x = c[at].kids[k]
    BY FoundChild DEF FoundIn
  <1>3. x \in 1..n /\ x # Root /\ x # DevRoot /\ c[x].name = name /\ c[x].up = at /\ c[x].live
    BY FoundIs, SMTT(30)
  <1>4. /\ n \in Nat /\ n >= 4 /\ Root \in 1..n /\ Dev \in 1..n /\ DevRoot \in 1..n
        /\ Root = 1 /\ Dev = 2 /\ DevRoot = 3
        /\ \A i \in 1..n : Len(c[i].kids) \in Nat /\ \A j \in 1..Len(c[i].kids) : c[i].kids[j] \in 1..n
    BY CacheIs
  <1> HIDE DEF l, k, x
  <1>5. /\ Len(l) = n
        /\ \A i \in 1..n :
             /\ l[i].name = c[i].name /\ l[i].up = c[i].up /\ l[i].kind = c[i].kind
             /\ l[i].cluster = c[i].cluster /\ l[i].size = c[i].size
             /\ l[i].covered = c[i].covered /\ l[i].live = (c[i].live /\ i # x)
             /\ i # at => l[i].kids = c[i].kids
        /\ Len(l[at].kids) = m - 1
        /\ \A j \in 1..Len(l[at].kids) :
             l[at].kids[j] = IF j < k THEN c[at].kids[j] ELSE c[at].kids[j + 1]
    BY <1>1, Zenon DEF Without
  <1> HIDE DEF n
  <1>6. \A i \in 1..n : KidsOK(c, i) /\ (i # Dev => c[i].covered = Null) /\ (i # Root => HangsOK(c, i))
    BY TreeParts DEF n
  <1>7. BootOK(l)
    <2>1. BootOK(c)
      BY DEF TreeOK
    <2>2. \A i \in 1..n : /\ l[i].name = c[i].name /\ l[i].up = c[i].up /\ l[i].kind = c[i].kind
                         /\ l[i].cluster = c[i].cluster /\ l[i].size = c[i].size
                         /\ l[i].covered = c[i].covered /\ l[i].live = (c[i].live /\ i # x)
      BY <1>5
    <2>3. /\ l[Root].name = c[Root].name /\ l[Root].up = c[Root].up /\ l[Root].kind = c[Root].kind
          /\ l[Root].cluster = c[Root].cluster /\ l[Root].size = c[Root].size
      BY <1>4, <2>2
    <2>4. l[Dev].name = c[Dev].name /\ l[Dev].up = c[Dev].up /\ l[Dev].covered = c[Dev].covered
      BY <1>4, <2>2
    <2>5. /\ l[DevRoot].name = c[DevRoot].name /\ l[DevRoot].up = c[DevRoot].up
          /\ l[DevRoot].kind = c[DevRoot].kind
      BY <1>4, <2>2
    <2>6. c[Root].live /\ c[DevRoot].live
      BY <2>1 DEF BootOK
    <2>7. l[Root].live
      BY <1>3, <1>4, <1>5, <2>6
    <2>8. l[DevRoot].live
      BY <1>3, <1>4, <1>5, <2>6
    <2> QED
      BY <2>1, <2>3, <2>4, <2>5, <2>7, <2>8 DEF BootOK
  \* The children of at are those there were, but the k-th, and no other is x.
  <1> DEFINE old(j) == IF j < k THEN j ELSE j + 1
  <1>8. m \in Nat
    BY <1>4
  <1> HIDE DEF m
  <1>9. ASSUME NEW j \in 1..(m - 1)
        PROVE  /\ old(j) \in 1..m /\ old(j) # k /\ l[at].kids[j] = c[at].kids[old(j)]
    <2>1. CASE j < k
      BY <1>2, <1>5, <1>8, <2>1
    <2>2. CASE ~(j < k)
      BY <1>2, <1>5, <1>8, <2>2
    <2> QED
      BY <2>1, <2>2
  <1>10. \A i, j \in 1..(m - 1) : old(i) = old(j) => i = j
    BY <1>2, <1>8
  <1>11. KidsOK(c, at)
    BY <1>6 DEF n
  <1>12. ASSUME NEW i \in 1..m, i # k
         PROVE  /\ c[at].kids[i] # x /\ c[at].kids[i] # DevRoot /\ c[c[at].kids[i]].live
                /\ c[at].kids[i] \in 1..n
    <2>1. /\ c[at].kids[i] # DevRoot /\ c[c[at].kids[i]].live
          /\ c[c[at].kids[i]].name = c[c[at].kids[k]].name => i = k
      BY <1>2, <1>11 DEF KidsOK, m
    <2>2. c[at].kids[i] \in 1..n
      BY <1>4 DEF m, n
    <2> QED
      BY <1>2, <1>12, <2>1, <2>2
  <1> HIDE DEF old
  <1>13. KidsOK(l, at)
    <2>1. ASSUME NEW j \in 1..(m - 1)
          PROVE  l[l[at].kids[j]].live /\ l[at].kids[j] # DevRoot
      <3>1. old(j) \in 1..m /\ old(j) # k /\ l[at].kids[j] = c[at].kids[old(j)]
        BY <1>9
      <3>2. /\ l[at].kids[j] # x /\ l[at].kids[j] # DevRoot /\ c[l[at].kids[j]].live
            /\ l[at].kids[j] \in 1..n
        BY <1>12, <3>1
      <3>3. l[l[at].kids[j]].live = (c[l[at].kids[j]].live /\ l[at].kids[j] # x)
        BY <1>5, <3>2
      <3> QED
        BY <3>2, <3>3
    <2>2. ASSUME NEW i \in 1..(m - 1), NEW j \in 1..(m - 1),
                 l[l[at].kids[i]].name = l[l[at].kids[j]].name
          PROVE  i = j
      <3>1. /\ old(i) \in 1..m /\ l[at].kids[i] = c[at].kids[old(i)]
            /\ old(j) \in 1..m /\ l[at].kids[j] = c[at].kids[old(j)]
        BY <1>9
      <3>2. c[at].kids[old(i)] \in 1..n /\ c[at].kids[old(j)] \in 1..n
        BY <1>9, <1>12
      <3>3. c[c[at].kids[old(i)]].name = c[c[at].kids[old(j)]].name
        BY <1>5, <2>2, <3>1, <3>2
      <3>4. old(i) = old(j)
        BY <1>11, <3>1, <3>3 DEF KidsOK, m
      <3> QED
        BY <1>10, <3>4
    <2> QED
      BY <1>5, <2>1, <2>2 DEF KidsOK
  <1>14. ASSUME NEW i \in 1..n, i # at
         PROVE  KidsOK(l, i)
    <2>1. l[i].kids = c[i].kids /\ KidsOK(c, i)
      BY <1>5, <1>6, <1>14
    <2>2. ASSUME NEW j \in 1..Len(c[i].kids)
          PROVE  /\ c[i].kids[j] \in 1..n /\ c[i].kids[j] # x
                 /\ l[c[i].kids[j]].live = c[c[i].kids[j]].live
                 /\ l[c[i].kids[j]].name = c[c[i].kids[j]].name
      <3>1. c[i].kids[j] \in 1..n /\ c[c[i].kids[j]].up = i
        BY CacheIs DEF n
      <3>2. c[i].kids[j] # x
        BY <1>3, <1>14, <3>1
      <3>3. c[c[i].kids[j]].live
        BY <2>1 DEF KidsOK
      <3>4. l[c[i].kids[j]].live
        BY <1>5, <3>1, <3>2, <3>3
      <3> QED
        BY <1>5, <3>1, <3>2, <3>3, <3>4
    <2>3. ASSUME NEW j \in 1..Len(l[i].kids)
          PROVE  l[l[i].kids[j]].live /\ l[i].kids[j] # DevRoot
      BY <2>1, <2>2 DEF KidsOK
    <2>4. ASSUME NEW j \in 1..Len(l[i].kids), NEW h \in 1..Len(l[i].kids),
                 l[l[i].kids[j]].name = l[l[i].kids[h]].name
          PROVE  j = h
      <3>1. c[c[i].kids[j]].name = c[c[i].kids[h]].name
        BY <2>1, <2>2, <2>4
      <3> QED
        BY <2>1, <3>1 DEF KidsOK
    <2> QED
      BY <2>3, <2>4 DEF KidsOK
  <1>15. ASSUME NEW i \in 2..n
         PROVE  HangsOK(l, i)
    <2> DEFINE up == c[i].up
    <2>1. i \in 1..n /\ HangsOK(c, i)
      BY <1>4, <1>6
    <2>2. up \in 1..(i - 1) /\ up \in 1..n
      BY <1>4, <2>1 DEF HangsOK
    <2>3. /\ l[i].up = up /\ l[i].kind = c[i].kind /\ l[up].kind = c[up].kind
          /\ l[up].name = c[up].name
      BY <1>5, <2>1, <2>2
    <2>4. IsDirectory(l[up])
      BY <2>1, <2>3 DEF HangsOK, IsDirectory
    <2>5. ASSUME l[i].live, i # DevRoot
          PROVE  \E j \in 1..Len(l[up].kids) : l[up].kids[j] = i
      <3>1. c[i].live /\ i # x
        BY <1>5, <2>1, <2>5
      <3>2. PICK j \in 1..Len(c[up].kids) : c[up].kids[j] = i
        BY <2>1, <2>5, <3>1 DEF HangsOK
      <3>3. CASE up # at
        <4>1. l[up].kids = c[up].kids
          BY <1>5, <2>2, <3>3
        <4> QED
          BY <3>2, <4>1
      <3>4. CASE up = at
        <4>1. j \in 1..m /\ c[at].kids[j] = i /\ j # k
          BY <1>2, <3>1, <3>2, <3>4 DEF m
        <4> DEFINE h == IF j < k THEN j ELSE j - 1
        <4>2. h \in 1..(m - 1) /\ (IF h < k THEN h ELSE h + 1) = j
          BY <1>2, <1>8, <4>1
        <4> HIDE DEF h
        <4>3. l[at].kids[h] = c[at].kids[j]
          <5>1. l[at].kids[h] = IF h < k THEN c[at].kids[h] ELSE c[at].kids[h + 1]
            BY <1>5, <4>2
          <5> QED
            BY <4>2, <5>1
        <4>4. h \in 1..Len(l[at].kids)
          BY <1>5, <4>2
        <4> HIDE DEF up
        <4> QED
          BY <3>4, <4>1, <4>3, <4>4
      <3> QED
        BY <3>3, <3>4
    <2>6. up # Dev /\ c[up].name \notin Dots /\ (i # DevRoot => (c[i].kind \in {"file", "dir"} <=> c[up].kind = "dir"))
      BY <2>1 DEF HangsOK
    <2>7. l[i].up \in 1..(i - 1) /\ l[i].up # Dev /\ IsDirectory(l[l[i].up]) /\ l[l[i].up].name \notin Dots
      BY <2>2, <2>3, <2>4, <2>6
    <2>8. l[i].live /\ i # DevRoot => \E j \in 1..Len(l[l[i].up].kids) : l[l[i].up].kids[j] = i
      BY <2>3, <2>5
    <2>9. i # DevRoot => (l[i].kind \in {"file", "dir"} <=> l[l[i].up].kind = "dir")
      BY <2>3, <2>6
    <2> QED
      BY <2>7, <2>8, <2>9 DEF HangsOK
  <1>16. \A i \in 1..n : KidsOK(l, i) /\ (i # Dev => l[i].covered = Null)
    BY <1>5, <1>6, <1>13, <1>14
  <1>17. TreeOK(l)
    BY <1>5, <1>7, <1>15, <1>16 DEF TreeOK
  <1> QED
    BY <1>17 DEF l

\* What leads from a directory of the disk to one of its dentries.
LEMMA UpTaken ==
    ASSUME NEW dk, NEW tk, NEW c, CacheOK(c), TreeOK(c), AgreesOK(dk, tk, c),
           NEW d \in 2..Len(c), OfDisk(c, d)
    PROVE  /\ d # DevRoot /\ HangsOK(c, d) /\ d \in 1..Len(c)
           /\ c[d].up \in 1..Len(c) /\ c[c[d].up].kind = "dir" /\ c[d].up # d
           /\ c[c[d].up].live => c[c[d].up].cluster \in tk /\ c[c[d].up].cluster \in Clusters
  <1>1. d # DevRoot /\ HangsOK(c, d)
    BY DEF OfDisk, TreeOK, BootOK
  <1>2. c[d].up \in 1..(d - 1) /\ Len(c) \in Nat
    BY <1>1, CacheIs DEF HangsOK
  <1>3. c[c[d].up].kind = "dir"
    BY <1>1 DEF HangsOK, OfDisk
  <1>4. c[d].up \in 1..Len(c) /\ c[d].up # d /\ d \in 1..Len(c)
    BY <1>2
  <1> QED
    BY <1>1, <1>3, <1>4, DirectoryTaken

\* The entry goes with the one dentry that stands for it; dentries below that have
\* a removed directory over them from now on.
LEMMA EvictedAgrees ==
    ASSUME DiskOK(disk), NoAliases, NEW c, CacheOK(c), TreeOK(c), AgreesOK(disk, taken, c),
           NEW at \in 1..Len(c), c[at].live, c[at].kind = "dir", NEW name \in Words,
           NEW i, i \in Matching(disk, c[at].cluster, name), NEW dl,
           Rewritten(disk, dl, c[at].cluster, i, Hole)
    PROVE  AgreesOK(dl, taken \ {disk[c[at].cluster][i].cluster}, Evicted(c, at, name))
  <1> DEFINE cl == c[at].cluster
             g  == disk[cl][i].cluster
             tl == taken \ {g}
             l  == Evicted(c, at, name)
             x  == FoundIn(c, at, name)
             Gone(d) == KidsNamed(c, at, name) # {} /\ d = x
  <1>1. cl \in taken /\ cl \in Clusters /\ taken \subseteq Clusters /\ 1 \in taken
    BY DirectoryTaken DEF AgreesOK, EntriesOK
  <1>2. i \in Used(disk, cl) /\ disk[cl][i].name = name
    BY <1>1, UsedName
  <1>3. \A b \in taken : \A j \in Used(disk, b) :
           /\ disk[b][j].cluster \in taken \ {1}
           /\ \A k \in Used(disk, b) : disk[b][j].name = disk[b][k].name => j = k
           /\ \A a \in taken : \A k \in Used(disk, a) :
                disk[b][j].cluster = disk[a][k].cluster => b = a /\ j = k
    BY DEF AgreesOK, EntriesOK
  <1>4. g \in taken \ {1}
    BY <1>1, <1>2, <1>3
  <1>5. ASSUME NEW b \in taken, NEW j
        PROVE  /\ j \in Used(dl, b) <=> j \in Used(disk, b) /\ ~(b = cl /\ j = i)
               /\ j \in Used(dl, b) => dl[b][j] = disk[b][j]
    <2>1. b \in Clusters
      BY <1>1
    <2>2. CASE b # cl
      <3>1. dl[b] = disk[b] /\ (j \in Used(dl, b) <=> j \in Used(disk, b))
        BY <2>1, <2>2 DEF Rewritten
      <3> QED
        BY <2>2, <3>1
    <2>3. CASE b = cl
      <3>1. i \notin Used(dl, cl)
        BY DEF Rewritten
      <3>2. j # i => (j \in Used(dl, cl) <=> j \in Used(disk, cl))
        BY DEF Rewritten
      <3>3. j \in Used(disk, cl) /\ j # i => dl[cl][j] = disk[cl][j]
        BY DEF Rewritten
      <3> QED
        BY <2>3, <3>1, <3>2, <3>3
    <2> QED
      BY <2>2, <2>3
  \* The dentry that stands for the entry is the one that goes.
  <1>6. ASSUME NEW z \in 2..Len(c), OfDisk(c, z), c[z].cluster = g
        PROVE  Gone(z)
    <2>1. /\ c[z].up = at /\ c[z].name = disk[c[at].cluster][i].name
          /\ \E k \in 1..Len(c[at].kids) : c[at].kids[k] = z
      BY <1>2, <1>6, StandsFor
    <2>2. PICK k \in 1..Len(c[at].kids) : c[at].kids[k] = z
      BY <2>1
    <2>3. c[c[at].kids[k]].name = name
      BY <1>2, <2>1, <2>2
    <2>4. KidsOK(c, at)
      BY TreeParts
    <2>5. KidsNamed(c, at, name) # {} /\ Least(KidsNamed(c, at, name)) = k
      BY <2>3, <2>4, ChildFound
    <2> QED
      BY <2>2, <2>5 DEF FoundIn
  <1>7. ASSUME KidsNamed(c, at, name) # {}
        PROVE  x \in 2..Len(c) /\ OfDisk(c, x) /\ c[x].cluster = g
    <2>1. x \in 1..Len(c) /\ x # Root /\ x # DevRoot /\ c[x].name = name /\ c[x].up = at /\ c[x].live
      BY <1>7, FoundIs
    <2>2. x \in 2..Len(c) /\ HangsOK(c, x)
      BY <2>1, CacheIs, TreeParts
    <2> HIDE DEF x
    <2>3. OfDisk(c, x)
      BY <2>1, <2>2 DEF OfDisk, HangsOK
    <2>4. CachedOnDisk(disk, taken, c, x)
      BY <2>2, <2>3 DEF AgreesOK
    <2>5. /\ c[x].slot \in Used(disk, cl) /\ disk[cl][c[x].slot].name = name
          /\ disk[cl][c[x].slot].cluster = c[x].cluster
      BY <2>1, <2>4 DEF CachedOnDisk
    <2>6. c[x].slot = i
      BY <1>1, <1>2, <1>3, <2>5
    <2> QED
      BY <2>2, <2>3, <2>5, <2>6
  <1>8. /\ Len(l) = Len(c)
        /\ \A d \in 1..Len(c) :
             /\ l[d].name = c[d].name /\ l[d].up = c[d].up /\ l[d].kind = c[d].kind
             /\ l[d].cluster = c[d].cluster /\ l[d].size = c[d].size /\ l[d].slot = c[d].slot
             /\ l[d].live <=> c[d].live /\ ~Gone(d)
    <2>1. CASE KidsNamed(c, at, name) = {}
      <3>1. l = c
        BY <2>1 DEF Evicted
      <3> HIDE DEF l
      <3> QED
        BY <2>1, <3>1
    <2>2. CASE KidsNamed(c, at, name) # {}
      <3>1. Without(c, l, at, Least(KidsNamed(c, at, name)), x)
        BY <2>2, EvictedIs
      <3> HIDE DEF l, x
      <3> QED
        BY <2>2, <3>1 DEF Without
    <2> QED
      BY <2>1, <2>2
  <1> HIDE DEF cl, g, tl, l, x
  <1>9. tl = taken \ {g}
    BY DEF tl
  <1>10. EntriesOK(dl, tl)
    <2>1. 1 \in tl /\ tl \subseteq Clusters
      BY <1>1, <1>4, <1>9
    <2>2. ASSUME NEW b \in tl, NEW j \in Used(dl, b)
          PROVE  /\ b \in taken /\ j \in Used(disk, b) /\ dl[b][j] = disk[b][j]
                 /\ dl[b][j].cluster \in tl \ {1}
      <3>1. b \in taken /\ j \in Used(disk, b) /\ ~(b = cl /\ j = i) /\ dl[b][j] = disk[b][j]
        BY <1>5, <1>9
      <3>2. disk[b][j].cluster # g
        BY <1>1, <1>2, <1>3, <3>1 DEF g
      <3>3. disk[b][j].cluster \in taken \ {1}
        BY <1>3, <3>1
      <3> QED
        BY <1>9, <3>1, <3>2, <3>3
    <2> QED
      BY <1>3, <2>1, <2>2 DEF EntriesOK
  <1>11. \A d \in 2..Len(c) : OfDisk(l, d) <=> OfDisk(c, d) /\ ~Gone(d)
    <2> TAKE d \in 2..Len(c)
    <2>1. d \in 1..Len(c)
      BY CacheIs
    <2> QED
      BY <1>8, <2>1 DEF OfDisk
  <1>12. ASSUME NEW d \in 2..Len(c), OfDisk(l, d)
         PROVE  CachedOnDisk(dl, tl, l, d)
    <2> DEFINE up == c[d].up
               s  == c[d].slot
    <2>1. OfDisk(c, d) /\ ~Gone(d)
      BY <1>11, <1>12
    <2>2. /\ d \in 1..Len(c) /\ up \in 1..Len(c) /\ c[up].kind = "dir"
          /\ c[up].live => c[up].cluster \in taken
      BY <2>1, UpTaken
    <2>3. CachedOnDisk(disk, taken, c, d)
      BY <2>1 DEF AgreesOK
    <2>4. c[d].cluster # g
      BY <1>6, <2>1
    <2>5. c[d].cluster \in tl \ {1}
      BY <1>9, <2>3, <2>4 DEF CachedOnDisk
    <2> HIDE DEF up, Gone
    <2>6. ASSUME l[up].live
          PROVE  /\ s \in Used(dl, c[up].cluster)
                 /\ dl[c[up].cluster][s] = [name |-> c[d].name, kind |-> c[d].kind,
                                            cluster |-> c[d].cluster, size |-> c[d].size]
      <3>1. c[up].live
        BY <1>8, <2>2, <2>6
      <3>2. /\ s \in Used(disk, c[up].cluster)
            /\ disk[c[up].cluster][s] = [name |-> c[d].name, kind |-> c[d].kind,
                                         cluster |-> c[d].cluster, size |-> c[d].size]
        BY <2>3, <3>1 DEF CachedOnDisk, up
      <3>3. ~(c[up].cluster = cl /\ s = i)
        BY <2>4, <3>2 DEF g
      <3>4. c[up].cluster \in taken
        BY <2>2, <3>1
      <3> HIDE DEF s
      <3> QED
        BY <1>5, <3>2, <3>3, <3>4
    <2>7. ASSUME ~l[up].live, NEW b \in tl, NEW j \in Used(dl, b)
          PROVE  dl[b][j].cluster # c[d].cluster
      <3>1. b \in taken /\ j \in Used(disk, b) /\ dl[b][j] = disk[b][j] /\ b # g
        BY <1>5, <1>9
      <3>2. CASE ~c[up].live
        BY <2>3, <3>1, <3>2 DEF CachedOnDisk, up
      <3>3. CASE c[up].live
        <4>1. up = x /\ KidsNamed(c, at, name) # {}
          BY <1>8, <2>2, <2>7, <3>3 DEF Gone
        <4>2. c[up].cluster = g
          BY <1>7, <4>1
        <4>3. s \in Used(disk, c[up].cluster) /\ disk[c[up].cluster][s].cluster = c[d].cluster
          BY <2>3, <3>3 DEF CachedOnDisk, up
        <4>4. c[up].cluster \in taken
          BY <2>2, <3>3
        <4> HIDE DEF s
        <4> QED
          BY <1>3, <3>1, <4>2, <4>3, <4>4
      <3> QED
        BY <3>2, <3>3
    <2>8. /\ l[d].up = up /\ l[d].cluster = c[d].cluster /\ l[d].slot = s /\ l[d].name = c[d].name
          /\ l[d].kind = c[d].kind /\ l[d].size = c[d].size /\ l[up].cluster = c[up].cluster
      BY <1>8, <2>2 DEF up
    <2> HIDE DEF s
    <2> QED
      BY <2>5, <2>6, <2>7, <2>8 DEF CachedOnDisk
  <1>13. ASSUME NEW d \in 2..Len(c), NEW e \in 2..Len(c), OfDisk(l, d), OfDisk(l, e),
                l[d].cluster = l[e].cluster
         PROVE  d = e
    <2>1. OfDisk(c, d) /\ OfDisk(c, e)
      BY <1>11, <1>13
    <2>2. d \in 1..Len(c) /\ e \in 1..Len(c)
      BY CacheIs
    <2>3. c[d].cluster = c[e].cluster
      BY <1>8, <1>13, <2>2
    <2> QED
      BY <2>1, <2>3 DEF AgreesOK
  <1>14. AgreesOK(dl, tl, l)
    BY <1>8, <1>10, <1>12, <1>13 DEF AgreesOK
  <1> QED
    BY <1>14 DEF tl, g, cl, l

-----------------------------------------------------------------------------
(* A file that has grown.                                                   *)

\* The cache with another size of one file.
Resized(c, id, size) == [c EXCEPT ![id].size = size]

LEMMA ResizedIs ==
    ASSUME NEW c, CacheOK(c), NEW id \in 1..Len(c), NEW size \in 0..MaxSize
    PROVE  LET l == Resized(c, id, size)
           IN  /\ Len(l) = Len(c) /\ l \in Seq(Dentries)
               /\ \A d \in 1..Len(c) :
                    /\ l[d].name = c[d].name /\ l[d].up = c[d].up /\ l[d].kind = c[d].kind
                    /\ l[d].cluster = c[d].cluster /\ l[d].slot = c[d].slot
                    /\ l[d].covered = c[d].covered /\ l[d].live = c[d].live /\ l[d].kids = c[d].kids
                    /\ l[d].size = IF d = id THEN size ELSE c[d].size
  <1> DEFINE new == [c[id] EXCEPT !.size = size]
             l   == [c EXCEPT ![id] = new]
  <1>1. c \in Seq(Dentries) /\ Len(c) \in Nat /\ c[id] \in Dentries
    BY CacheIs
  <1>2. /\ new \in Dentries /\ new.name = c[id].name /\ new.up = c[id].up /\ new.kind = c[id].kind
        /\ new.cluster = c[id].cluster /\ new.slot = c[id].slot /\ new.covered = c[id].covered
        /\ new.live = c[id].live /\ new.kids = c[id].kids /\ new.size = size
    BY <1>1 DEF Dentries
  <1>3. Resized(c, id, size) = l
    BY DEF Resized
  <1> HIDE DEF new
  <1>4. l \in Seq(Dentries) /\ Len(l) = Len(c) /\ \A d \in 1..Len(c) : l[d] = IF d = id THEN new ELSE c[d]
    BY <1>1, <1>2
  <1> HIDE DEF l
  <1>5. ASSUME NEW d \in 1..Len(c)
        PROVE  /\ l[d].name = c[d].name /\ l[d].up = c[d].up /\ l[d].kind = c[d].kind
               /\ l[d].cluster = c[d].cluster /\ l[d].slot = c[d].slot
               /\ l[d].covered = c[d].covered /\ l[d].live = c[d].live /\ l[d].kids = c[d].kids
               /\ l[d].size = IF d = id THEN size ELSE c[d].size
    <2>1. CASE d = id
      <3>1. l[d] = new
        BY <1>4, <2>1
      <3> QED
        BY <1>2, <2>1, <3>1
    <2>2. CASE d # id
      <3>1. l[d] = c[d]
        BY <1>4, <2>2
      <3> QED
        BY <2>2, <3>1
    <2> QED
      BY <2>1, <2>2
  <1> QED
    BY <1>3, <1>4, <1>5

LEMMA ResizedTree ==
    ASSUME NEW c, CacheOK(c), TreeOK(c), NEW id \in 1..Len(c), c[id].kind = "file",
           NEW size \in 0..MaxSize
    PROVE  TreeOK(Resized(c, id, size))
  <1> DEFINE l == Resized(c, id, size)
             n == Len(c)
  <1>1. /\ Len(l) = n
        /\ \A d \in 1..n :
             /\ l[d].name = c[d].name /\ l[d].up = c[d].up /\ l[d].kind = c[d].kind
             /\ l[d].cluster = c[d].cluster
             /\ l[d].covered = c[d].covered /\ l[d].live = c[d].live /\ l[d].kids = c[d].kids
             /\ l[d].size = IF d = id THEN size ELSE c[d].size
    BY ResizedIs
  <1>2. /\ Root \in 1..n /\ Dev \in 1..n /\ DevRoot \in 1..n /\ Len(c) \in Nat
        /\ Root = 1 /\ \A i \in 1..n : \A k \in 1..Len(c[i].kids) : c[i].kids[k] \in 1..n
    BY CacheIs
  <1> HIDE DEF l
  <1>3. id # Root
    BY DEF TreeOK, BootOK
  <1>4. BootOK(l)
    BY <1>1, <1>2, <1>3 DEF TreeOK, BootOK
  <1>5. ASSUME NEW d \in 1..n
        PROVE  KidsOK(l, d) /\ (d # Dev => l[d].covered = Null)
    <2>1. KidsOK(c, d) /\ (d # Dev => c[d].covered = Null)
      BY TreeParts
    <2>2. \A k \in 1..Len(c[d].kids) : /\ l[c[d].kids[k]].live = c[c[d].kids[k]].live
                                       /\ l[c[d].kids[k]].name = c[c[d].kids[k]].name
      BY <1>1, <1>2
    <2>3. l[d].kids = c[d].kids /\ l[d].covered = c[d].covered
      BY <1>1
    <2> QED
      BY <2>1, <2>2, <2>3, SMTT(30) DEF KidsOK
  <1>6. ASSUME NEW d \in 2..n
        PROVE  HangsOK(l, d)
    <2>1. d \in 1..n /\ HangsOK(c, d)
      BY <1>2, TreeParts
    <2>2. c[d].up \in 1..n
      BY <1>2, <2>1 DEF HangsOK
    <2>3. /\ l[d].up = c[d].up /\ l[d].kind = c[d].kind /\ l[d].live = c[d].live
          /\ l[c[d].up].kind = c[c[d].up].kind /\ l[c[d].up].name = c[c[d].up].name
          /\ l[c[d].up].kids = c[c[d].up].kids
      BY <1>1, <2>1, <2>2
    <2> QED
      BY <2>1, <2>3 DEF HangsOK, IsDirectory
  <1>7. TreeOK(l)
    BY <1>1, <1>4, <1>5, <1>6 DEF TreeOK
  <1> QED
    BY <1>7 DEF l

\* Its entry, at the slot where it was found, has the size as well.
LEMMA ResizedAgrees ==
    ASSUME DiskOK(disk), NEW c, CacheOK(c), TreeOK(c), AgreesOK(disk, taken, c),
           NEW id \in 1..Len(c), c[id].live, c[id].kind = "file", c[c[id].up].live,
           NEW size \in 0..MaxSize
    PROVE  AgreesOK([disk EXCEPT ![c[c[id].up].cluster][c[id].slot].size = size], taken,
                    Resized(c, id, size))
  <1> DEFINE l  == Resized(c, id, size)
             cl == c[c[id].up].cluster
             i  == c[id].slot
             e  == [disk[cl][i] EXCEPT !.size = size]
             dl == [disk EXCEPT ![cl][i].size = size]
  <1>1. id \in 2..Len(c) /\ OfDisk(c, id)
    <2>1. id # Root
      BY DEF TreeOK, BootOK
    <2> QED
      BY <2>1, CacheIs DEF OfDisk
  <1>2. cl \in taken /\ cl \in Clusters
    BY <1>1, UpTaken
  <1>3. /\ i \in Used(disk, cl)
        /\ disk[cl][i] = [name |-> c[id].name, kind |-> c[id].kind,
                          cluster |-> c[id].cluster, size |-> c[id].size]
    <2>1. CachedOnDisk(disk, taken, c, id)
      BY <1>1 DEF AgreesOK
    <2> QED
      BY <2>1 DEF CachedOnDisk
  <1>4. /\ Len(l) = Len(c)
        /\ \A d \in 1..Len(c) :
             /\ l[d].name = c[d].name /\ l[d].up = c[d].up /\ l[d].kind = c[d].kind
             /\ l[d].cluster = c[d].cluster /\ l[d].slot = c[d].slot /\ l[d].live = c[d].live
             /\ l[d].size = IF d = id THEN size ELSE c[d].size
    BY ResizedIs
  <1> HIDE DEF l, cl, i
  <1>5. i \in 1..Len(disk[cl]) /\ disk[cl][i] \in Entries /\ disk[cl][i].name # Hole.name
    <2>1. disk \in [Clusters -> Seq(Entries)]
      BY DEF DiskOK
    <2>2. i \in 1..Len(disk[cl]) /\ disk[cl][i].name # Hole.name
      BY <1>2, <1>3, <2>1, UsedIs
    <2>3. disk[cl] \in Seq(Entries)
      BY <1>2, <2>1
    <2> QED
      BY <2>2, <2>3
  <1>6. /\ e \in Entries /\ e.name = disk[cl][i].name /\ e.cluster = disk[cl][i].cluster
        /\ e.kind = disk[cl][i].kind /\ e.size = size
    BY <1>5 DEF Entries
  <1>7. e = [name |-> c[id].name, kind |-> c[id].kind, cluster |-> c[id].cluster, size |-> size]
    BY <1>3
  <1>8. dl = [disk EXCEPT ![cl][i] = e]
    OBVIOUS
  <1> HIDE DEF e, dl
  <1>9. Rewritten(disk, dl, cl, i, e)
    <2>1. PICK dk : dk = disk
      OBVIOUS
    <2>2. DiskOK(dk) /\ i \in 1..Len(dk[cl])
      BY <1>5, <2>1
    <2>3. Rewritten(dk, [dk EXCEPT ![cl][i] = e], cl, i, e)
      BY <1>2, <1>6, <2>2, EntryPutIs
    <2> QED
      BY <1>8, <2>1, <2>3
  <1>10. ASSUME NEW b \in taken, NEW j
         PROVE  /\ j \in Used(dl, b) <=> j \in Used(disk, b)
                /\ j \in Used(dl, b) => dl[b][j] = IF b = cl /\ j = i THEN e ELSE disk[b][j]
    <2>1. b \in Clusters
      BY DEF AgreesOK, EntriesOK
    <2>2. CASE b # cl
      <3>1. dl[b] = disk[b] /\ (j \in Used(dl, b) <=> j \in Used(disk, b))
        BY <1>9, <2>1, <2>2 DEF Rewritten
      <3> QED
        BY <2>2, <3>1
    <2>3. CASE b = cl
      <3>1. i \in Used(dl, cl) /\ dl[cl][i] = e
        BY <1>5, <1>6, <1>9 DEF Rewritten
      <3>2. j # i => (j \in Used(dl, cl) <=> j \in Used(disk, cl))
        BY <1>9 DEF Rewritten
      <3>3. j \in Used(disk, cl) /\ j # i => dl[cl][j] = disk[cl][j]
        BY <1>9 DEF Rewritten
      <3> QED
        BY <1>3, <2>3, <3>1, <3>2, <3>3
    <2> QED
      BY <2>2, <2>3
  <1>11. \A b \in taken : \A j \in Used(dl, b) :
            /\ j \in Used(disk, b)
            /\ dl[b][j].name = disk[b][j].name /\ dl[b][j].cluster = disk[b][j].cluster
    <2> SUFFICES ASSUME NEW b \in taken, NEW j \in Used(dl, b)
                 PROVE  /\ j \in Used(disk, b)
                        /\ dl[b][j].name = disk[b][j].name /\ dl[b][j].cluster = disk[b][j].cluster
      OBVIOUS
    <2>1. j \in Used(disk, b) /\ dl[b][j] = IF b = cl /\ j = i THEN e ELSE disk[b][j]
      BY <1>10
    <2> QED
      BY <1>6, <2>1
  <1>12. EntriesOK(dl, taken)
    <2>1. EntriesOK(disk, taken)
      BY DEF AgreesOK
    <2> QED
      BY <1>11, <2>1 DEF EntriesOK
  <1>13. \A d \in 2..Len(c) : d \in 1..Len(c) /\ (OfDisk(l, d) <=> OfDisk(c, d))
    <2> TAKE d \in 2..Len(c)
    <2>1. d \in 1..Len(c)
      BY CacheIs
    <2> QED
      BY <1>4, <2>1 DEF OfDisk
  <1>14. ASSUME NEW d \in 2..Len(c), OfDisk(l, d)
         PROVE  CachedOnDisk(dl, taken, l, d)
    <2> DEFINE up == c[d].up
               s  == c[d].slot
    <2>1. OfDisk(c, d) /\ d \in 1..Len(c)
      BY <1>13, <1>14
    <2>2. up \in 1..Len(c) /\ (c[up].live => c[up].cluster \in taken)
      BY <2>1, UpTaken
    <2>3. CachedOnDisk(disk, taken, c, d)
      BY <2>1 DEF AgreesOK
    <2> HIDE DEF up
    <2>4. ASSUME c[up].live
          PROVE  /\ s \in Used(dl, c[up].cluster)
                 /\ dl[c[up].cluster][s] = [name |-> l[d].name, kind |-> l[d].kind,
                                            cluster |-> l[d].cluster, size |-> l[d].size]
      <3>1. /\ s \in Used(disk, c[up].cluster)
            /\ disk[c[up].cluster][s] = [name |-> c[d].name, kind |-> c[d].kind,
                                         cluster |-> c[d].cluster, size |-> c[d].size]
        BY <2>3, <2>4 DEF CachedOnDisk, up
      <3>2. c[up].cluster \in taken
        BY <2>2, <2>4
      <3>3. /\ l[d].name = c[d].name /\ l[d].kind = c[d].kind /\ l[d].cluster = c[d].cluster
            /\ l[d].size = IF d = id THEN size ELSE c[d].size
        BY <1>4, <2>1
      <3>4. CASE d = id
        <4>1. c[up].cluster = cl /\ s = i
          BY <3>4 DEF cl, i, up
        <4> HIDE DEF s
        <4>2. s \in Used(dl, cl) /\ dl[cl][i] = e
          BY <1>10, <3>1, <3>2, <4>1
        <4> QED
          BY <1>7, <3>3, <3>4, <4>1, <4>2
      <3>5. CASE d # id
        <4>1. ~(c[up].cluster = cl /\ s = i)
          <5>1. c[d].cluster # c[id].cluster
            BY <1>1, <2>1, <3>5 DEF AgreesOK
          <5> HIDE DEF s
          <5> QED
            BY <1>3, <3>1, <5>1
        <4> HIDE DEF s
        <4>2. s \in Used(dl, c[up].cluster) /\ dl[c[up].cluster][s] = disk[c[up].cluster][s]
          BY <1>10, <3>1, <3>2, <4>1
        <4> QED
          BY <3>1, <3>3, <3>5, <4>2
      <3> QED
        BY <3>4, <3>5
    <2>5. ASSUME ~c[up].live, NEW b \in taken, NEW j \in Used(dl, b)
          PROVE  dl[b][j].cluster # l[d].cluster
      BY <1>4, <1>11, <2>1, <2>3, <2>5 DEF CachedOnDisk, up
    <2>6. l[d].cluster \in taken \ {1}
      BY <1>4, <2>1, <2>3 DEF CachedOnDisk
    <2>7. /\ l[d].up = up /\ l[d].slot = s /\ l[up].cluster = c[up].cluster /\ l[up].live = c[up].live
      BY <1>4, <2>1, <2>2 DEF up
    <2> HIDE DEF s
    <2> QED
      BY <2>4, <2>5, <2>6, <2>7 DEF CachedOnDisk
  <1>15. ASSUME NEW d \in 2..Len(c), NEW z \in 2..Len(c), OfDisk(l, d), OfDisk(l, z),
                l[d].cluster = l[z].cluster
         PROVE  d = z
    <2>1. OfDisk(c, d) /\ OfDisk(c, z) /\ c[d].cluster = c[z].cluster
      BY <1>4, <1>13, <1>15
    <2> QED
      BY <2>1 DEF AgreesOK
  <1>16. AgreesOK(dl, taken, l)
    BY <1>4, <1>12, <1>14, <1>15 DEF AgreesOK
  <1> QED
    BY <1>16 DEF dl, cl, i, l


-----------------------------------------------------------------------------
(* Every call keeps the invariant.                                          *)

\* What a step leaves of the working directories.
Stays(c) ==
    \A t \in Tasks : \/ \E u \in Tasks : task'[t].cwd = task[u].cwd
                     \/ task'[t].cwd \in 1..Len(c) /\ RestsAt(c, task'[t].cwd)

LEMMA SameCwds == task' = task => \A c : Stays(c)
  BY DEF Stays

LEMMA InvParts ==
    ASSUME TypeOK, CacheInv
    PROVE  /\ DiskOK(disk) /\ CacheOK(dentry) /\ Good(dentry) /\ dentry \in Seq(Dentries)
           /\ Ext(dentry, dentry) /\ taken \subseteq Clusters
           /\ \A t \in Tasks : task[t].cwd \in 1..Len(dentry) /\ RestsAt(dentry, task[t].cwd)
  <1>1. DiskOK(disk) /\ CacheOK(dentry) /\ dentry \in Seq(Dentries) /\ taken \subseteq Clusters
    BY DentriesAre
  <1>2. Ext(dentry, dentry)
    BY <1>1, ExtSelf
  <1>3. Good(dentry)
    BY <1>1 DEF Good, CacheInv
  <1>4. \A t \in Tasks : task[t].cwd \in 1..Len(dentry) /\ RestsAt(dentry, task[t].cwd)
    BY DEF TypeOK, CacheInv, PlacesOK
  <1> QED
    BY <1>1, <1>2, <1>3, <1>4

\* A step that makes c the cache, in which the dentries there were keep their names.
LEMMA CacheTaken ==
    ASSUME TypeOK, CacheInv, NEW c, dentry' = c, Stays(c),
           TreeOK(c), NoAliases => AgreesOK(disk', taken', c), Len(dentry) <= Len(c),
           \A d \in 1..Len(dentry) : c[d].name = dentry[d].name
    PROVE  CacheInv'
  <1>1. PlacesOK'
    <2> SUFFICES ASSUME NEW t \in Tasks
                 PROVE  RestsAt(dentry', task'[t].cwd)
      BY DEF PlacesOK
    <2>1. CASE task'[t].cwd \in 1..Len(c) /\ RestsAt(c, task'[t].cwd)
      BY <2>1
    <2>2. ASSUME NEW u \in Tasks, task'[t].cwd = task[u].cwd
          PROVE  RestsAt(dentry', task'[t].cwd)
      <3>1. task[u].cwd \in 1..Len(dentry) /\ RestsAt(dentry, task[u].cwd)
        BY InvParts
      <3>2. RestsAt(c, task[u].cwd)
        BY <3>1 DEF RestsAt
      <3> QED
        BY <2>2, <3>2
    <2> QED
      BY <2>1, <2>2 DEF Stays
  <1>2. TreeOK(dentry') /\ (NoAliases => AgreesOK(disk', taken', dentry'))
    OBVIOUS
  <1> QED
    BY <1>1, <1>2 DEF CacheInv

\* A step that only looks things up.
LEMMA LookupKeeps ==
    ASSUME TypeOK, CacheInv, NEW c, Good(c), Ext(dentry, c), dentry' = c, Stays(c),
           UNCHANGED <<disk, taken>>
    PROVE  CacheInv'
  <1>1. TreeOK(c) /\ (NoAliases => AgreesOK(disk', taken', c))
    BY DEF Good
  <1>2. Len(dentry) <= Len(c) /\ \A d \in 1..Len(dentry) : c[d].name = dentry[d].name
    BY DEF Ext
  <1> QED
    BY <1>1, <1>2, CacheTaken

\* A step that does not touch the cache.
LEMMA CacheUntouched ==
    ASSUME TypeOK, CacheInv, UNCHANGED <<disk, taken, dentry>>, Stays(dentry)
    PROVE  CacheInv'
  <1>1. PICK c : c = dentry
    OBVIOUS
  <1>2. Good(c) /\ Ext(dentry, c) /\ dentry' = c /\ Stays(c)
    BY <1>1, InvParts
  <1> QED
    BY <1>2, LookupKeeps

\* A walk that has come somewhere has come to what lives.
LEMMA EndLive ==
    ASSUME NEW c, NEW v, NEW w, GoodWalk(c, w), w = Finished(v), w.end = "at"
    PROVE  w.cache[w.at].live
  <1>1. w \in Walks
    BY DEF GoodWalk, WalkOK
  <1>2. "end" \in DOMAIN w /\ w.end # "wild"
    BY <1>1 DEF Walks
  <1>3. CASE v.end = "at" /\ ~v.cache[v.at].live
    <2>1. w = [v EXCEPT !.end = "wild"]
      BY <1>3 DEF Finished
    <2> QED
      BY <1>2, <2>1
  <1>4. CASE ~(v.end = "at" /\ ~v.cache[v.at].live)
    BY <1>4 DEF Finished
  <1> QED
    BY <1>3, <1>4

LEMMA LookupGood ==
    ASSUME TypeOK, CacheInv, NEW p \in Tasks, NEW path \in Paths
    PROVE  LET w == Walk(p, path)
           IN  GoodWalk(dentry, w) /\ (w.end = "at" => w.cache[w.at].live)
  <1>1. PICK c : c = dentry
    OBVIOUS
  <1>2. DiskOK(disk) /\ Good(c) /\ task[p].cwd \in 1..Len(c) /\ RestsAt(c, task[p].cwd)
    BY <1>1, InvParts
  <1>3. path.abs \in BOOLEAN /\ path.steps \in Seq(Words)
    BY VfsAssumption
  <1>4. PICK abs, steps : abs = path.abs /\ steps = path.steps
    OBVIOUS
  <1>5. Walk(p, path) = WalkOn(c, p, abs, steps)
    BY <1>1, <1>4 DEF Walk
  <1>6. GoodWalk(c, WalkOn(c, p, abs, steps))
    BY <1>2, <1>3, <1>4, WalkGood
  <1>7. PICK f : WalkOn(c, p, abs, steps) = Finished(f[Len(steps)])
    BY <1>3, <1>4, WalkSteps
  <1>8. PICK v : v = f[Len(steps)]
    OBVIOUS
  <1> QED
    BY <1>1, <1>5, <1>6, <1>7, <1>8, EndLive

LEMMA ParentGood ==
    ASSUME TypeOK, CacheInv, NEW p \in Tasks, NEW path \in Paths, path.steps # <<>>,
           NEW c, Good(c), Ext(dentry, c)
    PROVE  LET up == ParentWalk(c, p, path)
           IN  /\ GoodWalk(c, up) /\ Ext(dentry, up.cache) /\ up.at \in 1..Len(up.cache)
               /\ LastName(path) \in Words
               /\ up.end = "at" => up.cache[up.at].live
  <1>1. DiskOK(disk) /\ task[p].cwd \in 1..Len(c) /\ RestsAt(c, task[p].cwd)
    <2>1. CacheOK(c) /\ task[p].cwd \in 1..Len(dentry) /\ RestsAt(dentry, task[p].cwd)
      BY InvParts DEF Good
    <2>2. Len(dentry) <= Len(c) /\ Len(c) \in Nat /\ Len(dentry) \in Nat
      BY <2>1, InvParts, CacheIs DEF Ext
    <2>3. RestsAt(c, task[p].cwd)
      BY <2>1 DEF RestsAt, Ext
    <2> QED
      BY <2>1, <2>2, <2>3, InvParts
  <1>2. path.abs \in BOOLEAN /\ path.steps \in Seq(Words)
    BY VfsAssumption
  <1>3. PICK abs, steps, q : abs = path.abs /\ q = path.steps /\ steps = Front(path.steps)
    OBVIOUS
  <1>4. steps \in Seq(Words) /\ Last(q) \in Words
    BY <1>2, <1>3 DEF Front, Last
  <1>5. ParentWalk(c, p, path) = WalkOn(c, p, abs, steps)
    BY <1>3 DEF ParentWalk
  <1>6. GoodWalk(c, WalkOn(c, p, abs, steps))
    BY <1>1, <1>2, <1>3, <1>4, WalkGood
  <1>7. PICK f : WalkOn(c, p, abs, steps) = Finished(f[Len(steps)])
    BY <1>4, WalkSteps
  <1>8. PICK v, w : v = f[Len(steps)] /\ w = WalkOn(c, p, abs, steps)
    OBVIOUS
  <1>9. GoodWalk(c, w) /\ (w.end = "at" => w.cache[w.at].live)
    BY <1>6, <1>7, <1>8, EndLive
  <1>10. w.cache \in Seq(Dentries) /\ w.at \in 1..Len(w.cache) /\ Ext(c, w.cache)
    <2>1. WalkOK(c, w) /\ Ext(c, w.cache)
      BY <1>9 DEF GoodWalk
    <2> QED
      BY <2>1 DEF WalkOK, Walks
  <1>11. Ext(dentry, w.cache)
    <2>1. PICK a : a = dentry
      OBVIOUS
    <2>2. a \in Seq(Dentries) /\ c \in Seq(Dentries) /\ Ext(a, c)
      BY <2>1, InvParts DEF Good, CacheOK
    <2> QED
      BY <1>10, <2>1, <2>2, ExtOn
  <1> QED
    BY <1>3, <1>4, <1>5, <1>8, <1>9, <1>10, <1>11 DEF LastName

LEMMA WildKeeps ==
    ASSUME TypeOK, CacheInv, NEW how, GoesWild(how)
    PROVE  CacheInv'
  <1>1. UNCHANGED <<disk, taken, dentry>> /\ Stays(dentry)
    BY SameCwds DEF GoesWild
  <1> QED
    BY <1>1, CacheUntouched

LEMMA OpenAtStays ==
    ASSUME TypeOK, NEW p, NEW fd, NEW cache, NEW d, OpenAt(p, fd, cache, d)
    PROVE  dentry' = cache /\ \A c : Stays(c)
  <1>1. \A t \in Tasks : task'[t].cwd = task[t].cwd
    <2>1. \A t \in Tasks : task[t] \in Records
      BY DEF TypeOK
    <2> QED
      BY <2>1 DEF OpenAt, TypeOK, Records
  <1> QED
    BY <1>1 DEF OpenAt, Stays

LEMMA OpenKeeps ==
    ASSUME TypeOK, CacheInv, NEW p \in Tasks, NEW path \in Paths, Open(p, path)
    PROVE  CacheInv'
  <1>1. PICK w : w = Walk(p, path)
    OBVIOUS
  <1>2. GoodWalk(dentry, w)
    BY <1>1, LookupGood
  <1>3. \/ GoesWild("freed")
        \/ OpenAt(p, Least(FreeFds(p)), w.cache, w.at) /\ UNCHANGED <<disk, taken>>
    BY <1>1 DEF Open
  <1>4. CASE GoesWild("freed")
    BY <1>4, WildKeeps
  <1>5. CASE OpenAt(p, Least(FreeFds(p)), w.cache, w.at) /\ UNCHANGED <<disk, taken>>
    <2>1. PICK c, fd : c = w.cache /\ fd = Least(FreeFds(p))
      OBVIOUS
    <2>2. Good(c) /\ Ext(dentry, c)
      BY <1>2, <2>1 DEF GoodWalk
    <2>3. dentry' = c /\ Stays(c)
      <3>1. OpenAt(p, fd, c, w.at)
        BY <1>5, <2>1
      <3> QED
        BY <3>1, OpenAtStays
    <2> QED
      BY <1>5, <2>2, <2>3, LookupKeeps
  <1> QED
    BY <1>3, <1>4, <1>5

LEMMA StatKeeps ==
    ASSUME TypeOK, CacheInv, NEW p \in Tasks, NEW path \in Paths, Stat(p, path)
    PROVE  CacheInv'
  <1>1. PICK w, c : w = Walk(p, path) /\ c = w.cache
    OBVIOUS
  <1>2. GoodWalk(dentry, w)
    BY <1>1, LookupGood
  <1>3. Good(c) /\ Ext(dentry, c)
    BY <1>1, <1>2 DEF GoodWalk
  <1>4. GoesWild("freed") \/ (dentry' = c /\ UNCHANGED <<disk, taken, task>>)
    BY <1>1 DEF Stat
  <1> QED
    BY <1>3, <1>4, WildKeeps, LookupKeeps, SameCwds

LEMMA ChdirKeeps ==
    ASSUME TypeOK, CacheInv, NEW p \in Tasks, NEW path \in Paths, Chdir(p, path)
    PROVE  CacheInv'
  <1>1. PICK w, c : w = Walk(p, path) /\ c = w.cache
    OBVIOUS
  <1>2. GoodWalk(dentry, w)
    BY <1>1, LookupGood
  <1>3. Good(c) /\ Ext(dentry, c) /\ w.at \in 1..Len(c) /\ RestsAt(c, w.at)
    BY <1>1, <1>2 DEF GoodWalk, WalkOK
  <1>4. dentry' = c /\ task' = [task EXCEPT ![p].cwd = w.at] /\ UNCHANGED <<disk, taken>>
    BY <1>1 DEF Chdir
  <1>5. \A t \in Tasks : task'[t].cwd = IF t = p THEN w.at ELSE task[t].cwd
    <2>1. task \in [Tasks -> Records]
      BY DEF TypeOK
    <2> QED
      BY <1>4, <2>1 DEF Records
  <1>6. Stays(c)
    BY <1>3, <1>5 DEF Stays
  <1> QED
    BY <1>3, <1>4, <1>6, LookupKeeps

\* The dentry of an entry just made.
LEMMA MadeChild ==
    ASSUME TypeOK, NEW c \in Seq(Dentries), CacheOK(c), NEW at \in 1..Len(c), c[at].kind = "dir",
           RestsAt(c, at), NEW name \in Words, KidsNamed(c, at, name) = {},
           NEW kind \in {"file", "dir"}, Made(c[at].cluster, name, kind).ok
    PROVE  NewChild(c, Dentry(name, at, kind, Least(Clusters \ taken), 0,
                              PlaceIn(disk, c[at].cluster)))
  <1>1. PICK n, i : n = Least(Clusters \ taken) /\ i = PlaceIn(disk, c[at].cluster)
    OBVIOUS
  <1>2. c[at].cluster \in Clusters /\ DiskOK(disk) /\ taken \subseteq Clusters
    BY DentriesAre DEF CacheOK
  <1>3. PICK dk : dk = disk
    OBVIOUS
  <1>4. DiskOK(dk) /\ PlaceIn(dk, c[at].cluster) \in Nat
    BY <1>2, <1>3, PlaceIs
  <1>5. n \in Clusters /\ n \in Nat /\ i \in Nat
    BY <1>1, <1>2, <1>3, <1>4, MadeOK, ConstantFacts
  <1> DEFINE d == Dentry(name, at, kind, n, 0, i)
  <1>6. at \in Nat /\ 0 \in 0..MaxSize /\ kind \in Kinds
    BY ConstantFacts DEF Kinds
  <1>7. /\ d \in Dentries /\ d.up = at /\ d.kind = kind
        /\ d.kids = <<>> /\ d.covered = Null /\ d.live
    BY <1>5, <1>6, DentryIs
  <1>8. d.name = name
    BY DEF Dentry
  <1> HIDE DEF d
  <1>9. IsDirectory(c[at])
    BY DEF IsDirectory
  <1>10. NewChild(c, d)
    BY <1>7, <1>8, <1>9 DEF NewChild
  <1> QED
    BY <1>1, <1>10 DEF d

LEMMA OpenMissingKeeps ==
    ASSUME TypeOK, CacheInv, NEW p \in Tasks, NEW path \in Paths, NEW creat \in BOOLEAN,
           OpenMissing(p, path, creat)
    PROVE  CacheInv'
  <1>1. PICK w : w = Walk(p, path)
    OBVIOUS
  <1>2. PICK b : b = w.cache
    OBVIOUS
  <1>3. PICK up : up = ParentWalk(b, p, path)
    OBVIOUS
  <1>4. PICK c, at, name : c = up.cache /\ at = up.at /\ name = LastName(path)
    OBVIOUS
  <1> DEFINE new == Made(c[at].cluster, name, "file")
             z   == Dentry(name, at, "file", Least(Clusters \ taken), 0,
                           PlaceIn(disk, c[at].cluster))
             l   == Linked(c, z)
  <1>5. /\ path.steps # <<>> /\ w.end = "none"
        /\ \/ GoesWild("freed")
           \/ GoesWild("null")
           \/ /\ up.end = "at" /\ c[at].kind = "dir" /\ new.ok
              /\ disk' = new.disk /\ taken' = new.taken
              /\ OpenAt(p, Least(FreeFds(p)), l, Len(c) + 1)
           \/ /\ dentry' = c /\ UNCHANGED <<disk, taken, file, task, wild>>
    BY <1>1, <1>2, <1>3, <1>4 DEF OpenMissing
  <1>6. Good(b) /\ Ext(dentry, b)
    BY <1>1, <1>2, LookupGood DEF GoodWalk
  <1>7. /\ GoodWalk(b, up) /\ Ext(dentry, c) /\ at \in 1..Len(c) /\ name \in Words
        /\ up.end = "at" => c[at].live
    BY <1>3, <1>4, <1>5, <1>6, ParentGood
  <1>8. Good(c) /\ RestsAt(c, at) /\ CacheOK(c) /\ TreeOK(c) /\ c \in Seq(Dentries)
    BY <1>4, <1>7 DEF GoodWalk, Good, CacheOK
  <1>9. CASE GoesWild("freed") \/ GoesWild("null")
    BY <1>9, WildKeeps
  <1>10. CASE dentry' = c /\ UNCHANGED <<disk, taken, file, task, wild>>
    BY <1>7, <1>8, <1>10, LookupKeeps, SameCwds
  <1>11. CASE /\ up.end = "at" /\ c[at].kind = "dir" /\ new.ok
              /\ disk' = new.disk /\ taken' = new.taken
              /\ OpenAt(p, Least(FreeFds(p)), l, Len(c) + 1)
    <2>1. KidsNamed(c, at, name) = {}
      <3>1. PICK a, abs, q : a = dentry /\ abs = path.abs /\ q = path.steps
        OBVIOUS
      <3>2. /\ DiskOK(disk) /\ Good(a) /\ task[p].cwd \in 1..Len(a) /\ RestsAt(a, task[p].cwd)
            /\ abs \in BOOLEAN /\ q \in Seq(Words) /\ q # <<>>
        BY <1>5, <3>1, InvParts, VfsAssumption
      <3>3. w = WalkOn(a, p, abs, q)
        BY <1>1, <3>1 DEF Walk
      <3>4. up = WalkOn(WalkOn(a, p, abs, q).cache, p, abs, Front(q)) /\ name = Last(q)
        BY <1>2, <1>3, <1>4, <3>1, <3>3 DEF ParentWalk, LastName
      <3>5. WalkOn(a, p, abs, q).end = "none"
        BY <1>5, <3>3
      <3>6. up.end = "at" /\ up.cache[up.at].kind = "dir"
               => KidsNamed(up.cache, up.at, name) = {}
        BY <3>2, <3>4, <3>5, NotCached
      <3> QED
        BY <1>4, <1>11, <3>6
    <2>2. NewChild(c, z)
      BY <1>7, <1>8, <1>11, <2>1, MadeChild
    <2>3. TreeOK(l)
      BY <1>8, <2>2, LinkedTree
    <2>4. ASSUME NoAliases
          PROVE  AgreesOK(disk', taken', l)
      <3>1. DiskOK(disk) /\ AgreesOK(disk, taken, c) /\ c[at].live
        BY <1>7, <1>8, <1>11, <2>4, InvParts DEF Good
      <3>2. AgreesOK(new.disk, new.taken, c) /\ OwnEntry(new.disk, new.taken, c, z)
        BY <1>7, <1>8, <1>11, <3>1, MadeAgrees
      <3>3. PICK dk, tk : dk = new.disk /\ tk = new.taken
        OBVIOUS
      <3> HIDE DEF new, z
      <3>4. AgreesOK(dk, tk, Linked(c, z))
        BY <1>8, <2>2, <3>2, <3>3, LinkedAgrees
      <3> QED
        BY <1>11, <3>3, <3>4
    <2>5. dentry' = l /\ Stays(l)
      BY <1>11, OpenAtStays
    <2>6. Len(dentry) <= Len(l) /\ \A d \in 1..Len(dentry) : l[d].name = dentry[d].name
      <3>1. Ext(c, l)
        BY <1>8, <2>2, LinkedExt
      <3>2. Len(dentry) \in Nat /\ Len(c) \in Nat
        BY <1>8, InvParts
      <3>3. l \in Seq(Dentries)
        BY <1>8, <2>2, LinkedIs DEF NewChild
      <3> HIDE DEF l
      <3>4. Len(l) \in Nat
        BY <3>3
      <3> QED
        BY <1>7, <3>1, <3>2, <3>4 DEF Ext
    <2> HIDE DEF l
    <2> QED
      BY <2>3, <2>4, <2>5, <2>6, CacheTaken
  <1> QED
    BY <1>5, <1>9, <1>10, <1>11

LEMMA MkdirKeeps ==
    ASSUME TypeOK, CacheInv, NEW p \in Tasks, NEW path \in Paths, Mkdir(p, path)
    PROVE  CacheInv'
  <1>1. PICK up : up = ParentWalk(dentry, p, path)
    OBVIOUS
  <1>2. PICK c, at, name : c = up.cache /\ at = up.at /\ name = LastName(path)
    OBVIOUS
  <1> DEFINE new == Made(c[at].cluster, name, "dir")
             z   == Dentry(name, at, "vdir", 0, 0, Null)
             l   == Linked(c, z)
  <1>3. /\ path.steps # <<>>
        /\ \/ GoesWild("freed")
           \/ /\ up.end = "at" /\ c[at].kind = "dir" /\ new.ok
              /\ disk' = new.disk /\ taken' = new.taken /\ dentry' = c
              /\ UNCHANGED <<file, task, wild>>
           \/ /\ up.end = "at" /\ c[at].kind \in {"devdir", "vdir"}
              /\ KidsNamed(c, at, name) = {}
              /\ dentry' = l /\ UNCHANGED <<disk, taken, file, task, wild>>
    BY <1>1, <1>2 DEF Mkdir
  <1>4. /\ GoodWalk(dentry, up) /\ Ext(dentry, c) /\ at \in 1..Len(c) /\ name \in Words
        /\ up.end = "at" => c[at].live
    <2>1. PICK a : a = dentry
      OBVIOUS
    <2>2. Good(a) /\ Ext(dentry, a) /\ up = ParentWalk(a, p, path)
      BY <1>1, <2>1, InvParts
    <2>3. /\ GoodWalk(a, up) /\ Ext(dentry, up.cache) /\ up.at \in 1..Len(up.cache)
          /\ LastName(path) \in Words /\ (up.end = "at" => up.cache[up.at].live)
      BY <1>3, <2>2, ParentGood
    <2> QED
      BY <1>2, <2>1, <2>3
  <1>5. Good(c) /\ RestsAt(c, at) /\ CacheOK(c) /\ TreeOK(c) /\ c \in Seq(Dentries)
    BY <1>2, <1>4 DEF GoodWalk, Good, CacheOK
  <1>6. CASE GoesWild("freed")
    BY <1>6, WildKeeps
  <1>7. CASE /\ up.end = "at" /\ c[at].kind = "dir" /\ new.ok
             /\ disk' = new.disk /\ taken' = new.taken /\ dentry' = c
             /\ UNCHANGED <<file, task, wild>>
    <2>1. ASSUME NoAliases
          PROVE  AgreesOK(disk', taken', c)
      <3>1. DiskOK(disk) /\ AgreesOK(disk, taken, c) /\ c[at].live
        BY <1>4, <1>5, <1>7, <2>1, InvParts DEF Good
      <3>2. AgreesOK(new.disk, new.taken, c)
        BY <1>4, <1>5, <1>7, <3>1, MadeAgrees
      <3> HIDE DEF new
      <3> QED
        BY <1>7, <3>2
    <2>2. Len(dentry) <= Len(c) /\ \A d \in 1..Len(dentry) : c[d].name = dentry[d].name
      BY <1>4 DEF Ext
    <2>3. dentry' = c /\ Stays(c)
      BY <1>7, SameCwds
    <2> QED
      BY <1>5, <2>1, <2>2, <2>3, CacheTaken
  <1>8. CASE /\ up.end = "at" /\ c[at].kind \in {"devdir", "vdir"} /\ KidsNamed(c, at, name) = {}
             /\ dentry' = l /\ UNCHANGED <<disk, taken, file, task, wild>>
    <2>1. NewChild(c, z)
      <3>1. at \in Nat /\ 0 \in 0..MaxSize /\ "vdir" \in Kinds /\ Null \in Nat /\ 0 \in Nat
        BY <1>4, <1>5, ConstantFacts DEF Kinds
      <3>2. /\ z \in Dentries /\ z.up = at /\ z.kind = "vdir"
            /\ z.kids = <<>> /\ z.covered = Null /\ z.live
        BY <1>4, <3>1, DentryIs
      <3>3. z.name = name
        BY DEF Dentry
      <3>4. IsDirectory(c[at]) /\ c[at].kind # "dir"
        BY <1>8 DEF IsDirectory
      <3> HIDE DEF z
      <3> QED
        BY <1>4, <1>5, <1>8, <3>2, <3>3, <3>4 DEF NewChild
    <2>2. z.kind = "vdir"
      BY DEF Dentry
    <2> HIDE DEF z
    <2>3. TreeOK(l)
      BY <1>5, <2>1, LinkedTree
    <2>4. ASSUME NoAliases
          PROVE  AgreesOK(disk', taken', l)
      <3>1. PICK dk, tk : dk = disk /\ tk = taken
        OBVIOUS
      <3>2. AgreesOK(dk, tk, c)
        BY <1>5, <2>4, <3>1 DEF Good
      <3>3. AgreesOK(dk, tk, Linked(c, z))
        BY <1>5, <2>1, <2>2, <3>2, LinkedAgrees
      <3> QED
        BY <1>8, <3>1, <3>3
    <2>5. Ext(c, l) /\ l \in Seq(Dentries)
      BY <1>5, <2>1, LinkedExt, LinkedIs DEF NewChild
    <2>6. Len(dentry) <= Len(l) /\ \A d \in 1..Len(dentry) : l[d].name = dentry[d].name
      <3>1. Len(dentry) \in Nat /\ Len(c) \in Nat
        BY <1>5, InvParts
      <3> HIDE DEF l
      <3>2. Len(l) \in Nat
        BY <2>5
      <3> QED
        BY <1>4, <2>5, <3>1, <3>2 DEF Ext
    <2>7. dentry' = l /\ Stays(l)
      BY <1>8, SameCwds
    <2> HIDE DEF l
    <2> QED
      BY <2>3, <2>4, <2>6, <2>7, CacheTaken
  <1> QED
    BY <1>3, <1>6, <1>7, <1>8

LEMMA UnlinkKeeps ==
    ASSUME TypeOK, CacheInv, NEW p \in Tasks, NEW path \in Paths, Unlink(p, path)
    PROVE  CacheInv'
  <1>1. PICK up : up = ParentWalk(dentry, p, path)
    OBVIOUS
  <1>2. PICK c, at, name, cl : c = up.cache /\ at = up.at /\ name = LastName(path)
                               /\ cl = c[at].cluster
    OBVIOUS
  <1>3. PICK i : i = Least(Matching(disk, cl, name))
    OBVIOUS
  <1> DEFINE l == Evicted(c, at, name)
  <1>4. /\ path.steps # <<>>
        /\ \/ GoesWild("freed")
           \/ /\ up.end = "at" /\ c[at].kind = "dir" /\ Matching(disk, cl, name) # {}
              /\ disk' = [disk EXCEPT ![cl][i] = Hole]
              /\ taken' = taken \ {disk[cl][i].cluster}
              /\ dentry' = l /\ UNCHANGED <<file, task, wild>>
    BY <1>1, <1>2, <1>3 DEF Unlink
  <1>5. /\ GoodWalk(dentry, up) /\ Ext(dentry, c) /\ at \in 1..Len(c) /\ name \in Words
        /\ up.end = "at" => c[at].live
    <2>1. PICK a : a = dentry
      OBVIOUS
    <2>2. Good(a) /\ Ext(dentry, a) /\ up = ParentWalk(a, p, path)
      BY <1>1, <2>1, InvParts
    <2>3. /\ GoodWalk(a, up) /\ Ext(dentry, up.cache) /\ up.at \in 1..Len(up.cache)
          /\ LastName(path) \in Words /\ (up.end = "at" => up.cache[up.at].live)
      BY <1>4, <2>2, ParentGood
    <2> QED
      BY <1>2, <2>1, <2>3
  <1>6. Good(c) /\ CacheOK(c) /\ TreeOK(c) /\ c \in Seq(Dentries)
    BY <1>2, <1>5 DEF GoodWalk, Good, CacheOK
  <1>7. CASE GoesWild("freed")
    BY <1>7, WildKeeps
  <1>8. CASE /\ up.end = "at" /\ c[at].kind = "dir" /\ Matching(disk, cl, name) # {}
             /\ disk' = [disk EXCEPT ![cl][i] = Hole]
             /\ taken' = taken \ {disk[cl][i].cluster}
             /\ dentry' = l /\ UNCHANGED <<file, task, wild>>
    <2>1. TreeOK(l) /\ Len(l) = Len(c) /\ \A d \in 1..Len(c) : l[d].name = c[d].name
      <3>1. CASE KidsNamed(c, at, name) = {}
        <4>1. l = c
          BY <3>1 DEF Evicted
        <4> QED
          BY <1>6, <4>1
      <3>2. CASE KidsNamed(c, at, name) # {}
        <4>1. TreeOK(l)
          BY <1>5, <1>6, <3>2, EvictedTree
        <4>2. Without(c, l, at, Least(KidsNamed(c, at, name)), FoundIn(c, at, name))
          BY <1>5, <1>6, <3>2, EvictedIs
        <4> HIDE DEF l
        <4> QED
          BY <4>1, <4>2 DEF Without
      <3> QED
        BY <3>1, <3>2
    <2>2. ASSUME NoAliases
          PROVE  AgreesOK(disk', taken', l)
      <3>1. DiskOK(disk) /\ AgreesOK(disk, taken, c) /\ c[at].live /\ cl \in Clusters
        BY <1>2, <1>5, <1>6, <1>8, <2>2, InvParts DEF Good, CacheOK
      <3>2. PICK dk : dk = disk
        OBVIOUS
      <3>3. DiskOK(dk) /\ Matching(dk, cl, name) # {} /\ i = Least(Matching(dk, cl, name))
        BY <1>3, <1>8, <3>1, <3>2
      <3>4. i \in 1..Len(dk[cl])
        BY <3>1, <3>3, MatchIs
      <3>5. i \in Matching(dk, cl, name)
        <4>1. Matching(dk, cl, name) \in SUBSET Nat
          BY <3>1, <3>2 DEF Matching, Used
        <4> QED
          BY <3>3, <4>1, LeastIs
      <3>6. PICK dl : dl = [dk EXCEPT ![cl][i] = Hole]
        OBVIOUS
      <3>7. Rewritten(dk, dl, cl, i, Hole)
        <4>1. Rewritten(dk, [dk EXCEPT ![cl][i] = Hole], cl, i, Hole)
          BY <3>1, <3>3, <3>4, HoleIs, EntryPutIs
        <4> QED
          BY <3>6, <4>1
      <3>8. i \in Matching(disk, c[at].cluster, name) /\ Rewritten(disk, dl, c[at].cluster, i, Hole)
        BY <1>2, <3>2, <3>5, <3>7
      <3>9. AgreesOK(dl, taken \ {disk[c[at].cluster][i].cluster}, Evicted(c, at, name))
        BY <1>5, <1>6, <1>8, <2>2, <3>1, <3>8, EvictedAgrees
      <3> QED
        BY <1>2, <1>8, <3>2, <3>6, <3>9
    <2>3. dentry' = l /\ Stays(l)
      BY <1>8, SameCwds
    <2> HIDE DEF l
    <2>4. Len(dentry) <= Len(l) /\ \A d \in 1..Len(dentry) : l[d].name = dentry[d].name
      <3>1. Len(dentry) \in Nat /\ Len(c) \in Nat
        BY <1>6, InvParts
      <3>2. Len(dentry) <= Len(c) /\ \A d \in 1..Len(dentry) : c[d].name = dentry[d].name
        BY <1>5 DEF Ext
      <3>3. \A d \in 1..Len(dentry) : d \in 1..Len(c)
        BY <3>1, <3>2
      <3> QED
        BY <2>1, <3>2, <3>3
    <2> QED
      BY <2>1, <2>2, <2>3, <2>4, CacheTaken
  <1> QED
    BY <1>4, <1>7, <1>8

LEMMA WriteKeeps ==
    ASSUME TypeOK, CacheInv, NEW p \in Tasks, NEW fd \in Fds, NEW n \in Nat, Write(p, fd, n)
    PROVE  CacheInv'
  <1>1. PICK id, end : id = FileOf(p, fd).dentry /\ end = FileOf(p, fd).offset + n
    OBVIOUS
  <1>2. /\ OnFile(p, fd)
        /\ \/ GoesWild("freed")
           \/ /\ dentry[id].live /\ dentry[id].kind = "file"
              /\ end <= MaxSize /\ (end > dentry[id].size => EntryLives(id))
              /\ IF end > dentry[id].size
                 THEN /\ dentry' = [dentry EXCEPT ![id].size = end]
                      /\ disk' = Sized(disk, dentry[id], end)
                 ELSE UNCHANGED <<dentry, disk>>
              /\ UNCHANGED <<taken, task, wild>>
    BY <1>1 DEF Write, GoesWildUnless, InodeLives
  <1>3. CASE GoesWild("freed")
    BY <1>3, WildKeeps
  <1>4. CASE UNCHANGED <<disk, taken, dentry, task>>
    BY <1>4, SameCwds, CacheUntouched
  <1>5. CASE /\ dentry[id].live /\ dentry[id].kind = "file" /\ end <= MaxSize /\ EntryLives(id)
             /\ dentry' = [dentry EXCEPT ![id].size = end]
             /\ disk' = Sized(disk, dentry[id], end)
             /\ UNCHANGED <<taken, task, wild>>
    <2>1. PICK c : c = dentry
      OBVIOUS
    <2>2. FileOf(p, fd).offset \in Nat /\ id \in 1..Len(c)
      BY <1>1, <1>2, <2>1, FileIs
    <2>3. end \in 0..MaxSize
      BY <1>1, <1>5, <2>2, ConstantFacts
    <2>4. DiskOK(disk) /\ CacheOK(c) /\ TreeOK(c) /\ (NoAliases => AgreesOK(disk, taken, c))
      BY <2>1, InvParts DEF CacheInv
    <2>5. c[id].live /\ c[id].kind = "file" /\ c[c[id].up].live
      BY <1>5, <2>1 DEF EntryLives
    <2>6. PICK l : l = Resized(c, id, end)
      OBVIOUS
    <2>7. TreeOK(l)
      BY <2>2, <2>3, <2>4, <2>5, <2>6, ResizedTree
    <2>8. Len(l) = Len(c) /\ \A d \in 1..Len(c) : l[d].name = c[d].name
      BY <2>2, <2>3, <2>4, <2>6, ResizedIs
    <2>9. dentry' = l
      BY <1>5, <2>1, <2>6 DEF Resized
    <2>10. disk' = [disk EXCEPT ![c[c[id].up].cluster][c[id].slot].size = end] /\ taken' = taken
      BY <1>5, <2>1, Zenon DEF Sized
    <2>11. ASSUME NoAliases
           PROVE  AgreesOK(disk', taken', l)
      <3>1. AgreesOK([disk EXCEPT ![c[c[id].up].cluster][c[id].slot].size = end], taken,
                     Resized(c, id, end))
        BY <2>2, <2>3, <2>4, <2>5, <2>11, ResizedAgrees
      <3> QED
        BY <2>6, <2>10, <3>1, Zenon
    <2>12. Len(dentry) <= Len(l) /\ \A d \in 1..Len(dentry) : l[d].name = dentry[d].name
      BY <2>1, <2>8, InvParts
    <2>13. Stays(l)
      BY <1>5, SameCwds
    <2> QED
      BY <2>7, <2>9, <2>11, <2>12, <2>13, CacheTaken
  <1> QED
    BY <1>2, <1>3, <1>4, <1>5

\* Calls that leave the cache and the disk as they are.
LEMMA QuietIs ==
    ASSUME TypeOK, NEW p \in Tasks, NEW fd \in Fds,
           Close(p, fd) \/ Read(p, fd, 1) \/ Fstat(p, fd) \/ Getdents(p, fd)
    PROVE  UNCHANGED <<disk, taken, dentry>> /\ \A t \in Tasks : task'[t].cwd = task[t].cwd
  <1>1. UNCHANGED <<disk, taken, dentry>>
    BY DEF Close, Read, Fstat, Getdents, GoesWildUnless, GoesWild
  <1>2. task \in [Tasks -> Records]
    BY DEF TypeOK
  <1>3. task' = task \/ task' = [task EXCEPT ![p].fd = ClearedSlot(@, fd)]
    BY DEF Close, Read, Fstat, Getdents, GoesWildUnless, GoesWild
  <1>4. CASE task' = [task EXCEPT ![p].fd = ClearedSlot(@, fd)]
    BY <1>1, <1>2, <1>4 DEF Records
  <1> QED
    BY <1>1, <1>3, <1>4

LEMMA ForkExitKeep ==
    ASSUME TypeOK, CacheInv, NEW p \in Tasks, Fork(p) \/ Exit(p)
    PROVE  CacheInv'
  <1>1. UNCHANGED <<disk, taken, dentry>>
    BY DEF Fork, Exit
  <1>2. \A t \in Tasks : \E u \in Tasks : task'[t].cwd = task[u].cwd
    <2>1. task \in [Tasks -> Records]
      BY DEF TypeOK
    <2>2. CASE Fork(p)
      <3>1. PICK d \in Tasks : task' = [task EXCEPT ![d] = [task[p] EXCEPT !.parent = p]]
        BY <2>2 DEF Fork
      <3>2. \A t \in Tasks : task'[t].cwd = IF t = d THEN task[p].cwd ELSE task[t].cwd
        BY <2>1, <3>1 DEF Records
      <3> QED
        BY <3>2
    <2>3. CASE Exit(p)
      <3>1. task' = [task EXCEPT ![p].state = "gone"]
        BY <2>3 DEF Exit
      <3> QED
        BY <2>1, <3>1 DEF Records
    <2> QED
      BY <2>2, <2>3
  <1>3. Stays(dentry)
    BY <1>2 DEF Stays
  <1> QED
    BY <1>1, <1>3, CacheUntouched

LEMMA NextKeeps == TypeOK /\ CacheInv /\ [Next]_vars => CacheInv'
  <1> SUFFICES ASSUME TypeOK, CacheInv, [Next]_vars
               PROVE  CacheInv'
    OBVIOUS
  <1>1. CASE UNCHANGED vars
    BY <1>1, SameCwds, CacheUntouched DEF vars
  <1>2. ASSUME NEW p \in Tasks, NEW path \in Paths,
               \/ Open(p, path) \/ \E creat \in BOOLEAN : OpenMissing(p, path, creat)
               \/ Stat(p, path) \/ Chdir(p, path) \/ Mkdir(p, path) \/ Unlink(p, path)
        PROVE  CacheInv'
    BY <1>2, OpenKeeps, OpenMissingKeeps, StatKeeps, ChdirKeeps, MkdirKeeps, UnlinkKeeps
  <1>3. ASSUME NEW p \in Tasks, NEW fd \in Fds,
               \/ Close(p, fd) \/ Read(p, fd, 1) \/ Write(p, fd, 1)
               \/ \E base \in {"set", "cur", "end"}, move \in Moves : Lseek(p, fd, base, move)
               \/ Fstat(p, fd) \/ Getdents(p, fd)
        PROVE  CacheInv'
    <2>1. CASE Write(p, fd, 1)
      BY <2>1, WriteKeeps
    <2>2. CASE \/ Close(p, fd) \/ Read(p, fd, 1) \/ Fstat(p, fd) \/ Getdents(p, fd)
      <3>1. UNCHANGED <<disk, taken, dentry>> /\ \A t \in Tasks : task'[t].cwd = task[t].cwd
        BY <2>2, QuietIs
      <3>2. Stays(dentry)
        BY <3>1 DEF Stays
      <3> QED
        BY <3>1, <3>2, CacheUntouched
    <2>3. ASSUME NEW base \in {"set", "cur", "end"}, NEW move \in Moves, Lseek(p, fd, base, move)
          PROVE  CacheInv'
      <3>1. UNCHANGED <<disk, taken, dentry, task>>
        BY <2>3 DEF Lseek, GoesWildUnless, GoesWild
      <3> QED
        BY <3>1, SameCwds, CacheUntouched
    <2> QED
      BY <1>3, <2>1, <2>2, <2>3
  <1>4. ASSUME NEW p \in Tasks, Fork(p) \/ Exit(p)
        PROVE  CacheInv'
    BY <1>4, ForkExitKeep
  <1> QED
    BY <1>1, <1>2, <1>3, <1>4 DEF Next

\* What there is at boot.
LEMMA InitCache == Init => CacheInv
  <1> SUFFICES ASSUME Init
               PROVE  CacheInv
    OBVIOUS
  <1> DEFINE entry == [name |-> "dev", kind |-> "dir", cluster |-> 2, size |-> 0]
  <1>1. TypeOK
    BY InitTypes
  <1>2. /\ dentry \in Seq(Dentries) /\ Len(dentry) = 4
        /\ Root = 1 /\ Dev = 2 /\ DevRoot = 3 /\ Tty = 4 /\ Null = 0
    BY <1>1, DentriesAre DEF Init, Root, Dev, DevRoot, Tty, Null
  <1>3. /\ dentry[1].name = "/" /\ dentry[1].up = 0 /\ dentry[1].kids = <<2>>
        /\ dentry[1].kind = "dir" /\ dentry[1].cluster = 1 /\ dentry[1].size = 0
        /\ dentry[1].covered = 0 /\ dentry[1].live
    <2>1. dentry[1] = [Dentry("/", Null, "dir", 1, 0, Null) EXCEPT !.kids = <<Dev>>]
      BY DEF Init
    <2> QED
      BY <1>2, <2>1 DEF Dentry
  <1>4. /\ dentry[2].name = "dev" /\ dentry[2].up = 1 /\ dentry[2].kids = <<>>
        /\ dentry[2].kind = "dir" /\ dentry[2].cluster = 2 /\ dentry[2].size = 0
        /\ dentry[2].slot = 1 /\ dentry[2].covered = 3 /\ dentry[2].live
    <2>1. dentry[2] = [Dentry("dev", Root, "dir", 2, 0, 1) EXCEPT !.covered = DevRoot]
      BY DEF Init
    <2> QED
      BY <1>2, <2>1 DEF Dentry
  <1>5. /\ dentry[3].name = "dev" /\ dentry[3].up = 1 /\ dentry[3].kids = <<4>>
        /\ dentry[3].kind = "devdir" /\ dentry[3].covered = 0 /\ dentry[3].live
    <2>1. dentry[3] = [Dentry("dev", Root, "devdir", 0, 0, Null) EXCEPT !.kids = <<Tty>>]
      BY DEF Init
    <2> QED
      BY <1>2, <2>1 DEF Dentry
  <1>6. /\ dentry[4].name = "tty" /\ dentry[4].up = 3 /\ dentry[4].kids = <<>>
        /\ dentry[4].kind = "dev" /\ dentry[4].covered = 0 /\ dentry[4].live
    <2>1. dentry[4] = Dentry("tty", DevRoot, "dev", 0, 0, Null)
      BY DEF Init
    <2> QED
      BY <1>2, <2>1 DEF Dentry
  <1>7. PICK c : c = dentry
    OBVIOUS
  <1>8. BootOK(c)
    BY <1>2, <1>3, <1>4, <1>5, <1>7 DEF BootOK
  <1>9. Len(<<2>>) = 1 /\ Len(<<4>>) = 1 /\ Len(<<>>) = 0 /\ <<2>>[1] = 2 /\ <<4>>[1] = 4
    OBVIOUS
  <1>10. \A d \in 1..4 : d = 1 \/ d = 2 \/ d = 3 \/ d = 4
    OBVIOUS
  <1>11. ASSUME NEW d \in 1..4
         PROVE  KidsOK(c, d) /\ (d # Dev => c[d].covered = Null)
    <2>1. CASE d = 1
      BY <1>2, <1>3, <1>4, <1>7, <1>9, <2>1 DEF KidsOK
    <2>2. CASE d = 2
      BY <1>2, <1>4, <1>7, <1>9, <2>2 DEF KidsOK
    <2>3. CASE d = 3
      BY <1>2, <1>5, <1>6, <1>7, <1>9, <2>3 DEF KidsOK
    <2>4. CASE d = 4
      BY <1>2, <1>6, <1>7, <1>9, <2>4 DEF KidsOK
    <2> QED
      BY <1>10, <2>1, <2>2, <2>3, <2>4
  <1>12. HangsOK(c, 2)
    <2>1. 1 \in 1..Len(c[1].kids) /\ c[1].kids[1] = 2
      <3>1. PICK q : q = c[1].kids
        OBVIOUS
      <3>2. q = <<2>>
        BY <1>3, <1>7, <3>1
      <3>3. 1 \in 1..Len(q) /\ q[1] = 2
        BY <3>2
      <3> QED
        BY <3>1, <3>3
    <2>2. \E k \in 1..Len(c[1].kids) : c[1].kids[k] = 2
      BY <2>1
    <2>3. 1 \in 1..(2 - 1)
      OBVIOUS
    <2> QED
      BY <1>2, <1>3, <1>4, <1>7, <2>2, <2>3 DEF HangsOK, IsDirectory, Dots
  <1>13. HangsOK(c, 3)
    BY <1>2, <1>3, <1>5, <1>7, <1>9 DEF HangsOK, IsDirectory, Dots
  <1>14. HangsOK(c, 4)
    <2>1. 1 \in 1..Len(c[3].kids) /\ c[3].kids[1] = 4
      <3>1. PICK q : q = c[3].kids
        OBVIOUS
      <3>2. q = <<4>>
        BY <1>5, <1>7, <3>1
      <3>3. 1 \in 1..Len(q) /\ q[1] = 4
        BY <3>2
      <3> QED
        BY <3>1, <3>3
    <2>2. \E k \in 1..Len(c[3].kids) : c[3].kids[k] = 4
      BY <2>1
    <2>3. 3 \in 1..(4 - 1)
      OBVIOUS
    <2> QED
      BY <1>2, <1>5, <1>6, <1>7, <2>2, <2>3 DEF HangsOK, IsDirectory, Dots
  <1>15. \A d \in 2..4 : d = 2 \/ d = 3 \/ d = 4
    OBVIOUS
  <1>16. TreeOK(c)
    BY <1>2, <1>7, <1>8, <1>11, <1>12, <1>13, <1>14, <1>15 DEF TreeOK
  <1>17. PlacesOK
    <2>1. \A t \in Tasks : task[t].cwd = 1
      BY <1>2 DEF Init
    <2> QED
      BY <1>2, <1>3, <2>1 DEF PlacesOK, RestsAt, Dots
  <1>18. /\ taken = {1, 2} /\ {1, 2} \subseteq Clusters
         /\ \A b \in Clusters : disk[b] = IF b = 1 THEN <<entry>> ELSE <<>>
    BY ConstantFacts DEF Init
  <1>19. entry.cluster = 2 /\ entry.name = "dev" /\ entry.kind = "dir" /\ entry.size = 0
    OBVIOUS
  <1> HIDE DEF entry
  <1>20. \A b \in taken : \A i \in Used(disk, b) : b = 1 /\ i = 1 /\ disk[b][i] = entry
    BY <1>18 DEF Used
  <1>21. 1 \in Used(disk, 1) /\ disk[1][1] = entry
    <2>1. disk[1] = <<entry>>
      BY <1>18
    <2>2. 1 \in 1..Len(disk[1]) /\ disk[1][1] = entry
      BY <2>1
    <2>3. entry.name # Hole.name
      BY <1>19 DEF Hole
    <2> QED
      BY <2>2, <2>3 DEF Used
  <1>22. EntriesOK(disk, taken)
    BY <1>18, <1>19, <1>20 DEF EntriesOK
  <1>23. \A d \in 2..4 : OfDisk(c, d) => d = 2
    BY <1>5, <1>6, <1>7, <1>15 DEF OfDisk
  <1>24. entry = [name |-> "dev", kind |-> "dir", cluster |-> 2, size |-> 0]
    BY DEF entry
  <1>25. CachedOnDisk(disk, taken, c, 2)
    BY <1>3, <1>4, <1>7, <1>18, <1>21, <1>24 DEF CachedOnDisk
  <1>26. AgreesOK(disk, taken, c)
    BY <1>2, <1>7, <1>22, <1>23, <1>25 DEF AgreesOK
  <1> QED
    BY <1>7, <1>16, <1>17, <1>26 DEF CacheInv

\* The cache is a tree of unique names, and agrees with a disk without aliases,
\* after any sequence of system calls.
THEOREM CacheCorrect == Spec => [](TypeOK /\ CacheInv)
  <1>1. Init => TypeOK /\ CacheInv
    BY InitTypes, InitCache
  <1>2. TypeOK /\ CacheInv /\ [Next]_vars => (TypeOK /\ CacheInv)'
    BY NextTypes, NextKeeps
  <1> QED
    BY <1>1, <1>2, PTL DEF Spec

-----------------------------------------------------------------------------
(* The names from the root down lead back.                                  *)

LEMMA UpLess ==
    ASSUME NEW c, CacheOK(c), TreeOK(c), NEW d \in 1..Len(c)
    PROVE  /\ d = Root <=> c[d].up = Null
           /\ d # Root => c[d].up \in 1..(d - 1) /\ c[d].up \in 1..Len(c)
  <1>1. Root = 1 /\ Null = 0 /\ Len(c) \in Nat
    BY CacheIs
  <1>2. CASE d = Root
    BY <1>2 DEF TreeOK, BootOK
  <1>3. CASE d # Root
    <2>1. c[d].up \in 1..(d - 1)
      BY <1>3, TreeParts DEF HangsOK
    <2> QED
      BY <1>1, <1>3, <2>1
  <1> QED
    BY <1>2, <1>3

\* Getcwd's names for the first m dentries, and Whole's answers.
NamesTo(c, f, m) ==
    f = [x \in 1..m |-> IF c[x].up = Null THEN <<>> ELSE Append(f[c[x].up], c[x].name)]

WholeTo(c, f, m) ==
    f = [x \in 1..m |-> /\ c[x].live
                        /\ c[x].up # Null => f[c[x].up]
                        /\ \A y \in 1..Len(c) : c[y].covered = x => c[y].live]

LEMMA NamesDefined ==
    ASSUME NEW c, CacheOK(c), TreeOK(c)
    PROVE  \E f : NamesTo(c, f, Len(c))
  <1> DEFINE n == Len(c)
             Bad == {m \in 0..n : ~ \E f : NamesTo(c, f, m)}
  <1>1. n \in Nat
    BY CacheIs
  <1>2. SUFFICES ASSUME Bad # {}
                 PROVE  FALSE
    BY <1>1
  <1> DEFINE m == Least(Bad)
  <1>3. Bad \in SUBSET Nat
    OBVIOUS
  <1>4. m \in Bad /\ \A j \in Bad : m <= j
    BY <1>2, <1>3, LeastIs
  <1> HIDE DEF m
  <1>5. m # 0
    <2>1. NamesTo(c, [x \in 1..0 |-> 0], 0)
      <3>1. 1..0 = {}
        OBVIOUS
      <3> QED
        BY <3>1 DEF NamesTo
    <2> QED
      BY <1>4, <2>1
  <1>6. m \in Nat /\ m - 1 \in 0..n /\ m - 1 \notin Bad /\ m \in 1..n
    BY <1>1, <1>4, <1>5
  <1>7. PICK g : NamesTo(c, g, m - 1)
    BY <1>6
  <1> DEFINE h == [x \in 1..m |-> IF x = m THEN IF c[m].up = Null THEN <<>>
                                                ELSE Append(g[c[m].up], c[m].name)
                                  ELSE g[x]]
  <1>8. \A x \in 1..(m - 1) : g[x] = IF c[x].up = Null THEN <<>> ELSE Append(g[c[x].up], c[x].name)
    BY <1>7 DEF NamesTo
  <1>9. \A x \in 1..m : c[x].up # Null => c[x].up \in 1..m /\ c[x].up # m
    <2> TAKE x \in 1..m
    <2>1. x \in 1..n /\ x \in Nat /\ x <= m
      BY <1>1, <1>6
    <2>2. c[x].up # Null => c[x].up \in 1..(x - 1)
      BY <2>1, UpLess
    <2> QED
      BY <1>6, <2>1, <2>2
  <1>10. ASSUME NEW x \in 1..m
         PROVE  h[x] = IF c[x].up = Null THEN <<>> ELSE Append(h[c[x].up], c[x].name)
    <2>1. h[x] = IF x = m THEN IF c[m].up = Null THEN <<>> ELSE Append(g[c[m].up], c[m].name)
                 ELSE g[x]
      OBVIOUS
    <2>2. c[x].up # Null => h[c[x].up] = g[c[x].up]
      BY <1>9
    <2> HIDE DEF h
    <2>3. x # m => x \in 1..(m - 1)
      BY <1>6
    <2> QED
      BY <1>8, <2>1, <2>2, <2>3
  <1>11. NamesTo(c, h, m)
    BY <1>10 DEF NamesTo
  <1> QED
    BY <1>4, <1>11

LEMMA WholeDefined ==
    ASSUME NEW c, CacheOK(c), TreeOK(c)
    PROVE  \E f : WholeTo(c, f, Len(c))
  <1> DEFINE n == Len(c)
             Bad == {m \in 0..n : ~ \E f : WholeTo(c, f, m)}
             Mounted(x) == \A y \in 1..n : c[y].covered = x => c[y].live
  <1>1. n \in Nat
    BY CacheIs
  <1>2. SUFFICES ASSUME Bad # {}
                 PROVE  FALSE
    BY <1>1
  <1> DEFINE m == Least(Bad)
  <1>3. Bad \in SUBSET Nat
    OBVIOUS
  <1>4. m \in Bad /\ \A j \in Bad : m <= j
    BY <1>2, <1>3, LeastIs
  <1> HIDE DEF m
  <1>5. m # 0
    <2>1. WholeTo(c, [x \in 1..0 |-> 0], 0)
      <3>1. 1..0 = {}
        OBVIOUS
      <3> QED
        BY <3>1 DEF WholeTo
    <2> QED
      BY <1>4, <2>1
  <1>6. m \in Nat /\ m - 1 \in 0..n /\ m - 1 \notin Bad /\ m \in 1..n
    BY <1>1, <1>4, <1>5
  <1>7. PICK g : WholeTo(c, g, m - 1)
    BY <1>6
  <1> DEFINE h == [x \in 1..m |-> IF x = m THEN c[m].live /\ (c[m].up # Null => g[c[m].up]) /\ Mounted(m)
                                  ELSE g[x]]
  <1>8. \A x \in 1..(m - 1) : g[x] = (c[x].live /\ (c[x].up # Null => g[c[x].up]) /\ Mounted(x))
    BY <1>7, Zenon DEF WholeTo
  <1>9. \A x \in 1..m : c[x].up # Null => c[x].up \in 1..m /\ c[x].up # m
    <2> TAKE x \in 1..m
    <2>1. x \in 1..n /\ x \in Nat /\ x <= m
      BY <1>1, <1>6
    <2>2. c[x].up # Null => c[x].up \in 1..(x - 1)
      BY <2>1, UpLess
    <2> QED
      BY <1>6, <2>1, <2>2
  <1> HIDE DEF Mounted
  <1>10. ASSUME NEW x \in 1..m
         PROVE  h[x] = (c[x].live /\ (c[x].up # Null => h[c[x].up]) /\ Mounted(x))
    <2>1. h[x] = IF x = m THEN c[m].live /\ (c[m].up # Null => g[c[m].up]) /\ Mounted(m) ELSE g[x]
      BY Zenon
    <2>2. c[x].up # Null => h[c[x].up] = g[c[x].up]
      <3>1. ASSUME NEW y \in 1..m, y # m
            PROVE  h[y] = g[y]
        BY <3>1, Zenon
      <3> QED
        BY <1>9, <3>1, Zenon
    <2> HIDE DEF h
    <2>3. x # m => x \in 1..(m - 1)
      BY <1>6
    <2>4. CASE x = m
      BY <2>1, <2>2, <2>4, Zenon
    <2>5. CASE x # m
      BY <1>8, <2>1, <2>2, <2>3, <2>5, Zenon
    <2> QED
      BY <2>4, <2>5
  <1>11. WholeTo(c, h, m)
    BY <1>10, ZenonT(40) DEF WholeTo, Mounted
  <1> QED
    BY <1>4, <1>11

\* The names of a dentry are those of its parent and its own.
LEMMA GetcwdIs ==
    ASSUME CacheOK(dentry), TreeOK(dentry), NEW d \in 1..Len(dentry)
    PROVE  Getcwd(d) = IF d = Root THEN <<>> ELSE Append(Getcwd(dentry[d].up), dentry[d].name)
  <1> DEFINE names == CHOOSE f : f = [x \in 1..Len(dentry) |->
                         IF dentry[x].up = Null THEN <<>>
                         ELSE Append(f[dentry[x].up], dentry[x].name)]
  <1>1. \A x : Getcwd(x) = names[x]
    BY Zenon DEF Getcwd
  <1>2. NamesTo(dentry, names, Len(dentry))
    <2>1. PICK c : c = dentry
      OBVIOUS
    <2>2. \E f : NamesTo(c, f, Len(c))
      BY <2>1, NamesDefined
    <2>3. \E f : NamesTo(dentry, f, Len(dentry))
      BY <2>1, <2>2
    <2> QED
      BY <2>3, Zenon DEF NamesTo
  <1> HIDE DEF names
  <1>3. names[d] = IF dentry[d].up = Null THEN <<>> ELSE Append(names[dentry[d].up], dentry[d].name)
    BY <1>2 DEF NamesTo
  <1>4. d = Root <=> dentry[d].up = Null
    <2>1. PICK c : c = dentry
      OBVIOUS
    <2> QED
      BY <2>1, UpLess
  <1>5. Getcwd(d) = names[d] /\ Getcwd(dentry[d].up) = names[dentry[d].up]
    BY <1>1, Zenon
  <1> QED
    BY <1>3, <1>4, <1>5

LEMMA WholeIs ==
    ASSUME CacheOK(dentry), TreeOK(dentry), NEW d \in 1..Len(dentry), Whole(d)
    PROVE  /\ dentry[d].live
           /\ d # Root => Whole(dentry[d].up)
           /\ \A y \in 1..Len(dentry) : dentry[y].covered = d => dentry[y].live
  <1> DEFINE whole == CHOOSE f : f = [x \in 1..Len(dentry) |->
                         /\ dentry[x].live
                         /\ dentry[x].up # Null => f[dentry[x].up]
                         /\ \A y \in 1..Len(dentry) : dentry[y].covered = x => dentry[y].live]
  <1>1. \A x : Whole(x) <=> whole[x]
    BY Zenon DEF Whole
  <1>2. WholeTo(dentry, whole, Len(dentry))
    <2>1. PICK c : c = dentry
      OBVIOUS
    <2>2. \E f : WholeTo(c, f, Len(c))
      BY <2>1, WholeDefined
    <2>3. \E f : WholeTo(dentry, f, Len(dentry))
      BY <2>1, <2>2
    <2> QED
      BY <2>3, Zenon DEF WholeTo
  <1> HIDE DEF whole
  <1>3. whole[d] = (/\ dentry[d].live
                    /\ dentry[d].up # Null => whole[dentry[d].up]
                    /\ \A y \in 1..Len(dentry) : dentry[y].covered = d => dentry[y].live)
    BY <1>2, Zenon DEF WholeTo
  <1>4. d = Root <=> dentry[d].up = Null
    <2>1. PICK c : c = dentry
      OBVIOUS
    <2> QED
      BY <2>1, UpLess
  <1> QED
    BY <1>1, <1>3, <1>4, Zenon

\* Every walk over the names of d, from the root, comes to d.
LeadsBack(d) ==
    LET names == Getcwd(d)
    IN  /\ Len(names) \in Nat
        /\ names \in Seq(Words \cup {"/"})
        /\ \A f : IsWalk(f, Len(names), At(dentry, Root), names) => f[Len(names)] = At(dentry, d)

\* The cache finds a dentry again in its directory, DevRoot through the mount.
LEMMA FoundAgain ==
    ASSUME NEW c, CacheOK(c), TreeOK(c), NEW d \in 1..Len(c), d # Root, RestsAt(c, d), c[d].live,
           c[c[d].up].live, d = DevRoot => c[Dev].live
    PROVE  Component(At(c, c[d].up), c[d].name) = At(c, d)
  <1> DEFINE u    == c[d].up
             name == c[d].name
  <1>1. /\ HangsOK(c, d) /\ u \in 1..Len(c) /\ IsDirectory(c[u]) /\ name \notin Dots
        /\ Dev \in 1..Len(c) /\ Root = 1 /\ Dev = 2 /\ DevRoot = 3 /\ Null = 0
    <2>1. HangsOK(c, d) /\ u \in 1..Len(c)
      BY TreeParts, UpLess
    <2>2. IsDirectory(c[u])
      BY <2>1 DEF HangsOK
    <2>3. name \notin Dots
      BY DEF RestsAt
    <2>4. Dev \in 1..Len(c) /\ Root = 1 /\ Dev = 2 /\ DevRoot = 3 /\ Null = 0
      BY CacheIs
    <2> QED
      BY <2>1, <2>2, <2>3, <2>4
  <1>2. PICK e \in 1..Len(c) : /\ Through(c, e) = d
                               /\ c[e].name = name /\ \E k \in 1..Len(c[u].kids) : c[u].kids[k] = e
    <2>1. CASE d = DevRoot
      <3>1. HangsOK(c, Dev)
        BY <1>1, TreeParts
      <3>2. u = Root /\ name = "dev" /\ c[Dev].up = Root /\ c[Dev].name = "dev"
            /\ c[Dev].covered = DevRoot
        BY <2>1 DEF TreeOK, BootOK
      <3>3. \E k \in 1..Len(c[u].kids) : c[u].kids[k] = Dev
        BY <1>1, <2>1, <3>1, <3>2 DEF HangsOK
      <3>4. Through(c, Dev) = d
        BY <1>1, <2>1, <3>2 DEF Through
      <3> QED
        BY <1>1, <3>2, <3>3, <3>4
    <2>2. CASE d # DevRoot
      <3>1. \E k \in 1..Len(c[u].kids) : c[u].kids[k] = d
        BY <1>1, <2>2 DEF HangsOK
      <3>2. c[d].covered = Null
        BY TreeParts DEF RestsAt
      <3>3. Through(c, d) = d
        BY <3>2 DEF Through
      <3> QED
        BY <3>1, <3>3
    <2> QED
      BY <2>1, <2>2
  <1>3. PICK k \in 1..Len(c[u].kids) : c[u].kids[k] = e
    BY <1>2
  <1> DEFINE kids == KidsNamed(c, u, name)
  <1>4. kids # {} /\ Least(kids) = k
    <2>1. KidsOK(c, u)
      BY <1>1, TreeParts
    <2>2. LET s == KidsNamed(c, u, c[c[u].kids[k]].name) IN s # {} /\ Least(s) = k
      BY <1>1, <2>1, ChildFound
    <2>3. c[c[u].kids[k]].name = name
      BY <1>2, <1>3
    <2> QED
      BY <2>2, <2>3
  <1>5. Asked(c, u, name) = c /\ FoundIn(c, u, name) = e
    BY <1>3, <1>4 DEF Asked, FoundIn
  <1>6. name # "." /\ name # ".."
    BY <1>1 DEF Dots
  <1> HIDE DEF u, name, kids
  <1>7. Component(At(c, u), name) = At(c, d)
    <2>1. PICK x, v, here, m : /\ x = At(c, u) /\ v = Component(x, name) /\ here = c[u]
                               /\ m = Asked(c, u, name)
      OBVIOUS
    <2>2. \/ ~here.live
          \/ ~IsDirectory(here)
          \/ name = "." /\ v = x
          \/ name = ".." /\ v = [x EXCEPT !.at = IF here.up # Null THEN here.up ELSE @]
          \/ name \notin Dots /\ KidsNamed(m, u, name) = {} /\ v = [x EXCEPT !.end = "none"]
          \/ /\ name \notin Dots /\ KidsNamed(m, u, name) # {}
             /\ v = At(m, Through(m, FoundIn(m, u, name)))
      BY <2>1, ComponentAt
    <2>3. here.live /\ IsDirectory(here) /\ m = c /\ KidsNamed(m, u, name) # {}
      BY <1>1, <1>4, <1>5, <2>1 DEF u, kids
    <2>4. v = At(c, Through(c, FoundIn(c, u, name)))
      BY <1>6, <2>2, <2>3
    <2> QED
      BY <1>2, <1>5, <2>1, <2>4
  <1> QED
    BY <1>7 DEF u, name

LEMMA WalkLast ==
    ASSUME NEW n \in Nat, NEW start, NEW a, NEW b, NEW f, IsWalk(f, n + 1, start, b),
           \A i \in 1..n : b[i] = a[i]
    PROVE  /\ f[n + 1] = Component(f[n], b[n + 1])
           /\ \E g : IsWalk(g, n, start, a) /\ g[n] = f[n]
  <1>1. n + 1 \in Nat /\ \A i \in 0..n : i \in 0..(n + 1)
    OBVIOUS
  <1>2. /\ f[0] = start
        /\ \A i \in 1..(n + 1) : f[i] = Component(f[i - 1], b[i])
    BY <1>1, WalkAt
  <1>3. f[n + 1] = Component(f[n], b[n + 1])
    <2>1. n + 1 \in 1..(n + 1) /\ (n + 1) - 1 = n
      OBVIOUS
    <2> QED
      BY <1>2, <2>1
  <1> DEFINE g == [i \in 0..n |-> f[i]]
  <1>4. ASSUME NEW i \in 0..n
        PROVE  g[i] = IF i = 0 THEN start ELSE Component(g[i - 1], a[i])
    <2>1. CASE i = 0
      BY <1>2, <2>1
    <2>2. CASE i # 0
      <3>1. i \in 1..n /\ i \in 1..(n + 1) /\ i - 1 \in 0..n
        BY <2>2
      <3>2. g[i] = f[i] /\ g[i - 1] = f[i - 1]
        BY <3>1
      <3> HIDE DEF g
      <3>3. f[i] = Component(f[i - 1], b[i]) /\ b[i] = a[i]
        BY <1>2, <3>1
      <3> QED
        BY <2>2, <3>2, <3>3
    <2> QED
      BY <2>1, <2>2
  <1>5. IsWalk(g, n, start, a)
    BY <1>4 DEF IsWalk
  <1>6. g[n] = f[n]
    OBVIOUS
  <1> QED
    BY <1>3, <1>5, <1>6

LEMMA AllLeadBack ==
    ASSUME CacheOK(dentry), TreeOK(dentry), NEW d \in 1..Len(dentry), RestsAt(dentry, d), Whole(d)
    PROVE  LeadsBack(d)
  <1> DEFINE Bad == {x \in 1..Len(dentry) : RestsAt(dentry, x) /\ Whole(x) /\ ~LeadsBack(x)}
  <1>1. PICK c : c = dentry
    OBVIOUS
  <1>2. CacheOK(c) /\ TreeOK(c) /\ c \in Seq(Dentries) /\ Len(c) \in Nat /\ Root = 1 /\ DevRoot = 3 /\ Dev = 2
        /\ Root \in 1..Len(c) /\ Dev \in 1..Len(c)
    BY <1>1, CacheIs
  <1>3. SUFFICES ASSUME Bad # {}
                 PROVE  FALSE
    OBVIOUS
  <1>4. PICK x \in Bad : \A y \in Bad : x <= y
    <2>1. Bad \in SUBSET Nat
      BY <1>1, <1>2
    <2> HIDE DEF Bad
    <2> QED
      BY <1>3, <2>1, LeastIs
  <1>5. x \in 1..Len(c) /\ RestsAt(c, x) /\ Whole(x)
    BY <1>1
  <1>6. Getcwd(x) = IF x = Root THEN <<>> ELSE Append(Getcwd(c[x].up), c[x].name)
    BY <1>1, <1>5, GetcwdIs
  <1>7. /\ c[x].live
        /\ x # Root => Whole(c[x].up)
        /\ \A y \in 1..Len(c) : c[y].covered = x => c[y].live
    BY <1>1, <1>5, WholeIs
  <1>8. CASE x = Root
    <2>1. LeadsBack(x)
      <3>1. PICK names : names = Getcwd(x)
        OBVIOUS
      <3>2. names = <<>> /\ Len(names) = 0 /\ names \in Seq(Words \cup {"/"})
        BY <1>6, <1>8, <3>1
      <3>3. ASSUME NEW f, IsWalk(f, 0, At(dentry, Root), names)
            PROVE  f[0] = At(dentry, x)
        BY <1>8, <3>3, WalkAt
      <3> QED
        BY <3>1, <3>2, <3>3 DEF LeadsBack
    <2> QED
      BY <2>1
  <1>9. CASE x # Root
    <2>1. PICK u, name, a, b : u = c[x].up /\ name = c[x].name /\ a = Getcwd(u) /\ b = Getcwd(x)
      OBVIOUS
    <2>2. u \in 1..(x - 1) /\ u \in 1..Len(c) /\ RestsAt(c, u)
      <3>1. c[x].up # Null
        BY <1>2, <1>5, <1>9, UpLess
      <3> QED
        BY <1>2, <1>5, <1>9, <2>1, <3>1, UpLess, UpRests
    <2>3. Whole(u)
      BY <1>7, <1>9, <2>1
    <2>4. LeadsBack(u)
      <3>1. u \notin Bad
        BY <1>2, <1>4, <1>5, <2>2
      <3> QED
        BY <1>1, <2>2, <2>3, <3>1
    <2>5. PICK n : n = Len(a)
      OBVIOUS
    <2>6. /\ n \in Nat /\ a \in Seq(Words \cup {"/"})
          /\ \A f : IsWalk(f, n, At(c, Root), a) => f[n] = At(c, u)
      BY <1>1, <2>1, <2>4, <2>5 DEF LeadsBack
    <2>7. name \in Words \cup {"/"}
      BY <1>2, <1>5, <2>1, CacheIs DEF Dentries
    <2>8. /\ b \in Seq(Words \cup {"/"}) /\ Len(b) = n + 1 /\ b[n + 1] = name
          /\ \A i \in 1..n : b[i] = a[i]
      <3>1. b = Append(a, name)
        BY <1>6, <1>9, <2>1
      <3> QED
        BY <2>5, <2>6, <2>7, <3>1, AppendProperties
    <2>9. ASSUME NEW f, IsWalk(f, n + 1, At(c, Root), b)
          PROVE  f[n + 1] = At(c, x)
      <3>1. PICK start : start = At(c, Root)
        OBVIOUS
      <3>2. f[n + 1] = Component(f[n], name) /\ \E g : IsWalk(g, n, start, a) /\ g[n] = f[n]
        BY <2>6, <2>8, <2>9, <3>1, WalkLast
      <3>3. f[n] = At(c, u)
        BY <2>6, <3>1, <3>2
      <3>4. Component(At(c, c[x].up), c[x].name) = At(c, x)
        <4>1. c[c[x].up].live
          BY <1>1, <2>1, <2>2, <2>3, WholeIs
        <4>2. x = DevRoot => c[Dev].live
          <5>1. c[Dev].covered = DevRoot
            BY <1>2 DEF TreeOK, BootOK
          <5> QED
            BY <1>2, <1>7, <5>1
        <4> QED
          BY <1>2, <1>5, <1>7, <1>9, <4>1, <4>2, FoundAgain
      <3> QED
        BY <2>1, <3>2, <3>3, <3>4
    <2>10. LeadsBack(x)
      <3>1. n + 1 \in Nat
        BY <2>6
      <3> QED
        BY <1>1, <2>1, <2>8, <2>9, <3>1 DEF LeadsBack
    <2> QED
      BY <2>10
  <1> QED
    BY <1>8, <1>9

\* What getcwd answers leads back to the current directory, through the mount of
\* /dev as well, unless a directory on the way has been removed.
THEOREM CwdLeadsBack == Spec => []CwdResolves
  <1>1. TypeOK /\ CacheInv => CwdResolves
    <2> SUFFICES ASSUME TypeOK, CacheInv, NEW t \in Tasks, Whole(task[t].cwd)
                 PROVE  LET w == WalkOn(dentry, t, TRUE, Getcwd(task[t].cwd))
                        IN  w.end = "at" /\ w.at = task[t].cwd
      BY DEF CwdResolves
    <2>1. PICK d, names : d = task[t].cwd /\ names = Getcwd(d)
      OBVIOUS
    <2>2. d \in 1..Len(dentry) /\ RestsAt(dentry, d) /\ Whole(d)
      BY <2>1, InvParts
    <2>3. CacheOK(dentry) /\ TreeOK(dentry)
      BY InvParts DEF CacheInv
    <2>4. /\ Len(names) \in Nat
          /\ \A f : IsWalk(f, Len(names), At(dentry, Root), names) => f[Len(names)] = At(dentry, d)
      BY <2>1, <2>2, <2>3, AllLeadBack DEF LeadsBack
    <2>5. PICK f : /\ IsWalk(f, Len(names), Start(dentry, t, TRUE), names)
                   /\ WalkOn(dentry, t, TRUE, names) = Finished(f[Len(names)])
      <3>1. PICK c : c = dentry
        OBVIOUS
      <3>2. \E f : /\ IsWalk(f, Len(names), Start(c, t, TRUE), names)
                   /\ WalkOn(c, t, TRUE, names) = Finished(f[Len(names)])
        BY <2>4, WalkSteps
      <3> QED
        BY <3>1, <3>2
    <2>6. Start(dentry, t, TRUE) = At(dentry, Root)
      BY DEF Start, At
    <2>7. WalkOn(dentry, t, TRUE, names) = Finished(At(dentry, d))
      BY <2>4, <2>5, <2>6
    <2>8. dentry[d].live
      BY <2>2, <2>3, WholeIs
    <2>9. Finished(At(dentry, d)) = At(dentry, d)
      BY <2>8 DEF Finished, At
    <2>10. At(dentry, d).end = "at" /\ At(dentry, d).at = d
      BY DEF At
    <2>11. PICK w : w = WalkOn(dentry, t, TRUE, Getcwd(task[t].cwd))
      OBVIOUS
    <2>12. w = At(dentry, d)
      BY <2>1, <2>7, <2>9, <2>11
    <2>13. w.end = "at" /\ w.at = task[t].cwd
      BY <2>1, <2>10, <2>12
    <2> QED
      BY <2>11, <2>13, Zenon
  <1> QED
    BY <1>1, CacheCorrect, PTL

-----------------------------------------------------------------------------
(* Without aliases the cache is never seen.                                 *)

\* A child that the cache has of a directory of the disk is as the entry there.
LEMMA FoundEntry ==
    ASSUME DiskOK(disk), NoAliases, NEW c, Good(c), NEW at \in 1..Len(c), c[at].live,
           c[at].kind = "dir", NEW name, name # "dev", KidsNamed(c, at, name) # {}
    PROVE  LET d     == FoundIn(c, at, name)
               slots == Matching(disk, c[at].cluster, name)
               e     == disk[c[at].cluster][Least(slots)]
           IN  /\ d \in 1..Len(c) /\ c[d].live /\ Through(c, d) = d /\ slots # {}
               /\ c[d].kind \in {"file", "dir"}
               /\ c[d].kind = e.kind /\ c[d].cluster = e.cluster /\ c[d].size = e.size
  <1> DEFINE d     == FoundIn(c, at, name)
             cl    == c[at].cluster
             slots == Matching(disk, cl, name)
  <1>1. CacheOK(c) /\ TreeOK(c) /\ AgreesOK(disk, taken, c) /\ cl \in taken /\ cl \in Clusters
    BY DirectoryTaken DEF Good
  <1>2. /\ d \in 1..Len(c) /\ d # Root /\ d # DevRoot /\ c[d].name = name /\ c[d].up = at
        /\ c[d].live /\ Through(c, d) = IF d = Dev THEN DevRoot ELSE d
    BY <1>1, FoundIs
  <1> HIDE DEF d
  <1>3. d # Dev
    BY <1>1, <1>2 DEF TreeOK, BootOK
  <1>4. HangsOK(c, d)
    BY <1>1, <1>2, TreeParts
  <1>5. c[d].kind \in {"file", "dir"}
    BY <1>2, <1>4 DEF HangsOK
  <1>6. d \in 2..Len(c)
    BY <1>1, <1>2, CacheIs
  <1>7. CachedOnDisk(disk, taken, c, d)
    BY <1>1, <1>2, <1>5, <1>6 DEF AgreesOK, OfDisk
  <1> DEFINE s == c[d].slot
  <1>8. s \in Used(disk, cl) /\ disk[cl][s] = [name |-> name, kind |-> c[d].kind,
                                               cluster |-> c[d].cluster, size |-> c[d].size]
    BY <1>2, <1>7 DEF CachedOnDisk
  <1>9. disk[cl][s].name = name /\ disk[cl][s].kind = c[d].kind
        /\ disk[cl][s].cluster = c[d].cluster /\ disk[cl][s].size = c[d].size
    BY <1>8
  <1>10. s \in slots
    <2>1. PICK dk : dk = disk
      OBVIOUS
    <2>2. \A i : i \in Matching(dk, cl, name) <=> i \in Used(dk, cl) /\ dk[cl][i].name = name
      BY <1>1, <2>1, UsedName
    <2> QED
      BY <1>8, <1>9, <2>1, <2>2
  <1>11. \A i \in slots : i = s
    <2>1. \A i \in slots : i \in Used(disk, cl) /\ disk[cl][i].name = name
      <3>1. PICK dk : dk = disk
        OBVIOUS
      <3>2. \A i : i \in Matching(dk, cl, name) <=> i \in Used(dk, cl) /\ dk[cl][i].name = name
        BY <1>1, <3>1, UsedName
      <3> QED
        BY <3>1, <3>2
    <2>2. EntriesOK(disk, taken)
      BY <1>1 DEF AgreesOK
    <2> HIDE DEF slots, s, cl
    <2> QED
      BY <1>1, <1>8, <1>9, <2>1, <2>2 DEF EntriesOK
  <1>12. Least(slots) = s
    <2>1. slots \in SUBSET Nat
      BY <1>1 DEF Matching, Used
    <2> HIDE DEF slots, s
    <2> QED
      BY <1>10, <1>11, <2>1, LeastIs
  <1> HIDE DEF slots, s
  <1>13. Through(c, d) = d /\ slots # {}
    BY <1>2, <1>3, <1>10
  <1> QED
    BY <1>2, <1>5, <1>9, <1>12, <1>13 DEF d, slots, cl

\* A walk has come to what a walk over the directories comes to, or to nothing.
Matches(w, e) ==
    \/ w.end = "none" /\ e = Nowhere
    \/ /\ w.end = "at" /\ w.cache[w.at].live /\ w.cache[w.at].kind \in {"file", "dir"}
       /\ w.cache[w.at].kind = e.kind /\ w.cache[w.at].cluster = e.cluster
       /\ w.cache[w.at].size = e.size

LEMMA ComponentMatches ==
    ASSUME DiskOK(disk), NoAliases, NEW c \in Seq(Dentries), NEW w, GoodWalk(c, w), NEW e,
           Matches(w, e), NEW name \in Words, name \notin {"dev", ".", ".."}
    PROVE  Matches(Component(w, name), Into(e, name))
  <1>1. PICK a, at : a = w.cache /\ at = w.at
    OBVIOUS
  <1>2. /\ Good(a) /\ CacheOK(a) /\ at \in 1..Len(a) /\ RestsAt(a, at) /\ w \in Walks
        /\ a \in Seq(Dentries) /\ Len(a) \in Nat
    BY <1>1, CacheIs DEF GoodWalk, WalkOK, Good
  <1>3. PICK v : v = Component(w, name)
    OBVIOUS
  <1>4. name \notin Dots
    BY DEF Dots
  <1> DEFINE b == Asked(a, at, name)
  <1>5. \/ w.end # "at" /\ v = w
        \/ /\ w.end = "at"
           /\ \/ ~a[at].live
              \/ ~IsDirectory(a[at]) /\ v = [w EXCEPT !.end = "none"]
              \/ KidsNamed(b, at, name) = {} /\ v = [w EXCEPT !.end = "none"]
              \/ KidsNamed(b, at, name) # {} /\ v = At(b, Through(b, FoundIn(b, at, name)))
    <2>1. LET u    == Component(w, name)
              here == w.cache[w.at]
              q    == Asked(w.cache, w.at, name)
          IN  \/ w.end # "at" /\ u = w
              \/ /\ w.end = "at"
                 /\ \/ ~here.live /\ u = [w EXCEPT !.end = "wild"]
                    \/ here.live /\ ~IsDirectory(here) /\ u = [w EXCEPT !.end = "none"]
                    \/ /\ here.live /\ IsDirectory(here)
                       /\ \/ name = "." /\ u = w
                          \/ name = ".." /\ u = [w EXCEPT !.at = IF here.up # Null THEN here.up ELSE @]
                          \/ /\ name \notin Dots /\ KidsNamed(q, w.at, name) = {}
                             /\ u = [w EXCEPT !.end = "none"]
                          \/ /\ name \notin Dots /\ KidsNamed(q, w.at, name) # {}
                             /\ u = [cache |-> q, end |-> "at",
                                     at |-> Through(q, FoundIn(q, w.at, name))]
      BY ComponentIs, ZenonT(40)
    <2>2. PICK q, here : q = Asked(a, at, name) /\ here = a[at]
      OBVIOUS
    <2>3. \/ w.end # "at" /\ v = w
          \/ /\ w.end = "at"
             /\ \/ ~here.live
                \/ ~IsDirectory(here) /\ v = [w EXCEPT !.end = "none"]
                \/ KidsNamed(q, at, name) = {} /\ v = [w EXCEPT !.end = "none"]
                \/ KidsNamed(q, at, name) # {} /\ v = At(q, Through(q, FoundIn(q, at, name)))
      BY <1>1, <1>3, <2>1, <2>2 DEF At
    <2> QED
      BY <2>2, <2>3
  <1>6. CASE w.end # "at"
    <2>1. w.end = "none" /\ e = Nowhere /\ v = w
      BY <1>5, <1>6 DEF Matches
    <2>2. Into(e, name) = Nowhere
      BY <2>1 DEF Into, Nowhere
    <2> QED
      BY <1>3, <2>1, <2>2 DEF Matches
  <1>7. CASE w.end = "at"
    <2>1. /\ a[at].live /\ a[at].kind \in {"file", "dir"} /\ a[at].kind = e.kind
          /\ a[at].cluster = e.cluster
      BY <1>1, <1>7 DEF Matches
    <2>2. [w EXCEPT !.end = "none"].end = "none"
      BY <1>2 DEF Walks
    <2>3. CASE a[at].kind = "file"
      <3>1. ~IsDirectory(a[at])
        BY <2>3 DEF IsDirectory
      <3>2. b = a /\ KidsNamed(a, at, name) = {}
        <4>1. \A k \in 1..Len(a[at].kids) : FALSE
          <5> SUFFICES ASSUME NEW k \in 1..Len(a[at].kids)
                       PROVE  FALSE
            OBVIOUS
          <5>1. PICK d : d = a[at].kids[k]
            OBVIOUS
          <5>2. d \in 1..Len(a) /\ a[d].up = at
            BY <1>2, <5>1, CacheIs
          <5>3. TreeOK(a) /\ at # Null
            BY <1>2, CacheIs DEF Good
          <5>4. d # Root
            BY <1>2, <5>2, <5>3, UpLess
          <5>5. HangsOK(a, d)
            BY <1>2, <5>2, <5>3, <5>4, TreeParts
          <5> QED
            BY <3>1, <5>2, <5>5 DEF HangsOK
        <4>2. KidsNamed(a, at, name) = {}
          BY <4>1 DEF KidsNamed
        <4>3. Cached(a, at, name) = a
          BY <2>3 DEF Cached
        <4> QED
          BY <4>2, <4>3 DEF Asked
      <3>3. v = [w EXCEPT !.end = "none"]
        BY <1>5, <1>7, <2>1, <3>1, <3>2
      <3>4. Into(e, name) = Nowhere
        BY <2>1, <2>3 DEF Into
      <3> QED
        BY <1>3, <2>2, <3>3, <3>4 DEF Matches
    <2>4. CASE a[at].kind = "dir"
      <3>1. IsDirectory(a[at])
        BY <2>4 DEF IsDirectory
      <3>2. Good(b) /\ Ext(a, b)
        BY <1>2, <2>1, AskedGood
      <3> DEFINE slots == Matching(disk, a[at].cluster, name)
      <3>3. Into(e, name) = IF slots = {} THEN Nowhere ELSE disk[a[at].cluster][Least(slots)]
        BY <2>1, <2>4, Zenon DEF Into
      <3>4. /\ b[at].cluster = a[at].cluster
            /\ KidsNamed(b, at, name) = {} => slots = {}
        <4>1. CASE KidsNamed(a, at, name) # {}
          <5>1. b = a
            BY <4>1 DEF Asked
          <5> QED
            BY <4>1, <5>1
        <4>2. CASE KidsNamed(a, at, name) = {}
          <5>1. b = Cached(a, at, name)
            BY <4>2 DEF Asked
          <5>2. \/ Cached(a, at, name) = a /\ slots = {}
                \/ \E z : Cached(a, at, name) = Linked(a, z) /\ AddedBy(a, at, name, z)
            BY <1>2, <2>4, <4>2, CachedIs
          <5>3. CASE Cached(a, at, name) = a /\ slots = {}
            BY <5>1, <5>3
          <5>4. ASSUME NEW z, Cached(a, at, name) = Linked(a, z), AddedBy(a, at, name, z)
                PROVE  b[at].cluster = a[at].cluster /\ KidsNamed(b, at, name) # {}
            <6>1. z \in Dentries /\ z.up = at /\ z.name = name
              BY <5>4 DEF AddedBy, NewChild
            <6>2. PICK l : l = Linked(a, z)
              OBVIOUS
            <6>3. /\ l[Len(a) + 1] = z /\ Alike(l[at], a[at])
                  /\ Len(l[at].kids) = Len(a[at].kids) + 1 /\ l[at].kids[1] = Len(a) + 1
              BY <1>2, <6>1, <6>2, LinkedIs
            <6>4. 1 \in KidsNamed(l, at, name)
              <7>1. Len(a[at].kids) \in Nat
                BY <1>2, CacheIs
              <7>2. 1 \in 1..Len(l[at].kids)
                BY <6>3, <7>1
              <7> QED
                BY <6>1, <6>3, <7>2 DEF KidsNamed
            <6> QED
              BY <5>1, <5>4, <6>2, <6>3, <6>4 DEF Alike
          <5> QED
            BY <5>2, <5>3, <5>4
        <4> QED
          BY <4>1, <4>2
      <3>5. CASE KidsNamed(b, at, name) = {}
        <4>1. v = [w EXCEPT !.end = "none"]
          BY <1>5, <1>7, <2>1, <3>1, <3>5
        <4>2. Into(e, name) = Nowhere
          BY <3>3, <3>4, <3>5
        <4> QED
          BY <1>3, <2>2, <4>1, <4>2 DEF Matches
      <3>6. CASE KidsNamed(b, at, name) # {}
        <4>1. PICK l, d : l = b /\ d = FoundIn(b, at, name)
          OBVIOUS
        <4>2. v = At(l, Through(l, d))
          BY <1>5, <1>7, <2>1, <3>1, <3>6, <4>1
        <4>3. l[at].live /\ l[at].kind = "dir" /\ at \in 1..Len(l)
          <5>1. CacheOK(l) /\ Ext(a, l)
            BY <3>2, <4>1 DEF Good
          <5>2. Len(l) \in Nat /\ Len(a) <= Len(l)
            BY <5>1, CacheIs DEF Ext
          <5>3. at \in 1..Len(l)
            BY <1>2, <5>2
          <5> QED
            BY <1>2, <2>1, <2>4, <5>1, <5>3 DEF Ext
        <4>4. LET s == Matching(disk, l[at].cluster, name)
                  x == disk[l[at].cluster][Least(s)]
              IN  /\ d \in 1..Len(l) /\ l[d].live /\ Through(l, d) = d /\ s # {}
                  /\ l[d].kind \in {"file", "dir"}
                  /\ l[d].kind = x.kind /\ l[d].cluster = x.cluster /\ l[d].size = x.size
          BY <3>2, <3>6, <4>1, <4>3, FoundEntry
        <4>5. PICK x : x = disk[a[at].cluster][Least(slots)]
          OBVIOUS
        <4>6. /\ l[d].live /\ Through(l, d) = d /\ slots # {} /\ l[d].kind \in {"file", "dir"}
              /\ l[d].kind = x.kind /\ l[d].cluster = x.cluster /\ l[d].size = x.size
          BY <3>4, <4>1, <4>4, <4>5
        <4>7. Into(e, name) = x
          BY <3>3, <4>5, <4>6
        <4>8. v.end = "at" /\ v.cache = l /\ v.at = d
          BY <4>2, <4>6 DEF At
        <4> QED
          BY <1>3, <4>6, <4>7, <4>8 DEF Matches
      <3> QED
        BY <3>5, <3>6
    <2> QED
      BY <2>1, <2>3, <2>4
  <1> QED
    BY <1>6, <1>7

\* g holds the entries along the path, from the root's.
IsAlong(g, n, steps) == g = [i \in 0..n |-> IF i = 0 THEN RootEntry ELSE Into(g[i - 1], steps[i])]

LEMMA AlongDefined ==
    ASSUME NEW steps \in Seq(Words)
    PROVE  \E g : IsAlong(g, Len(steps), steps)
  <1> DEFINE n == Len(steps)
             Is(f, m) == IsAlong(f, m, steps)
             Bad == {m \in Nat : ~ \E f : Is(f, m)}
  <1>1. n \in Nat
    OBVIOUS
  <1>2. SUFFICES ASSUME Bad # {}
                 PROVE  FALSE
    BY <1>1
  <1> DEFINE m == Least(Bad)
  <1> HIDE DEF Is
  <1>3. Bad \in SUBSET Nat
    OBVIOUS
  <1>4. m \in Bad /\ \A j \in Bad : m <= j
    BY <1>2, <1>3, LeastIs
  <1> HIDE DEF m
  <1>5. m # 0
    <2>1. Is([i \in 0..0 |-> RootEntry], 0)
      <3>1. \A i \in 0..0 : i = 0
        OBVIOUS
      <3> QED
        BY <3>1 DEF Is, IsAlong
    <2> QED
      BY <1>4, <2>1
  <1>6. m \in Nat /\ m - 1 \in Nat /\ m - 1 \notin Bad
    BY <1>4, <1>5
  <1>7. PICK g : Is(g, m - 1)
    BY <1>6
  <1> DEFINE h == [i \in 0..m |-> IF i = m THEN Into(g[m - 1], steps[m]) ELSE g[i]]
  <1>8. Is(h, m)
    <2>1. \A i \in 0..(m - 1) : g[i] = IF i = 0 THEN RootEntry ELSE Into(g[i - 1], steps[i])
      BY <1>7 DEF Is, IsAlong
    <2>2. \A i \in 0..m : h[i] = IF i = 0 THEN RootEntry ELSE Into(h[i - 1], steps[i])
      <3> TAKE i \in 0..m
      <3>1. h[i] = IF i = m THEN Into(g[m - 1], steps[m]) ELSE g[i]
        OBVIOUS
      <3>2. i # 0 => i - 1 \in 0..m /\ i - 1 # m
        BY <1>6
      <3>3. i # 0 => h[i - 1] = g[i - 1]
        BY <3>2
      <3> HIDE DEF h
      <3>4. i # m => i \in 0..(m - 1)
        BY <1>6
      <3> QED
        BY <1>5, <2>1, <3>1, <3>3, <3>4
    <2> QED
      BY <2>2 DEF Is, IsAlong
  <1> QED
    BY <1>4, <1>8

\* Along a path of the disk a lookup comes to the entries there.
LEMMA StepsMatch ==
    ASSUME DiskOK(disk), NoAliases, NEW c \in Seq(Dentries), NEW start, GoodWalk(c, start),
           Matches(start, RootEntry), NEW steps \in Seq(Words),
           \A i \in 1..Len(steps) : steps[i] \notin {"dev", ".", ".."},
           NEW f, IsWalk(f, Len(steps), start, steps), NEW g, IsAlong(g, Len(steps), steps)
    PROVE  Matches(f[Len(steps)], g[Len(steps)])
  <1> DEFINE n == Len(steps)
             Bad == {i \in 0..n : ~Matches(f[i], g[i])}
  <1>1. n \in Nat /\ \A i \in 1..n : steps[i] \in Words
    OBVIOUS
  <1>2. /\ f[0] = start
        /\ \A i \in 1..n : i - 1 \in 0..n /\ i \in 0..n /\ f[i] = Component(f[i - 1], steps[i])
    BY <1>1, WalkAt
  <1>3. /\ g[0] = RootEntry
        /\ \A i \in 1..n : g[i] = Into(g[i - 1], steps[i])
    <2>1. \A i \in 0..n : g[i] = IF i = 0 THEN RootEntry ELSE Into(g[i - 1], steps[i])
      BY DEF IsAlong
    <2>2. 0 \in 0..n /\ \A i \in 1..n : i \in 0..n /\ i # 0
      BY <1>1
    <2> QED
      BY <2>1, <2>2
  <1>4. \A i \in 0..n : GoodWalk(c, f[i])
    BY StepsGood
  <1>5. ASSUME NEW i \in 1..n, Matches(f[i - 1], g[i - 1])
        PROVE  Matches(f[i], g[i])
    <2>1. PICK w, e, name : w = f[i - 1] /\ e = g[i - 1] /\ name = steps[i]
      OBVIOUS
    <2>2. GoodWalk(c, w) /\ Matches(w, e) /\ name \in Words /\ name \notin {"dev", ".", ".."}
      BY <1>1, <1>2, <1>4, <1>5, <2>1
    <2>3. Matches(Component(w, name), Into(e, name))
      BY <2>2, ComponentMatches
    <2>4. f[i] = Component(w, name) /\ g[i] = Into(e, name)
      BY <1>2, <1>3, <2>1
    <2> QED
      BY <2>3, <2>4
  <1>6. Bad = {}
    <2>1. SUFFICES ASSUME Bad # {}
                   PROVE  FALSE
      OBVIOUS
    <2> DEFINE i == Least(Bad)
    <2>2. Bad \in SUBSET Nat
      OBVIOUS
    <2>3. i \in Bad /\ \A j \in Bad : i <= j
      BY <2>1, <2>2, LeastIs
    <2> HIDE DEF i
    <2>4. i # 0
      BY <1>2, <1>3, <2>3
    <2>5. i \in 1..n /\ i - 1 \in 0..n /\ i - 1 \notin Bad
      BY <1>1, <2>3, <2>4
    <2>6. Matches(f[i], g[i])
      BY <1>5, <2>5
    <2> QED
      BY <2>3, <2>6
  <1>7. n \in 0..n
    BY <1>1
  <1> QED
    BY <1>6, <1>7

\* If every entry answers to its own name only, a lookup through the cache gives
\* what the directories themselves would give, however files were made, written,
\* removed and made again.
THEOREM CacheNeverSeen == NoAliases => (Spec => []LookupAgreesWithDisk)
  <1> SUFFICES ASSUME NoAliases
               PROVE  Spec => []LookupAgreesWithDisk
    OBVIOUS
  <1>1. TypeOK /\ CacheInv => LookupAgreesWithDisk
    <2> SUFFICES ASSUME TypeOK, CacheInv, NEW q \in DiskPaths
                 PROVE  LET w == Walk(1, q)
                            e == OnDisk(q.steps)
                        IN  IF w.end = "at"
                            THEN w.cache[w.at].cluster = e.cluster /\ w.cache[w.at].size = e.size
                            ELSE e = Nowhere
      BY DEF LookupAgreesWithDisk
    <2>1. PICK c, steps : c = dentry /\ steps = q.steps
      OBVIOUS
    <2>2. /\ q \in Paths /\ q.abs /\ q.abs \in BOOLEAN /\ steps \in Seq(Words)
          /\ \A i \in 1..Len(steps) : steps[i] \notin {"dev", ".", ".."}
      BY <2>1, VfsAssumption DEF DiskPaths
    <2>3. 1 \in Tasks
      BY ConstantFacts DEF Tasks
    <2>4. /\ DiskOK(disk) /\ Good(c) /\ c \in Seq(Dentries)
          /\ task[1].cwd \in 1..Len(c) /\ RestsAt(c, task[1].cwd)
      BY <2>1, <2>3, InvParts
    <2>5. PICK start : start = Start(c, 1, TRUE)
      OBVIOUS
    <2>6. GoodWalk(c, start)
      BY <2>3, <2>4, <2>5, StartGood
    <2>7. Matches(start, RootEntry)
      <3>1. start.cache = c /\ start.end = "at" /\ start.at = Root
        BY <2>5 DEF Start
      <3>2. /\ c[Root].live /\ c[Root].kind = "dir" /\ c[Root].cluster = 1 /\ c[Root].size = 0
        BY <2>4 DEF Good, TreeOK, BootOK
      <3>3. RootEntry.kind = "dir" /\ RootEntry.cluster = 1 /\ RootEntry.size = 0
        BY DEF RootEntry
      <3> QED
        BY <3>1, <3>2, <3>3 DEF Matches
    <2>8. PICK f : /\ IsWalk(f, Len(steps), start, steps)
                   /\ WalkOn(c, 1, TRUE, steps) = Finished(f[Len(steps)])
      <3>1. Len(steps) \in Nat
        BY <2>2
      <3>2. \E f : /\ IsWalk(f, Len(steps), Start(c, 1, TRUE), steps)
                   /\ WalkOn(c, 1, TRUE, steps) = Finished(f[Len(steps)])
        BY <3>1, WalkSteps
      <3> QED
        BY <2>5, <3>2
    <2>9. PICK g : IsAlong(g, Len(steps), steps) /\ OnDisk(steps) = g[Len(steps)]
      <3> DEFINE along == CHOOSE h : h = [i \in 0..Len(steps) |->
                            IF i = 0 THEN RootEntry ELSE Into(h[i - 1], steps[i])]
      <3>1. OnDisk(steps) = along[Len(steps)]
        BY Zenon DEF OnDisk
      <3>2. \E h : IsAlong(h, Len(steps), steps)
        BY <2>2, AlongDefined
      <3>3. IsAlong(along, Len(steps), steps)
        BY <3>2, Zenon DEF IsAlong
      <3> QED
        BY <3>1, <3>3
    <2>10. Matches(f[Len(steps)], g[Len(steps)])
      BY <2>2, <2>4, <2>6, <2>7, <2>8, <2>9, StepsMatch
    <2>11. PICK w, e : w = Walk(1, q) /\ e = OnDisk(q.steps)
      OBVIOUS
    <2>12. w = Finished(f[Len(steps)])
      <3>1. q.abs = TRUE
        BY <2>2
      <3> QED
        BY <2>1, <2>8, <2>11, <3>1 DEF Walk
    <2>13. e = g[Len(steps)]
      BY <2>1, <2>9, <2>11
    <2>14. PICK v : v = f[Len(steps)]
      OBVIOUS
    <2>15. w = v /\ Matches(w, e)
      BY <2>10, <2>12, <2>13, <2>14 DEF Finished, Matches
    <2>16. IF w.end = "at" THEN w.cache[w.at].cluster = e.cluster /\ w.cache[w.at].size = e.size
           ELSE e = Nowhere
      BY <2>15 DEF Matches
    <2> QED
      BY <2>11, <2>16
  <1> QED
    BY <1>1, CacheCorrect, PTL

\* Without aliases unlink's eviction does what it is meant to (filesystem.c:347): no
\* lookup comes to a dentry whose cluster has been freed.
THEOREM EvictionSuffices == NoAliases => (Spec => []NoDeletedInode)
  <1> SUFFICES ASSUME NoAliases
               PROVE  Spec => []NoDeletedInode
    OBVIOUS
  <1>1. TypeOK /\ CacheInv => NoDeletedInode
    <2> SUFFICES ASSUME TypeOK, CacheInv, NEW d \in 1..Len(dentry), dentry[d].live,
                        dentry[d].kind \in {"file", "dir"}
                 PROVE  dentry[d].cluster \in taken
      BY DEF NoDeletedInode
    <2>1. /\ AgreesOK(disk, taken, dentry) /\ TreeOK(dentry) /\ Root = 1 /\ Len(dentry) \in Nat
      BY InvParts, CacheIs DEF CacheInv
    <2>2. CASE d = Root
      BY <2>1, <2>2 DEF TreeOK, BootOK, AgreesOK, EntriesOK
    <2>3. CASE d # Root
      <3>1. d \in 2..Len(dentry) /\ OfDisk(dentry, d)
        BY <2>1, <2>3 DEF OfDisk
      <3>2. CachedOnDisk(disk, taken, dentry, d)
        BY <2>1, <3>1 DEF AgreesOK
      <3> QED
        BY <3>2 DEF CachedOnDisk
    <2> QED
      BY <2>2, <2>3
  <1> QED
    BY <1>1, CacheCorrect, PTL
=============================================================================
