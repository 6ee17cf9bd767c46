------------------------------ MODULE FatProofs ------------------------------
(***************************************************************************)
(* Proofs about Fat, for a disk of any size, any names and values, and any *)
(* number of crashes.                                                      *)
(*                                                                         *)
(* A volume, that is a FAT and what its clusters hold, is Good when it is  *)
(* sound and has the files that are wanted.  Of every operation it is      *)
(* proved that each sector write leads from one good volume to another, in *)
(* the order the driver makes them, with the cached FAT sector wherever it *)
(* is written (InOp).  So a crash finds a good volume on the disk.         *)
(***************************************************************************)
EXTENDS Fat, FiniteSetTheorems, SequenceTheorems, WellFoundedInduction, TLAPS

-----------------------------------------------------------------------------
(* Numbers.                                                                 *)

\* A set of numbers has a least element; this stands in for induction.
LEMMA MinIs ==
    ASSUME NEW S \in SUBSET Nat, S # {}
    PROVE  Min(S) \in S /\ \A j \in S : Min(S) <= j
  <1> DEFINE R == {ss \in Nat \X Nat : ss[1] < ss[2]}
  <1>1. IsWellFoundedOn(R, Nat)
    BY NatLessThanWellFounded DEF OpToRel
  <1>2. PICK x \in S : \A y \in S : ~ (<<y, x>> \in R)
    <2> HIDE DEF R
    <2> QED
      BY <1>1, WFMin
  <1>3. \A y \in S : ~ (y < x)
    BY <1>2
  <1>4. \E i \in S : \A j \in S : i <= j
    BY <1>3
  <1> QED
    BY <1>4 DEF Min

\* What holds at 0 and passes from each number below n to the next.
LEMMA UpTo ==
    ASSUME NEW S, NEW n \in Nat, 0 \in S, \A k \in 0..(n - 1) : k \in S => k + 1 \in S
    PROVE  \A k \in 0..n : k \in S
  <1> DEFINE Bad == {k \in 0..n : k \notin S}
             m == Min(Bad)
  <1> SUFFICES ASSUME Bad # {} PROVE FALSE
    OBVIOUS
  <1>1. m \in Bad /\ \A j \in Bad : m <= j
    <2>1. Bad \in SUBSET Nat
      OBVIOUS
    <2> HIDE DEF Bad
    <2> QED
      BY <2>1, MinIs
  <1> HIDE DEF m
  <1>2. m # 0 /\ m - 1 \in 0..(n - 1) /\ m - 1 \notin Bad
    BY <1>1
  <1>3. m - 1 \in S /\ (m - 1) + 1 = m
    BY <1>2, <1>1
  <1> QED
    BY <1>1, <1>2, <1>3

LEMMA MinOfTwo ==
    ASSUME NEW a \in Nat, NEW b \in Nat
    PROVE  Min({a, b}) = IF a <= b THEN a ELSE b
  BY MinIs

-----------------------------------------------------------------------------
(* Chains.                                                                  *)

\* What an entry of the FAT may hold.
Links == Clusters \cup {Unused, Eoc}

LEMMA LinksAre ==
    /\ Clusters \subseteq Nat /\ Unused \notin Clusters /\ Eoc \notin Clusters /\ Unused # Eoc
    /\ RootDir \in Clusters /\ Clusters = 2..(Limit - 1) /\ Limit \in Nat
  BY FatAssumption DEF Clusters, Unused, Eoc, RootDir

\* A part of a chain from c on.
IsChain(fat, c, s) ==
    /\ s \in Seq(Clusters)
    /\ s # <<>> => s[1] = c
    /\ \A i \in 1..(Len(s) - 1) : s[i + 1] = fat[s[i]]

\* The chain and one cluster more, if the FAT leads to one.
Forward(fat, c, chain) ==
    LET next == IF chain = <<>> THEN c ELSE fat[Last(chain)]
    IN  IF next \in Clusters THEN Append(chain, next) ELSE chain

\* f[i] is the chain from c after i steps.
IsWalk(f, n, fat, c) ==
    f = [i \in 0..n |-> IF i = 0 THEN <<>> ELSE Forward(fat, c, f[i - 1])]

\* The walk is defined along its steps.
LEMMA WalkDefined ==
    ASSUME NEW fat, NEW c, NEW n \in Nat
    PROVE  \E f : IsWalk(f, n, fat, c)
  <1> DEFINE S == {m \in Nat : \E f : IsWalk(f, m, fat, c)}
  <1>1. 0 \in S
    <2>1. IsWalk([i \in 0..0 |-> <<>>], 0, fat, c)
      <3>1. \A i \in 0..0 : i = 0
        OBVIOUS
      <3> QED
        BY <3>1 DEF IsWalk
    <2> QED
      BY <2>1
  <1>2. ASSUME NEW k \in 0..(n - 1), k \in S
        PROVE  k + 1 \in S
    <2>1. PICK g : IsWalk(g, k, fat, c)
      BY <1>2
    <2> DEFINE m == k + 1
               h == [i \in 0..m |-> IF i = m THEN Forward(fat, c, g[k]) ELSE g[i]]
    <2>2. m \in Nat /\ m - 1 = k /\ m # 0
      OBVIOUS
    <2>3. \A i \in 0..k : g[i] = IF i = 0 THEN <<>> ELSE Forward(fat, c, g[i - 1])
      BY <2>1 DEF IsWalk
    <2>4. \A i \in 0..m : h[i] = IF i = 0 THEN <<>> ELSE Forward(fat, c, h[i - 1])
      <3> TAKE i \in 0..m
      <3>1. h[i] = IF i = m THEN Forward(fat, c, g[k]) ELSE g[i]
        OBVIOUS
      <3>2. i # 0 => i - 1 \in 0..m /\ i - 1 # m
        BY <2>2
      <3>3. i # 0 => h[i - 1] = g[i - 1]
        BY <3>2
      <3> HIDE DEF h
      <3>4. i # m => i \in 0..k
        OBVIOUS
      <3>5. i = m => i - 1 = k /\ i # 0
        BY <2>2
      <3> QED
        BY <2>3, <3>1, <3>3, <3>4, <3>5
    <2>5. IsWalk(h, m, fat, c)
      BY <2>4 DEF IsWalk
    <2> QED
      BY <2>2, <2>5
  <1>3. \A k \in 0..n : k \in S
    <2> HIDE DEF S
    <2> QED
      BY <1>1, <1>2, UpTo
  <1> QED
    BY <1>3

\* What the walk of ChainOf gives.
LEMMA ChainIs ==
    ASSUME NEW fat \in [Clusters -> Links], NEW c
    PROVE  /\ IsChain(fat, c, ChainOf(fat, c))
           /\ ChainOf(fat, c) = <<>> <=> c \notin Clusters
           /\ ChainOf(fat, c) # <<>> /\ fat[Last(ChainOf(fat, c))] \in Clusters =>
                Len(ChainOf(fat, c)) = Limit
  <1> DEFINE walk == CHOOSE f : f = [n \in 0..Limit |->
                       IF n = 0 THEN <<>>
                       ELSE LET chain == f[n - 1]
                                next  == IF chain = <<>> THEN c ELSE fat[Last(chain)]
                            IN  IF next \in Clusters THEN Append(chain, next) ELSE chain]
  <1>1. ChainOf(fat, c) = walk[Limit]
    BY Zenon DEF ChainOf
  <1>2. IsWalk(walk, Limit, fat, c)
    <2>1. \E f : IsWalk(f, Limit, fat, c)
      BY WalkDefined, LinksAre
    <2> QED
      BY <2>1, Zenon DEF IsWalk, Forward
  <1> HIDE DEF walk
  <1> DEFINE Part(n) ==
               /\ IsChain(fat, c, walk[n]) /\ Len(walk[n]) <= n
               /\ walk[n] = <<>> => n = 0 \/ c \notin Clusters
               /\ walk[n] # <<>> => c \in Clusters
               /\ walk[n] # <<>> /\ fat[Last(walk[n])] \in Clusters => Len(walk[n]) = n
             S == {n \in 0..Limit : Part(n)}
  <1>3. walk[0] = <<>> /\ \A n \in 1..Limit : walk[n] = Forward(fat, c, walk[n - 1])
    BY <1>2, LinksAre DEF IsWalk
  <1>4. 0 \in S
    <2>1. <<>> \in Seq(Clusters) /\ Len(<<>>) = 0 /\ 0 \in 0..Limit
      BY LinksAre
    <2>2. \A i \in 1..(Len(<<>>) - 1) : FALSE
      BY <2>1
    <2>3. IsChain(fat, c, <<>>)
      BY <2>1, <2>2 DEF IsChain
    <2> QED
      BY <1>3, <2>1, <2>3
  <1>5. ASSUME NEW k \in 0..(Limit - 1), k \in S
        PROVE  k + 1 \in S
    <2> DEFINE s == walk[k]
               t == walk[k + 1]
               next == IF s = <<>> THEN c ELSE fat[Last(s)]
    <2>1. k \in 0..Limit /\ k + 1 \in 1..Limit /\ k + 1 \in 0..Limit /\ (k + 1) - 1 = k
      BY LinksAre
    <2>2. t = IF next \in Clusters THEN Append(s, next) ELSE s
      BY <1>3, <2>1 DEF Forward
    <2>3. Part(k)
      BY <1>5
    <2>4. s \in Seq(Clusters) /\ Len(s) \in Nat
      BY <2>3 DEF IsChain
    <2>7. /\ IsChain(fat, c, s) /\ Len(s) <= k /\ (s = <<>> => k = 0 \/ c \notin Clusters)
          /\ s # <<>> => c \in Clusters
          /\ s # <<>> /\ fat[Last(s)] \in Clusters => Len(s) = k
      BY <2>3
    <2>5. CASE next \notin Clusters
      <3>1. t = s
        BY <2>2, <2>5
      <3>2. s # <<>> => fat[Last(s)] \notin Clusters
        BY <2>5
      <3>3. s = <<>> => c \notin Clusters
        BY <2>5
      <3> QED
        BY <2>1, <2>3, <2>4, <3>1, <3>2, <3>3
    <2>6. CASE next \in Clusters
      <3> HIDE DEF s, t, next
      <3>1. t = Append(s, next) /\ t \in Seq(Clusters) /\ Len(t) = Len(s) + 1 /\ t # <<>>
        BY <2>2, <2>4, <2>6
      <3>2. \A i \in 1..Len(s) : t[i] = s[i]
        BY <2>4, <2>6, <3>1
      <3>3. t[Len(s) + 1] = next /\ Last(t) = next
        BY <2>4, <2>6, <3>1 DEF Last
      <3>4. t[1] = c
        <4>1. CASE s = <<>>
          BY <2>4, <3>3, <4>1 DEF next
        <4>2. CASE s # <<>>
          <5>1. 1 \in 1..Len(s)
            BY <2>4, <4>2
          <5> QED
            BY <2>7, <3>2, <4>2, <5>1 DEF IsChain
        <4> QED
          BY <4>1, <4>2
      <3>5. \A i \in 1..(Len(t) - 1) : t[i + 1] = fat[t[i]]
        <4> TAKE i \in 1..(Len(t) - 1)
        <4>1. i \in 1..Len(s)
          BY <3>1, <2>4
        <4>2. CASE i = Len(s)
          BY <2>6, <3>2, <3>3, <4>1, <4>2 DEF Last, next
        <4>3. CASE i # Len(s)
          <5>1. i + 1 \in 1..Len(s) /\ i \in 1..(Len(s) - 1)
            BY <2>4, <4>1, <4>3
          <5> QED
            BY <2>7, <3>2, <4>1, <5>1 DEF IsChain
        <4> QED
          BY <4>2, <4>3
      <3>6. Len(s) = k
        BY <2>6, <2>7 DEF next
      <3>7. c \in Clusters
        BY <2>6, <2>7 DEF next
      <3>8. IsChain(fat, c, t)
        BY <3>1, <3>4, <3>5 DEF IsChain
      <3>9. IsChain(fat, c, walk[k + 1]) /\ Len(walk[k + 1]) = k + 1 /\ walk[k + 1] # <<>>
        BY <2>4, <3>1, <3>6, <3>8 DEF t
      <3> QED
        BY <2>1, <3>7, <3>9
    <2> QED
      BY <2>5, <2>6
  <1>6. Limit \in S
    <2> HIDE DEF S
    <2> QED
      BY <1>4, <1>5, UpTo, LinksAre
  <1>7. Part(Limit) /\ Limit # 0
    BY <1>6, FatAssumption
  <1> QED
    BY <1>1, <1>7

-----------------------------------------------------------------------------
(* A FAT whose links do not meet.                                           *)

\* No two clusters lead to one, and none to a free one.
FatOK(fat) ==
    /\ fat \in [Clusters -> Links]
    /\ \A c, e \in Clusters : fat[c] = fat[e] /\ fat[c] \in Clusters => c = e
    /\ \A c \in Clusters : fat[c] \in Clusters => fat[fat[c]] # Unused

\* A cluster in use that no other leads to.
IsHead(fat, c) == c \in Clusters /\ fat[c] # Unused /\ \A e \in Clusters : fat[e] # c

\* The clusters of a chain.
InChain(fat, c) == Range(ChainOf(fat, c))

LEMMA PartSteps ==
    ASSUME NEW fat, NEW c, NEW s, IsChain(fat, c, s)
    PROVE  \A i \in 1..Len(s) :
             (i = 1 /\ s[i] = c) \/ (i # 1 /\ i - 1 \in 1..Len(s) /\ s[i] = fat[s[i - 1]])
  <1>1. s \in Seq(Clusters) /\ Len(s) \in Nat
    BY DEF IsChain
  <1> TAKE i \in 1..Len(s)
  <1>2. s # <<>> /\ s[1] = c
    BY <1>1 DEF IsChain
  <1>3. CASE i # 1
    <2>1. i - 1 \in 1..(Len(s) - 1) /\ (i - 1) + 1 = i /\ i - 1 \in 1..Len(s)
      BY <1>1, <1>3
    <2>2. s[(i - 1) + 1] = fat[s[i - 1]]
      BY <2>1 DEF IsChain
    <2> QED
      BY <1>3, <2>1, <2>2
  <1>4. i = 1 => s[i] = c
    BY <1>2
  <1> QED
    BY <1>3, <1>4

LEMMA ChainParts ==
    ASSUME NEW fat, FatOK(fat), NEW c, IsHead(fat, c), NEW s, IsChain(fat, c, s)
    PROVE  /\ \A i \in 1..Len(s) : s[i] \in Clusters /\ fat[s[i]] # Unused
           /\ \A i, j \in 1..Len(s) : s[i] = s[j] => i = j
  <1>1. s \in Seq(Clusters) /\ Len(s) \in Nat /\ \A i \in 1..Len(s) : s[i] \in Clusters
    BY DEF IsChain
  <1>2. \A i \in 1..Len(s) : (i = 1 /\ s[i] = c) \/ (i # 1 /\ i - 1 \in 1..Len(s) /\ s[i] = fat[s[i - 1]])
    BY PartSteps
  <1>3. ASSUME NEW i \in 1..Len(s)
        PROVE  fat[s[i]] # Unused
    BY <1>1, <1>2 DEF FatOK, IsHead
  <1> DEFINE S == {k \in Nat : k = 0 \/ \A j \in 1..Len(s) : k <= Len(s) /\ j # k => s[k] # s[j]}
  <1>4. ASSUME NEW k \in 0..(Len(s) - 1), k \in S
        PROVE  k + 1 \in S
    <2>1. k + 1 \in 1..Len(s) /\ (k + 1) - 1 = k /\ k + 1 \in Nat
      BY <1>1
    <2> SUFFICES ASSUME NEW j \in 1..Len(s), j # k + 1, s[k + 1] = s[j]
                 PROVE  FALSE
      BY <2>1
    <2>2. CASE j = 1
      <3>1. s[k + 1] = c /\ k + 1 # 1
        BY <1>2, <2>2
      <3>2. k \in 1..Len(s) /\ s[k + 1] = fat[s[k]]
        BY <1>2, <2>1, <3>1
      <3> QED
        BY <1>1, <3>1, <3>2 DEF IsHead
    <2>3. CASE k = 0
      <3>1. s[1] = c /\ s[j] = s[1] /\ j # 1
        BY <1>2, <2>1, <2>3
      <3>2. j - 1 \in 1..Len(s) /\ s[j] = fat[s[j - 1]]
        BY <1>2, <3>1
      <3>3. s[j - 1] \in Clusters /\ fat[s[j - 1]] = c
        BY <1>1, <3>1, <3>2
      <3> QED
        BY <3>3 DEF IsHead
    <2>4. CASE j # 1 /\ k # 0
      <3>1. j - 1 \in 1..Len(s) /\ k \in 1..Len(s) /\ j - 1 # k
        BY <1>1, <2>4
      <3>2. fat[s[j - 1]] = fat[s[k]] /\ fat[s[k]] \in Clusters
        BY <1>1, <1>2, <2>1, <2>4
      <3>3. s[j - 1] = s[k]
        BY <1>1, <3>1, <3>2 DEF FatOK
      <3> QED
        BY <1>4, <3>1, <3>3
    <2> QED
      BY <2>2, <2>3, <2>4
  <1>5. \A k \in 0..Len(s) : k \in S
    <2>1. 0 \in S
      OBVIOUS
    <2> HIDE DEF S
    <2> QED
      BY <1>1, <1>4, <2>1, UpTo
  <1>6. ASSUME NEW i \in 1..Len(s), NEW j \in 1..Len(s), s[i] = s[j]
        PROVE  i = j
    BY <1>1, <1>5, <1>6
  <1> QED
    BY <1>1, <1>3, <1>6

\* Chains with different heads do not meet.
LEMMA PartsApart ==
    ASSUME NEW fat, FatOK(fat), NEW c, IsHead(fat, c), NEW e, IsHead(fat, e), c # e,
           NEW s, IsChain(fat, c, s), NEW t, IsChain(fat, e, t)
    PROVE  \A i \in 1..Len(s), j \in 1..Len(t) : s[i] # t[j]
  <1>1. /\ s \in Seq(Clusters) /\ Len(s) \in Nat /\ \A i \in 1..Len(s) : s[i] \in Clusters
        /\ t \in Seq(Clusters) /\ Len(t) \in Nat /\ \A i \in 1..Len(t) : t[i] \in Clusters
    BY DEF IsChain
  <1>2. \A i \in 1..Len(s) : (i = 1 /\ s[i] = c) \/ (i # 1 /\ i - 1 \in 1..Len(s) /\ s[i] = fat[s[i - 1]])
    BY PartSteps
  <1>3. \A i \in 1..Len(t) : (i = 1 /\ t[i] = e) \/ (i # 1 /\ i - 1 \in 1..Len(t) /\ t[i] = fat[t[i - 1]])
    BY PartSteps
  <1> DEFINE S == {k \in Nat : k = 0 \/ \A j \in 1..Len(t) : k <= Len(s) => s[k] # t[j]}
  <1>4. ASSUME NEW k \in 0..(Len(s) - 1), k \in S
        PROVE  k + 1 \in S
    <2>1. k + 1 \in 1..Len(s) /\ (k + 1) - 1 = k /\ k + 1 \in Nat
      BY <1>1
    <2> SUFFICES ASSUME NEW j \in 1..Len(t), s[k + 1] = t[j]
                 PROVE  FALSE
      BY <2>1
    <2>2. CASE j = 1
      BY <1>1, <1>2, <1>3, <2>1, <2>2 DEF IsHead
    <2>3. CASE k = 0
      BY <1>1, <1>2, <1>3, <2>1, <2>3 DEF IsHead
    <2>4. CASE j # 1 /\ k # 0
      <3>1. j - 1 \in 1..Len(t) /\ k \in 1..Len(s)
        BY <1>1, <2>4
      <3>2. fat[t[j - 1]] = fat[s[k]] /\ fat[s[k]] \in Clusters
        BY <1>1, <1>2, <1>3, <2>1, <2>4
      <3>3. t[j - 1] = s[k]
        BY <1>1, <3>1, <3>2 DEF FatOK
      <3> QED
        BY <1>4, <3>1, <3>3
    <2> QED
      BY <2>2, <2>3, <2>4
  <1>5. \A k \in 0..Len(s) : k \in S
    <2>1. 0 \in S
      OBVIOUS
    <2> HIDE DEF S
    <2> QED
      BY <1>1, <1>4, <2>1, UpTo
  <1> QED
    BY <1>1, <1>5

\* The chain of a head: each cluster once, none free, and an end.
LEMMA HeadChain ==
    ASSUME NEW fat, FatOK(fat), NEW c, IsHead(fat, c)
    PROVE  LET s == ChainOf(fat, c)
           IN  /\ s \in Seq(Clusters) /\ Len(s) \in Nat /\ Len(s) >= 1 /\ s[1] = c
               /\ IsChain(fat, c, s)
               /\ \A i \in 1..Len(s) : s[i] \in Clusters /\ fat[s[i]] # Unused
               /\ \A i \in 1..(Len(s) - 1) : s[i + 1] = fat[s[i]]
               /\ \A i, j \in 1..Len(s) : s[i] = s[j] => i = j
               /\ fat[s[Len(s)]] = Eoc
               /\ InChain(fat, c) = {s[i] : i \in 1..Len(s)}
  <1> DEFINE s == ChainOf(fat, c)
  <1>1. /\ IsChain(fat, c, s) /\ s # <<>>
        /\ fat[Last(s)] \in Clusters => Len(s) = Limit
    BY ChainIs DEF FatOK, IsHead
  <1> HIDE DEF s
  <1>2. /\ s \in Seq(Clusters) /\ Len(s) \in Nat /\ Len(s) >= 1 /\ s[1] = c
        /\ \A i \in 1..(Len(s) - 1) : s[i + 1] = fat[s[i]]
    BY <1>1 DEF IsChain
  <1>3. /\ \A i \in 1..Len(s) : s[i] \in Clusters /\ fat[s[i]] # Unused
        /\ \A i, j \in 1..Len(s) : s[i] = s[j] => i = j
    BY <1>1, ChainParts
  <1>4. fat[Last(s)] \notin Clusters
    <2> SUFFICES ASSUME Len(s) = Limit PROVE FALSE
      BY <1>1
    <2>1. IsFiniteSet(1..Limit) /\ Cardinality(1..Limit) = Limit
      BY LinksAre, FatAssumption, FS_Interval
    <2>2. IsFiniteSet(Clusters) /\ Cardinality(Clusters) = Limit - 2
      <3>1. 2 \in Int /\ Limit - 1 \in Int /\ ~(2 > Limit - 1) /\ (Limit - 1) - 2 + 1 = Limit - 2
        BY FatAssumption
      <3> QED
        BY <3>1, LinksAre, FS_Interval
    <2>3. Cardinality(Clusters) < Cardinality(1..Limit)
      BY <2>1, <2>2, LinksAre
    <2>4. s \in [1..Limit -> Clusters]
      BY <1>2
    <2>5. PICK x, y \in 1..Limit : x # y /\ s[x] = s[y]
      BY <2>1, <2>2, <2>3, <2>4, FS_PigeonHole
    <2> QED
      BY <1>3, <2>5
  <1>5. fat[s[Len(s)]] = Eoc
    <2>1. Len(s) \in 1..Len(s) /\ Last(s) = s[Len(s)]
      BY <1>2 DEF Last
    <2> QED
      BY <1>3, <1>4, <2>1 DEF FatOK, Links
  <1>6. Range(s) = {s[i] : i \in 1..Len(s)}
    BY <1>2 DEF Range
  <1> QED
    BY <1>1, <1>2, <1>3, <1>5, <1>6 DEF s, InChain

\* There is one way from a head to an end.
LEMMA ChainUnique ==
    ASSUME NEW fat, FatOK(fat), NEW c, IsHead(fat, c),
           NEW t, IsChain(fat, c, t), t # <<>>, fat[t[Len(t)]] \notin Clusters
    PROVE  t = ChainOf(fat, c)
  <1> DEFINE s == ChainOf(fat, c)
  <1>1. /\ s \in Seq(Clusters) /\ Len(s) \in Nat /\ Len(s) >= 1 /\ s[1] = c
        /\ \A i \in 1..(Len(s) - 1) : s[i + 1] = fat[s[i]]
        /\ \A i \in 1..Len(s) : s[i] \in Clusters
        /\ fat[s[Len(s)]] = Eoc
    BY HeadChain
  <1>2. /\ t \in Seq(Clusters) /\ Len(t) \in Nat /\ Len(t) >= 1 /\ t[1] = c
        /\ \A i \in 1..(Len(t) - 1) : t[i + 1] = fat[t[i]]
        /\ \A i \in 1..Len(t) : t[i] \in Clusters
    BY DEF IsChain
  <1> HIDE DEF s
  <1> DEFINE S == {k \in Nat : k + 1 <= Len(s) /\ k + 1 <= Len(t) => s[k + 1] = t[k + 1]}
  <1>3. \A k \in 0..Len(s) : k \in S
    <2>1. 0 \in S
      BY <1>1, <1>2
    <2>2. ASSUME NEW k \in 0..(Len(s) - 1), k \in S
          PROVE  k + 1 \in S
      <3> SUFFICES ASSUME (k + 1) + 1 <= Len(s), (k + 1) + 1 <= Len(t)
                   PROVE  s[(k + 1) + 1] = t[(k + 1) + 1]
        BY <1>1
      <3>1. k + 1 \in 1..(Len(s) - 1) /\ k + 1 \in 1..(Len(t) - 1) /\ s[k + 1] = t[k + 1]
        BY <1>1, <1>2, <2>2
      <3> QED
        BY <1>1, <1>2, <3>1
    <2> HIDE DEF S
    <2> QED
      BY <1>1, <2>1, <2>2, UpTo
  <1>4. ASSUME NEW i \in 1..Len(s), i <= Len(t)
        PROVE  s[i] = t[i]
    <2>1. i - 1 \in 0..Len(s) /\ (i - 1) + 1 = i
      BY <1>1
    <2> QED
      BY <1>1, <1>2, <1>3, <1>4, <2>1
  <1>5. ~(Len(s) < Len(t))
    <2> SUFFICES ASSUME Len(s) < Len(t) PROVE FALSE
      OBVIOUS
    <2>1. Len(s) \in 1..(Len(t) - 1) /\ Len(s) + 1 \in 1..Len(t) /\ Len(s) \in 1..Len(s)
      BY <1>1, <1>2
    <2>2. t[Len(s) + 1] = fat[s[Len(s)]]
      BY <1>1, <1>2, <1>4, <2>1
    <2> QED
      BY <1>1, <1>2, <2>1, <2>2, LinksAre
  <1>6. ~(Len(t) < Len(s))
    <2> SUFFICES ASSUME Len(t) < Len(s) PROVE FALSE
      OBVIOUS
    <2>1. Len(t) \in 1..(Len(s) - 1) /\ Len(t) + 1 \in 1..Len(s) /\ Len(t) \in 1..Len(s)
      BY <1>1, <1>2
    <2>2. s[Len(t) + 1] = fat[t[Len(t)]]
      BY <1>1, <1>2, <1>4, <2>1
    <2> QED
      BY <1>1, <2>1, <2>2
  <1>7. Len(s) = Len(t) /\ \A i \in 1..Len(s) : s[i] = t[i]
    BY <1>1, <1>2, <1>4, <1>5, <1>6
  <1>8. s = t
    BY <1>1, <1>2, <1>7
  <1> QED
    BY <1>8 DEF s

\* What is in a chain.
LEMMA InChainIs ==
    ASSUME NEW fat, FatOK(fat), NEW c, IsHead(fat, c)
    PROVE  /\ c \in InChain(fat, c) /\ InChain(fat, c) \subseteq Clusters
           /\ \A e \in InChain(fat, c) : fat[e] # Unused
           /\ \A e \in InChain(fat, c) : e # c => \E p \in InChain(fat, c) : fat[p] = e
           /\ \A e \in InChain(fat, c) : fat[e] \in Clusters => fat[e] \in InChain(fat, c)
  <1> DEFINE s == ChainOf(fat, c)
  <1>1. /\ s \in Seq(Clusters) /\ Len(s) \in Nat /\ Len(s) >= 1 /\ s[1] = c
        /\ IsChain(fat, c, s)
        /\ \A i \in 1..Len(s) : s[i] \in Clusters /\ fat[s[i]] # Unused
        /\ \A i \in 1..(Len(s) - 1) : s[i + 1] = fat[s[i]]
        /\ fat[s[Len(s)]] = Eoc
        /\ InChain(fat, c) = {s[i] : i \in 1..Len(s)}
    BY HeadChain
  <1> HIDE DEF s
  <1>2. 1 \in 1..Len(s)
    BY <1>1
  <1>3. c \in InChain(fat, c) /\ InChain(fat, c) \subseteq Clusters
    BY <1>1, <1>2
  <1>4. ASSUME NEW e \in InChain(fat, c)
        PROVE  /\ fat[e] # Unused
               /\ e # c => \E p \in InChain(fat, c) : fat[p] = e
               /\ fat[e] \in Clusters => fat[e] \in InChain(fat, c)
    <2>1. PICK i \in 1..Len(s) : e = s[i]
      BY <1>1
    <2>2. e # c => i - 1 \in 1..Len(s) /\ fat[s[i - 1]] = e
      BY <1>1, <2>1, PartSteps
    <2>3. fat[e] \in Clusters => i + 1 \in 1..Len(s) /\ s[i + 1] = fat[e]
      <3>1. fat[e] \in Clusters => i # Len(s)
        BY <1>1, <2>1, LinksAre
      <3>2. i # Len(s) => i \in 1..(Len(s) - 1) /\ i + 1 \in 1..Len(s)
        BY <1>1
      <3> QED
        BY <1>1, <2>1, <3>1, <3>2
    <2> QED
      BY <1>1, <2>1, <2>2, <2>3
  <1> QED
    BY <1>3, <1>4

LEMMA ChainsApart ==
    ASSUME NEW fat, FatOK(fat), NEW c, IsHead(fat, c), NEW e, IsHead(fat, e), c # e
    PROVE  InChain(fat, c) \cap InChain(fat, e) = {}
  <1> DEFINE s == ChainOf(fat, c)
             t == ChainOf(fat, e)
  <1>1. IsChain(fat, c, s) /\ InChain(fat, c) = {s[i] : i \in 1..Len(s)}
    BY HeadChain
  <1>2. IsChain(fat, e, t) /\ InChain(fat, e) = {t[i] : i \in 1..Len(t)}
    BY HeadChain
  <1> HIDE DEF s, t
  <1>3. \A i \in 1..Len(s), j \in 1..Len(t) : s[i] # t[j]
    BY <1>1, <1>2, PartsApart
  <1> QED
    BY <1>1, <1>2, <1>3

\* A chain stays as long as nothing in it changes.
LEMMA ChainSame ==
    ASSUME NEW fat, FatOK(fat), NEW c, IsHead(fat, c),
           NEW new, FatOK(new), IsHead(new, c), \A e \in InChain(fat, c) : new[e] = fat[e]
    PROVE  ChainOf(new, c) = ChainOf(fat, c) /\ InChain(new, c) = InChain(fat, c)
  <1> DEFINE s == ChainOf(fat, c)
  <1>1. /\ s \in Seq(Clusters) /\ Len(s) \in Nat /\ Len(s) >= 1 /\ s[1] = c
        /\ \A i \in 1..(Len(s) - 1) : s[i + 1] = fat[s[i]]
        /\ fat[s[Len(s)]] = Eoc
        /\ InChain(fat, c) = {s[i] : i \in 1..Len(s)}
    BY HeadChain
  <1> HIDE DEF s
  <1>2. \A i \in 1..Len(s) : new[s[i]] = fat[s[i]]
    BY <1>1
  <1>3. \A i \in 1..(Len(s) - 1) : i \in 1..Len(s)
    BY <1>1
  <1>4. IsChain(new, c, s)
    BY <1>1, <1>2, <1>3 DEF IsChain
  <1>5. s # <<>> /\ Len(s) \in 1..Len(s)
    BY <1>1
  <1>6. new[s[Len(s)]] \notin Clusters
    BY <1>1, <1>2, <1>5, LinksAre
  <1>7. s = ChainOf(new, c)
    BY <1>4, <1>5, <1>6, ChainUnique
  <1> QED
    BY <1>7 DEF s, InChain

\* A chain with a link more at its end.
LEMMA ChainGrown ==
    ASSUME NEW fat, FatOK(fat), NEW c, IsHead(fat, c),
           NEW new, FatOK(new), IsHead(new, c),
           NEW n \in Clusters, n \notin InChain(fat, c), new[n] = Eoc,
           NEW t, t = Last(ChainOf(fat, c)), new[t] = n,
           \A e \in InChain(fat, c) : e # t => new[e] = fat[e]
    PROVE  /\ ChainOf(new, c) = Append(ChainOf(fat, c), n)
           /\ InChain(new, c) = InChain(fat, c) \cup {n}
           /\ t \in InChain(fat, c)
  <1> DEFINE s == ChainOf(fat, c)
             u == Append(s, n)
  <1>1. /\ s \in Seq(Clusters) /\ Len(s) \in Nat /\ Len(s) >= 1 /\ s[1] = c
        /\ \A i \in 1..(Len(s) - 1) : s[i + 1] = fat[s[i]]
        /\ \A i, j \in 1..Len(s) : s[i] = s[j] => i = j
        /\ fat[s[Len(s)]] = Eoc
        /\ InChain(fat, c) = {s[i] : i \in 1..Len(s)}
    BY HeadChain
  <1>2. t = s[Len(s)]
    BY DEF Last
  <1> HIDE DEF s
  <1>3. /\ u \in Seq(Clusters) /\ Len(u) = Len(s) + 1 /\ u[Len(s) + 1] = n
        /\ \A i \in 1..Len(s) : u[i] = s[i]
    BY <1>1
  <1> HIDE DEF u
  <1>4. \A i \in 1..(Len(u) - 1) : u[i + 1] = new[u[i]]
    <2> TAKE i \in 1..(Len(u) - 1)
    <2>1. i \in 1..Len(s) /\ u[i] = s[i]
      BY <1>1, <1>3
    <2>2. CASE i = Len(s)
      BY <1>2, <1>3, <2>1, <2>2
    <2>3. CASE i # Len(s)
      <3>1. i \in 1..(Len(s) - 1) /\ i + 1 \in 1..Len(s) /\ Len(s) \in 1..Len(s)
        BY <1>1, <2>1, <2>3
      <3>2. s[i] # t /\ s[i] \in InChain(fat, c)
        BY <1>1, <1>2, <2>1, <2>3, <3>1
      <3> QED
        BY <1>1, <1>3, <2>1, <3>1, <3>2
    <2> QED
      BY <2>2, <2>3
  <1>5. 1 \in 1..Len(s) /\ Len(u) \in 1..Len(u) /\ u # <<>>
    BY <1>1, <1>3
  <1>6. IsChain(new, c, u)
    BY <1>1, <1>3, <1>4, <1>5 DEF IsChain
  <1>7. u = ChainOf(new, c)
    <2>1. new[u[Len(u)]] \notin Clusters
      BY <1>3, LinksAre
    <2> QED
      BY <1>5, <1>6, <2>1, ChainUnique
  <1>8. Range(u) = {s[i] : i \in 1..Len(s)} \cup {n}
    <2>1. DOMAIN u = 1..(Len(s) + 1)
      BY <1>1, <1>3
    <2>2. \A i \in 1..(Len(s) + 1) : i = Len(s) + 1 \/ i \in 1..Len(s)
      BY <1>1
    <2>3. Range(u) = {u[i] : i \in 1..(Len(s) + 1)}
      BY <2>1 DEF Range
    <2>4. Len(s) + 1 \in 1..(Len(s) + 1) /\ \A i \in 1..Len(s) : i \in 1..(Len(s) + 1)
      BY <1>1
    <2> QED
      BY <1>3, <2>2, <2>3, <2>4
  <1>9. t \in InChain(fat, c)
    BY <1>1, <1>2
  <1> QED
    BY <1>1, <1>7, <1>8, <1>9 DEF InChain, s, u

-----------------------------------------------------------------------------
(* What the driver does to a FAT.                                           *)

LEMMA MarkedFat ==
    ASSUME NEW fat, FatOK(fat), NEW c \in Clusters, fat[c] = Unused
    PROVE  LET new == [fat EXCEPT ![c] = Eoc]
           IN  /\ FatOK(new) /\ IsHead(new, c) /\ new[c] = Eoc
               /\ \A e \in Clusters : e # c => new[e] = fat[e]
               /\ \A h : IsHead(fat, h) => h # c /\ IsHead(new, h)
  <1> DEFINE new == [fat EXCEPT ![c] = Eoc]
  <1>1. new \in [Clusters -> Links] /\ new[c] = Eoc /\ \A e \in Clusters : e # c => new[e] = fat[e]
    BY DEF FatOK, Links
  <1> HIDE DEF new
  <1>2. \A e \in Clusters : fat[e] # c
    BY DEF FatOK
  <1>3. FatOK(new)
    BY <1>1, LinksAre DEF FatOK
  <1>4. IsHead(new, c) /\ \A h : IsHead(fat, h) => h # c /\ IsHead(new, h)
    BY <1>1, <1>2, LinksAre DEF IsHead
  <1> QED
    BY <1>1, <1>3, <1>4 DEF new

LEMMA LinkedFat ==
    ASSUME NEW fat, FatOK(fat), NEW t \in Clusters, NEW n, IsHead(fat, n)
    PROVE  LET new == [fat EXCEPT ![t] = n]
           IN  /\ FatOK(new) /\ new[t] = n
               /\ \A e \in Clusters : e # t => new[e] = fat[e]
               /\ \A h : IsHead(fat, h) /\ h # n => IsHead(new, h)
  <1> DEFINE new == [fat EXCEPT ![t] = n]
  <1>1. new \in [Clusters -> Links] /\ new[t] = n /\ \A e \in Clusters : e # t => new[e] = fat[e]
    BY DEF FatOK, Links, IsHead
  <1> HIDE DEF new
  <1>2. n \in Clusters /\ fat[n] # Unused /\ \A e \in Clusters : fat[e] # n
    BY DEF IsHead
  <1>3. FatOK(new)
    BY <1>1, <1>2, LinksAre DEF FatOK
  <1>4. \A h : IsHead(fat, h) /\ h # n => IsHead(new, h)
    BY <1>1, <1>2, LinksAre DEF IsHead
  <1> QED
    BY <1>1, <1>3, <1>4 DEF new

LEMMA ClearedFat ==
    ASSUME NEW fat, FatOK(fat), NEW c, IsHead(fat, c)
    PROVE  LET new == [fat EXCEPT ![c] = Unused]
           IN  /\ FatOK(new) /\ new[c] = Unused
               /\ \A e \in Clusters : e # c => new[e] = fat[e]
               /\ \A h : IsHead(fat, h) /\ h # c => IsHead(new, h)
               /\ fat[c] \in Clusters => IsHead(new, fat[c])
  <1> DEFINE new == [fat EXCEPT ![c] = Unused]
  <1>1. new \in [Clusters -> Links] /\ new[c] = Unused /\ \A e \in Clusters : e # c => new[e] = fat[e]
    BY DEF FatOK, Links, IsHead
  <1> HIDE DEF new
  <1>2. c \in Clusters /\ \A e \in Clusters : fat[e] # c
    BY DEF IsHead
  <1>3. FatOK(new)
    BY <1>1, <1>2, LinksAre DEF FatOK
  <1>4. \A h : IsHead(fat, h) /\ h # c => IsHead(new, h)
    BY <1>1, <1>2, LinksAre DEF IsHead
  <1>5. fat[c] \in Clusters => IsHead(new, fat[c])
    BY <1>1, <1>2, LinksAre DEF FatOK, IsHead
  <1> QED
    BY <1>1, <1>3, <1>4, <1>5 DEF new

-----------------------------------------------------------------------------
(* Slots of a directory.                                                    *)

\* What a cluster holds, what a volume is, and where slots are.
Sectors == Values \cup [1..PerCluster -> Slots]
Disks   == [fat : [Clusters -> Links], sec : [Clusters -> Sectors]]
Places  == Clusters \X (1..PerCluster)

\* The numbers of a directory's slots, and the slot of a number.
Numbers(v, dir)   == 1..(PerCluster * Len(ChainOf(v.fat, dir)))
HowMany(v, dir)   == PerCluster * Len(ChainOf(v.fat, dir))
SlotIn(v, dir, i) == SlotAt(v, Place(v, dir, i))

InDir(v, dir) == InChain(v.fat, dir)

LEMMA DivMod ==
    ASSUME NEW w \in Nat \ {0}, NEW x \in Int
    PROVE  x \div w \in Int /\ x % w \in 0..(w - 1) /\ x = w * (x \div w) + (x % w)
  OBVIOUS

LEMMA MulLess ==
    ASSUME NEW w \in Nat \ {0}, NEW a \in Int, NEW b \in Int, a < b
    PROVE  w * a \in Int /\ w * b \in Int /\ w * a + w <= w * b
  <1>1. (b - a - 1) * w >= 0 /\ (b - a - 1) * w = w * b - w * a - w
    OBVIOUS
  <1> QED
    BY <1>1

\* A quotient and a remainder are the only ones.
LEMMA QuotientUnique ==
    ASSUME NEW w \in Nat \ {0}, NEW q \in Int, NEW r \in 0..(w - 1)
    PROVE  (w * q + r) \div w = q /\ (w * q + r) % w = r
  <1> DEFINE x == w * q + r
             d == x \div w
             m == x % w
  <1>1. x \in Int /\ w * q \in Int
    OBVIOUS
  <1>2. d \in Int /\ m \in 0..(w - 1) /\ x = w * d + m
    BY <1>1, DivMod
  <1>3. w * d \in Int /\ w * d + m = w * q + r
    BY <1>2
  <1> HIDE DEF d, m
  <1>4. ~(d < q)
    BY <1>1, <1>2, <1>3, MulLess
  <1>5. ~(q < d)
    BY <1>1, <1>2, <1>3, MulLess
  <1>6. d = q
    BY <1>2, <1>4, <1>5
  <1> QED
    BY <1>1, <1>2, <1>3, <1>6 DEF d, m

\* Slots and their numbers.
LEMMA PlaceIs ==
    ASSUME NEW v, NEW dir, FatOK(v.fat), IsHead(v.fat, dir)
    PROVE  /\ Numbers(v, dir) \subseteq Nat \ {0}
           /\ \A i \in Numbers(v, dir) :
                Place(v, dir, i) \in InDir(v, dir) \X (1..PerCluster)
           /\ \A c \in InDir(v, dir), k \in 1..PerCluster :
                \E i \in Numbers(v, dir) : Place(v, dir, i) = <<c, k>>
           /\ \A i, j \in Numbers(v, dir) : Place(v, dir, i) = Place(v, dir, j) => i = j
           /\ InDir(v, dir) \subseteq Clusters
  <1> DEFINE s == ChainOf(v.fat, dir)
             n == Len(s)
             P == PerCluster
  <1>1. /\ s \in Seq(Clusters) /\ n \in Nat /\ n >= 1
        /\ \A i, j \in 1..n : s[i] = s[j] => i = j
        /\ InDir(v, dir) = {s[i] : i \in 1..n}
        /\ \A i \in 1..n : s[i] \in Clusters
    BY HeadChain DEF InDir
  <1>2. P \in Nat \ {0} /\ P * n \in Nat
    <2>1. P \in Nat \ {0}
      BY FatAssumption
    <2> QED
      BY <1>1, <2>1
  <1>3. Numbers(v, dir) = 1..(P * n)
    BY DEF Numbers
  <1>4. \A i : Place(v, dir, i) = <<s[((i - 1) \div P) + 1], ((i - 1) % P) + 1>>
    BY DEF Place, PlaceIn
  <1> HIDE DEF s, n, P
  <1>5. ASSUME NEW i \in 1..(P * n)
        PROVE  /\ ((i - 1) \div P) + 1 \in 1..n /\ ((i - 1) % P) + 1 \in 1..P
               /\ i - 1 = P * ((i - 1) \div P) + ((i - 1) % P)
    <2> DEFINE q == (i - 1) \div P
               r == (i - 1) % P
    <2>1. i - 1 \in Int /\ 0 <= i - 1 /\ i - 1 < P * n
      BY <1>2
    <2>2. q \in Int /\ r \in 0..(P - 1) /\ i - 1 = P * q + r
      BY <1>2, <2>1, DivMod
    <2>3. P * q \in Int
      BY <1>2, <2>2
    <2> HIDE DEF q, r
    <2>4. q < n
      <3> SUFFICES ASSUME ~(q < n) PROVE FALSE
        OBVIOUS
      <3>1. q = n \/ n < q
        BY <1>1, <2>2
      <3>2. P * n <= P * q
        BY <1>1, <1>2, <2>2, <2>3, <3>1, MulLess
      <3> QED
        BY <1>2, <2>1, <2>2, <2>3, <3>2
    <2>5. 0 <= q
      <3> SUFFICES ASSUME q < 0 PROVE FALSE
        BY <2>2
      <3>1. P * q + P <= P * 0
        BY <1>2, <2>2, MulLess
      <3> QED
        BY <1>2, <2>1, <2>2, <2>3, <3>1
    <2>6. q + 1 \in 1..n /\ r + 1 \in 1..P
      BY <1>1, <1>2, <2>2, <2>4, <2>5
    <2> QED
      BY <2>2, <2>6 DEF q, r
  <1>6. ASSUME NEW i \in Numbers(v, dir)
        PROVE  Place(v, dir, i) \in InDir(v, dir) \X (1..PerCluster)
    BY <1>1, <1>3, <1>4, <1>5 DEF P
  <1>7. ASSUME NEW c \in InDir(v, dir), NEW k \in 1..PerCluster
        PROVE  \E i \in Numbers(v, dir) : Place(v, dir, i) = <<c, k>>
    <2>1. PICK j \in 1..n : c = s[j]
      BY <1>1
    <2> DEFINE q == j - 1
               r == k - 1
               i == (P * q + r) + 1
    <2>2. q \in Int /\ r \in 0..(P - 1) /\ q < n /\ 0 <= q /\ j = q + 1 /\ k = r + 1
      BY <1>1, <1>2 DEF P
    <2> HIDE DEF q, r
    <2>3. P * q \in Int /\ P * q + P <= P * n /\ 0 <= P * q
      <3>1. P * q \in Int /\ P * q + P <= P * n
        BY <1>1, <1>2, <2>2, MulLess
      <3>2. 0 <= P * q
        BY <1>2, <2>2
      <3> QED
        BY <3>1, <3>2
    <2>4. i \in 1..(P * n) /\ i - 1 = P * q + r
      BY <1>2, <2>2, <2>3
    <2>5. (i - 1) \div P = q /\ (i - 1) % P = r
      BY <1>2, <2>2, <2>4, QuotientUnique
    <2> HIDE DEF i
    <2>6. Place(v, dir, i) = <<c, k>>
      BY <1>4, <2>1, <2>2, <2>5
    <2> QED
      BY <1>3, <2>4, <2>6
  <1>8. ASSUME NEW i \in Numbers(v, dir), NEW j \in Numbers(v, dir),
               Place(v, dir, i) = Place(v, dir, j)
        PROVE  i = j
    <2> DEFINE qi == (i - 1) \div P
               qj == (j - 1) \div P
               ri == (i - 1) % P
               rj == (j - 1) % P
    <2>1. qi + 1 \in 1..n /\ ri + 1 \in 1..P /\ i - 1 = P * qi + ri
      BY <1>3, <1>5
    <2>2. qj + 1 \in 1..n /\ rj + 1 \in 1..P /\ j - 1 = P * qj + rj
      BY <1>3, <1>5
    <2>3. i \in Int /\ j \in Int /\ qi \in Int /\ qj \in Int /\ ri \in Int /\ rj \in Int
      <3>1. i \in Int /\ j \in Int
        BY <1>2, <1>3
      <3> QED
        BY <1>2, <3>1, DivMod
    <2>4. s[qi + 1] = s[qj + 1] /\ ri + 1 = rj + 1
      BY <1>4, <1>8
    <2> HIDE DEF qi, qj, ri, rj
    <2>5. qi = qj /\ ri = rj
      BY <1>1, <2>1, <2>2, <2>3, <2>4
    <2> QED
      BY <2>1, <2>2, <2>3, <2>5
  <1>9. Numbers(v, dir) \subseteq Nat \ {0}
    BY <1>2, <1>3
  <1> QED
    BY <1>1, <1>6, <1>7, <1>8, <1>9

\* A directory with a cluster more has the slots of that cluster behind the others.
LEMMA PlaceGrown ==
    ASSUME NEW v, NEW dir, FatOK(v.fat), IsHead(v.fat, dir), NEW u, NEW c \in Clusters,
           ChainOf(u.fat, dir) = Append(ChainOf(v.fat, dir), c)
    PROVE  /\ Numbers(v, dir) \subseteq Numbers(u, dir)
           /\ \A i \in Numbers(v, dir) : Place(u, dir, i) = Place(v, dir, i)
           /\ \A i \in Numbers(u, dir) : i \notin Numbers(v, dir) =>
                /\ \A j \in Numbers(v, dir) : j < i
                /\ \E k \in 1..PerCluster : Place(u, dir, i) = <<c, k>>
           /\ \A k \in 1..PerCluster :
                /\ HowMany(v, dir) + k \in Numbers(u, dir) \ Numbers(v, dir)
                /\ Place(u, dir, HowMany(v, dir) + k) = <<c, k>>
  <1> DEFINE s == ChainOf(v.fat, dir)
             n == Len(s)
             P == PerCluster
  <1>1. s \in Seq(Clusters) /\ n \in Nat /\ n >= 1
    BY HeadChain DEF InDir
  <1>2. P \in Nat \ {0} /\ P * n \in Nat
    <2>1. P \in Nat \ {0}
      BY FatAssumption
    <2> QED
      BY <1>1, <2>1
  <1>3. Numbers(v, dir) = 1..(P * n)
    BY DEF Numbers
  <1>4. Numbers(u, dir) = 1..(P * (n + 1))
    BY <1>1 DEF Numbers
  <1>5. /\ \A i : Place(v, dir, i) = <<s[((i - 1) \div P) + 1], ((i - 1) % P) + 1>>
        /\ \A i : Place(u, dir, i) = <<Append(s, c)[((i - 1) \div P) + 1], ((i - 1) % P) + 1>>
    BY DEF Place, PlaceIn
  <1>6. Append(s, c)[n + 1] = c /\ \A i \in 1..n : Append(s, c)[i] = s[i]
    BY <1>1
  <1> HIDE DEF s, n, P
  <1>7. P * (n + 1) = P * n + P
    BY <1>1, <1>2
  <1>8. ASSUME NEW i \in 1..(P * n)
        PROVE  ((i - 1) \div P) + 1 \in 1..n
    <2> DEFINE q == (i - 1) \div P
               r == (i - 1) % P
    <2>1. i - 1 \in Int /\ 0 <= i - 1 /\ i - 1 < P * n
      BY <1>2
    <2>2. q \in Int /\ r \in 0..(P - 1) /\ i - 1 = P * q + r
      BY <1>2, <2>1, DivMod
    <2>3. P * q \in Int
      BY <1>2, <2>2
    <2> HIDE DEF q, r
    <2>4. q < n
      <3> SUFFICES ASSUME ~(q < n) PROVE FALSE
        OBVIOUS
      <3>1. q = n \/ n < q
        BY <1>1, <2>2
      <3>2. P * n <= P * q
        BY <1>1, <1>2, <2>2, <2>3, <3>1, MulLess
      <3> QED
        BY <1>2, <2>1, <2>2, <2>3, <3>2
    <2>5. 0 <= q
      <3> SUFFICES ASSUME q < 0 PROVE FALSE
        BY <2>2
      <3>1. P * q + P <= P * 0
        BY <1>2, <2>2, MulLess
      <3> QED
        BY <1>2, <2>1, <2>2, <2>3, <3>1
    <2> QED
      BY <1>1, <2>2, <2>4, <2>5 DEF q
  <1>9. Numbers(v, dir) \subseteq Numbers(u, dir)
    BY <1>2, <1>3, <1>4, <1>7
  <1>10. ASSUME NEW i \in Numbers(v, dir)
         PROVE  Place(u, dir, i) = Place(v, dir, i)
    BY <1>3, <1>5, <1>6, <1>8
  <1>11. ASSUME NEW k \in 1..PerCluster
         PROVE  /\ P * n + k \in Numbers(u, dir) \ Numbers(v, dir)
                /\ Place(u, dir, P * n + k) = <<c, k>>
    <2> DEFINE i == P * n + k
               r == k - 1
    <2>1. r \in 0..(P - 1) /\ k = r + 1 /\ n \in Int
      BY <1>1, <1>2 DEF P
    <2>2. i \in Numbers(u, dir) \ Numbers(v, dir) /\ i - 1 = P * n + r
      BY <1>2, <1>3, <1>4, <1>7, <2>1
    <2> HIDE DEF r
    <2>3. (P * n + r) \div P = n /\ (P * n + r) % P = r
      BY <1>2, <2>1, QuotientUnique
    <2> HIDE DEF i
    <2>4. Place(u, dir, i) = <<Append(s, c)[n + 1], r + 1>>
      BY <1>5, <2>2, <2>3
    <2>5. i \in Numbers(u, dir) \ Numbers(v, dir) /\ Place(u, dir, i) = <<c, k>>
      BY <1>6, <2>1, <2>2, <2>4
    <2> QED
      BY <2>5 DEF i
  <1>12. ASSUME NEW i \in Numbers(u, dir), i \notin Numbers(v, dir)
         PROVE  /\ \A j \in Numbers(v, dir) : j < i
                /\ \E k \in 1..PerCluster : Place(u, dir, i) = <<c, k>>
    <2> DEFINE k == i - P * n
    <2>1. k \in 1..P /\ i = P * n + k /\ \A j \in Numbers(v, dir) : j < i
      BY <1>2, <1>3, <1>4, <1>7, <1>12
    <2> HIDE DEF k
    <2>2. k \in 1..PerCluster
      BY <2>1 DEF P
    <2> QED
      BY <1>11, <2>1, <2>2
  <1> QED
    BY <1>9, <1>10, <1>11, <1>12 DEF s, n, P, HowMany

-----------------------------------------------------------------------------
(* Sound volumes.                                                           *)

\* The places of a directory's slots.
SlotsIn(v, dir) == InDir(v, dir) \X (1..PerCluster)

\* The directories of a volume, its files' and directories' entries, and the
\* first clusters of both.
DirsOf(v) ==
    {RootDir} \cup
    {SlotAt(v, p).first : p \in {q \in SlotsIn(v, RootDir) : SlotAt(v, q).kind = "dir"}}

EntriesOf(v) ==
    {p \in Places : Entry(SlotAt(v, p)) /\ \E dir \in DirsOf(v) : p \in SlotsIn(v, dir)}

Heads(v) == {RootDir} \cup {SlotAt(v, p).first : p \in EntriesOf(v)}

\* Every file and directory has a chain of its own.
SoundVol(v) ==
    /\ FatOK(v.fat) /\ IsHead(v.fat, RootDir)
    /\ \A p \in EntriesOf(v) :
         /\ IsHead(v.fat, SlotAt(v, p).first) /\ SlotAt(v, p).first # RootDir
         /\ SlotAt(v, p).kind = "file" \/ SlotAt(v, p).size = 0
    /\ \A p, q \in EntriesOf(v) : SlotAt(v, p).first = SlotAt(v, q).first => p = q
    /\ \A dir \in DirsOf(v) : \A c \in InDir(v, dir) : v.sec[c] \in [1..PerCluster -> Slots]

\* Sizes are covered, but for one cluster of the files in t.
SizesOK(t, v) ==
    \A p \in EntriesOf(v) :
        LET s == SlotAt(v, p)
            n == Len(ChainOf(v.fat, s.first))
        IN  s.size <= n \/ (s.first \in t /\ s.size = n + 1)

\* File f is on the volume as w says.
FileOK(file, f, v) ==
    LET s     == SlotAt(v, file.at)
        chain == ChainOf(v.fat, f)
    IN  /\ file.dir \in DirsOf(v) /\ file.at \in SlotsIn(v, file.dir)
        /\ Entry(s) /\ s.name = file.name /\ s.first = f /\ s.size = Len(file.data)
        /\ Len(file.data) <= Len(chain)
        /\ \A i \in 1..Len(file.data) : v.sec[chain[i]] = file.data[i]
        /\ s.kind = "file" =>
             \A i \in 1..Len(chain) : i > Len(file.data) => v.sec[chain[i]] = Blank

\* Each of the files w is on the volume.
WantedOK(w, v) == \A f \in DOMAIN w : FileOK(w[f], f, v)

\* An entry with a short name comes before any end slot, and its name once.
ShortOK(v) ==
    \A dir \in DirsOf(v) : \A i \in Numbers(v, dir) :
        LET s == SlotIn(v, dir, i)
        IN  Entry(s) /\ s.name \notin LongNames =>
              /\ \A j \in Numbers(v, dir) : j <= i => SlotIn(v, dir, j).kind # "end"
              /\ \A j \in Numbers(v, dir) :
                   Entry(SlotIn(v, dir, j)) /\ SlotIn(v, dir, j).name = s.name => j = i

\* A volume with the files w, where those of t may lack a cluster.
Good(w, t, v) == SoundVol(v) /\ SizesOK(t, v) /\ WantedOK(w, v) /\ ShortOK(v)

\* Every cluster in use is part of a file or directory, or in X.
Tight(v, X) ==
    \A c \in Clusters : v.fat[c] # Unused => c \in X \/ \E h \in Heads(v) : c \in InDir(v, h)

\* A cluster in use that is no file's or directory's.
Loose(v, c) == IsHead(v.fat, c) /\ c \notin Heads(v)
\* A cluster as fat32_allocate_cluster returns it.
Fresh(v, c) == Loose(v, c) /\ v.fat[c] = Eoc /\ v.sec[c] = Blank

\* u is good wherever v is.
Keeps(v, u) == \A w, t : Good(w, t, v) => Good(w, t, u)

LEMMA DirsAre ==
    ASSUME NEW v, NEW dir
    PROVE  dir \in DirsOf(v) <=>
             \/ dir = RootDir
             \/ \E p \in SlotsIn(v, RootDir) : SlotAt(v, p).kind = "dir" /\ SlotAt(v, p).first = dir
  BY DEF DirsOf

LEMMA HeadsAre ==
    ASSUME NEW v, NEW h
    PROVE  h \in Heads(v) <=> (h = RootDir \/ \E p \in EntriesOf(v) : SlotAt(v, p).first = h)
  BY DEF Heads

\* The directories, the files and what belongs to them.
LEMMA SoundIs ==
    ASSUME NEW v, SoundVol(v)
    PROVE  /\ FatOK(v.fat)
           /\ DirsOf(v) \subseteq Heads(v)
           /\ \A h \in Heads(v) : IsHead(v.fat, h) /\ InDir(v, h) \subseteq Clusters
           /\ \A h, k \in Heads(v) : h # k => InDir(v, h) \cap InDir(v, k) = {}
           /\ \A p : p \in EntriesOf(v) <=>
                Entry(SlotAt(v, p)) /\ \E dir \in DirsOf(v) : p \in SlotsIn(v, dir)
           /\ \A p \in EntriesOf(v) : SlotAt(v, p).kind = "file" => SlotAt(v, p).first \notin DirsOf(v)
           /\ \A dir \in DirsOf(v) : \A p \in SlotsIn(v, dir) :
                p \in Places /\ SlotAt(v, p) \in Slots /\ v.sec[p[1]] \in [1..PerCluster -> Slots]
  <1>1. FatOK(v.fat) /\ IsHead(v.fat, RootDir)
    BY DEF SoundVol
  <1>2. \A h \in Heads(v) : IsHead(v.fat, h)
    BY <1>1, HeadsAre DEF SoundVol
  <1>3. \A h \in Heads(v) : InDir(v, h) \subseteq Clusters
    BY <1>1, <1>2, InChainIs DEF InDir
  <1>4. \A h, k \in Heads(v) : h # k => InDir(v, h) \cap InDir(v, k) = {}
    BY <1>1, <1>2, ChainsApart DEF InDir
  <1>5. \A p \in SlotsIn(v, RootDir) : p \in Places
    BY <1>3, HeadsAre DEF SlotsIn, Places
  <1>6. RootDir \in DirsOf(v)
    BY DirsAre
  <1>7. \A p \in SlotsIn(v, RootDir) : SlotAt(v, p).kind = "dir" => p \in EntriesOf(v)
    BY <1>5, <1>6 DEF EntriesOf, Entry
  <1>8. DirsOf(v) \subseteq Heads(v)
    BY <1>7, DirsAre, HeadsAre
  <1>9. \A dir \in DirsOf(v) : \A p \in SlotsIn(v, dir) : p \in Places
    BY <1>3, <1>8 DEF SlotsIn, Places
  <1>10. \A p : p \in EntriesOf(v) <=>
                Entry(SlotAt(v, p)) /\ \E dir \in DirsOf(v) : p \in SlotsIn(v, dir)
    BY <1>9 DEF EntriesOf
  <1>11. \A p \in EntriesOf(v) : SlotAt(v, p).kind = "file" => SlotAt(v, p).first \notin DirsOf(v)
    <2> SUFFICES ASSUME NEW p \in EntriesOf(v), SlotAt(v, p).kind = "file",
                        SlotAt(v, p).first \in DirsOf(v)
                 PROVE  FALSE
      OBVIOUS
    <2>1. SlotAt(v, p).first # RootDir
      BY DEF SoundVol
    <2>2. PICK q \in SlotsIn(v, RootDir) :
            SlotAt(v, q).kind = "dir" /\ SlotAt(v, q).first = SlotAt(v, p).first
      BY <2>1, DirsAre
    <2>3. q = p
      BY <1>7, <2>2 DEF SoundVol
    <2> QED
      BY <2>2, <2>3
  <1>12. \A dir \in DirsOf(v) : \A p \in SlotsIn(v, dir) :
            v.sec[p[1]] \in [1..PerCluster -> Slots] /\ p[2] \in 1..PerCluster
    BY DEF SoundVol, SlotsIn
  <1>13. \A dir \in DirsOf(v) : \A p \in SlotsIn(v, dir) : SlotAt(v, p) \in Slots
    BY <1>12 DEF SlotAt
  <1> QED
    BY <1>1, <1>2, <1>3, <1>4, <1>8, <1>9, <1>10, <1>11, <1>12, <1>13

\* Slots have numbers.
LEMMA SlotNumbers ==
    ASSUME NEW v, SoundVol(v), NEW dir \in DirsOf(v)
    PROVE  /\ Numbers(v, dir) \subseteq Nat \ {0}
           /\ \A i \in Numbers(v, dir) :
                Place(v, dir, i) \in SlotsIn(v, dir) /\ SlotIn(v, dir, i) = SlotAt(v, Place(v, dir, i))
           /\ \A p \in SlotsIn(v, dir) : \E i \in Numbers(v, dir) : Place(v, dir, i) = p
           /\ \A i, j \in Numbers(v, dir) : Place(v, dir, i) = Place(v, dir, j) => i = j
           /\ \A i \in Numbers(v, dir), j \in Nat : j # 0 /\ j <= i => j \in Numbers(v, dir)
  <1>1. FatOK(v.fat) /\ IsHead(v.fat, dir)
    BY SoundIs
  <1>2. \A i \in Numbers(v, dir), j \in Nat : j # 0 /\ j <= i => j \in Numbers(v, dir)
    <2> DEFINE n == Len(ChainOf(v.fat, dir))
               m == PerCluster * n
    <2>1. n \in Nat /\ PerCluster \in Nat
      BY <1>1, HeadChain, FatAssumption
    <2>2. m \in Nat
      <3> HIDE DEF n
      <3> QED
        BY <2>1
    <2>3. Numbers(v, dir) = 1..m
      BY DEF Numbers
    <2> HIDE DEF m
    <2> QED
      BY <2>2, <2>3
  <1>3. \A p \in SlotsIn(v, dir) : \E i \in Numbers(v, dir) : Place(v, dir, i) = p
    <2> SUFFICES ASSUME NEW p \in SlotsIn(v, dir)
                 PROVE  \E i \in Numbers(v, dir) : Place(v, dir, i) = p
      OBVIOUS
    <2>1. PICK c \in InDir(v, dir), k \in 1..PerCluster : p = <<c, k>>
      BY DEF SlotsIn
    <2> QED
      BY <1>1, <2>1, PlaceIs
  <1> QED
    BY <1>1, <1>2, <1>3, PlaceIs DEF SlotsIn, SlotIn

-----------------------------------------------------------------------------
(* Changes that no file or directory sees.                                  *)

\* The same chains, and the same slots in the directories.
SameView(v, u) ==
    /\ FatOK(u.fat)
    /\ \A h \in Heads(v) : IsHead(u.fat, h) /\ ChainOf(u.fat, h) = ChainOf(v.fat, h)
    /\ \A dir \in DirsOf(v) : \A c \in InDir(v, dir) : u.sec[c] = v.sec[c]

LEMMA SameViewKeeps ==
    ASSUME NEW v, SoundVol(v), NEW u, SameView(v, u)
    PROVE  /\ SoundVol(u)
           /\ DirsOf(u) = DirsOf(v) /\ EntriesOf(u) = EntriesOf(v) /\ Heads(u) = Heads(v)
           /\ \A h \in Heads(v) : InDir(u, h) = InDir(v, h)
           /\ \A p \in EntriesOf(v) : SlotAt(u, p) = SlotAt(v, p)
           /\ \A dir \in DirsOf(v) : \A p \in SlotsIn(v, dir) : SlotAt(u, p) = SlotAt(v, p)
           /\ \A t : SizesOK(t, v) => SizesOK(t, u)
           /\ ShortOK(v) => ShortOK(u)
  <1>1. \A h \in Heads(v) : InDir(u, h) = InDir(v, h)
    BY DEF SameView, InDir, InChain
  <1>2. DirsOf(v) \subseteq Heads(v)
    BY SoundIs
  <1>3. \A dir \in DirsOf(v) :
          SlotsIn(u, dir) = SlotsIn(v, dir) /\ \A p \in SlotsIn(v, dir) : SlotAt(u, p) = SlotAt(v, p)
    BY <1>1, <1>2 DEF SlotsIn, SlotAt, SameView
  <1>4. RootDir \in DirsOf(v)
    BY DirsAre
  <1>5. DirsOf(u) = DirsOf(v)
    <2>1. \A d : d \in DirsOf(u) <=> d \in DirsOf(v)
      BY <1>3, <1>4, DirsAre
    <2> QED
      BY <2>1
  <1>6. EntriesOf(u) = EntriesOf(v)
    <2>1. \A p : p \in EntriesOf(u) <=> p \in EntriesOf(v)
      BY <1>3, <1>5 DEF EntriesOf
    <2> QED
      BY <2>1
  <1>7. \A p \in EntriesOf(v) : SlotAt(u, p) = SlotAt(v, p)
    BY <1>3 DEF EntriesOf
  <1>8. Heads(u) = Heads(v)
    <2>1. \A h : h \in Heads(u) <=> h \in Heads(v)
      BY <1>6, <1>7, HeadsAre
    <2> QED
      BY <2>1
  <1>9. SoundVol(u)
    <2>1. FatOK(u.fat) /\ IsHead(u.fat, RootDir)
      BY <1>2, <1>4 DEF SameView
    <2>2. \A p \in EntriesOf(u) :
            /\ IsHead(u.fat, SlotAt(u, p).first) /\ SlotAt(u, p).first # RootDir
            /\ SlotAt(u, p).kind = "file" \/ SlotAt(u, p).size = 0
      BY <1>6, <1>7, HeadsAre DEF SoundVol, SameView
    <2>3. \A p, q \in EntriesOf(u) : SlotAt(u, p).first = SlotAt(u, q).first => p = q
      BY <1>6, <1>7 DEF SoundVol
    <2>4. \A dir \in DirsOf(u) : \A c \in InDir(u, dir) : u.sec[c] \in [1..PerCluster -> Slots]
      BY <1>1, <1>2, <1>5 DEF SoundVol, SameView
    <2> QED
      BY <2>1, <2>2, <2>3, <2>4 DEF SoundVol
  <1>10. ASSUME NEW t, SizesOK(t, v)
         PROVE  SizesOK(t, u)
    <2>1. \A p \in EntriesOf(v) :
            ChainOf(u.fat, SlotAt(v, p).first) = ChainOf(v.fat, SlotAt(v, p).first)
      BY HeadsAre DEF SameView
    <2> QED
      BY <1>6, <1>7, <1>10, <2>1 DEF SizesOK
  <1>11. ASSUME ShortOK(v)
         PROVE  ShortOK(u)
    <2>1. \A dir \in DirsOf(v) :
            /\ Numbers(u, dir) = Numbers(v, dir)
            /\ \A i : Place(u, dir, i) = Place(v, dir, i)
      BY <1>2 DEF SameView, Numbers, Place
    <2>2. \A dir \in DirsOf(v) : \A i \in Numbers(v, dir) : SlotIn(u, dir, i) = SlotIn(v, dir, i)
      BY <1>3, <2>1, SlotNumbers DEF SlotIn
    <2> QED
      BY <1>5, <1>11, <2>1, <2>2 DEF ShortOK
  <1> QED
    BY <1>1, <1>3, <1>5, <1>6, <1>7, <1>8, <1>9, <1>10, <1>11

\* The files that are on the volume as wanted.
LEMMA FileHead ==
    ASSUME NEW v, SoundVol(v), NEW f, NEW file, FileOK(file, f, v)
    PROVE  file.at \in EntriesOf(v) /\ f \in Heads(v) /\ SlotAt(v, file.at).first = f
  BY SoundIs, HeadsAre DEF FileOK

LEMMA SameFile ==
    ASSUME NEW v, SoundVol(v), NEW u, SameView(v, u), NEW f, NEW file, FileOK(file, f, v),
           \A c \in InDir(v, f) : u.sec[c] = v.sec[c]
    PROVE  FileOK(file, f, u)
  <1>1. file.at \in EntriesOf(v) /\ f \in Heads(v)
    BY FileHead
  <1>2. ChainOf(u.fat, f) = ChainOf(v.fat, f) /\ InDir(u, f) = InDir(v, f)
    BY <1>1, SameViewKeeps DEF SameView
  <1>3. file.dir \in DirsOf(u) /\ file.at \in SlotsIn(u, file.dir) /\ SlotAt(u, file.at) = SlotAt(v, file.at)
    BY <1>1, SameViewKeeps, SoundIs DEF FileOK, SlotsIn
  <1>4. \A i \in 1..Len(ChainOf(v.fat, f)) : u.sec[ChainOf(v.fat, f)[i]] = v.sec[ChainOf(v.fat, f)[i]]
    BY <1>1, SoundIs, HeadChain DEF InDir
  <1>5. \A i \in 1..Len(file.data) : i \in 1..Len(ChainOf(v.fat, f))
    <2>1. Len(ChainOf(v.fat, f)) \in Nat /\ Len(file.data) <= Len(ChainOf(v.fat, f))
      BY <1>1, SoundIs, HeadChain DEF FileOK
    <2> QED
      BY <2>1
  <1> QED
    BY <1>2, <1>3, <1>4, <1>5 DEF FileOK

LEMMA SameGood ==
    ASSUME NEW v, NEW u, SoundVol(v), SameView(v, u), u.sec = v.sec
    PROVE  Keeps(v, u) /\ \A X : Tight(v, X) => \A c \in Clusters :
             u.fat[c] # Unused => v.fat[c] = Unused \/ c \in X \/ \E h \in Heads(u) : c \in InDir(u, h)
  <1>1. Keeps(v, u)
    <2> SUFFICES ASSUME NEW w, NEW t, Good(w, t, v)
                 PROVE  Good(w, t, u)
      BY DEF Keeps
    <2>1. WantedOK(w, u)
      BY SameFile DEF Good, WantedOK
    <2> QED
      BY <2>1, SameViewKeeps DEF Good
  <1>2. \A X : Tight(v, X) => \A c \in Clusters :
             u.fat[c] # Unused => v.fat[c] = Unused \/ c \in X \/ \E h \in Heads(u) : c \in InDir(u, h)
    BY SameViewKeeps DEF Tight
  <1> QED
    BY <1>1, <1>2

\* A free cluster becomes the end of a chain of its own.
LEMMA Marked ==
    ASSUME NEW v, SoundVol(v), NEW c \in Clusters, v.fat[c] = Unused,
           NEW u, u.fat = [v.fat EXCEPT ![c] = Eoc], u.sec = v.sec
    PROVE  /\ Keeps(v, u) /\ SameView(v, u)
           /\ Loose(u, c) /\ u.fat[c] = Eoc
           /\ \A x : Fresh(v, x) => x # c /\ Fresh(u, x)
           /\ \A X : Tight(v, X) => Tight(u, X \cup {c})
  <1>1. FatOK(v.fat) /\ \A h \in Heads(v) : IsHead(v.fat, h)
    BY SoundIs
  <1>2. /\ FatOK(u.fat) /\ IsHead(u.fat, c) /\ u.fat[c] = Eoc
        /\ \A e \in Clusters : e # c => u.fat[e] = v.fat[e]
        /\ \A h : IsHead(v.fat, h) => h # c /\ IsHead(u.fat, h)
    BY <1>1, MarkedFat
  <1>3. ASSUME NEW h \in Heads(v)
        PROVE  ChainOf(u.fat, h) = ChainOf(v.fat, h)
    <2>1. \A e \in InChain(v.fat, h) : u.fat[e] = v.fat[e]
      BY <1>1, <1>2, InChainIs
    <2> QED
      BY <1>1, <1>2, <2>1, ChainSame
  <1>4. SameView(v, u)
    BY <1>1, <1>2, <1>3 DEF SameView
  <1>5. Heads(u) = Heads(v)
    BY <1>4, SameViewKeeps
  <1>6. Loose(u, c)
    BY <1>1, <1>2, <1>5 DEF Loose
  <1>7. \A x : Fresh(v, x) => x # c /\ Fresh(u, x)
    BY <1>1, <1>2, <1>5 DEF Fresh, Loose, IsHead
  <1>8. ASSUME NEW X, Tight(v, X)
        PROVE  Tight(u, X \cup {c})
    <2>1. \A e \in Clusters :
             u.fat[e] # Unused => v.fat[e] = Unused \/ e \in X \/ \E h \in Heads(u) : e \in InDir(u, h)
      BY <1>4, <1>8, SameGood
    <2> QED
      BY <1>2, <2>1 DEF Tight
  <1> QED
    BY <1>2, <1>4, <1>6, <1>7, <1>8, SameGood

\* A cluster that is no file's is freed; what it led to is no file's then.
LEMMA Cleared ==
    ASSUME NEW v, SoundVol(v), NEW c, Loose(v, c),
           NEW u, u.fat = [v.fat EXCEPT ![c] = Unused], u.sec = v.sec
    PROVE  /\ Keeps(v, u)
           /\ v.fat[c] \in Clusters => Loose(u, v.fat[c])
           /\ \A X : Tight(v, X) => Tight(u, X \ {c})
  <1>1. FatOK(v.fat) /\ (\A h \in Heads(v) : IsHead(v.fat, h)) /\ IsHead(v.fat, c) /\ c \notin Heads(v)
    BY SoundIs DEF Loose
  <1>2. /\ FatOK(u.fat) /\ u.fat[c] = Unused
        /\ \A e \in Clusters : e # c => u.fat[e] = v.fat[e]
        /\ \A h : IsHead(v.fat, h) /\ h # c => IsHead(u.fat, h)
        /\ v.fat[c] \in Clusters => IsHead(u.fat, v.fat[c])
    BY <1>1, ClearedFat
  <1>3. ASSUME NEW h \in Heads(v)
        PROVE  ChainOf(u.fat, h) = ChainOf(v.fat, h)
    <2>1. InChain(v.fat, h) \subseteq Clusters /\ c \notin InChain(v.fat, h)
      BY <1>1, InChainIs, ChainsApart
    <2>2. \A e \in InChain(v.fat, h) : u.fat[e] = v.fat[e]
      BY <1>2, <2>1
    <2> QED
      BY <1>1, <1>2, <2>2, ChainSame
  <1>4. SameView(v, u)
    BY <1>1, <1>2, <1>3 DEF SameView
  <1>5. Heads(u) = Heads(v)
    BY <1>4, SameViewKeeps
  <1>6. v.fat[c] \in Clusters => Loose(u, v.fat[c])
    <2>1. \A h \in Heads(v) : h # v.fat[c]
      BY <1>1 DEF IsHead
    <2> QED
      BY <1>2, <1>5, <2>1 DEF Loose
  <1>7. ASSUME NEW X, Tight(v, X)
        PROVE  Tight(u, X \ {c})
    <2>1. \A e \in Clusters :
             u.fat[e] # Unused => v.fat[e] = Unused \/ e \in X \/ \E h \in Heads(u) : e \in InDir(u, h)
      BY <1>4, <1>7, SameGood
    <2> QED
      BY <1>2, <2>1 DEF Tight
  <1> QED
    BY <1>4, <1>6, <1>7, SameGood

\* A sector is written that is in no directory.
LEMMA DataPut ==
    ASSUME NEW v, SoundVol(v), NEW c, \A dir \in DirsOf(v) : c \notin InDir(v, dir),
           NEW u, u.fat = v.fat, \A e \in Clusters : e # c => u.sec[e] = v.sec[e]
    PROVE  /\ SameView(v, u)
           /\ \A w, t : Good(w, t, v) /\ (\A f \in DOMAIN w : c \notin InDir(v, f)) => Good(w, t, u)
           /\ \A x : x # c /\ Fresh(v, x) => Fresh(u, x)
           /\ \A X : Tight(v, X) => Tight(u, X)
  <1>1. SameView(v, u)
    BY SoundIs DEF SameView
  <1>2. Heads(u) = Heads(v)
    BY <1>1, SameViewKeeps
  <1>3. ASSUME NEW w, NEW t, Good(w, t, v), \A f \in DOMAIN w : c \notin InDir(v, f)
        PROVE  Good(w, t, u)
    <2>0. \A f \in DOMAIN w : \A e \in InDir(v, f) : u.sec[e] = v.sec[e]
      BY <1>3, FileHead, SoundIs DEF Good, WantedOK
    <2>1. WantedOK(w, u)
      BY <1>1, <1>3, <2>0, SameFile DEF Good, WantedOK
    <2> QED
      BY <1>1, <1>3, <2>1, SameViewKeeps DEF Good
  <1>4. \A x : x # c /\ Fresh(v, x) => Fresh(u, x)
    BY <1>2 DEF Fresh, Loose, IsHead
  <1>5. \A X : Tight(v, X) => Tight(u, X)
    BY <1>1, <1>2, SameViewKeeps DEF Tight
  <1> QED
    BY <1>1, <1>3, <1>4, <1>5

\* A zeroed cluster has end slots only.
LEMMA BlankIs ==
    /\ Blank \in [1..PerCluster -> Slots]
    /\ \A k \in 1..PerCluster : Blank[k].kind = "end" /\ ~Entry(Blank[k]) /\ Blank[k].kind # "dir"
  <1>1. EndSlot \in Slots /\ EndSlot.kind = "end"
    BY FatBoundsAssumption DEF EndSlot, Slot, Slots
  <1> QED
    BY <1>1 DEF Blank, Entry

LEMMA SizeIs ==
    ASSUME NEW s \in Slots
    PROVE  s.size \in Nat /\ s.size <= MaxSize /\ s.first \in Clusters \cup {0}
  <1>1. s.size \in 0..MaxSize
    BY DEF Slots
  <1>2. s.first \in Clusters \cup {0}
    BY DEF Slots
  <1> QED
    BY <1>1, <1>2, FatBoundsAssumption

\* A fresh cluster is linked behind the last of a file or directory.
LEMMA Linked ==
    ASSUME NEW v, SoundVol(v), NEW h \in Heads(v), NEW n, Fresh(v, n),
           NEW t, t = Last(ChainOf(v.fat, h)),
           NEW u, u.fat = [v.fat EXCEPT ![t] = n], u.sec = v.sec
    PROVE  /\ Keeps(v, u) /\ SoundVol(u)
           /\ DirsOf(u) = DirsOf(v) /\ EntriesOf(u) = EntriesOf(v) /\ Heads(u) = Heads(v)
           /\ ChainOf(u.fat, h) = Append(ChainOf(v.fat, h), n)
           /\ \A k \in Heads(v) : k # h => ChainOf(u.fat, k) = ChainOf(v.fat, k)
           /\ \A x : x # n /\ Fresh(v, x) => Fresh(u, x)
           /\ \A X : Tight(v, X) => Tight(u, X \ {n})
           /\ t \in Clusters /\ n \in Clusters
  <1>1. /\ FatOK(v.fat) /\ \A k \in Heads(v) : IsHead(v.fat, k)
        /\ DirsOf(v) \subseteq Heads(v)
    BY SoundIs
  <1>2. IsHead(v.fat, n) /\ n \notin Heads(v) /\ v.fat[n] = Eoc /\ v.sec[n] = Blank /\ n \in Clusters
    BY DEF Fresh, Loose, IsHead
  <1>3. \A x : IsHead(v.fat, x) => x \in InChain(v.fat, x) /\ InChain(v.fat, x) \subseteq Clusters
    BY <1>1, InChainIs
  <1>4. \A x, y : IsHead(v.fat, x) /\ IsHead(v.fat, y) /\ x # y =>
                    InChain(v.fat, x) \cap InChain(v.fat, y) = {}
    BY <1>1, ChainsApart
  <1>5. t \in InChain(v.fat, h)
    <2> DEFINE s == ChainOf(v.fat, h)
    <2>1. s \in Seq(Clusters) /\ Len(s) \in Nat /\ Len(s) >= 1 /\ InChain(v.fat, h) = {s[i] : i \in 1..Len(s)}
      BY <1>1, HeadChain
    <2> QED
      BY <2>1 DEF Last
  <1>6. t \in Clusters /\ t # n /\ n \notin InChain(v.fat, h) /\ h # n
    BY <1>1, <1>2, <1>3, <1>4, <1>5
  <1>7. /\ FatOK(u.fat) /\ u.fat[t] = n
        /\ \A e \in Clusters : e # t => u.fat[e] = v.fat[e]
        /\ \A k : IsHead(v.fat, k) /\ k # n => IsHead(u.fat, k)
    BY <1>1, <1>2, <1>6, LinkedFat
  <1>8. ChainOf(u.fat, h) = Append(ChainOf(v.fat, h), n) /\ InChain(u.fat, h) = InChain(v.fat, h) \cup {n}
    <2>1. /\ FatOK(v.fat) /\ FatOK(u.fat) /\ IsHead(v.fat, h) /\ IsHead(u.fat, h)
          /\ n \in Clusters /\ n \notin InChain(v.fat, h) /\ u.fat[n] = Eoc
          /\ t = Last(ChainOf(v.fat, h)) /\ u.fat[t] = n
      BY <1>1, <1>2, <1>6, <1>7
    <2>2. \A e \in InChain(v.fat, h) : e # t => u.fat[e] = v.fat[e]
      BY <1>1, <1>3, <1>7
    <2>3. ASSUME NEW a, NEW b, FatOK(a), FatOK(b), IsHead(a, h), IsHead(b, h),
                 n \in Clusters, n \notin InChain(a, h), b[n] = Eoc,
                 t = Last(ChainOf(a, h)), b[t] = n, \A e \in InChain(a, h) : e # t => b[e] = a[e]
          PROVE  ChainOf(b, h) = Append(ChainOf(a, h), n) /\ InChain(b, h) = InChain(a, h) \cup {n}
      BY <2>3, ChainGrown
    <2> QED
      BY <2>1, <2>2, <2>3
  <1>9. ASSUME NEW k \in Heads(v), k # h
        PROVE  ChainOf(u.fat, k) = ChainOf(v.fat, k) /\ InChain(u.fat, k) = InChain(v.fat, k)
    <2>1. FatOK(v.fat) /\ FatOK(u.fat) /\ IsHead(v.fat, k) /\ IsHead(u.fat, k)
      BY <1>1, <1>2, <1>7, <1>9
    <2>2. \A e \in InChain(v.fat, k) : u.fat[e] = v.fat[e]
      BY <1>1, <1>3, <1>4, <1>5, <1>7, <1>9
    <2> QED
      BY <2>1, <2>2, ChainSame
  <1>10. \A p : SlotAt(u, p) = SlotAt(v, p)
    BY DEF SlotAt
  <1>11. ASSUME NEW k \in Heads(v)
         PROVE  /\ \A p \in SlotsIn(v, k) : p \in SlotsIn(u, k)
                /\ \A p \in SlotsIn(u, k) : p \in SlotsIn(v, k) \/ (k = h /\ p[1] = n /\ p[2] \in 1..PerCluster)
    BY <1>8, <1>9 DEF SlotsIn, InDir
  <1>12. \A p : p[1] = n /\ p[2] \in 1..PerCluster =>
                  SlotAt(v, p).kind = "end" /\ ~Entry(SlotAt(v, p)) /\ SlotAt(v, p).kind # "dir"
    BY <1>2, BlankIs DEF SlotAt
  <1>13. DirsOf(u) = DirsOf(v)
    <2>1. RootDir \in Heads(v)
      BY HeadsAre
    <2>2. \A d : d \in DirsOf(u) <=> d \in DirsOf(v)
      BY <1>10, <1>11, <1>12, <2>1, DirsAre
    <2> QED
      BY <2>2
  <1>14. EntriesOf(u) = EntriesOf(v)
    <2>1. \A p : p \in EntriesOf(u) <=> p \in EntriesOf(v)
      BY <1>1, <1>10, <1>11, <1>12, <1>13 DEF EntriesOf
    <2> QED
      BY <2>1
  <1>15. Heads(u) = Heads(v)
    <2>1. \A k : k \in Heads(u) <=> k \in Heads(v)
      BY <1>10, <1>14, HeadsAre
    <2> QED
      BY <2>1
  <1>16. SoundVol(u)
    <2>1. \A k \in Heads(v) : IsHead(u.fat, k)
      BY <1>1, <1>2, <1>7
    <2>2. IsHead(u.fat, RootDir)
      BY <2>1, HeadsAre
    <2>3. \A p \in EntriesOf(u) :
            /\ IsHead(u.fat, SlotAt(u, p).first) /\ SlotAt(u, p).first # RootDir
            /\ SlotAt(u, p).kind = "file" \/ SlotAt(u, p).size = 0
      BY <1>10, <1>14, <2>1, HeadsAre DEF SoundVol
    <2>4. \A p, q \in EntriesOf(u) : SlotAt(u, p).first = SlotAt(u, q).first => p = q
      BY <1>10, <1>14 DEF SoundVol
    <2>5. \A dir \in DirsOf(u) : \A c \in InDir(u, dir) : u.sec[c] \in [1..PerCluster -> Slots]
      <3> SUFFICES ASSUME NEW dir \in DirsOf(v), NEW c \in InDir(u, dir)
                   PROVE  v.sec[c] \in [1..PerCluster -> Slots]
        BY <1>13
      <3>1. c \in InDir(v, dir) \/ c = n
        BY <1>1, <1>8, <1>9 DEF InDir
      <3> QED
        BY <1>2, <3>1, BlankIs DEF SoundVol
    <2> QED
      BY <1>7, <2>2, <2>3, <2>4, <2>5 DEF SoundVol
  <1>17. \A k \in Heads(v) : /\ Len(ChainOf(v.fat, k)) \in Nat
                             /\ ChainOf(v.fat, k) \in Seq(Clusters)
    BY <1>1, HeadChain
  <1>18. ASSUME NEW t1, SizesOK(t1, v)
         PROVE  SizesOK(t1, u)
    <2> SUFFICES ASSUME NEW p \in EntriesOf(v)
                 PROVE  LET s == SlotAt(v, p)
                            m == Len(ChainOf(u.fat, s.first))
                        IN  s.size <= m \/ (s.first \in t1 /\ s.size = m + 1)
      BY <1>10, <1>14 DEF SizesOK
    <2> DEFINE s == SlotAt(v, p)
               l == Len(ChainOf(v.fat, s.first))
    <2>1. s.first \in Heads(v)
      BY HeadsAre
    <2>2. Len(ChainOf(u.fat, s.first)) = l \/ Len(ChainOf(u.fat, s.first)) = l + 1
      <3> DEFINE k == s.first
      <3>1. k \in Heads(v)
        BY <2>1
      <3> HIDE DEF k
      <3>2. Len(ChainOf(u.fat, k)) = Len(ChainOf(v.fat, k)) \/ Len(ChainOf(u.fat, k)) = Len(ChainOf(v.fat, k)) + 1
        BY <1>8, <1>9, <1>17, <3>1
      <3> QED
        BY <3>2 DEF k
    <2>3. l \in Nat /\ s.size \in Nat
      <3>1. s \in Slots
        BY SoundIs
      <3> QED
        BY <1>17, <2>1, <3>1, SizeIs
    <2>4. s.size <= l \/ (s.first \in t1 /\ s.size = l + 1)
      BY <1>18 DEF SizesOK
    <2> HIDE DEF s, l
    <2> QED
      BY <2>2, <2>3, <2>4 DEF s
  <1>19. ASSUME NEW f, NEW file, FileOK(file, f, v)
         PROVE  FileOK(file, f, u)
    <2> DEFINE s == SlotAt(v, file.at)
               c == ChainOf(v.fat, f)
               e == ChainOf(u.fat, f)
    <2>1. f \in Heads(v)
      BY <1>19, FileHead
    <2>2. /\ file.dir \in DirsOf(v) /\ file.at \in SlotsIn(v, file.dir)
          /\ Entry(s) /\ s.name = file.name /\ s.first = f /\ s.size = Len(file.data)
          /\ Len(file.data) <= Len(c)
          /\ \A i \in 1..Len(file.data) : v.sec[c[i]] = file.data[i]
          /\ s.kind = "file" => \A i \in 1..Len(c) : i > Len(file.data) => v.sec[c[i]] = Blank
      BY <1>19 DEF FileOK
    <2>3. file.dir \in DirsOf(u) /\ file.at \in SlotsIn(u, file.dir) /\ SlotAt(u, file.at) = s
      BY <1>1, <1>10, <1>11, <1>13, <2>2
    <2>4. c \in Seq(Clusters) /\ Len(c) \in Nat
      BY <1>17, <2>1
    <2>5. Len(file.data) \in Nat
      <3>1. s \in Slots
        BY <2>2, SoundIs
      <3> QED
        BY <2>2, <3>1, SizeIs
    <2>6. e = c \/ e = Append(c, n)
      BY <1>8, <1>9, <2>1
    <2> HIDE DEF s, c, e
    <2>7. CASE e = c
      BY <2>2, <2>3, <2>7 DEF FileOK, e
    <2>8. CASE e = Append(c, n)
      <3>1. Len(e) = Len(c) + 1 /\ (\A i \in 1..Len(c) : e[i] = c[i]) /\ e[Len(c) + 1] = n
        BY <2>4, <2>8
      <3>2. Len(file.data) <= Len(e)
        BY <2>2, <2>4, <2>5, <3>1
      <3>3. \A i \in 1..Len(file.data) : u.sec[e[i]] = file.data[i]
        BY <2>2, <2>4, <2>5, <3>1
      <3>4. s.kind = "file" => \A i \in 1..Len(e) : i > Len(file.data) => u.sec[e[i]] = Blank
        <4> SUFFICES ASSUME s.kind = "file", NEW i \in 1..Len(e), i > Len(file.data)
                     PROVE  u.sec[e[i]] = Blank
          OBVIOUS
        <4>1. i \in 1..Len(c) \/ i = Len(c) + 1
          BY <2>4, <3>1
        <4> QED
          BY <1>2, <2>2, <3>1, <4>1
      <3> QED
        BY <2>2, <2>3, <3>2, <3>3, <3>4 DEF FileOK, e
    <2> QED
      BY <2>6, <2>7, <2>8
  <1>20. ASSUME ShortOK(v)
         PROVE  ShortOK(u)
    <2> SUFFICES ASSUME NEW dir \in DirsOf(v)
                 PROVE  \A i \in Numbers(u, dir) :
                          LET s == SlotIn(u, dir, i)
                          IN  Entry(s) /\ s.name \notin LongNames =>
                                /\ \A j \in Numbers(u, dir) : j <= i => SlotIn(u, dir, j).kind # "end"
                                /\ \A j \in Numbers(u, dir) :
                                     Entry(SlotIn(u, dir, j)) /\ SlotIn(u, dir, j).name = s.name => j = i
      BY <1>13 DEF ShortOK
    <2>1. \A i \in Numbers(v, dir) :
                          LET s == SlotIn(v, dir, i)
                          IN  Entry(s) /\ s.name \notin LongNames =>
                                /\ \A j \in Numbers(v, dir) : j <= i => SlotIn(v, dir, j).kind # "end"
                                /\ \A j \in Numbers(v, dir) :
                                     Entry(SlotIn(v, dir, j)) /\ SlotIn(v, dir, j).name = s.name => j = i
      BY <1>20 DEF ShortOK
    <2>2. CASE dir # h
      <3>1. ChainOf(u.fat, dir) = ChainOf(v.fat, dir)
        BY <1>1, <1>9, <2>2
      <3>2. Numbers(u, dir) = Numbers(v, dir) /\ \A i : SlotIn(u, dir, i) = SlotIn(v, dir, i)
        BY <1>10, <3>1 DEF Numbers, Place, SlotIn
      <3> QED
        BY <2>1, <3>2
    <2>3. CASE dir = h
      <3>1. ChainOf(u.fat, dir) = Append(ChainOf(v.fat, dir), n)
        BY <1>8, <2>3
      <3>2. IsHead(v.fat, dir)
        BY <1>1
      <3>3. /\ Numbers(v, dir) \subseteq Numbers(u, dir)
            /\ \A i \in Numbers(v, dir) : Place(u, dir, i) = Place(v, dir, i)
            /\ \A i \in Numbers(u, dir) : i \notin Numbers(v, dir) =>
                 /\ \A j \in Numbers(v, dir) : j < i
                 /\ \E k \in 1..PerCluster : Place(u, dir, i) = <<n, k>>
        BY <1>1, <1>2, <3>1, <3>2, PlaceGrown
      <3>4. \A i \in Numbers(v, dir) : SlotIn(u, dir, i) = SlotIn(v, dir, i)
        BY <1>10, <3>3 DEF SlotIn
      <3>5. \A i \in Numbers(u, dir) : i \notin Numbers(v, dir) => ~Entry(SlotIn(u, dir, i))
        BY <1>10, <1>12, <3>3 DEF SlotIn
      <3>6. Numbers(v, dir) \subseteq Nat
        BY SlotNumbers
      <3>7. \A i \in Numbers(v, dir), j \in Numbers(u, dir) : j <= i => j \in Numbers(v, dir)
        <4>1. Numbers(u, dir) \subseteq Nat \ {0}
          BY <1>7, <1>1, <1>2, <1>16, <1>13, SlotNumbers
        <4> QED
          BY <3>6, <4>1, SlotNumbers
      <3> QED
        BY <2>1, <3>3, <3>4, <3>5, <3>7
    <2> QED
      BY <2>2, <2>3
  <1>21. Keeps(v, u)
    BY <1>16, <1>18, <1>19, <1>20 DEF Keeps, Good, WantedOK
  <1>22. ASSUME NEW x, x # n, Fresh(v, x)
         PROVE  Fresh(u, x)
    <2>1. IsHead(v.fat, x) /\ x \notin Heads(v) /\ x # h
      BY <1>22 DEF Fresh, Loose
    <2>2. x # t
      BY <1>1, <1>3, <1>4, <1>5, <2>1
    <2> QED
      BY <1>7, <1>15, <1>22, <2>1, <2>2 DEF Fresh, Loose, IsHead
  <1>23. ASSUME NEW X, Tight(v, X)
         PROVE  Tight(u, X \ {n})
    <2> SUFFICES ASSUME NEW c \in Clusters, u.fat[c] # Unused
                 PROVE  c \in X \ {n} \/ \E k \in Heads(u) : c \in InDir(u, k)
      BY DEF Tight
    <2>1. c = n => c \in InDir(u, h)
      BY <1>8 DEF InDir
    <2>2. c = t => c \in InDir(u, h)
      BY <1>5, <1>8 DEF InDir
    <2>3. c # t => c \in X \/ \E k \in Heads(v) : c \in InDir(v, k)
      BY <1>7, <1>23 DEF Tight
    <2>4. \A k \in Heads(v) : InDir(v, k) \subseteq InDir(u, k)
      BY <1>8, <1>9 DEF InDir
    <2> QED
      BY <1>15, <2>1, <2>2, <2>3, <2>4
  <1> QED
    BY <1>2, <1>6, <1>8, <1>9, <1>13, <1>14, <1>15, <1>16, <1>21, <1>22, <1>23

-----------------------------------------------------------------------------
(* A slot of a directory is written.                                        *)

\* u is v with slot s at place p of directory dir.
SlotPut(v, u, dir, p, s) ==
    /\ v \in Disks /\ SoundVol(v)
    /\ dir \in DirsOf(v) /\ p \in SlotsIn(v, dir) /\ s \in Slots
    /\ u = [v EXCEPT !.sec[p[1]] = [v.sec[p[1]] EXCEPT ![p[2]] = s]]

LEMMA SlotPutIs ==
    ASSUME NEW v, NEW u, NEW dir, NEW p, NEW s, SlotPut(v, u, dir, p, s)
    PROVE  /\ u \in Disks /\ u.fat = v.fat
           /\ SlotAt(u, p) = s
           /\ \A d \in DirsOf(v) : \A q \in SlotsIn(v, d) : q # p => SlotAt(u, q) = SlotAt(v, q)
           /\ \A c \in Clusters : c # p[1] => u.sec[c] = v.sec[c]
           /\ \A d \in DirsOf(v) : \A c \in InDir(v, d) : u.sec[c] \in [1..PerCluster -> Slots]
           /\ \A d \in DirsOf(v) : p \in SlotsIn(v, d) => d = dir
           /\ \A h \in Heads(v) : h \notin DirsOf(v) => \A c \in InDir(v, h) : u.sec[c] = v.sec[c]
           /\ \A x : Loose(v, x) => x # p[1]
           /\ \A d : InDir(u, d) = InDir(v, d) /\ SlotsIn(u, d) = SlotsIn(v, d)
  <1>1. /\ v \in Disks /\ SoundVol(v)
        /\ dir \in DirsOf(v) /\ p \in SlotsIn(v, dir) /\ s \in Slots
        /\ u = [v EXCEPT !.sec[p[1]] = [v.sec[p[1]] EXCEPT ![p[2]] = s]]
    BY DEF SlotPut
  <1>2. p[1] \in InDir(v, dir) /\ p[1] \in Clusters /\ p[2] \in 1..PerCluster /\ p = <<p[1], p[2]>>
    <2>1. p \in InDir(v, dir) \X (1..PerCluster)
      BY <1>1 DEF SlotsIn
    <2>2. InDir(v, dir) \subseteq Clusters
      BY <1>1, SoundIs
    <2> QED
      BY <2>1, <2>2
  <1>3. v.sec[p[1]] \in [1..PerCluster -> Slots]
    BY <1>1, SoundIs
  <1> DEFINE row == [v.sec[p[1]] EXCEPT ![p[2]] = s]
  <1>4. /\ row \in [1..PerCluster -> Slots] /\ row[p[2]] = s
        /\ \A k \in 1..PerCluster : k # p[2] => row[k] = v.sec[p[1]][k]
    BY <1>1, <1>2, <1>3
  <1>5. /\ v.fat \in [Clusters -> Links] /\ v.sec \in [Clusters -> Sectors]
        /\ v = [fat |-> v.fat, sec |-> v.sec]
    BY <1>1 DEF Disks
  <1>6. u.fat = v.fat /\ u = [fat |-> v.fat, sec |-> [v.sec EXCEPT ![p[1]] = row]]
    BY <1>1, <1>5
  <1> HIDE DEF row
  <1>7. /\ u.sec = [v.sec EXCEPT ![p[1]] = row]
        /\ u.sec \in [Clusters -> Sectors]
        /\ u.sec[p[1]] = row /\ \A c \in Clusters : c # p[1] => u.sec[c] = v.sec[c]
    BY <1>2, <1>4, <1>5, <1>6 DEF Sectors
  <1>8. \A c \in Clusters : c # p[1] => u.sec[c] = v.sec[c]
    BY <1>2, <1>5, <1>7
  <1>9. u \in Disks
    BY <1>5, <1>6, <1>7 DEF Disks
  <1>10. SlotAt(u, p) = s
    BY <1>4, <1>7 DEF SlotAt
  <1>11. \A d \in DirsOf(v) : \A q \in SlotsIn(v, d) : q # p => SlotAt(u, q) = SlotAt(v, q)
    <2> SUFFICES ASSUME NEW d \in DirsOf(v), NEW q \in SlotsIn(v, d), q # p
                 PROVE  SlotAt(u, q) = SlotAt(v, q)
      OBVIOUS
    <2>1. q = <<q[1], q[2]>> /\ q[2] \in 1..PerCluster
      BY DEF SlotsIn
    <2>2. q[1] # p[1] \/ q[2] # p[2]
      BY <1>2, <2>1
    <2> QED
      BY <1>4, <1>7, <1>8, <2>1, <2>2 DEF SlotAt
  <1>12. \A d \in DirsOf(v) : \A c \in InDir(v, d) : u.sec[c] \in [1..PerCluster -> Slots]
    BY <1>1, <1>4, <1>7, <1>8, SoundIs DEF SoundVol
  <1>13. \A h \in Heads(v) : p[1] \in InDir(v, h) => h = dir
    BY <1>1, <1>2, SoundIs
  <1>14. \A d \in DirsOf(v) : p \in SlotsIn(v, d) => d = dir
    BY <1>1, <1>13, SoundIs DEF SlotsIn
  <1>15. \A h \in Heads(v) : h \notin DirsOf(v) => \A c \in InDir(v, h) : u.sec[c] = v.sec[c]
    BY <1>1, <1>8, <1>13, SoundIs
  <1>16. \A x : Loose(v, x) => x # p[1]
    <2> SUFFICES ASSUME NEW x, Loose(v, x)
                 PROVE  x # p[1]
      OBVIOUS
    <2>1. FatOK(v.fat) /\ dir \in Heads(v) /\ IsHead(v.fat, dir)
      BY <1>1, SoundIs
    <2>2. IsHead(v.fat, x) /\ x # dir
      BY <2>1 DEF Loose
    <2>3. InChain(v.fat, dir) \cap InChain(v.fat, x) = {} /\ x \in InChain(v.fat, x)
      BY <2>1, <2>2, ChainsApart, InChainIs
    <2> QED
      BY <1>2, <2>3 DEF InDir
  <1>17. \A d : InDir(u, d) = InDir(v, d) /\ SlotsIn(u, d) = SlotsIn(v, d)
    BY <1>6 DEF InDir, SlotsIn
  <1> QED
    BY <1>6, <1>8, <1>9, <1>10, <1>11, <1>12, <1>14, <1>15, <1>16, <1>17

\* A file with another entry is still as wanted.
LEMMA SlotPutFile ==
    ASSUME NEW v, NEW u, NEW dir, NEW p, NEW s, SlotPut(v, u, dir, p, s),
           NEW f, NEW file, FileOK(file, f, v), file.at # p, file.dir \in DirsOf(u)
    PROVE  FileOK(file, f, u)
  <1>1. SoundVol(v)
    BY DEF SlotPut
  <1>2. file.at \in EntriesOf(v) /\ f \in Heads(v) /\ SlotAt(v, file.at).first = f
    BY <1>1, FileHead
  <1>3. u.fat = v.fat /\ SlotsIn(u, file.dir) = SlotsIn(v, file.dir)
    BY SlotPutIs
  <1>4. SlotAt(u, file.at) = SlotAt(v, file.at)
    BY <1>1, SlotPutIs DEF FileOK
  <1> DEFINE sl == SlotAt(v, file.at)
             c == ChainOf(v.fat, f)
  <1>5. /\ file.at \in SlotsIn(v, file.dir)
        /\ Entry(sl) /\ sl.name = file.name /\ sl.first = f /\ sl.size = Len(file.data)
        /\ Len(file.data) <= Len(c)
        /\ \A i \in 1..Len(file.data) : v.sec[c[i]] = file.data[i]
        /\ sl.kind = "file" => \A i \in 1..Len(c) : i > Len(file.data) => v.sec[c[i]] = Blank
    BY DEF FileOK
  <1>6. sl.kind = "file" => \A i \in 1..Len(c) : u.sec[c[i]] = v.sec[c[i]]
    <2>1. \A i \in 1..Len(c) : c[i] \in InDir(v, f)
      BY <1>1, <1>2, SoundIs, HeadChain DEF InDir
    <2>2. sl.kind = "file" => f \notin DirsOf(v)
      BY <1>1, <1>2, SoundIs
    <2> QED
      BY <1>2, <2>1, <2>2, SlotPutIs
  <1>7. Len(c) \in Nat /\ Len(file.data) \in Nat
    <2>1. sl \in Slots
      BY <1>1, <1>2, SoundIs
    <2> QED
      BY <1>1, <1>2, <1>5, <2>1, SoundIs, HeadChain, SizeIs
  <1>8. sl.kind # "file" => Len(file.data) = 0
    BY <1>1, <1>2, <1>5 DEF SoundVol
  <1> HIDE DEF sl, c
  <1>9. \A i \in 1..Len(file.data) : u.sec[c[i]] = file.data[i]
    BY <1>5, <1>6, <1>7, <1>8
  <1> QED
    BY <1>3, <1>4, <1>5, <1>6, <1>9 DEF FileOK, sl, c

\* The slots by their numbers.
LEMMA SlotPutNumbers ==
    ASSUME NEW v, NEW u, NEW dir, NEW p, NEW s, SlotPut(v, u, dir, p, s)
    PROVE  /\ \A d : Numbers(u, d) = Numbers(v, d)
           /\ \A d \in DirsOf(v) : \A i \in Numbers(v, d) :
                IF d = dir /\ Place(v, d, i) = p
                THEN SlotIn(u, d, i) = s
                ELSE SlotIn(u, d, i) = SlotIn(v, d, i)
           /\ \A i, j \in Numbers(v, dir) : Place(v, dir, i) = p /\ Place(v, dir, j) = p => i = j
  <1>1. SoundVol(v) /\ dir \in DirsOf(v)
    BY DEF SlotPut
  <1>2. u.fat = v.fat
    BY SlotPutIs
  <1>3. \A d : Numbers(u, d) = Numbers(v, d) /\ \A i : Place(u, d, i) = Place(v, d, i)
    BY <1>2 DEF Numbers, Place
  <1>4. ASSUME NEW d \in DirsOf(v), NEW i \in Numbers(v, d)
        PROVE  IF d = dir /\ Place(v, d, i) = p
               THEN SlotIn(u, d, i) = s
               ELSE SlotIn(u, d, i) = SlotIn(v, d, i)
    <2>1. Place(v, d, i) \in SlotsIn(v, d)
      BY <1>1, SlotNumbers
    <2>2. Place(v, d, i) = p => d = dir
      BY <2>1, SlotPutIs
    <2>3. SlotIn(u, d, i) = SlotAt(u, Place(v, d, i)) /\ SlotIn(v, d, i) = SlotAt(v, Place(v, d, i))
      BY <1>3 DEF SlotIn
    <2> QED
      BY <2>1, <2>2, <2>3, SlotPutIs
  <1> QED
    BY <1>1, <1>3, <1>4, SlotNumbers

\* A slot that is no entry, and no end slot, instead of another.
LEMMA PlainPut ==
    ASSUME NEW v, NEW u, NEW dir, NEW p, NEW s, SlotPut(v, u, dir, p, s),
           ~Entry(SlotAt(v, p)), ~Entry(s), s.kind # "end"
    PROVE  /\ Keeps(v, u) /\ SoundVol(u)
           /\ DirsOf(u) = DirsOf(v) /\ EntriesOf(u) = EntriesOf(v) /\ Heads(u) = Heads(v)
           /\ \A x : Fresh(v, x) => Fresh(u, x)
           /\ \A X : Tight(v, X) => Tight(u, X)
  <1>1. SoundVol(v) /\ dir \in DirsOf(v) /\ p \in SlotsIn(v, dir)
    BY DEF SlotPut
  <1>2. u.fat = v.fat /\ \A d : InDir(u, d) = InDir(v, d) /\ SlotsIn(u, d) = SlotsIn(v, d)
    BY SlotPutIs
  <1>3. /\ SlotAt(u, p) = s
        /\ \A d \in DirsOf(v) : \A q \in SlotsIn(v, d) : q # p => SlotAt(u, q) = SlotAt(v, q)
    BY SlotPutIs
  <1>4. RootDir \in DirsOf(v)
    BY DirsAre
  <1>5. SlotAt(v, p).kind # "dir" /\ s.kind # "dir"
    BY DEF Entry
  <1>6. DirsOf(u) = DirsOf(v)
    <2>1. \A d : d \in DirsOf(u) <=> d \in DirsOf(v)
      BY <1>2, <1>3, <1>4, <1>5, DirsAre
    <2> QED
      BY <2>1
  <1>7. EntriesOf(u) = EntriesOf(v) /\ \A q \in EntriesOf(v) : q # p /\ SlotAt(u, q) = SlotAt(v, q)
    <2>1. \A q : q \in EntriesOf(u) <=> q \in EntriesOf(v)
      BY <1>2, <1>3, <1>6 DEF EntriesOf
    <2> QED
      BY <1>3, <2>1 DEF EntriesOf
  <1>8. Heads(u) = Heads(v)
    <2>1. \A h : h \in Heads(u) <=> h \in Heads(v)
      BY <1>7, HeadsAre
    <2> QED
      BY <2>1
  <1>9. SoundVol(u)
    <2>1. \A d \in DirsOf(u) : \A c \in InDir(u, d) : u.sec[c] \in [1..PerCluster -> Slots]
      BY <1>2, <1>6, SlotPutIs
    <2> QED
      BY <1>1, <1>2, <1>7, <2>1 DEF SoundVol
  <1>10. \A t : SizesOK(t, v) => SizesOK(t, u)
    BY <1>2, <1>7 DEF SizesOK
  <1>11. \A f, file : FileOK(file, f, v) => FileOK(file, f, u)
    <2> SUFFICES ASSUME NEW f, NEW file, FileOK(file, f, v)
                 PROVE  FileOK(file, f, u)
      OBVIOUS
    <2>1. file.at # p /\ file.dir \in DirsOf(u)
      BY <1>6 DEF FileOK
    <2> QED
      BY <2>1, SlotPutFile
  <1>12. ASSUME ShortOK(v)
         PROVE  ShortOK(u)
    <2>1. /\ \A d : Numbers(u, d) = Numbers(v, d)
          /\ \A d \in DirsOf(v) : \A i \in Numbers(v, d) :
                \/ SlotIn(u, d, i) = SlotIn(v, d, i)
                \/ SlotIn(u, d, i) = s
      BY SlotPutNumbers
    <2>2. \A d \in DirsOf(v) : \A i \in Numbers(v, d) :
            /\ Entry(SlotIn(u, d, i)) => SlotIn(u, d, i) = SlotIn(v, d, i)
            /\ SlotIn(u, d, i).kind = "end" => SlotIn(v, d, i).kind = "end"
      BY <2>1
    <2> QED
      BY <1>6, <1>12, <2>1, <2>2 DEF ShortOK
  <1>13. Keeps(v, u)
    BY <1>9, <1>10, <1>11, <1>12 DEF Keeps, Good, WantedOK
  <1>14. \A x : Fresh(v, x) => Fresh(u, x)
    BY <1>2, <1>8, SlotPutIs DEF Fresh, Loose, IsHead
  <1>15. \A X : Tight(v, X) => Tight(u, X)
    BY <1>2, <1>8 DEF Tight
  <1> QED
    BY <1>6, <1>7, <1>8, <1>9, <1>13, <1>14, <1>15

\* The size in a file's entry changes.
LEMMA SizePut ==
    ASSUME NEW v, NEW u, NEW dir, NEW p, NEW s, SlotPut(v, u, dir, p, s),
           NEW e, SlotAt(v, p).kind = "file", s.kind = "file", s.size = e,
           s.first = SlotAt(v, p).first, s.name = SlotAt(v, p).name
    PROVE  /\ SoundVol(u) /\ (ShortOK(v) => ShortOK(u))
           /\ DirsOf(u) = DirsOf(v) /\ EntriesOf(u) = EntriesOf(v) /\ Heads(u) = Heads(v)
           /\ \A q \in EntriesOf(v) : q # p => SlotAt(u, q) = SlotAt(v, q)
           /\ \A w, t : Good(w, t, v) /\ s.first \notin DOMAIN w /\ s.first \in t /\
                        (e <= Len(ChainOf(v.fat, s.first)) \/ e = Len(ChainOf(v.fat, s.first)) + 1)
                        => Good(w, t, u)
           /\ \A X : Tight(v, X) => Tight(u, X)
  <1>1. SoundVol(v) /\ dir \in DirsOf(v) /\ p \in SlotsIn(v, dir)
    BY DEF SlotPut
  <1>2. u.fat = v.fat /\ \A d : InDir(u, d) = InDir(v, d) /\ SlotsIn(u, d) = SlotsIn(v, d)
    BY SlotPutIs
  <1>3. /\ SlotAt(u, p) = s
        /\ \A d \in DirsOf(v) : \A q \in SlotsIn(v, d) : q # p => SlotAt(u, q) = SlotAt(v, q)
    BY SlotPutIs
  <1>4. RootDir \in DirsOf(v)
    BY DirsAre
  <1>5. s.first = SlotAt(v, p).first /\ s.kind = "file" /\ s.name = SlotAt(v, p).name /\ s.size = e
    OBVIOUS
  <1>6. Entry(s) /\ Entry(SlotAt(v, p))
    BY <1>5 DEF Entry
  <1>7. DirsOf(u) = DirsOf(v)
    <2>1. \A q \in SlotsIn(v, RootDir) :
            /\ SlotAt(u, q).kind = "dir" <=> SlotAt(v, q).kind = "dir"
            /\ SlotAt(u, q).first = SlotAt(v, q).first
      BY <1>3, <1>4, <1>5
    <2>2. \A d : d \in DirsOf(u) <=> d \in DirsOf(v)
      BY <1>2, <2>1, DirsAre
    <2> QED
      BY <2>2
  <1>8. /\ EntriesOf(u) = EntriesOf(v) /\ p \in EntriesOf(v)
        /\ \A q \in EntriesOf(v) : q # p => SlotAt(u, q) = SlotAt(v, q)
    <2>1. \A q : q \in EntriesOf(u) <=> q \in EntriesOf(v)
      BY <1>2, <1>3, <1>6, <1>7 DEF EntriesOf
    <2>2. p \in EntriesOf(v)
      BY <1>1, <1>6, SoundIs
    <2> QED
      BY <1>3, <2>1, <2>2 DEF EntriesOf
  <1>9. \A q \in EntriesOf(v) : SlotAt(u, q).first = SlotAt(v, q).first
    BY <1>3, <1>5, <1>8
  <1>10. Heads(u) = Heads(v)
    <2>1. \A h : h \in Heads(u) <=> h \in Heads(v)
      BY <1>8, <1>9, HeadsAre
    <2> QED
      BY <2>1
  <1>11. SoundVol(u)
    <2>1. \A d \in DirsOf(u) : \A c \in InDir(u, d) : u.sec[c] \in [1..PerCluster -> Slots]
      BY <1>2, <1>7, SlotPutIs
    <2>2. \A q \in EntriesOf(u) :
            /\ IsHead(u.fat, SlotAt(u, q).first) /\ SlotAt(u, q).first # RootDir
            /\ SlotAt(u, q).kind = "file" \/ SlotAt(u, q).size = 0
      BY <1>1, <1>2, <1>3, <1>5, <1>8, <1>9 DEF SoundVol
    <2>3. \A q, r \in EntriesOf(u) : SlotAt(u, q).first = SlotAt(u, r).first => q = r
      BY <1>1, <1>8, <1>9 DEF SoundVol
    <2> QED
      BY <1>1, <1>2, <2>1, <2>2, <2>3 DEF SoundVol
  <1>12. ASSUME ShortOK(v)
         PROVE  ShortOK(u)
    <2>1. /\ \A d : Numbers(u, d) = Numbers(v, d)
          /\ \A d \in DirsOf(v) : \A i \in Numbers(v, d) :
                IF d = dir /\ Place(v, d, i) = p
                THEN SlotIn(u, d, i) = s
                ELSE SlotIn(u, d, i) = SlotIn(v, d, i)
      BY SlotPutNumbers
    <2>2. \A d \in DirsOf(v) : \A i \in Numbers(v, d) : Place(v, d, i) = p => SlotIn(v, d, i) = SlotAt(v, p)
      BY DEF SlotIn
    <2>3. \A d \in DirsOf(v) : \A i \in Numbers(v, d) :
            /\ SlotIn(u, d, i).name = SlotIn(v, d, i).name
            /\ SlotIn(u, d, i).kind = SlotIn(v, d, i).kind
      BY <1>5, <2>1, <2>2
    <2>4. \A d \in DirsOf(v) : \A i \in Numbers(v, d) : Entry(SlotIn(u, d, i)) <=> Entry(SlotIn(v, d, i))
      BY <2>3 DEF Entry
    <2> QED
      BY <1>7, <1>12, <2>1, <2>3, <2>4 DEF ShortOK
  <1>13. ASSUME NEW w, NEW t, Good(w, t, v), s.first \notin DOMAIN w, s.first \in t,
                \/ e <= Len(ChainOf(v.fat, s.first)) 
                \/ e = Len(ChainOf(v.fat, s.first)) + 1
         PROVE  Good(w, t, u)
    <2>1. SizesOK(t, u)
      <3> SUFFICES ASSUME NEW q \in EntriesOf(v)
                   PROVE  LET sl == SlotAt(u, q)
                              n == Len(ChainOf(u.fat, sl.first))
                          IN  sl.size <= n \/ (sl.first \in t /\ sl.size = n + 1)
        BY <1>8 DEF SizesOK
      <3>1. CASE q = p
        BY <1>2, <1>3, <1>5, <1>13, <3>1
      <3>2. CASE q # p
        BY <1>2, <1>8, <1>13, <3>2 DEF SizesOK, Good
      <3> QED
        BY <3>1, <3>2
    <2>2. WantedOK(w, u)
      <3> SUFFICES ASSUME NEW f \in DOMAIN w
                   PROVE  FileOK(w[f], f, u)
        BY DEF WantedOK
      <3>1. FileOK(w[f], f, v) /\ f # s.first
        BY <1>13 DEF Good, WantedOK
      <3>2. w[f].at # p /\ w[f].dir \in DirsOf(u)
        BY <1>1, <1>5, <1>7, <3>1, FileHead DEF FileOK
      <3> QED
        BY <3>1, <3>2, SlotPutFile
    <2> QED
      BY <1>11, <1>12, <1>13, <2>1, <2>2 DEF Good
  <1>14. \A X : Tight(v, X) => Tight(u, X)
    BY <1>2, <1>10 DEF Tight
  <1> QED
    BY <1>5, <1>7, <1>8, <1>10, <1>11, <1>12, <1>13, <1>14

LEMMA FreshChain ==
    ASSUME NEW v, FatOK(v.fat), NEW f, Fresh(v, f)
    PROVE  ChainOf(v.fat, f) = <<f>> /\ InDir(v, f) = {f} /\ f \in Clusters
  <1> DEFINE s == ChainOf(v.fat, f)
  <1>1. IsHead(v.fat, f) /\ v.fat[f] = Eoc /\ f \in Clusters
    BY DEF Fresh, Loose, IsHead
  <1>2. /\ s \in Seq(Clusters) /\ Len(s) \in Nat /\ Len(s) >= 1 /\ s[1] = f
        /\ \A i \in 1..Len(s) : s[i] \in Clusters
        /\ \A i \in 1..(Len(s) - 1) : s[i + 1] = v.fat[s[i]]
        /\ InChain(v.fat, f) = {s[i] : i \in 1..Len(s)}
    BY <1>1, HeadChain
  <1> HIDE DEF s
  <1>3. Len(s) = 1
    <2> DEFINE n == Len(s)
    <2>1. n \in Nat /\ n >= 1
      BY <1>2
    <2>2. \A i \in 1..(n - 1) : s[i + 1] = v.fat[s[i]]
      BY <1>2
    <2>3. \A i \in 1..n : s[i] \in Clusters
      BY <1>2
    <2> HIDE DEF n
    <2>4. ASSUME n # 1
          PROVE  FALSE
      <3>1. 1 \in 1..(n - 1) /\ 2 \in 1..n /\ 1 + 1 = 2
        BY <2>1, <2>4
      <3>2. s[2] = Eoc
        BY <1>1, <1>2, <2>2, <3>1
      <3> QED
        BY <2>3, <3>1, <3>2, LinksAre
    <2> QED
      BY <2>4 DEF n
  <1>4. s = <<f>>
    BY <1>2, <1>3
  <1>5. InChain(v.fat, f) = {f}
    BY <1>2, <1>3
  <1> QED
    BY <1>1, <1>4, <1>5 DEF s, InDir

\* A new file's or directory's entry.
LEMMA EntryPut ==
    ASSUME NEW v, NEW u, NEW dir, NEW p, NEW s, SlotPut(v, u, dir, p, s),
           ~Entry(SlotAt(v, p)), NEW f, Fresh(v, f), NEW kind, NEW name, s = Slot(kind, name, f),
           kind = "file" \/ (kind = "dir" /\ dir = RootDir),
           name \notin LongNames =>
             /\ \A i, j \in Numbers(v, dir) :
                  Place(v, dir, i) = p /\ j < i => SlotIn(v, dir, j).kind # "end"
             /\ \A j \in Numbers(v, dir) : Entry(SlotIn(v, dir, j)) => SlotIn(v, dir, j).name # name
    PROVE  /\ Keeps(v, u) /\ SoundVol(u)
           /\ DirsOf(v) \subseteq DirsOf(u)
           /\ \A d \in DirsOf(u) : d \in DirsOf(v) \/ (d = f /\ kind = "dir")
           /\ kind = "dir" => f \in DirsOf(u)
           /\ FileOK([dir |-> dir, name |-> name, data |-> <<>>, at |-> p], f, u)
           /\ \A X : Tight(v, X) => Tight(u, X \ {f})
  <1>1. SoundVol(v) /\ dir \in DirsOf(v) /\ p \in SlotsIn(v, dir)
    BY DEF SlotPut
  <1>2. /\ u.fat = v.fat /\ \A d : InDir(u, d) = InDir(v, d) /\ SlotsIn(u, d) = SlotsIn(v, d)
        /\ SlotAt(u, p) = s
        /\ \A d \in DirsOf(v) : \A q \in SlotsIn(v, d) : q # p => SlotAt(u, q) = SlotAt(v, q)
    BY SlotPutIs
  <1>3. RootDir \in DirsOf(v) /\ DirsOf(v) \subseteq Heads(v)
    BY <1>1, DirsAre, SoundIs
  <1>4. s.kind = kind /\ s.name = name /\ s.first = f /\ s.size = 0 /\ Entry(s)
    BY DEF Slot, Entry
  <1>5. SlotAt(v, p).kind # "dir"
    BY DEF Entry
  <1>6. f \notin Heads(v) /\ IsHead(v.fat, f) /\ f # p[1] /\ v.sec[f] = Blank /\ Loose(v, f)
    BY SlotPutIs DEF Fresh, Loose, IsHead
  <1>7. ChainOf(v.fat, f) = <<f>> /\ InDir(v, f) = {f} /\ f \in Clusters /\ FatOK(v.fat)
    BY <1>1, SoundIs, FreshChain
  <1>8. u.sec[f] = Blank /\ \A q \in SlotsIn(v, f) : ~Entry(SlotAt(u, q)) /\ SlotAt(u, q).kind = "end"
    <2>1. u.sec[f] = Blank
      BY <1>6, <1>7, SlotPutIs
    <2> QED
      BY <1>7, <2>1, BlankIs DEF SlotsIn, SlotAt
  <1>9. /\ DirsOf(v) \subseteq DirsOf(u)
        /\ \A d \in DirsOf(u) : d \in DirsOf(v) \/ (d = f /\ kind = "dir")
        /\ kind = "dir" => f \in DirsOf(u)
    <2>1. \A q \in SlotsIn(v, RootDir) : q # p => SlotAt(u, q) = SlotAt(v, q)
      BY <1>2, <1>3
    <2>2. \A d \in DirsOf(v) : d \in DirsOf(u)
      BY <1>2, <1>5, <2>1, DirsAre
    <2>3. \A d \in DirsOf(u) : d \in DirsOf(v) \/ (d = f /\ kind = "dir")
      BY <1>2, <1>4, <2>1, DirsAre
    <2>4. kind = "dir" => f \in DirsOf(u)
      BY <1>1, <1>2, <1>4, DirsAre
    <2> QED
      BY <2>2, <2>3, <2>4
  <1>10. p \in Places /\ p \notin EntriesOf(v) /\ p \in EntriesOf(u)
    BY <1>1, <1>2, <1>4, <1>9, SoundIs DEF EntriesOf
  <1>11. \A q \in EntriesOf(v) : q \in EntriesOf(u) /\ SlotAt(u, q) = SlotAt(v, q)
    BY <1>2, <1>9, <1>10 DEF EntriesOf
  <1>12. \A q \in EntriesOf(u) : q \in EntriesOf(v) \/ q = p
    <2> SUFFICES ASSUME NEW q \in EntriesOf(u), q # p
                 PROVE  q \in EntriesOf(v)
      OBVIOUS
    <2>1. PICK d \in DirsOf(u) : q \in SlotsIn(v, d)
      BY <1>2 DEF EntriesOf
    <2>2. Entry(SlotAt(u, q)) /\ q \in Places
      BY DEF EntriesOf
    <2>3. d \in DirsOf(v)
      BY <1>8, <1>9, <2>1, <2>2
    <2> QED
      BY <1>2, <2>1, <2>2, <2>3 DEF EntriesOf
  <1>13. Heads(u) = Heads(v) \cup {f}
    <2>1. \A h : h \in Heads(u) <=> h \in Heads(v) \/ h = f
      BY <1>2, <1>4, <1>10, <1>11, <1>12, HeadsAre
    <2> QED
      BY <2>1
  <1>14. SoundVol(u)
    <2>1. \A q \in EntriesOf(u) :
            /\ IsHead(u.fat, SlotAt(u, q).first) /\ SlotAt(u, q).first # RootDir
            /\ SlotAt(u, q).kind = "file" \/ SlotAt(u, q).size = 0
      BY <1>1, <1>2, <1>3, <1>4, <1>6, <1>11, <1>12 DEF SoundVol
    <2>2. \A q, r \in EntriesOf(u) : SlotAt(u, q).first = SlotAt(u, r).first => q = r
      BY <1>1, <1>2, <1>4, <1>6, <1>11, <1>12, HeadsAre DEF SoundVol
    <2>3. \A d \in DirsOf(u) : \A c \in InDir(u, d) : u.sec[c] \in [1..PerCluster -> Slots]
      <3>1. \A d \in DirsOf(v) : \A c \in InDir(v, d) : u.sec[c] \in [1..PerCluster -> Slots]
        BY SlotPutIs
      <3>2. \A c \in InDir(v, f) : u.sec[c] \in [1..PerCluster -> Slots]
        BY <1>7, <1>8, BlankIs
      <3> QED
        BY <1>2, <1>9, <3>1, <3>2
    <2> QED
      BY <1>1, <1>2, <2>1, <2>2, <2>3 DEF SoundVol
  <1>15. ASSUME NEW t, SizesOK(t, v)
         PROVE  SizesOK(t, u)
    <2> SUFFICES ASSUME NEW q \in EntriesOf(u)
                 PROVE  LET sl == SlotAt(u, q)
                            n == Len(ChainOf(u.fat, sl.first))
                        IN  sl.size <= n \/ (sl.first \in t /\ sl.size = n + 1)
      BY DEF SizesOK
    <2>1. CASE q = p
      <3>1. Len(ChainOf(u.fat, f)) = 1
        BY <1>2, <1>7
      <3> QED
        BY <1>2, <1>4, <2>1, <3>1
    <2>2. CASE q # p
      BY <1>2, <1>11, <1>12, <1>15, <2>2 DEF SizesOK
    <2> QED
      BY <2>1, <2>2
  <1>16. \A g, file : FileOK(file, g, v) => FileOK(file, g, u)
    <2> SUFFICES ASSUME NEW g, NEW file, FileOK(file, g, v)
                 PROVE  FileOK(file, g, u)
      OBVIOUS
    <2>1. file.at # p /\ file.dir \in DirsOf(u)
      BY <1>9 DEF FileOK
    <2> QED
      BY <2>1, SlotPutFile
  <1>17. ASSUME ShortOK(v)
         PROVE  ShortOK(u)
    <2>1. /\ \A d : Numbers(u, d) = Numbers(v, d)
          /\ \A d \in DirsOf(v) : \A i \in Numbers(v, d) :
                IF d = dir /\ Place(v, d, i) = p
                THEN SlotIn(u, d, i) = s
                ELSE SlotIn(u, d, i) = SlotIn(v, d, i)
          /\ \A i, j \in Numbers(v, dir) : Place(v, dir, i) = p /\ Place(v, dir, j) = p => i = j
      BY SlotPutNumbers
    <2> SUFFICES ASSUME NEW d \in DirsOf(u), NEW i \in Numbers(v, d),
                        Entry(SlotIn(u, d, i)), SlotIn(u, d, i).name \notin LongNames,
                        NEW j \in Numbers(v, d)
                 PROVE  /\ j <= i => SlotIn(u, d, j).kind # "end"
                        /\ Entry(SlotIn(u, d, j)) /\ SlotIn(u, d, j).name = SlotIn(u, d, i).name => j = i
      BY <2>1 DEF ShortOK
    <2>2. d \in DirsOf(v)
      <3> SUFFICES ASSUME d \notin DirsOf(v) PROVE FALSE
        OBVIOUS
      <3>1. d = f
        BY <1>9
      <3>2. Place(u, f, i) \in SlotsIn(u, f)
        BY <1>9, <1>14, <2>1, <3>1, SlotNumbers
      <3> QED
        BY <1>2, <1>8, <3>1, <3>2 DEF SlotIn
    <2>3. /\ Entry(SlotIn(v, d, i)) /\ SlotIn(v, d, i).name \notin LongNames =>
                /\ j <= i => SlotIn(v, d, j).kind # "end"
                /\ Entry(SlotIn(v, d, j)) /\ SlotIn(v, d, j).name = SlotIn(v, d, i).name => j = i
          /\ Entry(SlotIn(v, d, j)) /\ SlotIn(v, d, j).name \notin LongNames /\
             Entry(SlotIn(v, d, i)) /\ SlotIn(v, d, j).name = SlotIn(v, d, i).name => j = i
      BY <1>17, <2>2 DEF ShortOK
    <2>4. i \in Nat /\ j \in Nat
      BY <1>1, <2>2, SlotNumbers
    <2>5. s.kind # "end"
      BY <1>4
    <2>6. CASE d = dir /\ Place(v, d, i) = p
      <3>1. SlotIn(u, d, i) = s /\ name \notin LongNames
        BY <1>4, <2>1, <2>2, <2>6
      <3>2. j # i => SlotIn(u, d, j) = SlotIn(v, d, j)
        BY <2>1, <2>2, <2>6
      <3> QED
        BY <1>4, <2>4, <2>5, <2>6, <3>1, <3>2
    <2>7. CASE ~(d = dir /\ Place(v, d, i) = p)
      <3>1. SlotIn(u, d, i) = SlotIn(v, d, i)
        BY <2>1, <2>2, <2>7
      <3>2. CASE d = dir /\ Place(v, d, j) = p
        <4>1. SlotIn(u, d, j) = s
          BY <2>1, <2>2, <3>2
        <4>2. name \notin LongNames => SlotIn(v, d, i).name # name
          BY <3>1, <3>2
        <4> QED
          BY <1>4, <2>5, <3>1, <4>1, <4>2
      <3>3. CASE ~(d = dir /\ Place(v, d, j) = p)
        <4>1. SlotIn(u, d, j) = SlotIn(v, d, j)
          BY <2>1, <2>2, <3>3
        <4> QED
          BY <2>3, <3>1, <4>1
      <3> QED
        BY <3>2, <3>3
    <2> QED
      BY <2>6, <2>7
  <1>18. Keeps(v, u)
    BY <1>14, <1>15, <1>16, <1>17 DEF Keeps, Good, WantedOK
  <1>19. FileOK([dir |-> dir, name |-> name, data |-> <<>>, at |-> p], f, u)
    <2>1. ChainOf(u.fat, f) = <<f>> /\ Len(<<f>>) = 1 /\ <<f>>[1] = f /\ Len(<<>>) = 0
      BY <1>2, <1>7
    <2>2. dir \in DirsOf(u) /\ p \in SlotsIn(u, dir)
      BY <1>1, <1>2, <1>9
    <2> QED
      BY <1>2, <1>4, <1>8, <2>1, <2>2 DEF FileOK
  <1>20. ASSUME NEW X, Tight(v, X)
         PROVE  Tight(u, X \ {f})
    <2>1. f \in InDir(u, f) /\ f \in Heads(u)
      BY <1>2, <1>7, <1>13
    <2> QED
      BY <1>2, <1>13, <1>20, <2>1 DEF Tight
  <1> QED
    BY <1>9, <1>14, <1>18, <1>19, <1>20

\* An entry is deleted: what was its chain is no file's.
LEMMA EntryDeleted ==
    ASSUME NEW v, NEW u, NEW dir, NEW p, NEW s, SlotPut(v, u, dir, p, s),
           Entry(SlotAt(v, p)), s.kind = "deleted", NEW f, f = SlotAt(v, p).first
    PROVE  /\ SoundVol(u) /\ Loose(u, f) /\ u.fat = v.fat
           /\ \A w, t : Good(w, t, v) /\ (\A g \in DOMAIN w : g # f /\ w[g].dir # f) => Good(w, t, u)
           /\ (f \in DirsOf(v) => \A q \in SlotsIn(v, f) : ~Entry(SlotAt(v, q))) =>
                \A X : Tight(v, X) => Tight(u, X \cup InDir(v, f))
  <1>1. SoundVol(v) /\ dir \in DirsOf(v) /\ p \in SlotsIn(v, dir) /\ p \in EntriesOf(v)
    BY SoundIs DEF SlotPut
  <1>2. /\ u.fat = v.fat /\ \A d : InDir(u, d) = InDir(v, d) /\ SlotsIn(u, d) = SlotsIn(v, d)
        /\ SlotAt(u, p) = s
        /\ \A d \in DirsOf(v) : \A q \in SlotsIn(v, d) : q # p => SlotAt(u, q) = SlotAt(v, q)
    BY SlotPutIs
  <1>3. RootDir \in DirsOf(v) /\ DirsOf(v) \subseteq Heads(v)
    BY <1>1, DirsAre, SoundIs
  <1>4. ~Entry(s) /\ s.kind # "dir" /\ s.kind # "end"
    BY DEF Entry
  <1>5. f \in Heads(v) /\ IsHead(v.fat, f) /\ f # RootDir
    BY <1>1, HeadsAre DEF SoundVol
  <1>6. /\ \A d \in DirsOf(u) : d \in DirsOf(v) /\ d # f
        /\ \A d \in DirsOf(v) : d # f => d \in DirsOf(u)
    <2>1. \A q \in SlotsIn(v, RootDir) : q # p => SlotAt(u, q) = SlotAt(v, q)
      BY <1>2, <1>3
    <2>2. \A q \in SlotsIn(v, RootDir) : SlotAt(v, q).kind = "dir" => q \in EntriesOf(v)
      BY <1>1, <1>3, SoundIs DEF Entry
    <2>3. \A d \in DirsOf(u) : d \in DirsOf(v)
      BY <1>2, <1>4, <2>1, DirsAre
    <2>4. \A d \in DirsOf(u) : d # f
      BY <1>1, <1>2, <1>4, <1>5, <2>1, <2>2, DirsAre DEF SoundVol
    <2>5. \A d \in DirsOf(v) : d # f => d \in DirsOf(u)
      BY <1>2, <2>1, DirsAre
    <2> QED
      BY <2>3, <2>4, <2>5
  <1>7. \A q \in EntriesOf(u) : q \in EntriesOf(v) /\ q # p /\ SlotAt(u, q) = SlotAt(v, q)
    BY <1>2, <1>4, <1>6 DEF EntriesOf
  <1>8. \A q \in EntriesOf(v) : q # p /\ (f \in DirsOf(v) => q \notin SlotsIn(v, f)) => q \in EntriesOf(u)
    BY <1>2, <1>6 DEF EntriesOf
  <1>9. SoundVol(u)
    <2>1. \A q \in EntriesOf(u) :
            /\ IsHead(u.fat, SlotAt(u, q).first) /\ SlotAt(u, q).first # RootDir
            /\ SlotAt(u, q).kind = "file" \/ SlotAt(u, q).size = 0
      BY <1>1, <1>2, <1>7 DEF SoundVol
    <2>2. \A q, r \in EntriesOf(u) : SlotAt(u, q).first = SlotAt(u, r).first => q = r
      BY <1>1, <1>7 DEF SoundVol
    <2>3. \A d \in DirsOf(u) : \A c \in InDir(u, d) : u.sec[c] \in [1..PerCluster -> Slots]
      BY <1>2, <1>6, SlotPutIs
    <2> QED
      BY <1>1, <1>2, <2>1, <2>2, <2>3 DEF SoundVol
  <1>10. f \notin Heads(u)
    BY <1>1, <1>5, <1>7, HeadsAre DEF SoundVol
  <1>11. Loose(u, f)
    BY <1>2, <1>5, <1>10 DEF Loose
  <1>12. ASSUME NEW w, NEW t, Good(w, t, v), \A g \in DOMAIN w : g # f /\ w[g].dir # f
         PROVE  Good(w, t, u)
    <2>1. SizesOK(t, u)
      BY <1>2, <1>7, <1>12 DEF SizesOK, Good
    <2>2. WantedOK(w, u)
      <3> SUFFICES ASSUME NEW g \in DOMAIN w
                   PROVE  FileOK(w[g], g, u)
        BY DEF WantedOK
      <3>1. FileOK(w[g], g, v) /\ g # f /\ w[g].dir # f
        BY <1>12 DEF Good, WantedOK
      <3>2. w[g].at # p /\ w[g].dir \in DirsOf(u)
        BY <1>6, <3>1 DEF FileOK
      <3> QED
        BY <3>1, <3>2, SlotPutFile
    <2>3. ShortOK(u)
      <3>1. /\ \A d : Numbers(u, d) = Numbers(v, d)
            /\ \A d \in DirsOf(v) : \A i \in Numbers(v, d) :
                 SlotIn(u, d, i) = SlotIn(v, d, i) \/ SlotIn(u, d, i) = s
        BY SlotPutNumbers
      <3>2. \A d \in DirsOf(v) : \A i \in Numbers(v, d) :
              /\ Entry(SlotIn(u, d, i)) => SlotIn(u, d, i) = SlotIn(v, d, i)
              /\ SlotIn(u, d, i).kind = "end" => SlotIn(v, d, i).kind = "end"
        BY <1>4, <3>1
      <3>3. ShortOK(v)
        BY <1>12 DEF Good
      <3> QED
        BY <1>6, <3>1, <3>2, <3>3 DEF ShortOK
    <2> QED
      BY <1>9, <2>1, <2>2, <2>3 DEF Good
  <1>13. ASSUME f \in DirsOf(v) => \A q \in SlotsIn(v, f) : ~Entry(SlotAt(v, q)), NEW X, Tight(v, X)
         PROVE  Tight(u, X \cup InDir(v, f))
    <2>1. \A h \in Heads(v) : h # f => h \in Heads(u)
      <3>1. \A q \in EntriesOf(v) : q # p => q \in EntriesOf(u)
        BY <1>8, <1>13 DEF EntriesOf
      <3> QED
        BY <1>7, <3>1, HeadsAre
    <2> QED
      BY <1>2, <1>13, <2>1 DEF Tight
  <1> QED
    BY <1>2, <1>9, <1>11, <1>12, <1>13

-----------------------------------------------------------------------------
\* Less is wanted, or more files may owe a cluster.
LEMMA GoodWeaker ==
    ASSUME NEW v, NEW w, NEW t, Good(w, t, v),
           NEW w2, DOMAIN w2 \subseteq DOMAIN w, \A f \in DOMAIN w2 : w2[f] = w[f],
           NEW t2, t \subseteq t2
    PROVE  Good(w2, t2, v)
  <1>1. SizesOK(t2, v)
    BY DEF Good, SizesOK
  <1>2. WantedOK(w2, v)
    BY DEF Good, WantedOK
  <1> QED
    BY <1>1, <1>2 DEF Good

\* A file that is not there, or whose size is covered, owes nothing.
LEMMA GoodNotTorn ==
    ASSUME NEW v, NEW w, NEW t, Good(w, t, v), NEW t2, NEW f, t \subseteq t2 \cup {f},
           \A p \in EntriesOf(v) : SlotAt(v, p).first = f => SlotAt(v, p).size <= Len(ChainOf(v.fat, f))
    PROVE  Good(w, t2, v)
  <1>1. SizesOK(t2, v)
    BY DEF Good, SizesOK
  <1> QED
    BY <1>1 DEF Good

\* A file more is wanted.
LEMMA GoodWith ==
    ASSUME NEW v, NEW w, NEW t, Good(w, t, v), NEW w2, NEW f,
           DOMAIN w2 \subseteq DOMAIN w \cup {f}, \A g \in DOMAIN w2 : g # f => w2[g] = w[g],
           f \in DOMAIN w2 => FileOK(w2[f], f, v)
    PROVE  Good(w2, t, v)
  <1>1. WantedOK(w2, v)
    BY DEF Good, WantedOK
  <1> QED
    BY <1>1 DEF Good

-----------------------------------------------------------------------------
(* The driver in the middle of an operation.                                *)

\* The sector writes, and the driver with the disk in the middle of an operation.
Writes == {FatWrite(s, fat) : s \in FatSectors \cup {NoSector}, fat \in [Clusters -> Links]}
          \cup {SectorWrite(c, x) : c \in Clusters, x \in Sectors}

Drivers == [fat : [Clusters -> Links], cache : FatSectors \cup {NoSector}, dirty : BOOLEAN,
            hint : Clusters, sec : [Clusters -> Sectors], log : Seq(Writes), ok : BOOLEAN]

\* The volume as the driver sees it.
Mem(d) == [fat |-> d.fat, sec |-> d.sec]

\* One cell of a volume is changed.
FatPut(v, c, n) == [v EXCEPT !.fat[c] = n]
SecPut(v, c, x) == [v EXCEPT !.sec[c] = x]

LEMMA FatPutIs ==
    ASSUME NEW v \in Disks, NEW c \in Clusters, NEW n \in Links
    PROVE  /\ FatPut(v, c, n) \in Disks
           /\ FatPut(v, c, n).sec = v.sec
           /\ FatPut(v, c, n).fat[c] = n
           /\ \A y \in Clusters : y # c => FatPut(v, c, n).fat[y] = v.fat[y]
  <1>1. v.fat \in [Clusters -> Links] /\ FatPut(v, c, n).fat = [v.fat EXCEPT ![c] = n]
    BY DEF FatPut, Disks
  <1>2. FatPut(v, c, n) \in Disks /\ FatPut(v, c, n).sec = v.sec
    BY DEF FatPut, Disks
  <1> QED
    BY <1>1, <1>2

LEMMA SecPutIs ==
    ASSUME NEW v \in Disks, NEW c \in Clusters, NEW x \in Sectors
    PROVE  /\ SecPut(v, c, x) \in Disks /\ SecPut(v, c, x).fat = v.fat
           /\ SecPut(v, c, x).sec[c] = x
           /\ \A y \in Clusters : y # c => SecPut(v, c, x).sec[y] = v.sec[y]
  <1>1. /\ SecPut(v, c, x) \in Disks /\ SecPut(v, c, x).fat = v.fat
        /\ SecPut(v, c, x).sec = [v.sec EXCEPT ![c] = x]
    BY DEF SecPut, Disks
  <1>2. v.sec \in [Clusters -> Sectors]
    BY DEF Disks
  <1> QED
    BY <1>1, <1>2

\* The writes of the log lead from disk b to disk v, through volumes of G.
Shown(G, b, log, v) ==
    \E ds \in [0..Len(log) -> G] :
        /\ ds[0] = b /\ ds[Len(log)] = v
        /\ \A k \in 1..Len(log) : ds[k] = Written(ds[k - 1], log[k])

\* Disk v lacks what is in the cached sector of the FAT only.
Behind(d, v) ==
    /\ v.sec = d.sec
    /\ ~d.dirty => v = Mem(d)
    /\ \A c \in Clusters : FatSector(c) # d.cache => v.fat[c] = d.fat[c]

\* The driver began on disk b and has brought it to v.
InOp(G, b, d, v) ==
    /\ d \in Drivers /\ G \subseteq Disks
    /\ Mem(d) \in G /\ v \in G
    /\ Behind(d, v)
    /\ Shown(G, b, d.log, v)

LEMMA ShownMore ==
    ASSUME NEW G, NEW b, NEW log \in Seq(Writes), NEW v, Shown(G, b, log, v),
           NEW w \in Writes, Written(v, w) \in G
    PROVE  Shown(G, b, Append(log, w), Written(v, w))
  <1> DEFINE n == Len(log)
             more == Append(log, w)
  <1>1. PICK ds \in [0..n -> G] :
          /\ ds[0] = b /\ ds[n] = v
          /\ \A k \in 1..n : ds[k] = Written(ds[k - 1], log[k])
    BY DEF Shown
  <1>2. n \in Nat /\ Len(more) = n + 1 /\ more[n + 1] = w /\ \A k \in 1..n : more[k] = log[k]
    OBVIOUS
  <1> HIDE DEF n, more
  <1> DEFINE es == [k \in 0..(n + 1) |-> IF k = n + 1 THEN Written(v, w) ELSE ds[k]]
  <1>3. \A k \in 0..n : es[k] = ds[k] /\ k \in 0..(n + 1)
    BY <1>2
  <1>4. es[n + 1] = Written(v, w) /\ n + 1 \in 0..(n + 1) /\ n + 1 # 0
    BY <1>2
  <1>5. es \in [0..(n + 1) -> G]
    BY <1>1, <1>2
  <1> HIDE DEF es
  <1>6. es[0] = b
    BY <1>1, <1>2, <1>3
  <1>7. ASSUME NEW k \in 1..(n + 1)
        PROVE  es[k] = Written(es[k - 1], more[k])
    <2>1. CASE k = n + 1
      <3>1. es[k - 1] = v
        BY <1>1, <1>2, <1>3, <2>1
      <3> QED
        BY <1>2, <1>4, <2>1, <3>1
    <2>2. CASE k # n + 1
      <3>1. k \in 1..n /\ k \in 0..n /\ k - 1 \in 0..n
        BY <1>2, <2>2
      <3> QED
        BY <1>1, <1>2, <1>3, <3>1
    <2> QED
      BY <2>1, <2>2
  <1> QED
    BY <1>2, <1>4, <1>5, <1>6, <1>7 DEF Shown, more

\* What the sector writes do.
LEMMA WrittenIs ==
    /\ \A v \in Disks, fat \in [Clusters -> Links] : \A s :
         Written(v, FatWrite(s, fat)) =
           [fat |-> [c \in Clusters |-> IF FatSector(c) = s THEN fat[c] ELSE v.fat[c]], sec |-> v.sec]
    /\ \A v \in Disks, c \in Clusters, x \in Sectors :
         Written(v, SectorWrite(c, x)) = [v EXCEPT !.sec[c] = x]
  <1>1. ASSUME NEW v \in Disks, NEW s, NEW fat \in [Clusters -> Links]
        PROVE  Written(v, FatWrite(s, fat)) =
           [fat |-> [c \in Clusters |-> IF FatSector(c) = s THEN fat[c] ELSE v.fat[c]], sec |-> v.sec]
    <2> DEFINE put == [c \in {y \in Clusters : FatSector(y) = s} |-> fat[c]]
               new == [c \in Clusters |-> IF c \in DOMAIN put THEN put[c] ELSE v.fat[c]]
    <2>1. FatWrite(s, fat) = [to |-> "fat", put |-> put]
      BY DEF FatWrite
    <2>2. Written(v, FatWrite(s, fat)) = [v EXCEPT !.fat = new]
      BY <2>1 DEF Written
    <2>3. new = [c \in Clusters |-> IF FatSector(c) = s THEN fat[c] ELSE v.fat[c]]
      OBVIOUS
    <2> HIDE DEF new
    <2>4. v = [fat |-> v.fat, sec |-> v.sec]
      BY DEF Disks
    <2> QED
      BY <2>2, <2>3, <2>4
  <1>2. ASSUME NEW v \in Disks, NEW c \in Clusters, NEW x \in Sectors
        PROVE  Written(v, SectorWrite(c, x)) = [v EXCEPT !.sec[c] = x]
    <2> DEFINE put == [y \in {c} |-> x]
               new == [y \in Clusters |-> IF y \in DOMAIN put THEN put[y] ELSE v.sec[y]]
    <2>1. SectorWrite(c, x) = [to |-> "data", put |-> put]
      BY DEF SectorWrite
    <2>2. Written(v, SectorWrite(c, x)) = [v EXCEPT !.sec = new]
      BY <2>1 DEF Written
    <2>3. v.sec \in [Clusters -> Sectors]
      BY DEF Disks
    <2>4. new = [v.sec EXCEPT ![c] = x]
      BY <2>3
    <2> HIDE DEF new
    <2> QED
      BY <2>2, <2>4
  <1> QED
    BY <1>1, <1>2

LEMMA SyncIs ==
    ASSUME NEW G, NEW b, NEW d, NEW v, InOp(G, b, d, v)
    PROVE  /\ InOp(G, b, Sync(d), Mem(d)) /\ ~Sync(d).dirty /\ Mem(Sync(d)) = Mem(d)
           /\ Sync(d).fat = d.fat /\ Sync(d).sec = d.sec /\ Sync(d).cache = d.cache
           /\ Sync(d).hint = d.hint /\ Sync(d).ok = d.ok
  <1>1. /\ d \in Drivers /\ G \subseteq Disks /\ Mem(d) \in G /\ v \in G /\ v \in Disks
        /\ Behind(d, v) /\ Shown(G, b, d.log, v)
    BY DEF InOp
  <1>2. CASE ~d.dirty
    BY <1>1, <1>2 DEF Sync, Behind, InOp
  <1>3. CASE d.dirty
    <2> DEFINE w == FatWrite(d.cache, d.fat)
               e == Sync(d)
    <2>1. /\ e = [d EXCEPT !.dirty = FALSE, !.log = Append(d.log, w)]
      BY <1>3 DEF Sync
    <2>2. /\ d.fat \in [Clusters -> Links] /\ d.cache \in FatSectors \cup {NoSector}
          /\ d.log \in Seq(Writes)
      BY <1>1 DEF Drivers
    <2>3. w \in Writes
      BY <2>2 DEF Writes
    <2>4. Written(v, w) = [fat |-> [c \in Clusters |-> IF FatSector(c) = d.cache THEN d.fat[c] ELSE v.fat[c]],
                           sec |-> v.sec]
      BY <1>1, <2>2, WrittenIs
    <2>5. [c \in Clusters |-> IF FatSector(c) = d.cache THEN d.fat[c] ELSE v.fat[c]] = d.fat
      BY <1>1, <2>2 DEF Behind
    <2>6. Written(v, w) = Mem(d)
      BY <1>1, <2>4, <2>5 DEF Mem, Behind
    <2> HIDE DEF w
    <2>7. Append(d.log, w) \in Seq(Writes)
      BY <2>2, <2>3
    <2>8. /\ e \in Drivers /\ ~e.dirty /\ e.log = Append(d.log, w)
          /\ e.fat = d.fat /\ e.sec = d.sec /\ e.cache = d.cache /\ e.hint = d.hint /\ e.ok = d.ok
      BY <1>1, <2>1, <2>7 DEF Drivers
    <2>9. Shown(G, b, e.log, Mem(d))
      BY <1>1, <2>2, <2>3, <2>6, <2>8, ShownMore
    <2> HIDE DEF e
    <2>10. Mem(e) = Mem(d) /\ Behind(e, Mem(d))
      BY <2>8 DEF Mem, Behind
    <2> QED
      BY <1>1, <2>8, <2>9, <2>10 DEF InOp, e
  <1> QED
    BY <1>2, <1>3

LEMMA SectorOf == \A c \in Clusters : FatSector(c) \in FatSectors
  BY DEF FatSectors

\* The cached sector becomes another one, or the driver has nothing to write.
LEMMA CacheIs ==
    ASSUME NEW G, NEW b, NEW d, NEW v, InOp(G, b, d, v), NEW s \in FatSectors
    PROVE  LET e == [Sync(d) EXCEPT !.cache = s]
           IN  /\ InOp(G, b, e, Mem(d)) /\ ~e.dirty /\ Mem(e) = Mem(d)
               /\ e.fat = d.fat /\ e.sec = d.sec /\ e.cache = s /\ e.hint = d.hint /\ e.ok = d.ok
  <1> DEFINE e == [Sync(d) EXCEPT !.cache = s]
             f == Sync(d)
  <1>1. /\ InOp(G, b, f, Mem(d)) /\ ~f.dirty /\ Mem(f) = Mem(d)
        /\ f.fat = d.fat /\ f.sec = d.sec /\ f.hint = d.hint /\ f.ok = d.ok
    BY SyncIs
  <1> HIDE DEF f
  <1>2. f \in Drivers
    BY <1>1 DEF InOp
  <1>3. e = [f EXCEPT !.cache = s]
    BY DEF f
  <1>4. /\ e \in Drivers /\ ~e.dirty /\ e.log = f.log
        /\ e.fat = f.fat /\ e.sec = f.sec /\ e.cache = s /\ e.hint = f.hint /\ e.ok = f.ok
    BY <1>1, <1>2, <1>3 DEF Drivers
  <1>5. Mem(e) = Mem(d) /\ Behind(e, Mem(d))
    BY <1>1, <1>4 DEF Mem, Behind
  <1>6. InOp(G, b, e, Mem(d))
    BY <1>1, <1>4, <1>5 DEF InOp
  <1> QED
    BY <1>1, <1>4, <1>5, <1>6

LEMMA GetIs ==
    ASSUME NEW G, NEW b, NEW d, NEW v, InOp(G, b, d, v), NEW c \in Clusters
    PROVE  LET e == Get(d, c)
           IN  /\ InOp(G, b, e, v) \/ (InOp(G, b, e, Mem(d)) /\ ~e.dirty)
               /\ ~d.dirty => ~e.dirty
               /\ Mem(e) = Mem(d)
               /\ e.fat = d.fat /\ e.sec = d.sec /\ e.cache = FatSector(c) /\ e.hint = d.hint /\ e.ok = d.ok
  <1> DEFINE e == Get(d, c)
  <1>1. CASE FatSector(c) = d.cache
    BY <1>1 DEF Get
  <1>2. CASE FatSector(c) # d.cache
    <2>1. e = [Sync(d) EXCEPT !.cache = FatSector(c)]
      BY <1>2 DEF Get
    <2>2. FatSector(c) \in FatSectors
      BY SectorOf
    <2> DEFINE s == FatSector(c)
    <2> HIDE DEF s
    <2>3. s \in FatSectors /\ e = [Sync(d) EXCEPT !.cache = s]
      BY <2>1, <2>2 DEF s
    <2>4. /\ InOp(G, b, e, Mem(d)) /\ ~e.dirty /\ Mem(e) = Mem(d)
          /\ e.fat = d.fat /\ e.sec = d.sec /\ e.cache = s /\ e.hint = d.hint /\ e.ok = d.ok
      BY <2>3, CacheIs
    <2> QED
      BY <2>4 DEF s
  <1> QED
    BY <1>1, <1>2

LEMMA SetNextIs ==
    ASSUME NEW G, NEW b, NEW d, NEW v, InOp(G, b, d, v), NEW c \in Clusters, NEW n \in Links,
           FatPut(Mem(d), c, n) \in G
    PROVE  LET e == SetNext(d, c, n)
           IN  /\ InOp(G, b, e, v) \/ InOp(G, b, e, Mem(d))
               /\ Mem(e) = FatPut(Mem(d), c, n)
               /\ e.sec = d.sec
               /\ e.hint = d.hint /\ e.ok = d.ok
  <1> DEFINE e == SetNext(d, c, n)
             f == Get(d, c)
  <1>1. /\ InOp(G, b, f, v) \/ InOp(G, b, f, Mem(d))
        /\ Mem(f) = Mem(d)
        /\ f.fat = d.fat /\ f.sec = d.sec /\ f.cache = FatSector(c) /\ f.hint = d.hint /\ f.ok = d.ok
    BY GetIs
  <1>2. e = [f EXCEPT !.fat[c] = n, !.dirty = TRUE]
    BY DEF SetNext
  <1> HIDE DEF f
  <1>3. PICK x : InOp(G, b, f, x) /\ (x = v \/ x = Mem(d))
    BY <1>1
  <1>4. f \in Drivers
    BY <1>3 DEF InOp
  <1>5. f.fat \in [Clusters -> Links]
    BY <1>4 DEF Drivers
  <1>6. /\ e \in Drivers /\ e.dirty /\ e.log = f.log
        /\ e.fat = [f.fat EXCEPT ![c] = n] /\ e.sec = f.sec /\ e.cache = f.cache
        /\ e.hint = f.hint /\ e.ok = f.ok
    BY <1>2, <1>4, <1>5 DEF Drivers
  <1>7. Mem(e) = FatPut(Mem(d), c, n)
    BY <1>1, <1>6 DEF Mem, FatPut
  <1>8. Behind(e, x)
    <2>1. \A y \in Clusters : FatSector(y) # e.cache => y # c /\ x.fat[y] = f.fat[y]
      BY <1>1, <1>3, <1>6 DEF InOp, Behind
    <2>2. \A y \in Clusters : y # c => e.fat[y] = f.fat[y]
      BY <1>5, <1>6
    <2>3. x.sec = e.sec
      BY <1>3, <1>6 DEF InOp, Behind
    <2> QED
      BY <1>6, <2>1, <2>2, <2>3 DEF Behind
  <1>9. InOp(G, b, e, x)
    BY <1>3, <1>6, <1>7, <1>8 DEF InOp
  <1> QED
    BY <1>1, <1>3, <1>6, <1>7, <1>9

LEMMA PutIs ==
    ASSUME NEW G, NEW b, NEW d, NEW v, InOp(G, b, d, v), NEW c \in Clusters, NEW x \in Sectors,
           SecPut(Mem(d), c, x) \in G, SecPut(v, c, x) \in G
    PROVE  LET e == Put(d, c, x)
           IN  /\ InOp(G, b, e, SecPut(v, c, x))
               /\ Mem(e) = SecPut(Mem(d), c, x)
               /\ e.fat = d.fat
               /\ e.cache = d.cache /\ e.dirty = d.dirty /\ e.hint = d.hint /\ e.ok = d.ok
  <1> DEFINE e == Put(d, c, x)
             w == SectorWrite(c, x)
             u == SecPut(v, c, x)
  <1>1. /\ d \in Drivers /\ G \subseteq Disks /\ Mem(d) \in G /\ v \in G /\ v \in Disks
        /\ Behind(d, v) /\ Shown(G, b, d.log, v)
    BY DEF InOp
  <1>2. w \in Writes /\ Written(v, w) = u
    BY <1>1, WrittenIs DEF Writes, SecPut
  <1>3. e = [d EXCEPT !.sec[c] = x, !.log = Append(d.log, w)]
    BY DEF Put
  <1>4. d.log \in Seq(Writes) /\ d.sec \in [Clusters -> Sectors]
    BY <1>1 DEF Drivers
  <1>5. Shown(G, b, Append(d.log, w), u)
    BY <1>1, <1>2, <1>4, ShownMore
  <1> HIDE DEF w
  <1>6. Append(d.log, w) \in Seq(Writes)
    BY <1>2, <1>4
  <1>7. /\ e \in Drivers /\ e.log = Append(d.log, w)
        /\ e.fat = d.fat /\ e.sec = [d.sec EXCEPT ![c] = x]
        /\ e.cache = d.cache /\ e.dirty = d.dirty /\ e.hint = d.hint /\ e.ok = d.ok
    BY <1>1, <1>3, <1>4, <1>6 DEF Drivers
  <1>8. Mem(e) = SecPut(Mem(d), c, x)
    BY <1>7 DEF Mem, SecPut
  <1>9. u.fat = v.fat /\ u.sec = [v.sec EXCEPT ![c] = x]
    BY <1>1 DEF SecPut, Disks
  <1>10. Behind(e, u)
    <2>1. v = Mem(d) => u = Mem(e)
      BY <1>8
    <2> QED
      BY <1>1, <1>7, <1>9, <2>1 DEF Behind
  <1>11. InOp(G, b, e, u)
    BY <1>1, <1>5, <1>7, <1>8, <1>10 DEF InOp
  <1> QED
    BY <1>7, <1>8, <1>11

LEMMA SearchIs ==
    ASSUME NEW d, d.hint \in Clusters
    PROVE  /\ Search(d) \in Seq(Clusters) /\ Len(Search(d)) \in Nat \ {0}
           /\ Last(Search(d)) \in Clusters
           /\ NextFree(d) = Unused \/ (NextFree(d) \in Clusters /\ d.fat[NextFree(d)] = Unused)
  <1> DEFINE order == SearchOrder(d.hint)
             found == {k \in DOMAIN order : d.fat[order[k]] = Unused}
             m == Limit - 2
  <1>1. m \in Nat \ {0} /\ d.hint \in Int
    BY FatAssumption DEF Clusters
  <1>2. \A k \in 1..m : 2 + ((d.hint - 2 + k - 1) % m) \in Clusters
    <2> SUFFICES ASSUME NEW k \in 1..m
                 PROVE  2 + ((d.hint - 2 + k - 1) % m) \in Clusters
      OBVIOUS
    <2> DEFINE x == d.hint - 2 + k - 1
               r == x % m
    <2>1. x \in Int
      BY <1>1
    <2> HIDE DEF x, m
    <2>2. r \in 0..(m - 1)
      BY <1>1, <2>1, DivMod
    <2> HIDE DEF r
    <2>3. 2 + r \in Clusters
      BY <1>1, <2>2, FatAssumption DEF Clusters, m
    <2> QED
      BY <2>3 DEF r, x
  <1>3. order = [k \in 1..m |-> 2 + ((d.hint - 2 + k - 1) % m)]
    BY DEF SearchOrder
  <1> HIDE DEF m
  <1>4. order \in Seq(Clusters) /\ Len(order) = m /\ DOMAIN order = 1..m
    <2>1. order \in [1..m -> Clusters]
      BY <1>2, <1>3
    <2> HIDE DEF order
    <2> QED
      BY <1>1, <2>1
  <1>5. Search(d) = IF found = {} THEN order ELSE SubSeq(order, 1, Min(found))
    BY DEF Search
  <1> HIDE DEF order
  <1>6. found # {} => Min(found) \in 1..m
    <2>1. found \in SUBSET Nat /\ found \subseteq 1..m
      BY <1>1, <1>4
    <2> HIDE DEF found
    <2> QED
      BY <2>1, MinIs
  <1> HIDE DEF found
  <1>7. Search(d) \in Seq(Clusters) /\ Len(Search(d)) \in Nat \ {0}
    <2>1. CASE found = {}
      BY <1>1, <1>4, <1>5, <2>1
    <2>2. CASE found # {}
      <3>1. Min(found) \in 1..m /\ Min(found) \in Nat \ {0}
        BY <1>1, <1>6, <2>2
      <3> DEFINE n == Min(found)
      <3> HIDE DEF n
      <3>2. n \in 1..m /\ n \in Nat \ {0} /\ Search(d) = SubSeq(order, 1, n)
        BY <1>5, <2>2, <3>1 DEF n
      <3>3. SubSeq(order, 1, n) \in Seq(Clusters) /\ Len(SubSeq(order, 1, n)) = n
        BY <1>1, <1>4, <3>2
      <3> QED
        BY <3>2, <3>3
    <2> QED
      BY <2>1, <2>2
  <1>8. Last(Search(d)) \in Clusters
    <2> DEFINE s == Search(d)
    <2> HIDE DEF s
    <2>1. s \in Seq(Clusters) /\ Len(s) \in Nat \ {0}
      BY <1>7 DEF s
    <2>2. Last(s) \in Clusters
      BY <2>1 DEF Last
    <2> QED
      BY <2>2 DEF s
  <1>9. NextFree(d) = Unused \/ (NextFree(d) \in Clusters /\ d.fat[NextFree(d)] = Unused)
    BY <1>8 DEF NextFree
  <1> QED
    BY <1>7, <1>8, <1>9

LEMMA ScanIs ==
    ASSUME NEW G, NEW b, NEW d, NEW v, InOp(G, b, d, v)
    PROVE  LET e == Scan(d)
           IN  /\ InOp(G, b, e, v) \/ (InOp(G, b, e, Mem(d)) /\ ~e.dirty)
               /\ ~d.dirty => ~e.dirty
               /\ Mem(e) = Mem(d)
               /\ e.fat = d.fat /\ e.sec = d.sec /\ e.hint = d.hint /\ e.ok = d.ok
  <1> DEFINE e == Scan(d)
             s == FatSector(Last(Search(d)))
  <1>1. d.hint \in Clusters
    BY DEF InOp, Drivers
  <1>2. s \in FatSectors
    BY <1>1, SearchIs, SectorOf
  <1>3. e = d \/ e = [Sync(d) EXCEPT !.cache = s]
    BY DEF Scan
  <1> HIDE DEF e, s
  <1>4. CASE e = d
    BY <1>4 DEF e
  <1>5. CASE e = [Sync(d) EXCEPT !.cache = s]
    <2> DEFINE f == [Sync(d) EXCEPT !.cache = s]
    <2>1. /\ InOp(G, b, f, Mem(d)) /\ ~f.dirty /\ Mem(f) = Mem(d)
          /\ f.fat = d.fat /\ f.sec = d.sec /\ f.hint = d.hint /\ f.ok = d.ok
      BY <1>2, CacheIs
    <2>2. e = f
      BY <1>5
    <2> HIDE DEF f
    <2> QED
      BY <2>1, <2>2 DEF e
  <1> QED
    BY <1>3, <1>4, <1>5

\* An allocation that finds nothing.
LEMMA AllocateFull ==
    ASSUME NEW G, NEW b, NEW d, NEW v, InOp(G, b, d, v), NextFree(d) = Unused
    PROVE  LET e == Allocate(d)
           IN  /\ InOp(G, b, e, v) \/ (InOp(G, b, e, Mem(d)) /\ ~e.dirty)
               /\ ~d.dirty => ~e.dirty
               /\ Mem(e) = Mem(d) /\ e.fat = d.fat /\ e.sec = d.sec /\ ~e.ok
  <1> DEFINE e == Allocate(d)
             f == Scan(d)
  <1>1. /\ InOp(G, b, f, v) \/ (InOp(G, b, f, Mem(d)) /\ ~f.dirty)
        /\ ~d.dirty => ~f.dirty
        /\ Mem(f) = Mem(d)
        /\ f.fat = d.fat /\ f.sec = d.sec
    BY ScanIs
  <1>2. e = [f EXCEPT !.ok = FALSE]
    BY DEF Allocate
  <1> HIDE DEF e, f
  <1>3. ASSUME NEW x, InOp(G, b, f, x)
        PROVE  /\ InOp(G, b, e, x) /\ e.dirty = f.dirty /\ Mem(e) = Mem(f) /\ e.fat = f.fat /\ e.sec = f.sec
               /\ ~e.ok
    <2>1. f \in Drivers
      BY <1>3 DEF InOp
    <2>2. /\ e \in Drivers /\ e.dirty = f.dirty /\ e.fat = f.fat /\ e.sec = f.sec
          /\ e.cache = f.cache /\ e.log = f.log /\ ~e.ok
      BY <1>2, <2>1 DEF Drivers
    <2>3. Mem(e) = Mem(f) /\ (Behind(f, x) => Behind(e, x))
      BY <2>2 DEF Mem, Behind
    <2> QED
      BY <1>3, <2>2, <2>3 DEF InOp
  <1> QED
    BY <1>1, <1>3 DEF e

\* An allocation: the cluster is marked and on the disk, then it is zeroed.
LEMMA AllocateIs ==
    ASSUME NEW G, NEW b, NEW d, NEW v, InOp(G, b, d, v), NextFree(d) # Unused,
           FatPut(Mem(d), NextFree(d), Eoc) \in G,
           SecPut(FatPut(Mem(d), NextFree(d), Eoc), NextFree(d), Blank) \in G
    PROVE  LET e == Allocate(d)
               c == NextFree(d)
           IN  /\ InOp(G, b, e, Mem(e)) /\ ~e.dirty
               /\ Mem(e) = SecPut(FatPut(Mem(d), c, Eoc), c, Blank)
               /\ e.ok = d.ok
  <1> DEFINE c == NextFree(d)
             e1 == Scan(d)
             e2 == SetNext(e1, c, Eoc)
             e3 == Sync(e2)
             hint == IF c + 1 >= Limit THEN 2 ELSE c + 1
             e4 == [e3 EXCEPT !.hint = hint]
             e5 == Put(e4, c, Blank)
             u == FatPut(Mem(d), c, Eoc)
  <1>1. Allocate(d) = e5
    BY DEF Allocate
  <1>2. c \in Clusters /\ Blank \in Sectors /\ Eoc \in Links
    <2>1. d.hint \in Clusters
      BY DEF InOp, Drivers
    <2> QED
      BY <2>1, SearchIs, BlankIs DEF Sectors, Links
  <1>01. FatPut(Mem(d), c, Eoc) \in G /\ SecPut(FatPut(Mem(d), c, Eoc), c, Blank) \in G
    OBVIOUS
  <1>3. hint \in Clusters
    BY <1>2, FatAssumption DEF Clusters
  <1> HIDE DEF hint
  <1> HIDE DEF c
  <1>4. PICK v1 : InOp(G, b, e1, v1)
    BY ScanIs
  <1>5. Mem(e1) = Mem(d) /\ e1.ok = d.ok /\ e1.fat = d.fat /\ e1.sec = d.sec
    BY ScanIs
  <1> HIDE DEF e1
  <1>6. FatPut(Mem(e1), c, Eoc) \in G
    BY <1>01, <1>5
  <1>7. /\ InOp(G, b, e2, v1) \/ InOp(G, b, e2, Mem(e1))
        /\ Mem(e2) = FatPut(Mem(e1), c, Eoc)
        /\ e2.ok = e1.ok
    BY <1>2, <1>4, <1>6, SetNextIs
  <1> HIDE DEF e2
  <1>8. Mem(e2) = u
    BY <1>5, <1>7
  <1>9. /\ InOp(G, b, e3, Mem(e2)) /\ ~e3.dirty /\ Mem(e3) = Mem(e2)
        /\ e3.ok = e2.ok
    BY <1>7, SyncIs
  <1> HIDE DEF e3
  <1>10. /\ InOp(G, b, e4, u) /\ ~e4.dirty /\ Mem(e4) = u
         /\ e4.ok = e3.ok
    <2>1. e3 \in Drivers
      BY <1>9 DEF InOp
    <2>2. /\ e4 \in Drivers /\ e4.dirty = e3.dirty /\ e4.fat = e3.fat /\ e4.sec = e3.sec
          /\ e4.cache = e3.cache /\ e4.log = e3.log /\ e4.ok = e3.ok
      BY <1>3, <2>1 DEF Drivers
    <2> HIDE DEF e4
    <2>3. Mem(e4) = Mem(e3) /\ (Behind(e3, Mem(e2)) => Behind(e4, Mem(e2)))
      BY <2>2 DEF Mem, Behind
    <2> QED
      BY <1>8, <1>9, <2>2, <2>3 DEF InOp
  <1> HIDE DEF e4
  <1>11. SecPut(Mem(e4), c, Blank) \in G /\ SecPut(u, c, Blank) \in G
    BY <1>01, <1>10
  <1> HIDE DEF u
  <1>12. /\ InOp(G, b, e5, SecPut(u, c, Blank))
         /\ Mem(e5) = SecPut(Mem(e4), c, Blank)
         /\ e5.dirty = e4.dirty /\ e5.ok = e4.ok
    BY <1>2, <1>10, <1>11, PutIs
  <1> HIDE DEF e5
  <1>13. /\ InOp(G, b, e5, Mem(e5)) /\ ~e5.dirty
         /\ Mem(e5) = SecPut(FatPut(Mem(d), c, Eoc), c, Blank)
         /\ e5.ok = d.ok
    <2>1. Mem(e5) = SecPut(u, c, Blank)
      BY <1>10, <1>12
    <2> USE DEF u
    <2>2. e5.ok = d.ok /\ ~e5.dirty
      BY <1>5, <1>7, <1>9, <1>10, <1>12
    <2> QED
      BY <1>12, <2>1, <2>2
  <1> QED
    BY <1>1, <1>13 DEF c

-----------------------------------------------------------------------------
(* Room is made.                                                            *)

\* The good volumes.
GoodSet(w, t) == {v \in Disks : Good(w, t, v)}

\* u has the directories and files of v, their chains may have grown.
Extends(v, u) ==
    /\ Keeps(v, u) /\ SoundVol(u)
    /\ DirsOf(u) = DirsOf(v) /\ EntriesOf(u) = EntriesOf(v) /\ Heads(u) = Heads(v)
    /\ \A q \in EntriesOf(v) : SlotAt(u, q) = SlotAt(v, q)
    /\ \A h \in Heads(v) : InDir(v, h) \subseteq InDir(u, h)

LEMMA ExtendsSelf == ASSUME NEW v, SoundVol(v) PROVE Extends(v, v)
  BY DEF Extends, Keeps

LEMMA ExtendsAll ==
    ASSUME NEW v, NEW u, Extends(v, u), NEW x, Extends(u, x)
    PROVE  Extends(v, x)
  <1>1. Keeps(v, x)
    BY DEF Extends, Keeps
  <1>2. \A h \in Heads(v) : InDir(v, h) \subseteq InDir(x, h)
    BY DEF Extends
  <1> QED
    BY <1>1, <1>2 DEF Extends

LEMMA TightSame ==
    ASSUME NEW v, NEW X, NEW Y, Tight(v, X), X \subseteq Y
    PROVE  Tight(v, Y)
  BY DEF Tight

\* A free cluster is marked, then zeroed.
LEMMA VolAllocate ==
    ASSUME NEW v \in Disks, SoundVol(v), NEW c \in Clusters, v.fat[c] = Unused
    PROVE  LET u == FatPut(v, c, Eoc)
               x == SecPut(FatPut(v, c, Eoc), c, Blank)
           IN  /\ u \in Disks /\ x \in Disks /\ Keeps(v, u) /\ Keeps(v, x)
               /\ Extends(v, x) /\ \A h \in Heads(v) : ChainOf(x.fat, h) = ChainOf(v.fat, h)
               /\ Fresh(x, c)
               /\ \A y : Fresh(v, y) => y # c /\ Fresh(x, y)
               /\ \A X : Tight(v, X) => Tight(x, X \cup {c})
               /\ \A h \in Heads(v) : c \notin InDir(v, h)
               /\ \A y \in Clusters : y # c => x.sec[y] = v.sec[y]
  <1> DEFINE u == FatPut(v, c, Eoc)
             x == SecPut(u, c, Blank)
  <1>2. Eoc \in Links /\ Blank \in Sectors
    BY BlankIs DEF Links, Sectors
  <1>3. u.fat = [v.fat EXCEPT ![c] = Eoc] /\ u.sec = v.sec /\ u \in Disks
    BY <1>2, FatPutIs DEF FatPut, Disks
  <1> HIDE DEF u
  <1>31. u \in Disks /\ Blank \in Sectors
    BY <1>2, <1>3
  <1>32. /\ x \in Disks /\ x.fat = u.fat
         /\ x.sec[c] = Blank /\ \A y \in Clusters : y # c => x.sec[y] = u.sec[y]
    BY <1>31, SecPutIs
  <1>4. x.fat = u.fat /\ x \in Disks
    BY <1>32
  <1>5. x.sec[c] = Blank /\ \A y \in Clusters : y # c => x.sec[y] = u.sec[y]
    BY <1>32
  <1> HIDE DEF u, x
  <1>6. /\ Keeps(v, u) /\ SameView(v, u)
        /\ Loose(u, c) /\ u.fat[c] = Eoc
        /\ \A y : Fresh(v, y) => y # c /\ Fresh(u, y)
        /\ \A X : Tight(v, X) => Tight(u, X \cup {c})
    BY <1>3, Marked
  <1>7. /\ SoundVol(u) /\ DirsOf(u) = DirsOf(v) /\ EntriesOf(u) = EntriesOf(v) /\ Heads(u) = Heads(v)
        /\ \A h \in Heads(v) : InDir(u, h) = InDir(v, h)
        /\ \A p \in EntriesOf(v) : SlotAt(u, p) = SlotAt(v, p)
    BY <1>6, SameViewKeeps
  <1>8. \A h \in Heads(u) : c \notin InDir(u, h)
    <2>1. IsHead(u.fat, c) /\ c \notin Heads(u) /\ c \in InDir(u, c)
      BY <1>6, <1>7, SoundIs, InChainIs DEF Loose, InDir
    <2> QED
      BY <1>7, <2>1, SoundIs, ChainsApart DEF InDir
  <1>9. DirsOf(u) \subseteq Heads(u)
    BY <1>7, SoundIs
  <1>10. /\ SameView(u, x)
         /\ \A w, t : Good(w, t, u) /\ (\A f \in DOMAIN w : c \notin InDir(u, f)) => Good(w, t, x)
         /\ \A y : y # c /\ Fresh(u, y) => Fresh(x, y)
         /\ \A X : Tight(u, X) => Tight(x, X)
    <2>1. \A dir \in DirsOf(u) : c \notin InDir(u, dir)
      BY <1>8, <1>9
    <2> QED
      BY <1>4, <1>5, <1>7, <2>1, DataPut
  <1>11. Keeps(u, x)
    <2> SUFFICES ASSUME NEW w, NEW t, Good(w, t, u)
                 PROVE  \A f \in DOMAIN w : c \notin InDir(u, f)
      BY <1>10 DEF Keeps
    <2> QED
      BY <1>7, <1>8, FileHead DEF Good, WantedOK
  <1>12. /\ SoundVol(x) /\ DirsOf(x) = DirsOf(u) /\ EntriesOf(x) = EntriesOf(u) /\ Heads(x) = Heads(u)
         /\ \A h \in Heads(u) : InDir(x, h) = InDir(u, h)
         /\ \A p \in EntriesOf(u) : SlotAt(x, p) = SlotAt(u, p)
    BY <1>7, <1>10, SameViewKeeps
  <1>13. Keeps(v, x)
    BY <1>6, <1>11 DEF Keeps
  <1>14. Extends(v, x)
    BY <1>7, <1>12, <1>13 DEF Extends
  <1>15. \A h \in Heads(v) : ChainOf(x.fat, h) = ChainOf(v.fat, h)
    BY <1>4, <1>6 DEF SameView
  <1>16. Fresh(x, c)
    BY <1>4, <1>5, <1>6, <1>12 DEF Fresh, Loose
  <1>17. /\ \A y : Fresh(v, y) => y # c /\ Fresh(x, y)
         /\ \A X : Tight(v, X) => Tight(x, X \cup {c})
    BY <1>6, <1>10
  <1>18. (\A h \in Heads(v) : c \notin InDir(v, h)) /\ \A y \in Clusters : y # c => x.sec[y] = v.sec[y]
    BY <1>3, <1>5, <1>7, <1>8
  <1> QED
    BY <1>3, <1>4, <1>6, <1>13, <1>14, <1>15, <1>16, <1>17, <1>18 DEF u, x

LEMMA AllocateGood ==
    ASSUME NEW w, NEW t, NEW b, NEW d, NEW v, InOp(GoodSet(w, t), b, d, v),
           NextFree(d) # Unused
    PROVE  LET e == Allocate(d)
               c == NextFree(d)
           IN  /\ InOp(GoodSet(w, t), b, e, Mem(e)) /\ ~e.dirty /\ e.ok = d.ok
               /\ c \in Clusters /\ Fresh(Mem(e), c)
               /\ Extends(Mem(d), Mem(e))
               /\ \A h \in Heads(Mem(d)) : ChainOf(e.fat, h) = ChainOf(d.fat, h)
               /\ \A y : Fresh(Mem(d), y) => y # c /\ Fresh(Mem(e), y)
               /\ \A X : Tight(Mem(d), X) => Tight(Mem(e), X \cup {c})
               /\ \A h \in Heads(Mem(d)) : c \notin InDir(Mem(d), h)
               /\ \A y \in Clusters : y # c => e.sec[y] = d.sec[y]
  <1> DEFINE G == GoodSet(w, t)
             m == Mem(d)
             c == NextFree(d)
             u == FatPut(m, c, Eoc)
             x == SecPut(u, c, Blank)
             e == Allocate(d)
  <1>1. m \in G /\ m \in Disks /\ Good(w, t, m) /\ SoundVol(m) /\ d.hint \in Clusters
    BY DEF InOp, GoodSet, Good, Drivers
  <1>2. c \in Clusters /\ m.fat[c] = Unused /\ m.fat = d.fat /\ m.sec = d.sec
    BY <1>1, SearchIs DEF Mem
  <1> HIDE DEF m, c
  <1>3. /\ u \in Disks /\ x \in Disks /\ Keeps(m, u) /\ Keeps(m, x)
        /\ Extends(m, x) /\ \A h \in Heads(m) : ChainOf(x.fat, h) = ChainOf(m.fat, h)
        /\ Fresh(x, c)
        /\ \A y : Fresh(m, y) => y # c /\ Fresh(x, y)
        /\ \A X : Tight(m, X) => Tight(x, X \cup {c})
        /\ \A h \in Heads(m) : c \notin InDir(m, h)
        /\ \A y \in Clusters : y # c => x.sec[y] = m.sec[y]
    BY <1>1, <1>2, VolAllocate
  <1>4. u \in G /\ x \in G
    BY <1>1, <1>3 DEF GoodSet, Keeps
  <1>5. /\ InOp(G, b, e, Mem(e)) /\ ~e.dirty
        /\ Mem(e) = x /\ e.ok = d.ok
    <2>1. FatPut(Mem(d), c, Eoc) \in G /\ SecPut(FatPut(Mem(d), c, Eoc), c, Blank) \in G
      BY <1>4 DEF m
    <2>2. InOp(G, b, d, v) /\ NextFree(d) # Unused
      OBVIOUS
    <2> HIDE DEF G
    <2>3. /\ InOp(G, b, e, Mem(e)) /\ ~e.dirty
          /\ Mem(e) = SecPut(FatPut(Mem(d), c, Eoc), c, Blank)
          /\ e.ok = d.ok
      BY <2>1, <2>2, AllocateIs DEF c
    <2> QED
      BY <2>3 DEF m
  <1> HIDE DEF x, e
  <1>6. e.fat = x.fat /\ e.sec = x.sec
    BY <1>5 DEF Mem
  <1> QED
    BY <1>2, <1>3, <1>5, <1>6 DEF m, e, c

\* A cluster more behind the last of a file or directory.
LEMMA LinkGood ==
    ASSUME NEW w, NEW t, NEW b, NEW d, InOp(GoodSet(w, t), b, d, Mem(d)),
           NEW h \in Heads(Mem(d)), NEW c, Fresh(Mem(d), c)
    PROVE  LET l == Last(ChainOf(d.fat, h))
               e == SetNext(d, l, c)
           IN  /\ InOp(GoodSet(w, t), b, e, Mem(d)) /\ e.ok = d.ok
               /\ Extends(Mem(d), Mem(e))
               /\ ChainOf(e.fat, h) = Append(ChainOf(d.fat, h), c)
               /\ \A k \in Heads(Mem(d)) : k # h => ChainOf(e.fat, k) = ChainOf(d.fat, k)
               /\ \A y : y # c /\ Fresh(Mem(d), y) => Fresh(Mem(e), y)
               /\ \A X : Tight(Mem(d), X) => Tight(Mem(e), X \ {c})
               /\ e.sec = d.sec
  <1> DEFINE G == GoodSet(w, t)
             m == Mem(d)
             l == Last(ChainOf(d.fat, h))
             u == FatPut(m, l, c)
             e == SetNext(d, l, c)
  <1>1. m \in G /\ m \in Disks /\ Good(w, t, m) /\ SoundVol(m)
    BY DEF InOp, GoodSet, Good
  <1>2. m.fat = d.fat /\ m.sec = d.sec
    BY DEF Mem
  <1>30. l = Last(ChainOf(m.fat, h))
    BY <1>2
  <1> HIDE DEF m, l
  <1>31. l \in Clusters /\ c \in Clusters /\ c \in Links
    <2> DEFINE s == ChainOf(m.fat, h)
    <2>1. IsHead(m.fat, h) /\ FatOK(m.fat) /\ l = Last(s) /\ c \in Clusters
      BY <1>1, <1>30, SoundIs DEF m, Fresh, Loose, IsHead
    <2>2. s \in Seq(Clusters) /\ Len(s) \in Nat /\ Len(s) >= 1
      BY <2>1, HeadChain
    <2> HIDE DEF s
    <2> QED
      BY <2>1, <2>2 DEF Last, Links
  <1>3. u.fat = [m.fat EXCEPT ![l] = c] /\ u.sec = m.sec
    BY <1>1, <1>2, <1>31, FatPutIs DEF FatPut, Disks
  <1>4. h \in Heads(m) /\ Fresh(m, c) /\ l = Last(ChainOf(m.fat, h))
    BY <1>30 DEF m
  <1> HIDE DEF u
  <1>5. /\ Keeps(m, u) /\ SoundVol(u)
        /\ DirsOf(u) = DirsOf(m) /\ EntriesOf(u) = EntriesOf(m) /\ Heads(u) = Heads(m)
        /\ ChainOf(u.fat, h) = Append(ChainOf(m.fat, h), c)
        /\ \A k \in Heads(m) : k # h => ChainOf(u.fat, k) = ChainOf(m.fat, k)
        /\ \A y : y # c /\ Fresh(m, y) => Fresh(u, y)
        /\ \A X : Tight(m, X) => Tight(u, X \ {c})
        /\ l \in Clusters /\ c \in Clusters
    BY <1>1, <1>3, <1>4, Linked
  <1>6. Extends(m, u)
    <2>1. \A q \in EntriesOf(m) : SlotAt(u, q) = SlotAt(m, q)
      BY <1>3 DEF SlotAt
    <2>2. \A k \in Heads(m) : InDir(m, k) \subseteq InDir(u, k)
      <3> SUFFICES ASSUME NEW k \in Heads(m)
                   PROVE  InDir(m, k) \subseteq InDir(u, k)
        OBVIOUS
      <3>1. CASE k # h
        BY <1>5, <3>1 DEF InDir, InChain
      <3>2. CASE k = h
        <4> DEFINE s == ChainOf(m.fat, h)
        <4>1. s \in Seq(Clusters)
          <5>1. IsHead(m.fat, h) /\ FatOK(m.fat)
            BY <1>1, <1>4, SoundIs
          <5> QED
            BY <5>1, HeadChain
        <4>2. InDir(u, k) = Range(Append(s, c)) /\ InDir(m, k) = Range(s)
          BY <1>5, <3>2 DEF InDir, InChain
        <4> HIDE DEF s
        <4> QED
          BY <1>5, <4>1, <4>2 DEF Range
      <3> QED
        BY <3>1, <3>2
    <2> QED
      BY <1>5, <2>1, <2>2 DEF Extends
  <1>7. u \in G
    <2>1. u \in Disks
      BY <1>1, <1>31, FatPutIs DEF u
    <2> QED
      BY <1>1, <1>5, <2>1 DEF GoodSet, Keeps
  <1>8. /\ InOp(G, b, e, m) /\ Mem(e) = u /\ e.ok = d.ok /\ e.sec = d.sec
    <2>1. FatPut(Mem(d), l, c) \in G /\ c \in Links
      BY <1>5, <1>7 DEF m, u, Links
    <2>2. InOp(G, b, d, Mem(d))
      OBVIOUS
    <2> HIDE DEF G
    <2>3. /\ InOp(G, b, e, Mem(d)) \/ InOp(G, b, e, Mem(d))
          /\ Mem(e) = FatPut(Mem(d), l, c)
          /\ e.sec = d.sec /\ e.ok = d.ok
      BY <1>5, <2>1, <2>2, SetNextIs
    <2> QED
      BY <2>3 DEF m, u
  <1> HIDE DEF e
  <1>9. e.fat = u.fat
    BY <1>8 DEF Mem
  <1> QED
    BY <1>2, <1>5, <1>6, <1>8, <1>9 DEF m, e, l

\* A directory is grown by a zeroed cluster.
LEMMA GrowGood ==
    ASSUME NEW w, NEW t, NEW b, NEW d, InOp(GoodSet(w, t), b, d, Mem(d)),
           NEW dir \in DirsOf(Mem(d)), NextFree(d) # Unused
    PROVE  LET e == Grow(d, dir)
               c == NextFree(d)
           IN  /\ InOp(GoodSet(w, t), b, e, Mem(e)) /\ ~e.dirty
               /\ Extends(Mem(d), Mem(e))
               /\ ChainOf(e.fat, dir) = Append(ChainOf(d.fat, dir), c)
               /\ c \in Clusters /\ e.sec[c] = Blank /\ c \notin InDir(Mem(d), dir)
               /\ \A y \in Clusters : y # c => e.sec[y] = d.sec[y]
               /\ \A y : Fresh(Mem(d), y) => Fresh(Mem(e), y)
               /\ \A X : Tight(Mem(d), X) => Tight(Mem(e), X)
  <1> DEFINE c == NextFree(d)
             a == Allocate(d)
             s == SetNext(a, Last(ChainOf(d.fat, dir)), c)
             e == Sync(s)
  <1>1. Grow(d, dir) = e
    BY DEF Grow
  <1>2. /\ InOp(GoodSet(w, t), b, a, Mem(a)) /\ ~a.dirty
        /\ c \in Clusters /\ Fresh(Mem(a), c)
        /\ Extends(Mem(d), Mem(a))
        /\ \A h \in Heads(Mem(d)) : ChainOf(a.fat, h) = ChainOf(d.fat, h)
        /\ \A y : Fresh(Mem(d), y) => y # c /\ Fresh(Mem(a), y)
        /\ \A X : Tight(Mem(d), X) => Tight(Mem(a), X \cup {c})
        /\ \A h \in Heads(Mem(d)) : c \notin InDir(Mem(d), h)
        /\ \A y \in Clusters : y # c => a.sec[y] = d.sec[y]
    BY AllocateGood
  <1>3. SoundVol(Mem(d)) /\ dir \in Heads(Mem(d))
    <2>1. SoundVol(Mem(d))
      BY DEF InOp, GoodSet, Good
    <2> QED
      BY <2>1, SoundIs
  <1> HIDE DEF c, a
  <1>4. dir \in Heads(Mem(a)) /\ ChainOf(a.fat, dir) = ChainOf(d.fat, dir)
    BY <1>2, <1>3 DEF Extends
  <1>5. s = SetNext(a, Last(ChainOf(a.fat, dir)), c)
    BY <1>4
  <1> HIDE DEF s
  <1>6. /\ InOp(GoodSet(w, t), b, s, Mem(a))
        /\ Extends(Mem(a), Mem(s))
        /\ ChainOf(s.fat, dir) = Append(ChainOf(a.fat, dir), c)
        /\ \A y : y # c /\ Fresh(Mem(a), y) => Fresh(Mem(s), y)
        /\ \A X : Tight(Mem(a), X) => Tight(Mem(s), X \ {c})
        /\ s.sec = a.sec
    BY <1>2, <1>4, <1>5, LinkGood
  <1>7. /\ InOp(GoodSet(w, t), b, e, Mem(s)) /\ ~e.dirty /\ Mem(e) = Mem(s)
        /\ e.fat = s.fat /\ e.sec = s.sec
    BY <1>6, SyncIs
  <1> HIDE DEF e
  <1>8. Extends(Mem(d), Mem(e))
    BY <1>2, <1>6, <1>7, ExtendsAll
  <1>9. a.sec[c] = Blank
    BY <1>2 DEF Fresh, Mem
  <1>10. ASSUME NEW X, Tight(Mem(d), X)
         PROVE  Tight(Mem(e), X)
    <2>1. Tight(Mem(e), (X \cup {c}) \ {c})
      BY <1>2, <1>6, <1>7, <1>10
    <2> QED
      BY <2>1, TightSame
  <1>11. \A y : Fresh(Mem(d), y) => Fresh(Mem(e), y)
    BY <1>2, <1>6, <1>7
  <1>12. /\ ChainOf(e.fat, dir) = Append(ChainOf(d.fat, dir), c)
         /\ e.sec[c] = Blank
         /\ \A y \in Clusters : y # c => e.sec[y] = d.sec[y]
    BY <1>2, <1>4, <1>6, <1>7, <1>9
  <1> QED
    BY <1>1, <1>2, <1>3, <1>7, <1>8, <1>10, <1>11, <1>12 DEF c

\* The runs of free slots.
LEMMA RunsAre ==
    ASSUME NEW d, SoundVol(Mem(d)), NEW dir \in DirsOf(Mem(d)), NEW n \in 1..2
    PROVE  LET m == PerCluster * Len(ChainOf(d.fat, dir))
           IN  /\ m \in Nat /\ Numbers(Mem(d), dir) = 1..m
               /\ FreeRuns(d, dir, n) =
                    {i \in 1..(m - n + 1) : \A j \in i..(i + n - 1) : Free(SlotIn(Mem(d), dir, j))}
               /\ \A i : Place(d, dir, i) = Place(Mem(d), dir, i)
  <1> DEFINE l == Len(ChainOf(d.fat, dir))
             m == PerCluster * l
             s == DirSlots(d, dir)
             v == Mem(d)
  <1>1. v.fat = d.fat /\ v.sec = d.sec
    BY DEF Mem
  <1>2. l \in Nat /\ PerCluster \in Nat
    <2>1. FatOK(v.fat) /\ IsHead(v.fat, dir)
      BY SoundIs
    <2> QED
      BY <1>1, <2>1, HeadChain, FatAssumption
  <1> HIDE DEF l
  <1>3. m \in Nat
    BY <1>2
  <1>4. Numbers(v, dir) = 1..m
    BY <1>1 DEF Numbers, l
  <1> HIDE DEF v
  <1>5. s = [i \in 1..m |-> SlotIn(v, dir, i)]
    BY <1>1 DEF DirSlots, SlotIn, Place, SlotAt, l
  <1> HIDE DEF m, s
  <1>6. Len(s) = m /\ \A j \in 1..m : s[j] = SlotIn(v, dir, j)
    BY <1>3, <1>5
  <1>7. FreeRuns(d, dir, n) = {i \in 1..(m - n + 1) : \A j \in i..(i + n - 1) : Free(SlotIn(v, dir, j))}
    <2>1. FreeRuns(d, dir, n) = {i \in 1..(m - n + 1) : \A j \in i..(i + n - 1) : Free(s[j])}
      BY <1>6 DEF FreeRuns, s
    <2>2. \A i \in 1..(m - n + 1) : \A j \in i..(i + n - 1) : j \in 1..m
      BY <1>3
    <2>3. \A i \in 1..(m - n + 1) : \A j \in i..(i + n - 1) : s[j] = SlotIn(v, dir, j)
      BY <1>6, <2>2
    <2> QED
      BY <2>1, <2>3
  <1>8. \A i : Place(d, dir, i) = Place(v, dir, i)
    BY <1>1 DEF Place
  <1> QED
    BY <1>3, <1>4, <1>7, <1>8 DEF m, l, v

\* The driver with room made for n slots, and slots of a directory in a row.
RoomMade(d, dir, n) == IF FreeRuns(d, dir, n) # {} THEN d ELSE Grow(d, dir)

Fits(v, dir, room, n, i) ==
    /\ i \in Nat /\ \A j \in 1..n : i + j - 1 \in Numbers(v, dir)
    /\ \A j \in 1..n : room[j] = Place(v, dir, i + j - 1) /\ Free(SlotIn(v, dir, i + j - 1))
    /\ n = 1 => \A k \in Numbers(v, dir) : k < i => SlotIn(v, dir, k).kind # "end"

\* A run that is there.
LEMMA RunFits ==
    ASSUME NEW d, SoundVol(Mem(d)), NEW dir \in DirsOf(Mem(d)), NEW n \in 1..2,
           FreeRuns(d, dir, n) # {}
    PROVE  \E i : Fits(Mem(d), dir, Room(d, dir, n), n, i)
  <1> DEFINE v == Mem(d)
             m == PerCluster * Len(ChainOf(d.fat, dir))
             R == FreeRuns(d, dir, n)
             i == Min(R)
             room == Room(d, dir, n)
  <1>1. /\ m \in Nat /\ Numbers(v, dir) = 1..m
        /\ R = {k \in 1..(m - n + 1) : \A j \in k..(k + n - 1) : Free(SlotIn(v, dir, j))}
        /\ \A k : Place(d, dir, k) = Place(v, dir, k)
    BY RunsAre
  <1>2. room = [j \in 1..n |-> Place(d, dir, i + j - 1)]
    BY DEF Room
  <1> HIDE DEF v, m, R, room
  <1>3. R \in SUBSET Nat /\ R # {}
    BY <1>1 DEF R
  <1>4. i \in R /\ \A k \in R : i <= k
    BY <1>3, MinIs
  <1> HIDE DEF i
  <1>5. i \in Nat /\ i >= 1 /\ i + n - 1 <= m /\ \A j \in i..(i + n - 1) : Free(SlotIn(v, dir, j))
    BY <1>1, <1>4
  <1>6. \A j \in 1..n : i + j - 1 \in Numbers(v, dir) /\ i + j - 1 \in i..(i + n - 1)
    BY <1>1, <1>5
  <1>7. \A j \in 1..n : room[j] = Place(v, dir, i + j - 1) /\ Free(SlotIn(v, dir, i + j - 1))
    BY <1>1, <1>2, <1>5, <1>6
  <1>8. ASSUME n = 1, NEW k \in Numbers(v, dir), k < i
        PROVE  SlotIn(v, dir, k).kind # "end"
    <2>1. k \in 1..m /\ k \notin R /\ k \in Nat
      BY <1>1, <1>4, <1>5, <1>8
    <2>2. ~Free(SlotIn(v, dir, k))
      <3>1. k \in 1..(m - n + 1) /\ k..(k + n - 1) = {k}
        BY <1>1, <1>8, <2>1
      <3> QED
        BY <1>1, <2>1, <3>1
    <2> QED
      BY <2>2 DEF Free
  <1>9. Fits(v, dir, room, n, i)
    BY <1>5, <1>6, <1>7, <1>8 DEF Fits
  <1> QED
    BY <1>9 DEF v, room

\* A run in a new cluster.
LEMMA GrowFits ==
    ASSUME NEW w, NEW t, NEW b, NEW d, InOp(GoodSet(w, t), b, d, Mem(d)),
           NEW dir \in DirsOf(Mem(d)), NextFree(d) # Unused, NEW n \in 1..2,
           FreeRuns(d, dir, n) = {}
    PROVE  \E i : Fits(Mem(Grow(d, dir)), dir, Room(d, dir, n), n, i)
  <1> DEFINE v == Mem(d)
             e == Grow(d, dir)
             u == Mem(e)
             c == NextFree(d)
             m == PerCluster * Len(ChainOf(d.fat, dir))
             i == m + 1
             room == Room(d, dir, n)
  <1>0. SoundVol(v)
    BY DEF InOp, GoodSet, Good
  <1>1. /\ m \in Nat /\ Numbers(v, dir) = 1..m
        /\ {} = {k \in 1..(m - n + 1) : \A j \in k..(k + n - 1) : Free(SlotIn(v, dir, j))}
    BY <1>0, RunsAre
  <1>2. room = [j \in 1..n |-> <<c, j>>]
    BY DEF Room
  <1>3. /\ ChainOf(e.fat, dir) = Append(ChainOf(d.fat, dir), c)
        /\ c \in Clusters /\ e.sec[c] = Blank /\ c \notin InDir(v, dir)
        /\ \A y \in Clusters : y # c => e.sec[y] = d.sec[y]
    BY GrowGood
  <1>4. v.fat = d.fat /\ v.sec = d.sec /\ u.fat = e.fat /\ u.sec = e.sec
    BY DEF Mem
  <1>5. PerCluster \in Nat /\ PerCluster >= 2 /\ FatOK(v.fat) /\ IsHead(v.fat, dir)
    BY <1>0, SoundIs, FatAssumption
  <1> HIDE DEF v, u, e, c, room
  <1>6. /\ \A k \in Numbers(v, dir) : Place(u, dir, k) = Place(v, dir, k)
        /\ \A k \in Numbers(u, dir) : k \notin Numbers(v, dir) => \A j \in Numbers(v, dir) : j < k
        /\ \A k \in 1..PerCluster : m + k \in Numbers(u, dir) /\ Place(u, dir, m + k) = <<c, k>>
    <2>1. ChainOf(u.fat, dir) = Append(ChainOf(v.fat, dir), c)
      BY <1>3, <1>4
    <2>2. m = HowMany(v, dir)
      BY <1>4 DEF HowMany
    <2>3. /\ \A k \in Numbers(v, dir) : Place(u, dir, k) = Place(v, dir, k)
          /\ \A k \in Numbers(u, dir) : k \notin Numbers(v, dir) => \A j \in Numbers(v, dir) : j < k
      BY <1>3, <1>5, <2>1, PlaceGrown
    <2>4. \A k \in 1..PerCluster :
            /\ HowMany(v, dir) + k \in Numbers(u, dir) \ Numbers(v, dir)
            /\ Place(u, dir, HowMany(v, dir) + k) = <<c, k>>
      BY <1>3, <1>5, <2>1, PlaceGrown
    <2> HIDE DEF m
    <2> QED
      BY <2>2, <2>3, <2>4
  <1> HIDE DEF m
  <1>7. \A j \in 1..n : j \in 1..PerCluster /\ i + j - 1 = m + j
    BY <1>1, <1>5
  <1>8. \A j \in 1..n : /\ i + j - 1 \in Numbers(u, dir)
                        /\ room[j] = Place(u, dir, i + j - 1) /\ Free(SlotIn(u, dir, i + j - 1))
    <2> SUFFICES ASSUME NEW j \in 1..n
                 PROVE  /\ i + j - 1 \in Numbers(u, dir)
                        /\ room[j] = Place(u, dir, i + j - 1) /\ Free(SlotIn(u, dir, i + j - 1))
      OBVIOUS
    <2>1. j \in 1..PerCluster /\ m + j \in Numbers(u, dir) /\ Place(u, dir, m + j) = <<c, j>>
      BY <1>6, <1>7
    <2>2. SlotIn(u, dir, m + j) = Blank[j]
      BY <1>3, <1>4, <2>1 DEF SlotIn, SlotAt
    <2>3. Free(SlotIn(u, dir, m + j))
      BY <2>1, <2>2, BlankIs DEF Free
    <2> QED
      BY <1>2, <1>7, <2>1, <2>3
  <1>9. ASSUME n = 1, NEW k \in Numbers(u, dir), k < i
        PROVE  SlotIn(u, dir, k).kind # "end"
    <2>0. k \in Nat
      BY DEF Numbers
    <2>1. k \in Numbers(v, dir) /\ k \in 1..m
      <3> SUFFICES ASSUME k \notin Numbers(v, dir) PROVE FALSE
        BY <1>1
      <3>1. \A j \in 1..m : j < k
        BY <1>1, <1>6
      <3>2. k \notin 1..m
        BY <1>1
      <3>3. k = 0
        BY <1>1, <1>9, <2>0, <3>2
      <3> QED
        BY <3>3 DEF Numbers
    <2>2. ~Free(SlotIn(v, dir, k))
      <3>1. k \in 1..(m - n + 1) /\ k..(k + n - 1) = {k}
        BY <1>1, <1>9, <2>1
      <3> QED
        BY <1>1, <2>1, <3>1
    <2>3. Place(u, dir, k) = Place(v, dir, k) /\ Place(v, dir, k) \in InDir(v, dir) \X (1..PerCluster)
          /\ InDir(v, dir) \subseteq Clusters
      BY <1>5, <1>6, <2>1, PlaceIs
    <2>4. Place(v, dir, k)[1] \in Clusters /\ Place(v, dir, k)[1] # c
      BY <1>3, <2>3
    <2>5. SlotIn(u, dir, k) = SlotIn(v, dir, k)
      BY <1>3, <1>4, <2>3, <2>4 DEF SlotIn, SlotAt
    <2> QED
      BY <2>2, <2>5 DEF Free
  <1>10. Fits(u, dir, room, n, i)
    BY <1>1, <1>8, <1>9 DEF Fits
  <1> QED
    BY <1>10 DEF u, e, room

\* Room is made for n slots.
LEMMA RoomGood ==
    ASSUME NEW w, NEW t, NEW b, NEW d, InOp(GoodSet(w, t), b, d, Mem(d)), ~d.dirty,
           NEW dir \in DirsOf(Mem(d)), NEW n \in 1..2
    PROVE  LET e == RoomMade(d, dir, n)
           IN  /\ InOp(GoodSet(w, t), b, e, Mem(e)) /\ ~e.dirty
               /\ Extends(Mem(d), Mem(e))
               /\ \A y : Fresh(Mem(d), y) => Fresh(Mem(e), y)
               /\ \A X : Tight(Mem(d), X) => Tight(Mem(e), X)
               /\ e.ok => \E i : Fits(Mem(e), dir, Room(d, dir, n), n, i)
  <1>1. SoundVol(Mem(d))
    BY DEF InOp, GoodSet, Good
  <1>2. CASE FreeRuns(d, dir, n) # {}
    <2>1. RoomMade(d, dir, n) = d
      BY <1>2 DEF RoomMade
    <2> QED
      BY <1>1, <1>2, <2>1, ExtendsSelf, RunFits
  <1>3. CASE FreeRuns(d, dir, n) = {} /\ NextFree(d) = Unused
    <2>1. RoomMade(d, dir, n) = Allocate(d)
      BY <1>3 DEF RoomMade, Grow
    <2> DEFINE e == Allocate(d)
    <2>2. /\ InOp(GoodSet(w, t), b, e, Mem(d))
          /\ ~e.dirty /\ Mem(e) = Mem(d) /\ ~e.ok
      BY <1>3, AllocateFull
    <2> HIDE DEF e
    <2> QED
      BY <1>1, <2>1, <2>2, ExtendsSelf DEF e
  <1>4. CASE FreeRuns(d, dir, n) = {} /\ NextFree(d) # Unused
    <2>1. RoomMade(d, dir, n) = Grow(d, dir)
      BY <1>4 DEF RoomMade
    <2>2. \E i : Fits(Mem(Grow(d, dir)), dir, Room(d, dir, n), n, i)
      BY <1>4, GrowFits
    <2> QED
      BY <1>4, <2>1, <2>2, GrowGood
  <1> QED
    BY <1>2, <1>3, <1>4

\* The driver writes a slot: on the volume in memory, and on the disk.
LEMMA PutSlotIs ==
    ASSUME NEW w, NEW t, NEW b, NEW d, NEW v, InOp(GoodSet(w, t), b, d, v),
           NEW dir, dir \in DirsOf(v), dir \in DirsOf(Mem(d)),
           NEW p, p \in SlotsIn(v, dir), p \in SlotsIn(Mem(d), dir), NEW s \in Slots
    PROVE  LET e == PutSlot(d, p, s)
           IN  /\ SlotPut(Mem(d), Mem(e), dir, p, s)
               /\ \E u : /\ SlotPut(v, u, dir, p, s)
                         /\ v = Mem(d) => u = Mem(e)
                         /\ Good(w, t, Mem(e)) /\ Good(w, t, u) => InOp(GoodSet(w, t), b, e, u)
               /\ e.ok = d.ok /\ e.dirty = d.dirty /\ e.fat = d.fat /\ e.cache = d.cache
               /\ e.hint = d.hint
  <1> DEFINE G == GoodSet(w, t)
             c == p[1]
             x == [d.sec[c] EXCEPT ![p[2]] = s]
             e == Put(d, c, x)
             u == SecPut(v, c, x)
  <1>1. PutSlot(d, p, s) = e
    BY DEF PutSlot
  <1>2. /\ d \in Drivers /\ Mem(d) \in Disks /\ v \in Disks /\ v.sec = d.sec /\ Mem(d).sec = d.sec
        /\ SoundVol(v) /\ SoundVol(Mem(d)) /\ G \subseteq Disks
    BY DEF InOp, GoodSet, Good, Behind, Mem
  <1>3. p \in Places /\ v.sec[c] \in [1..PerCluster -> Slots]
    BY <1>2, SoundIs
  <1>4. c \in Clusters /\ x \in [1..PerCluster -> Slots] /\ x \in Sectors
    BY <1>2, <1>3 DEF Places, Sectors
  <1>5. /\ Mem(e) = SecPut(Mem(d), c, x)
        /\ e.fat = d.fat /\ e.cache = d.cache /\ e.dirty = d.dirty /\ e.hint = d.hint /\ e.ok = d.ok
    <2>1. d.sec \in [Clusters -> Sectors]
      BY <1>2 DEF Drivers
    <2> HIDE DEF x
    <2> QED
      BY <1>2, <2>1 DEF Put, Mem, SecPut, Drivers
  <1>6. SlotPut(Mem(d), Mem(e), dir, p, s)
    BY <1>2, <1>5 DEF SlotPut, SecPut
  <1>7. SlotPut(v, u, dir, p, s)
    BY <1>2 DEF SlotPut, SecPut
  <1>8. v = Mem(d) => u = Mem(e)
    BY <1>5
  <1>9. ASSUME Good(w, t, Mem(e)), Good(w, t, u)
        PROVE  InOp(G, b, e, u)
    <2>1. Mem(e) \in Disks /\ u \in Disks
      BY <1>6, <1>7, SlotPutIs
    <2>2. SecPut(Mem(d), c, x) \in G /\ SecPut(v, c, x) \in G
      BY <1>5, <1>9, <2>1 DEF GoodSet
    <2> HIDE DEF x, G, c, e, u
    <2>3. InOp(G, b, d, v)
      BY DEF G
    <2>4. InOp(G, b, Put(d, c, x), SecPut(v, c, x))
      BY <1>4, <2>2, <2>3, PutIs
    <2> QED
      BY <2>4 DEF e, u
  <1> HIDE DEF x, c, e, u
  <1> QED
    BY <1>1, <1>5, <1>6, <1>7, <1>8, <1>9 DEF G

\* The same when the disk has everything.
LEMMA PutSlotClean ==
    ASSUME NEW w, NEW t, NEW b, NEW d, InOp(GoodSet(w, t), b, d, Mem(d)), ~d.dirty,
           NEW dir \in DirsOf(Mem(d)), NEW p \in SlotsIn(Mem(d), dir), NEW s \in Slots
    PROVE  LET e == PutSlot(d, p, s)
           IN  /\ SlotPut(Mem(d), Mem(e), dir, p, s)
               /\ Good(w, t, Mem(e)) => InOp(GoodSet(w, t), b, e, Mem(e))
               /\ e.ok = d.ok /\ ~e.dirty /\ e.fat = d.fat
  <1> DEFINE e == PutSlot(d, p, s)
  <1>1. /\ SlotPut(Mem(d), Mem(e), dir, p, s)
        /\ \E u : /\ SlotPut(Mem(d), u, dir, p, s)
                  /\ Mem(d) = Mem(d) => u = Mem(e)
                  /\ Good(w, t, Mem(e)) /\ Good(w, t, u) => InOp(GoodSet(w, t), b, e, u)
        /\ e.ok = d.ok /\ e.dirty = d.dirty /\ e.fat = d.fat
    BY PutSlotIs
  <1> HIDE DEF e
  <1> QED
    BY <1>1 DEF e

\* A slot that is no entry is written over one that is none.
LEMMA PlainExtends ==
    ASSUME NEW v, NEW u, NEW dir, NEW p, NEW s, SlotPut(v, u, dir, p, s),
           ~Entry(SlotAt(v, p)), ~Entry(s), s.kind # "end"
    PROVE  Extends(v, u)
  <1>1. /\ Keeps(v, u) /\ SoundVol(u)
        /\ DirsOf(u) = DirsOf(v) /\ EntriesOf(u) = EntriesOf(v) /\ Heads(u) = Heads(v)
    BY PlainPut
  <1>2. SoundVol(v)
    BY DEF SlotPut
  <1>3. /\ \A q \in EntriesOf(v) : q # p /\ \E d \in DirsOf(v) : q \in SlotsIn(v, d)
    BY <1>2, SoundIs
  <1>4. \A q \in EntriesOf(v) : SlotAt(u, q) = SlotAt(v, q)
    BY <1>3, SlotPutIs
  <1>5. \A d : InDir(u, d) = InDir(v, d)
    BY SlotPutIs
  <1> QED
    BY <1>1, <1>4, <1>5 DEF Extends

SlotNames == Names \cup {"", "."}

LEMMA SlotIs ==
    ASSUME NEW kind \in {"end", "deleted", "lfn", "file", "dir", "dot"}, NEW name \in SlotNames,
           NEW first \in Clusters \cup {0}
    PROVE  /\ Slot(kind, name, first) \in Slots
           /\ Slot(kind, name, first).kind = kind /\ Slot(kind, name, first).name = name
           /\ Slot(kind, name, first).first = first /\ Slot(kind, name, first).size = 0
  <1>1. 0 \in 0..MaxSize
    BY FatBoundsAssumption
  <1>2. Slot(kind, name, first) = [kind |-> kind, name |-> name, first |-> first, size |-> 0]
    BY DEF Slot
  <1>3. Slot(kind, name, first) \in Slots
    <2> DEFINE K == {"end", "deleted", "lfn", "file", "dir", "dot"}
               Z == 0..MaxSize
               F == Clusters \cup {0}
    <2>1. kind \in K /\ name \in SlotNames /\ first \in F /\ 0 \in Z
      BY <1>1
    <2>2. Slots = [kind : K, name : SlotNames, first : F, size : Z]
      BY DEF Slots, SlotNames
    <2> HIDE DEF K, Z, F
    <2> QED
      BY <1>2, <2>1, <2>2
  <1> QED
    BY <1>2, <1>3

\* Room is made, and the LFN slot written.
Prepared(d, dir, name) ==
    LET n == SlotsOf(name)
        e == RoomMade(d, dir, n)
    IN  IF e.ok /\ n = 2 THEN PutSlot(e, Room(d, dir, n)[1], Slot("lfn", name, 0)) ELSE e

EntryPlace(d, dir, name) == Room(d, dir, SlotsOf(name))[SlotsOf(name)]

LEMMA PreparedGood ==
    ASSUME NEW w, NEW t, NEW b, NEW d, InOp(GoodSet(w, t), b, d, Mem(d)), ~d.dirty,
           NEW dir \in DirsOf(Mem(d)), NEW name \in SlotNames
    PROVE  LET e == Prepared(d, dir, name)
               p == EntryPlace(d, dir, name)
           IN  /\ InOp(GoodSet(w, t), b, e, Mem(e)) /\ ~e.dirty
               /\ Extends(Mem(d), Mem(e))
               /\ \A y : Fresh(Mem(d), y) => Fresh(Mem(e), y)
               /\ \A X : Tight(Mem(d), X) => Tight(Mem(e), X)
               /\ e.ok => /\ p \in SlotsIn(Mem(e), dir) /\ ~Entry(SlotAt(Mem(e), p))
                          /\ name \notin LongNames =>
                               \A i, j \in Numbers(Mem(e), dir) :
                                 Place(Mem(e), dir, i) = p /\ j < i => SlotIn(Mem(e), dir, j).kind # "end"
               /\ e.ok = RoomMade(d, dir, SlotsOf(name)).ok
  <1> DEFINE n == SlotsOf(name)
             room == Room(d, dir, n)
             r == RoomMade(d, dir, n)
             v == Mem(r)
  <1>1. n \in 1..2 /\ (name \notin LongNames => n = 1)
    BY DEF SlotsOf
  <1> HIDE DEF n
  <1>2. /\ InOp(GoodSet(w, t), b, r, v) /\ ~r.dirty
        /\ Extends(Mem(d), v)
        /\ \A y : Fresh(Mem(d), y) => Fresh(v, y)
        /\ \A X : Tight(Mem(d), X) => Tight(v, X)
        /\ r.ok => \E i : Fits(v, dir, room, n, i)
    BY <1>1, RoomGood
  <1>3. Prepared(d, dir, name) = IF r.ok /\ n = 2 THEN PutSlot(r, room[1], Slot("lfn", name, 0)) ELSE r
    BY DEF Prepared, n
  <1>4. EntryPlace(d, dir, name) = room[n]
    BY DEF EntryPlace, n
  <1>5. SoundVol(v) /\ dir \in DirsOf(v)
    BY <1>2 DEF Extends
  <1>6. RoomMade(d, dir, SlotsOf(name)) = r
    BY DEF n
  <1> HIDE DEF r, room
  <1>7. CASE ~r.ok
    BY <1>2, <1>3, <1>6, <1>7
  <1>8. CASE r.ok /\ n = 1
    <2>1. PICK i : Fits(v, dir, room, n, i)
      BY <1>2, <1>8
    <2>2. /\ i \in Nat /\ i \in Numbers(v, dir) /\ room[1] = Place(v, dir, i) /\ Free(SlotIn(v, dir, i))
          /\ \A k \in Numbers(v, dir) : k < i => SlotIn(v, dir, k).kind # "end"
      BY <1>8, <2>1 DEF Fits
    <2>3. /\ room[1] \in SlotsIn(v, dir) /\ ~Entry(SlotAt(v, room[1]))
          /\ \A k \in Numbers(v, dir) : Place(v, dir, k) = room[1] => k = i
      BY <1>5, <2>2, SlotNumbers DEF Entry, Free
    <2>4. Prepared(d, dir, name) = r
      BY <1>3, <1>8
    <2>5. \A k, j \in Numbers(v, dir) :
             Place(v, dir, k) = room[1] /\ j < k => SlotIn(v, dir, j).kind # "end"
      BY <2>2, <2>3
    <2> QED
      BY <1>2, <1>4, <1>6, <1>8, <2>3, <2>4, <2>5
  <1>9. CASE r.ok /\ n = 2
    <2> DEFINE s == Slot("lfn", name, 0)
               e == PutSlot(r, room[1], s)
               u == Mem(e)
    <2>1. PICK i : Fits(v, dir, room, n, i)
      BY <1>2, <1>9
    <2>2. /\ i \in Nat /\ i \in Numbers(v, dir) /\ i + 1 \in Numbers(v, dir)
          /\ room[1] = Place(v, dir, i) /\ Free(SlotIn(v, dir, i))
          /\ room[2] = Place(v, dir, i + 1) /\ Free(SlotIn(v, dir, i + 1))
      <3>1. i \in Nat /\ \A j \in 1..2 : /\ i + j - 1 \in Numbers(v, dir)
                           /\ room[j] = Place(v, dir, i + j - 1) /\ Free(SlotIn(v, dir, i + j - 1))
        BY <1>9, <2>1 DEF Fits
      <3>2. i + 1 - 1 = i /\ i + 2 - 1 = i + 1
        BY <3>1
      <3> QED
        BY <3>1, <3>2
    <2>3. /\ room[1] \in SlotsIn(v, dir) /\ ~Entry(SlotAt(v, room[1]))
          /\ room[2] \in SlotsIn(v, dir) /\ ~Entry(SlotAt(v, room[2])) /\ room[2] # room[1]
      <3>1. i # i + 1
        BY <2>2
      <3> QED
        BY <1>5, <2>2, <3>1, SlotNumbers DEF Entry, Free
    <2>4. s \in Slots /\ ~Entry(s) /\ s.kind # "end"
      BY SlotIs DEF Entry
    <2> HIDE DEF s
    <2>5. /\ SlotPut(v, u, dir, room[1], s)
          /\ Good(w, t, u) => InOp(GoodSet(w, t), b, e, u)
          /\ e.ok = r.ok /\ ~e.dirty
      BY <1>2, <1>5, <2>3, <2>4, PutSlotClean
    <2> HIDE DEF e
    <2>6. Extends(v, u)
      BY <2>3, <2>4, <2>5, PlainExtends
    <2>7. /\ \A y : Fresh(v, y) => Fresh(u, y)
          /\ \A X : Tight(v, X) => Tight(u, X)
      BY <2>3, <2>4, <2>5, PlainPut
    <2>8. Good(w, t, u)
      BY <1>2, <2>6 DEF Extends, Keeps, InOp, GoodSet
    <2>9. room[2] \in SlotsIn(u, dir) /\ SlotAt(u, room[2]) = SlotAt(v, room[2])
      BY <1>5, <2>3, <2>5, SlotPutIs
    <2>10. Prepared(d, dir, name) = e /\ name \in LongNames
      BY <1>1, <1>3, <1>9 DEF e, s
    <2>11. Extends(Mem(d), u)
      BY <1>2, <2>6, ExtendsAll
    <2> QED
      BY <1>2, <1>4, <1>6, <1>9, <2>3, <2>5, <2>7, <2>8, <2>9, <2>10, <2>11
  <1> QED
    BY <1>1, <1>7, <1>8, <1>9

LEMMA AddEntryIs ==
    ASSUME NEW d, NEW dir, NEW name, NEW kind, NEW first,
           Prepared(d, dir, name).ok = RoomMade(d, dir, SlotsOf(name)).ok
    PROVE  AddEntry(d, dir, name, kind, first) =
             IF Prepared(d, dir, name).ok
             THEN PutSlot(Prepared(d, dir, name), EntryPlace(d, dir, name), Slot(kind, name, first))
             ELSE Prepared(d, dir, name)
  BY DEF AddEntry, Prepared, RoomMade, EntryPlace

\* "." and "..".
LEMMA AddDotGood ==
    ASSUME NEW w, NEW t, NEW b, NEW d, InOp(GoodSet(w, t), b, d, Mem(d)), ~d.dirty,
           NEW dir \in DirsOf(Mem(d)), NEW name \in SlotNames, NEW first \in Clusters \cup {0}
    PROVE  LET e == AddEntry(d, dir, name, "dot", first)
           IN  /\ InOp(GoodSet(w, t), b, e, Mem(e)) /\ ~e.dirty
               /\ Extends(Mem(d), Mem(e))
               /\ \A X : Tight(Mem(d), X) => Tight(Mem(e), X)
  <1> DEFINE r == Prepared(d, dir, name)
             p == EntryPlace(d, dir, name)
             s == Slot("dot", name, first)
             v == Mem(r)
             e == PutSlot(r, p, s)
             u == Mem(e)
  <1>1. /\ InOp(GoodSet(w, t), b, r, v) /\ ~r.dirty
        /\ Extends(Mem(d), v)
        /\ \A X : Tight(Mem(d), X) => Tight(v, X)
        /\ r.ok => p \in SlotsIn(v, dir) /\ ~Entry(SlotAt(v, p))
        /\ r.ok = RoomMade(d, dir, SlotsOf(name)).ok
    BY PreparedGood
  <1>2. AddEntry(d, dir, name, "dot", first) = IF r.ok THEN e ELSE r
    BY <1>1, AddEntryIs
  <1>3. s \in Slots /\ ~Entry(s) /\ s.kind # "end"
    BY SlotIs DEF Entry
  <1>4. dir \in DirsOf(v)
    BY <1>1 DEF Extends
  <1> HIDE DEF r, p, s
  <1>5. CASE ~r.ok
    BY <1>1, <1>2, <1>5
  <1>6. CASE r.ok
    <2>1. /\ SlotPut(v, u, dir, p, s)
          /\ Good(w, t, u) => InOp(GoodSet(w, t), b, e, u)
          /\ ~e.dirty
      BY <1>1, <1>3, <1>4, <1>6, PutSlotClean
    <2> HIDE DEF e
    <2>2. Extends(v, u)
      BY <1>1, <1>3, <1>6, <2>1, PlainExtends
    <2>3. \A X : Tight(v, X) => Tight(u, X)
      BY <1>1, <1>3, <1>6, <2>1, PlainPut
    <2>4. Good(w, t, u)
      BY <1>1, <2>2 DEF Extends, Keeps, InOp, GoodSet
    <2>5. Extends(Mem(d), u)
      BY <1>1, <2>2, ExtendsAll
    <2> QED
      BY <1>1, <1>2, <1>6, <2>1, <2>3, <2>4, <2>5
  <1> QED
    BY <1>5, <1>6

\* No entry of the directory has the name.
NoName(v, dir, name) == \A q \in EntriesOf(v) : q \in SlotsIn(v, dir) => SlotAt(v, q).name # name

LEMMA NoNameExtends ==
    ASSUME NEW v, NEW u, SoundVol(v), Extends(v, u), NEW dir \in DirsOf(v), NEW name, NoName(v, dir, name)
    PROVE  /\ NoName(u, dir, name)
           /\ \A j \in Numbers(u, dir) : Entry(SlotIn(u, dir, j)) => SlotIn(u, dir, j).name # name
  <1>1. /\ SoundVol(u) /\ DirsOf(u) = DirsOf(v) /\ EntriesOf(u) = EntriesOf(v) /\ Heads(u) = Heads(v)
        /\ \A q \in EntriesOf(v) : SlotAt(u, q) = SlotAt(v, q)
        /\ \A h \in Heads(v) : InDir(v, h) \subseteq InDir(u, h)
    BY DEF Extends
  <1>2. DirsOf(v) \subseteq Heads(v)
    BY SoundIs
  <1>3. \A x \in DirsOf(v) : SlotsIn(v, x) \subseteq SlotsIn(u, x)
    BY <1>1, <1>2 DEF SlotsIn
  <1>4. \A x \in DirsOf(v) : x # dir => InDir(u, x) \cap InDir(u, dir) = {}
    BY <1>1, <1>2, SoundIs
  <1>5. \A x \in DirsOf(v) : x # dir => SlotsIn(u, x) \cap SlotsIn(u, dir) = {}
    BY <1>4 DEF SlotsIn
  <1>6. ASSUME NEW q \in EntriesOf(u), q \in SlotsIn(u, dir)
        PROVE  SlotAt(u, q).name # name
    <2>1. PICK x \in DirsOf(v) : q \in SlotsIn(v, x)
      BY <1>1, SoundIs
    <2>2. x = dir
      BY <1>3, <1>5, <1>6, <2>1
    <2> QED
      BY <1>1, <1>6, <2>1, <2>2 DEF NoName
  <1>7. ASSUME NEW j \in Numbers(u, dir), Entry(SlotIn(u, dir, j))
        PROVE  SlotIn(u, dir, j).name # name
    <2>1. Place(u, dir, j) \in SlotsIn(u, dir) /\ SlotIn(u, dir, j) = SlotAt(u, Place(u, dir, j))
      BY <1>1, SlotNumbers
    <2>2. Place(u, dir, j) \in EntriesOf(u)
      BY <1>1, <1>7, <2>1, SoundIs
    <2> QED
      BY <1>6, <2>1, <2>2
  <1> QED
    BY <1>6, <1>7 DEF NoName

NewFile(dir, name, at) == [dir |-> dir, name |-> name, data |-> <<>>, at |-> at]

\* The entry of a new file or directory.
LEMMA AddEntryGood ==
    ASSUME NEW w, NEW t, NEW b, NEW d, InOp(GoodSet(w, t), b, d, Mem(d)), ~d.dirty,
           NEW dir \in DirsOf(Mem(d)), NEW name \in Names, NEW kind \in {"file", "dir"},
           kind = "dir" => dir = RootDir, NEW f, Fresh(Mem(d), f),
           name \notin LongNames => NoName(Mem(d), dir, name)
    PROVE  LET e == AddEntry(d, dir, name, kind, f)
               p == EntryPlace(d, dir, name)
           IN  /\ InOp(GoodSet(w, t), b, e, Mem(e)) /\ ~e.dirty
               /\ ~e.ok => /\ Fresh(Mem(e), f) /\ Extends(Mem(d), Mem(e))
                           /\ \A X : Tight(Mem(d), X) => Tight(Mem(e), X)
               /\ e.ok => /\ Keeps(Mem(d), Mem(e)) /\ DirsOf(Mem(d)) \subseteq DirsOf(Mem(e))
                          /\ p \in Places /\ FileOK(NewFile(dir, name, p), f, Mem(e))
                          /\ kind = "dir" => f \in DirsOf(Mem(e))
                          /\ \A X : Tight(Mem(d), X) => Tight(Mem(e), X \ {f})
  <1> DEFINE r == Prepared(d, dir, name)
             p == EntryPlace(d, dir, name)
             s == Slot(kind, name, f)
             v == Mem(r)
             e == PutSlot(r, p, s)
             u == Mem(e)
  <1>0. name \in SlotNames /\ SoundVol(Mem(d))
    BY DEF SlotNames, InOp, GoodSet, Good
  <1>1. /\ InOp(GoodSet(w, t), b, r, v) /\ ~r.dirty
        /\ Extends(Mem(d), v)
        /\ \A y : Fresh(Mem(d), y) => Fresh(v, y)
        /\ \A X : Tight(Mem(d), X) => Tight(v, X)
        /\ r.ok => /\ p \in SlotsIn(v, dir) /\ ~Entry(SlotAt(v, p))
                   /\ name \notin LongNames =>
                        \A i, j \in Numbers(v, dir) :
                          Place(v, dir, i) = p /\ j < i => SlotIn(v, dir, j).kind # "end"
        /\ r.ok = RoomMade(d, dir, SlotsOf(name)).ok
    BY <1>0, PreparedGood
  <1>2. AddEntry(d, dir, name, kind, f) = IF r.ok THEN e ELSE r
    BY <1>1, AddEntryIs
  <1>3. f \in Clusters
    BY DEF Fresh, Loose, IsHead
  <1>4. s \in Slots
    BY <1>0, <1>3, SlotIs
  <1>5. dir \in DirsOf(v) /\ Keeps(Mem(d), v) /\ DirsOf(v) = DirsOf(Mem(d)) /\ SoundVol(v)
    BY <1>1 DEF Extends
  <1>6. name \notin LongNames =>
           \A j \in Numbers(v, dir) : Entry(SlotIn(v, dir, j)) => SlotIn(v, dir, j).name # name
    BY <1>0, <1>1, NoNameExtends
  <1>7. s = Slot(kind, name, f)
    OBVIOUS
  <1>8. p = EntryPlace(d, dir, name)
    OBVIOUS
  <1> HIDE DEF r, p, s
  <1>9. CASE ~r.ok
    BY <1>1, <1>2, <1>9
  <1>10. CASE r.ok
    <2>1. /\ SlotPut(v, u, dir, p, s)
          /\ Good(w, t, u) => InOp(GoodSet(w, t), b, e, u)
          /\ ~e.dirty /\ e.ok = r.ok
      <3>1. InOp(GoodSet(w, t), b, r, v) /\ ~r.dirty /\ p \in SlotsIn(v, dir)
        BY <1>1, <1>10
      <3> QED
        BY <3>1, <1>4, <1>5, PutSlotClean
    <2> HIDE DEF e
    <2>2. name \notin LongNames =>
             /\ \A i, j \in Numbers(v, dir) :
                  Place(v, dir, i) = p /\ j < i => SlotIn(v, dir, j).kind # "end"
             /\ \A j \in Numbers(v, dir) : Entry(SlotIn(v, dir, j)) => SlotIn(v, dir, j).name # name
      BY <1>1, <1>6, <1>10
    <2>3. kind = "file" \/ (kind = "dir" /\ dir = RootDir)
      OBVIOUS
    <2>4. ~Entry(SlotAt(v, p)) /\ Fresh(v, f)
      BY <1>1, <1>10
    <2>5. /\ Keeps(v, u) /\ SoundVol(u)
          /\ DirsOf(v) \subseteq DirsOf(u)
          /\ kind = "dir" => f \in DirsOf(u)
          /\ FileOK([dir |-> dir, name |-> name, data |-> <<>>, at |-> p], f, u)
          /\ \A X : Tight(v, X) => Tight(u, X \ {f})
      BY <1>7, <2>1, <2>2, <2>3, <2>4, EntryPut
    <2>6. FileOK(NewFile(dir, name, p), f, u)
      BY <2>5 DEF NewFile
    <2>7. Keeps(Mem(d), u)
      BY <1>5, <2>5 DEF Keeps
    <2>8. Good(w, t, u)
      BY <1>1, <2>5 DEF Keeps, InOp, GoodSet
    <2>9. p \in Places
      BY <1>1, <1>5, <1>10, SoundIs
    <2> QED
      BY <1>1, <1>2, <1>5, <1>8, <1>10, <2>1, <2>5, <2>6, <2>7, <2>8, <2>9
  <1> QED
    BY <1>9, <1>10

-----------------------------------------------------------------------------
(* The loops.                                                               *)

\* Round k of a loop: a cluster of the chain is freed, one is put behind the
\* tail, or one is written and the next looked up.
Round(loop, x, k) ==
    IF loop.kind = "free" THEN SetNext(x, loop.chain[k], Unused)
    ELSE IF loop.kind = "extend" THEN
        IF ~x.vol.ok THEN x
        ELSE IF NextFree(x.vol) = Unused THEN [x EXCEPT !.vol = Allocate(x.vol)]
        ELSE [vol |-> SetNext(Allocate(x.vol), x.tail, NextFree(x.vol)), tail |-> NextFree(x.vol)]
    ELSE IF k <= loop.offset THEN Get(x, loop.chain[k])
    ELSE Get(Put(x, loop.chain[k], loop.value), loop.chain[k])

IsRun(f, loop, x, n) == f = [k \in 0..n |-> IF k = 0 THEN x ELSE Round(loop, f[k - 1], k)]

LEMMA RunDefined ==
    ASSUME NEW loop, NEW x, NEW n \in Nat
    PROVE  \E f : IsRun(f, loop, x, n)
  <1> DEFINE S == {m \in Nat : \E f : IsRun(f, loop, x, m)}
  <1>1. 0 \in S
    <2>1. IsRun([i \in 0..0 |-> x], loop, x, 0)
      <3>1. \A i \in 0..0 : i = 0
        OBVIOUS
      <3> QED
        BY <3>1 DEF IsRun
    <2> QED
      BY <2>1
  <1>2. ASSUME NEW k \in 0..(n - 1), k \in S
        PROVE  k + 1 \in S
    <2>1. PICK g : IsRun(g, loop, x, k)
      BY <1>2
    <2> DEFINE m == k + 1
               h == [i \in 0..m |-> IF i = m THEN Round(loop, g[k], m) ELSE g[i]]
    <2>2. m \in Nat /\ m - 1 = k /\ m # 0
      OBVIOUS
    <2>3. \A i \in 0..k : g[i] = IF i = 0 THEN x ELSE Round(loop, g[i - 1], i)
      BY <2>1 DEF IsRun
    <2>4. \A i \in 0..m : h[i] = IF i = 0 THEN x ELSE Round(loop, h[i - 1], i)
      <3> TAKE i \in 0..m
      <3>1. h[i] = IF i = m THEN Round(loop, g[k], m) ELSE g[i]
        OBVIOUS
      <3>2. i # 0 => i - 1 \in 0..m /\ i - 1 # m
        BY <2>2
      <3>3. i # 0 => h[i - 1] = g[i - 1]
        BY <3>2
      <3> HIDE DEF h
      <3>4. i # m => i \in 0..k
        OBVIOUS
      <3>5. i = m => i - 1 = k /\ i # 0
        BY <2>2
      <3> QED
        BY <2>3, <3>1, <3>3, <3>4, <3>5
    <2>5. IsRun(h, loop, x, m)
      BY <2>4 DEF IsRun
    <2> QED
      BY <2>2, <2>5
  <1>3. \A k \in 0..n : k \in S
    <2> HIDE DEF S
    <2> QED
      BY <1>1, <1>2, UpTo
  <1> QED
    BY <1>3

\* g is what the loop of fat32_free_chain makes of d, round by round, up to e.
IsFreeing(g, d, chain, n, e) ==
    /\ g[0] = d /\ e = g[n]
    /\ \A k \in 1..n : g[k] = SetNext(g[k - 1], chain[k], Unused)

LEMMA FreeChainIs ==
    ASSUME NEW d, NEW c, Len(ChainOf(d.fat, c)) \in Nat
    PROVE  \E g : IsFreeing(g, d, ChainOf(d.fat, c), Len(ChainOf(d.fat, c)), FreeChain(d, c))
  <1> DEFINE chain == ChainOf(d.fat, c)
             n     == Len(chain)
             loop  == [kind |-> "free", chain |-> chain]
             freed == CHOOSE f : f = [k \in 0..n |->
                        IF k = 0 THEN d ELSE SetNext(f[k - 1], chain[k], Unused)]
  <1>1. FreeChain(d, c) = freed[n]
    BY Zenon DEF FreeChain
  <1>2. \E f : f = [k \in 0..n |-> IF k = 0 THEN d ELSE SetNext(f[k - 1], chain[k], Unused)]
    <2>1. PICK f : IsRun(f, loop, d, n)
      BY RunDefined
    <2>2. loop.kind = "free" /\ loop.chain = chain
      OBVIOUS
    <2> HIDE DEF loop, chain, n
    <2>3. f = [k \in 0..n |-> IF k = 0 THEN d ELSE Round(loop, f[k - 1], k)]
      BY <2>1 DEF IsRun
    <2>4. \A k \in 0..n : Round(loop, f[k - 1], k) = SetNext(f[k - 1], chain[k], Unused)
      BY <2>2 DEF Round
    <2> QED
      BY <2>3, <2>4
  <1>3. freed = [k \in 0..n |-> IF k = 0 THEN d ELSE SetNext(freed[k - 1], chain[k], Unused)]
    BY <1>2, Zenon
  <1> HIDE DEF freed, chain
  <1>4. freed[0] = d /\ \A k \in 1..n : freed[k] = SetNext(freed[k - 1], chain[k], Unused)
    BY <1>3 DEF chain
  <1>5. IsFreeing(freed, d, chain, n, FreeChain(d, c))
    BY <1>1, <1>4 DEF IsFreeing
  <1> QED
    BY <1>5 DEF chain

\* The first clusters of a chain.
FirstOf(s, k) == {s[j] : j \in 1..k}

\* One round of fat32_free_chain.
LEMMA FreeOne ==
    ASSUME NEW w, NEW t, NEW b, NEW d, NEW v, InOp(GoodSet(w, t), b, d, v),
           NEW c, Loose(Mem(d), c)
    PROVE  LET e == SetNext(d, c, Unused)
           IN  /\ \E u : InOp(GoodSet(w, t), b, e, u)
               /\ Keeps(Mem(d), Mem(e)) /\ e.ok = d.ok
               /\ d.fat[c] \in Clusters => Loose(Mem(e), d.fat[c])
               /\ \A X : Tight(Mem(d), X) => Tight(Mem(e), X \ {c})
               /\ \A y \in Clusters : y # c => e.fat[y] = d.fat[y]
  <1> DEFINE G == GoodSet(w, t)
             m == Mem(d)
             u == FatPut(m, c, Unused)
             e == SetNext(d, c, Unused)
  <1>1. m \in G /\ m \in Disks /\ Good(w, t, m) /\ SoundVol(m) /\ m.fat = d.fat
    BY DEF InOp, GoodSet, Good, Mem
  <1>2. c \in Clusters /\ Unused \in Links
    BY DEF Loose, IsHead, Links
  <1>20. Loose(m, c)
    OBVIOUS
  <1> HIDE DEF m
  <1>3. u.fat = [m.fat EXCEPT ![c] = Unused] /\ u.sec = m.sec
    BY <1>1, <1>2, FatPutIs DEF FatPut, Disks
  <1>4. u \in Disks /\ \A y \in Clusters : y # c => u.fat[y] = m.fat[y]
    BY <1>1, <1>2, FatPutIs
  <1> HIDE DEF u
  <1>5. /\ Keeps(m, u)
        /\ m.fat[c] \in Clusters => Loose(u, m.fat[c])
        /\ \A X : Tight(m, X) => Tight(u, X \ {c})
    BY <1>1, <1>20, <1>3, Cleared
  <1>6. u \in G
    BY <1>1, <1>4, <1>5 DEF GoodSet, Keeps
  <1>7. /\ \E x : InOp(G, b, e, x)
        /\ Mem(e) = u /\ e.ok = d.ok
    <2>1. FatPut(Mem(d), c, Unused) \in G
      BY <1>6 DEF m, u
    <2>2. InOp(G, b, d, v)
      OBVIOUS
    <2> HIDE DEF G
    <2>3. /\ InOp(G, b, e, v) \/ InOp(G, b, e, Mem(d))
          /\ Mem(e) = FatPut(Mem(d), c, Unused) /\ e.ok = d.ok
      BY <1>2, <2>1, <2>2, SetNextIs
    <2> QED
      BY <2>3 DEF m, u
  <1> HIDE DEF e
  <1>8. e.fat = u.fat
    BY <1>7 DEF Mem
  <1> QED
    BY <1>1, <1>4, <1>5, <1>7, <1>8 DEF m, e

\* fat32_free_chain of what no directory has an entry for.
LEMMA FreeChainGood ==
    ASSUME NEW w, NEW t, NEW b, NEW d, NEW v, InOp(GoodSet(w, t), b, d, v),
           NEW f, Loose(Mem(d), f)
    PROVE  LET e == FreeChain(d, f)
           IN  /\ \E u : InOp(GoodSet(w, t), b, e, u)
               /\ Keeps(Mem(d), Mem(e)) /\ e.ok = d.ok
               /\ \A X : Tight(Mem(d), X) => Tight(Mem(e), X \ InDir(Mem(d), f))
  <1> DEFINE m == Mem(d)
             s == ChainOf(d.fat, f)
             n == Len(s)
  <1>1. m.fat = d.fat /\ FatOK(d.fat) /\ IsHead(d.fat, f)
    BY DEF InOp, GoodSet, Good, Mem, SoundVol, Loose
  <1>2. /\ s \in Seq(Clusters) /\ n \in Nat /\ n >= 1 /\ s[1] = f
        /\ \A i \in 1..n : s[i] \in Clusters
        /\ \A i \in 1..(n - 1) : s[i + 1] = d.fat[s[i]]
        /\ \A i, j \in 1..n : s[i] = s[j] => i = j
        /\ InChain(d.fat, f) = {s[i] : i \in 1..n}
    <2> DEFINE fat == d.fat
    <2>1. FatOK(fat) /\ IsHead(fat, f)
      BY <1>1
    <2> HIDE DEF fat, m
    <2>2. LET z == ChainOf(fat, f)
          IN  /\ z \in Seq(Clusters) /\ Len(z) \in Nat /\ Len(z) >= 1 /\ z[1] = f
              /\ \A i \in 1..Len(z) : z[i] \in Clusters
              /\ \A i \in 1..(Len(z) - 1) : z[i + 1] = fat[z[i]]
              /\ \A i, j \in 1..Len(z) : z[i] = z[j] => i = j
              /\ InChain(fat, f) = {z[i] : i \in 1..Len(z)}
      BY ONLY <2>1, HeadChain
    <2> QED
      BY <2>2 DEF fat
  <1>3. PICK g : /\ g[0] = d /\ FreeChain(d, f) = g[n]
                 /\ \A k \in 1..n : g[k] = SetNext(g[k - 1], s[k], Unused)
    <2>1. Len(ChainOf(d.fat, f)) \in Nat
      BY <1>2
    <2>2. PICK g : IsFreeing(g, d, ChainOf(d.fat, f), Len(ChainOf(d.fat, f)), FreeChain(d, f))
      BY ONLY <2>1, FreeChainIs
    <2> HIDE DEF s, m
    <2>3. g[0] = d /\ FreeChain(d, f) = g[n] /\ \A k \in 1..n : g[k] = SetNext(g[k - 1], s[k], Unused)
      BY <2>2 DEF IsFreeing, s
    <2> QED
      BY <2>3
  <1>4. InDir(m, f) = FirstOf(s, n)
    BY <1>1, <1>2 DEF InDir, FirstOf
  <1> HIDE DEF s, n
  <1> DEFINE Ok(k) ==
               /\ \E u : InOp(GoodSet(w, t), b, g[k], u)
               /\ Keeps(m, Mem(g[k])) /\ g[k].ok = d.ok
               /\ k < n => Loose(Mem(g[k]), s[k + 1])
               /\ \A X : Tight(m, X) => Tight(Mem(g[k]), X \ FirstOf(s, k))
               /\ \A y \in Clusters : y \notin FirstOf(s, k) => g[k].fat[y] = d.fat[y]
             S == {k \in 0..n : Ok(k)}
  <1>5. 0 \in S
    <2>1. FirstOf(s, 0) = {} /\ 0 < n /\ 0 + 1 = 1 /\ 0 \in 0..n
      BY <1>2 DEF FirstOf
    <2>2. \A X : X \ {} = X
      OBVIOUS
    <2>3. Keeps(m, m) /\ Loose(m, s[1]) /\ InOp(GoodSet(w, t), b, d, v)
      BY <1>2 DEF Keeps
    <2> HIDE DEF m
    <2>4. Mem(g[0]) = m
      BY <1>3 DEF m
    <2> QED
      BY <1>3, <2>1, <2>2, <2>3, <2>4
  <1>6. ASSUME NEW k \in 0..(n - 1), k \in S
        PROVE  k + 1 \in S
    <2> DEFINE c == s[k + 1]
               x == g[k]
               e == g[k + 1]
    <2>1. k \in Nat /\ k < n /\ k + 1 \in 0..n /\ k + 1 \in 1..n /\ (k + 1) - 1 = k
      BY <1>2
    <2>2. e = SetNext(x, c, Unused)
      BY <1>3, <2>1
    <2>3. /\ \E u : InOp(GoodSet(w, t), b, x, u)
          /\ Keeps(m, Mem(x)) /\ x.ok = d.ok
          /\ Loose(Mem(x), c)
          /\ \A X : Tight(m, X) => Tight(Mem(x), X \ FirstOf(s, k))
          /\ \A y \in Clusters : y \notin FirstOf(s, k) => x.fat[y] = d.fat[y]
      BY <1>6, <2>1
    <2>4. c \in Clusters /\ c \notin FirstOf(s, k)
      <3>1. \A j \in 1..k : j \in 1..n /\ j # k + 1
        BY <1>2, <2>1
      <3> QED
        BY <1>2, <2>1, <3>1 DEF FirstOf
    <2>5. FirstOf(s, k + 1) = FirstOf(s, k) \cup {c}
      <3>1. 1..(k + 1) = (1..k) \cup {k + 1}
        BY <2>1
      <3> QED
        BY <3>1 DEF FirstOf
    <2>6. k + 1 < n => c \in Clusters /\ x.fat[c] = s[k + 1 + 1] /\ s[k + 1 + 1] \in Clusters
      <3> SUFFICES ASSUME k + 1 < n PROVE x.fat[c] = s[k + 1 + 1] /\ s[k + 1 + 1] \in Clusters
        BY <2>4
      <3>1. k + 1 \in 1..(n - 1) /\ k + 1 + 1 \in 1..n
        BY <1>2, <2>1
      <3> QED
        BY <1>2, <2>3, <2>4, <3>1
    <2> HIDE DEF c, x, e, m
    <2>7. /\ \E u : InOp(GoodSet(w, t), b, e, u)
          /\ Keeps(Mem(x), Mem(e)) /\ e.ok = x.ok
          /\ x.fat[c] \in Clusters => Loose(Mem(e), x.fat[c])
          /\ \A X : Tight(Mem(x), X) => Tight(Mem(e), X \ {c})
          /\ \A y \in Clusters : y # c => e.fat[y] = x.fat[y]
      BY <2>2, <2>3, FreeOne
    <2>8. Keeps(m, Mem(e))
      BY <2>3, <2>7 DEF Keeps
    <2>9. ASSUME NEW X, Tight(m, X)
          PROVE  Tight(Mem(e), X \ FirstOf(s, k + 1))
      <3>1. Tight(Mem(e), (X \ FirstOf(s, k)) \ {c})
        BY <2>3, <2>7, <2>9
      <3>2. (X \ FirstOf(s, k)) \ {c} = X \ FirstOf(s, k + 1)
        BY <2>5
      <3> QED
        BY <3>1, <3>2
    <2>10. k + 1 < n => Loose(Mem(e), s[k + 1 + 1])
      BY <2>6, <2>7
    <2>11. \A y \in Clusters : y \notin FirstOf(s, k + 1) => e.fat[y] = d.fat[y]
      BY <2>3, <2>5, <2>7
    <2> QED
      BY <2>1, <2>3, <2>7, <2>8, <2>9, <2>10, <2>11 DEF e
  <1>7. n \in S
    <2> HIDE DEF S
    <2>1. n \in Nat /\ n \in 0..n
      BY <1>2
    <2>2. \A k \in 0..(n - 1) : k \in S => k + 1 \in S
      BY <1>6
    <2> QED
      BY ONLY <1>5, <2>1, <2>2, UpTo
  <1> QED
    BY <1>3, <1>4, <1>7

\* u is v with zeroed clusters behind those of h.
Stretch(v, u, h) ==
    LET s == ChainOf(v.fat, h)
        z == ChainOf(u.fat, h)
    IN  /\ Extends(v, u)
        /\ Len(s) <= Len(z)
        /\ \A i \in 1..Len(s) : z[i] = s[i] /\ u.sec[z[i]] = v.sec[s[i]]
        /\ \A i \in 1..Len(z) : i > Len(s) => u.sec[z[i]] = Blank

\* v is u without the link to the last cluster of h.
OneBehind(v, u, h) ==
    /\ Extends(v, u) /\ v.sec = u.sec
    /\ \E c : Fresh(v, c) /\ ChainOf(u.fat, h) = Append(ChainOf(v.fat, h), c)

LEMMA StretchSelf ==
    ASSUME NEW v, SoundVol(v), NEW h \in Heads(v)
    PROVE  Stretch(v, v, h)
  <1> DEFINE s == ChainOf(v.fat, h)
  <1>1. Len(s) \in Nat
    BY SoundIs, HeadChain
  <1>2. Extends(v, v)
    BY ExtendsSelf
  <1> HIDE DEF s
  <1>3. Len(s) <= Len(s) /\ \A i \in 1..Len(s) : ~(i > Len(s))
    BY <1>1
  <1> QED
    BY <1>2, <1>3 DEF Stretch, s

LEMMA StretchAll ==
    ASSUME NEW v, SoundVol(v), NEW h \in Heads(v), NEW u, Stretch(v, u, h), NEW x, Stretch(u, x, h)
    PROVE  Stretch(v, x, h)
  <1> DEFINE s == ChainOf(v.fat, h)
             z == ChainOf(u.fat, h)
             y == ChainOf(x.fat, h)
  <1>1. Extends(v, x)
    BY ExtendsAll DEF Stretch
  <1>2. SoundVol(u) /\ SoundVol(x) /\ h \in Heads(u) /\ h \in Heads(x)
    BY DEF Stretch, Extends
  <1>3. Len(s) \in Nat /\ Len(z) \in Nat /\ Len(y) \in Nat
    BY <1>2, SoundIs, HeadChain
  <1>4. /\ Len(s) <= Len(z)
        /\ \A i \in 1..Len(s) : z[i] = s[i] /\ u.sec[z[i]] = v.sec[s[i]]
        /\ \A i \in 1..Len(z) : i > Len(s) => u.sec[z[i]] = Blank
    BY DEF Stretch
  <1>5. /\ Len(z) <= Len(y)
        /\ \A i \in 1..Len(z) : y[i] = z[i] /\ x.sec[y[i]] = u.sec[z[i]]
        /\ \A i \in 1..Len(y) : i > Len(z) => x.sec[y[i]] = Blank
    BY DEF Stretch
  <1> HIDE DEF s, z, y
  <1>6. \A i \in 1..Len(s) : i \in 1..Len(z)
    BY <1>3, <1>4
  <1>7. \A i \in 1..Len(y) : i > Len(z) \/ i \in 1..Len(z)
    BY <1>3
  <1>8. Len(s) <= Len(y)
    BY <1>3, <1>4, <1>5
  <1>9. \A i \in 1..Len(s) : y[i] = s[i] /\ x.sec[y[i]] = v.sec[s[i]]
    BY <1>4, <1>5, <1>6
  <1>10. \A i \in 1..Len(y) : i > Len(s) => x.sec[y[i]] = Blank
    BY <1>4, <1>5, <1>7
  <1> QED
    BY <1>1, <1>8, <1>9, <1>10 DEF Stretch, s, y

\* One round of the extension.
LEMMA ExtendOne ==
    ASSUME NEW w, NEW t, NEW b, NEW d, NEW v, InOp(GoodSet(w, t), b, d, v),
           NEW h \in Heads(Mem(d)), NextFree(d) # Unused
    PROVE  LET c == NextFree(d)
               a == Allocate(d)
               e == SetNext(a, Last(ChainOf(d.fat, h)), c)
           IN  /\ InOp(GoodSet(w, t), b, e, Mem(a)) /\ e.ok = d.ok
               /\ Stretch(Mem(d), Mem(e), h) /\ Extends(Mem(d), Mem(a)) /\ OneBehind(Mem(a), Mem(e), h)
               /\ Len(ChainOf(e.fat, h)) = Len(ChainOf(d.fat, h)) + 1
               /\ Last(ChainOf(e.fat, h)) = c
               /\ \A X : Tight(Mem(d), X) => Tight(Mem(e), X)
  <1> DEFINE m == Mem(d)
             c == NextFree(d)
             a == Allocate(d)
             s == ChainOf(d.fat, h)
             e == SetNext(a, Last(s), c)
             z == ChainOf(e.fat, h)
  <1>1. /\ InOp(GoodSet(w, t), b, a, Mem(a)) /\ ~a.dirty /\ a.ok = d.ok
        /\ c \in Clusters /\ Fresh(Mem(a), c)
        /\ Extends(m, Mem(a))
        /\ \A k \in Heads(m) : ChainOf(a.fat, k) = ChainOf(d.fat, k)
        /\ \A X : Tight(m, X) => Tight(Mem(a), X \cup {c})
        /\ \A k \in Heads(m) : c \notin InDir(m, k)
        /\ \A y \in Clusters : y # c => a.sec[y] = d.sec[y]
    BY AllocateGood
  <1>2. SoundVol(m) /\ h \in Heads(m) /\ m.fat = d.fat /\ m.sec = d.sec
    BY DEF InOp, GoodSet, Good, Mem
  <1> HIDE DEF c, a, m
  <1>3. h \in Heads(Mem(a)) /\ ChainOf(a.fat, h) = s
    BY <1>1, <1>2 DEF Extends
  <1>4. s \in Seq(Clusters) /\ Len(s) \in Nat /\ InChain(d.fat, h) = {s[i] : i \in 1..Len(s)}
        /\ \A i \in 1..Len(s) : s[i] \in Clusters
    BY <1>2, SoundIs, HeadChain
  <1>5. e = SetNext(a, Last(ChainOf(a.fat, h)), c)
    BY <1>3
  <1> HIDE DEF e
  <1>6. /\ InOp(GoodSet(w, t), b, e, Mem(a)) /\ e.ok = a.ok
        /\ Extends(Mem(a), Mem(e))
        /\ ChainOf(e.fat, h) = Append(ChainOf(a.fat, h), c)
        /\ \A X : Tight(Mem(a), X) => Tight(Mem(e), X \ {c})
        /\ e.sec = a.sec
    <2>1. /\ InOp(GoodSet(w, t), b, a, Mem(a)) /\ Fresh(Mem(a), c) /\ h \in Heads(Mem(a))
      BY <1>1, <1>3
    <2> DEFINE l == Last(ChainOf(a.fat, h))
    <2>2. /\ InOp(GoodSet(w, t), b, SetNext(a, l, c), Mem(a)) /\ SetNext(a, l, c).ok = a.ok
          /\ SetNext(a, l, c).sec = a.sec
          /\ ChainOf(SetNext(a, l, c).fat, h) = Append(ChainOf(a.fat, h), c)
      BY ONLY <2>1, LinkGood
    <2>3. /\ Extends(Mem(a), Mem(SetNext(a, l, c)))
          /\ \A X : Tight(Mem(a), X) => Tight(Mem(SetNext(a, l, c)), X \ {c})
      BY ONLY <2>1, LinkGood
    <2> QED
      BY <2>2, <2>3, <1>5
  <1>7. z = Append(s, c)
    BY <1>3, <1>6
  <1>8. Mem(e).fat = e.fat /\ Mem(e).sec = e.sec /\ Mem(a).fat = a.fat /\ Mem(a).sec = a.sec
    BY DEF Mem
  <1> HIDE DEF s, z
  <1>9. /\ Len(z) = Len(s) + 1 /\ Last(z) = c /\ z[Len(s) + 1] = c
        /\ \A i \in 1..Len(s) : z[i] = s[i]
    BY <1>1, <1>4, <1>7 DEF Last
  <1>10. \A i \in 1..Len(s) : s[i] # c /\ s[i] \in Clusters
    <2>1. c \notin {s[i] : i \in 1..Len(s)}
      BY <1>1, <1>2, <1>4 DEF InDir
    <2> QED
      BY <1>4, <2>1
  <1>11. Extends(m, Mem(e))
    BY <1>1, <1>6, ExtendsAll
  <1>12. Stretch(m, Mem(e), h)
    <2>1. e.sec[c] = Blank
      BY <1>1, <1>6, <1>8 DEF Fresh
    <2>2. \A i \in 1..Len(z) : i > Len(s) => i = Len(s) + 1
      BY <1>4, <1>9
    <2>3. \A i \in 1..Len(s) : z[i] = s[i] /\ e.sec[z[i]] = d.sec[s[i]]
      BY <1>1, <1>6, <1>9, <1>10
    <2>4. \A i \in 1..Len(z) : i > Len(s) => e.sec[z[i]] = Blank
      BY <1>9, <2>1, <2>2
    <2>5. Len(s) <= Len(z)
      BY <1>4, <1>9
    <2> QED
      BY <1>2, <1>8, <1>11, <2>3, <2>4, <2>5 DEF Stretch, s, z
  <1>13. OneBehind(Mem(a), Mem(e), h)
    BY <1>1, <1>3, <1>6, <1>7, <1>8 DEF OneBehind, z
  <1>14. ASSUME NEW X, Tight(m, X)
         PROVE  Tight(Mem(e), X)
    <2>1. Tight(Mem(e), (X \cup {c}) \ {c})
      BY <1>1, <1>6, <1>14
    <2> QED
      BY <2>1, TightSame
  <1> QED
    BY <1>1, <1>6, <1>9, <1>12, <1>13, <1>14 DEF m, c, a, s, e, z

\* The loop of fat32_vfs_write's first half.
LEMMA ExtendIs ==
    ASSUME NEW d, NEW tail, NEW n \in Nat
    PROVE  \E g : /\ g[0] = [vol |-> d, tail |-> tail] /\ Extend(d, tail, n) = g[n].vol
                  /\ \A k \in 1..n : g[k] = Round([kind |-> "extend"], g[k - 1], k)
  <1> DEFINE loop  == [kind |-> "extend"]
             x0    == [vol |-> d, tail |-> tail]
             grown == CHOOSE f : f = [k \in 0..n |->
                        IF k = 0 THEN [vol |-> d, tail |-> tail]
                        ELSE LET g == f[k - 1]
                                 c == NextFree(g.vol)
                             IN  IF ~g.vol.ok THEN g
                                 ELSE IF c = Unused THEN [g EXCEPT !.vol = Allocate(g.vol)]
                                 ELSE [vol |-> SetNext(Allocate(g.vol), g.tail, c), tail |-> c]]
  <1>1. Extend(d, tail, n) = grown[n].vol
    BY Zenon DEF Extend
  <1>2. \A x, k : Round(loop, x, k) =
                   IF ~x.vol.ok THEN x
                   ELSE IF NextFree(x.vol) = Unused THEN [x EXCEPT !.vol = Allocate(x.vol)]
                   ELSE [vol |-> SetNext(Allocate(x.vol), x.tail, NextFree(x.vol)), tail |-> NextFree(x.vol)]
    BY DEF Round
  <1>3. \E f : f = [k \in 0..n |->
                 IF k = 0 THEN [vol |-> d, tail |-> tail]
                 ELSE LET g == f[k - 1]
                          c == NextFree(g.vol)
                      IN  IF ~g.vol.ok THEN g
                          ELSE IF c = Unused THEN [g EXCEPT !.vol = Allocate(g.vol)]
                          ELSE [vol |-> SetNext(Allocate(g.vol), g.tail, c), tail |-> c]]
    <2>1. PICK f : IsRun(f, loop, x0, n)
      BY RunDefined
    <2> HIDE DEF loop
    <2>2. f = [k \in 0..n |-> IF k = 0 THEN x0 ELSE Round(loop, f[k - 1], k)]
      BY <2>1 DEF IsRun
    <2> QED
      BY <1>2, <2>2
  <1>4. grown = [k \in 0..n |->
                 IF k = 0 THEN [vol |-> d, tail |-> tail]
                 ELSE LET g == grown[k - 1]
                          c == NextFree(g.vol)
                      IN  IF ~g.vol.ok THEN g
                          ELSE IF c = Unused THEN [g EXCEPT !.vol = Allocate(g.vol)]
                          ELSE [vol |-> SetNext(Allocate(g.vol), g.tail, c), tail |-> c]]
    BY <1>3, Zenon
  <1> HIDE DEF grown, loop
  <1>5. grown[0] = [vol |-> d, tail |-> tail]
    BY <1>4
  <1>6. \A k \in 1..n : grown[k] = Round(loop, grown[k - 1], k)
    <2> TAKE k \in 1..n
    <2> DEFINE x == grown[k - 1]
    <2>1. k \in 0..n /\ k # 0
      OBVIOUS
    <2>2. grown[k] = IF ~x.vol.ok THEN x
                     ELSE IF NextFree(x.vol) = Unused THEN [x EXCEPT !.vol = Allocate(x.vol)]
                     ELSE [vol |-> SetNext(Allocate(x.vol), x.tail, NextFree(x.vol)), tail |-> NextFree(x.vol)]
      BY <1>4, <2>1
    <2> HIDE DEF x
    <2>3. grown[k] = Round(loop, x, k)
      BY <1>2, <2>2
    <2> QED
      BY <2>3 DEF x
  <1> QED
    BY <1>1, <1>5, <1>6 DEF loop

\* fat32_vfs_write's first half.
LEMMA ExtendGood ==
    ASSUME NEW w, NEW t, NEW b, NEW d, InOp(GoodSet(w, t), b, d, Mem(d)),
           NEW h \in Heads(Mem(d)), NEW n \in Nat
    PROVE  LET e == Extend(d, Last(ChainOf(d.fat, h)), n)
           IN  /\ Extends(Mem(d), Mem(e))
               /\ \A X : Tight(Mem(d), X) => Tight(Mem(e), X)
               /\ \E v : /\ InOp(GoodSet(w, t), b, e, v)
                         /\ e.ok => v = Mem(e) \/ (Extends(Mem(d), v) /\ OneBehind(v, Mem(e), h))
               /\ e.ok => /\ Stretch(Mem(d), Mem(e), h)
                          /\ Len(ChainOf(e.fat, h)) = Len(ChainOf(d.fat, h)) + n
  <1> DEFINE m == Mem(d)
             G == GoodSet(w, t)
             tail == Last(ChainOf(d.fat, h))
             l == Len(ChainOf(d.fat, h))
  <1>1. PICK g : /\ g[0] = [vol |-> d, tail |-> tail] /\ Extend(d, tail, n) = g[n].vol
                 /\ \A k \in 1..n : g[k] = Round([kind |-> "extend"], g[k - 1], k)
    BY ExtendIs
  <1>2. SoundVol(m) /\ h \in Heads(m) /\ m.fat = d.fat /\ InOp(G, b, d, m)
    BY DEF InOp, GoodSet, Good, Mem
  <1>3. l \in Nat
    BY <1>2, SoundIs, HeadChain
  <1>30. tail = Last(ChainOf(d.fat, h)) /\ l = Len(ChainOf(d.fat, h)) /\ m = Mem(d) /\ G = GoodSet(w, t)
    OBVIOUS
  <1> HIDE DEF m, l, tail, G
  <1> DEFINE Disk(v, e) == /\ InOp(G, b, e, v)
                           /\ e.ok => v = Mem(e) \/ (Extends(m, v) /\ OneBehind(v, Mem(e), h))
             Ok(k) ==
               /\ g[k] = [vol |-> g[k].vol, tail |-> g[k].tail]
               /\ Extends(m, Mem(g[k].vol))
               /\ \A X : Tight(m, X) => Tight(Mem(g[k].vol), X)
               /\ \E v : Disk(v, g[k].vol)
               /\ g[k].vol.ok => /\ Stretch(m, Mem(g[k].vol), h)
                                 /\ Len(ChainOf(g[k].vol.fat, h)) = l + k
                                 /\ g[k].tail = Last(ChainOf(g[k].vol.fat, h))
             S == {k \in 0..n : Ok(k)}
  <1>4. 0 \in S
    <2>1. g[0].vol = d /\ g[0].tail = tail /\ 0 \in 0..n /\ g[0] = [vol |-> g[0].vol, tail |-> g[0].tail]
      BY <1>1
    <2>2. Disk(m, d)
      BY <1>2, <1>30
    <2>3. Extends(m, m) /\ Stretch(m, m, h)
      BY <1>2, ExtendsSelf, StretchSelf
    <2> HIDE DEF Disk
    <2>4. Mem(g[0].vol) = m /\ l + 0 = l
      BY <2>1, <1>3, <1>30
    <2> QED
      BY <1>30, <2>1, <2>2, <2>3, <2>4
  <1>5. ASSUME NEW k \in 0..(n - 1), k \in S
        PROVE  k + 1 \in S
    <2> DEFINE x == g[k].vol
               y == g[k + 1].vol
               c == NextFree(x)
    <2>1. k \in Nat /\ k + 1 \in 0..n /\ k + 1 \in 1..n /\ (k + 1) - 1 = k
      OBVIOUS
    <2>2. g[k + 1] = Round([kind |-> "extend"], g[k], k + 1)
      BY <1>1, <2>1
    <2>3. g[k + 1] = IF ~g[k].vol.ok THEN g[k]
                     ELSE IF NextFree(g[k].vol) = Unused THEN [g[k] EXCEPT !.vol = Allocate(g[k].vol)]
                     ELSE [vol |-> SetNext(Allocate(g[k].vol), g[k].tail, NextFree(g[k].vol)),
                           tail |-> NextFree(g[k].vol)]
      BY <2>2 DEF Round
    <2>4. Ok(k)
      BY <1>5
    <2>5. CASE ~x.ok
      <3>1. g[k + 1] = g[k]
        BY <2>3, <2>5
      <3> HIDE DEF Disk
      <3> QED
        BY <2>1, <2>4, <2>5, <3>1
    <2>6. CASE x.ok /\ c = Unused
      <3>1. y = Allocate(x) /\ g[k + 1] = [vol |-> y, tail |-> g[k + 1].tail]
        <4>1. g[k + 1] = [g[k] EXCEPT !.vol = Allocate(g[k].vol)]
          BY <2>3, <2>6
        <4>2. g[k] = [vol |-> g[k].vol, tail |-> g[k].tail]
          BY <2>4
        <4> QED
          BY <4>1, <4>2
      <3>2. PICK v : InOp(G, b, x, v)
        BY <2>4
      <3> HIDE DEF x, c
      <3>3. /\ InOp(G, b, y, v) \/ InOp(G, b, y, Mem(x))
            /\ Mem(y) = Mem(x) /\ ~y.ok
        <4>1. NextFree(x) = Unused
          BY <2>6 DEF c
        <4> HIDE DEF y
        <4> QED
          BY <3>1, <3>2, <4>1, AllocateFull
      <3>4. \E z : Disk(z, y)
        BY <3>3
      <3> HIDE DEF Disk
      <3> QED
        BY <2>1, <2>4, <3>1, <3>3, <3>4 DEF x
    <2>7. CASE x.ok /\ c # Unused
      <3>1. /\ y = SetNext(Allocate(x), g[k].tail, c) /\ g[k + 1].tail = c
            /\ g[k + 1] = [vol |-> y, tail |-> g[k + 1].tail]
        BY <2>3, <2>7
      <3>2. PICK v : InOp(G, b, x, v)
        BY <2>4
      <3>3. /\ Extends(m, Mem(x)) /\ Stretch(m, Mem(x), h) /\ Len(ChainOf(x.fat, h)) = l + k
            /\ g[k].tail = Last(ChainOf(x.fat, h)) /\ \A X : Tight(m, X) => Tight(Mem(x), X)
        BY <2>4, <2>7
      <3>4. h \in Heads(Mem(x))
        BY <1>2, <3>3 DEF Extends
      <3>5. y = SetNext(Allocate(x), Last(ChainOf(x.fat, h)), NextFree(x)) /\ NextFree(x) # Unused
            /\ g[k + 1].tail = NextFree(x)
        BY <2>7, <3>1, <3>3
      <3> HIDE DEF x, y, c, Disk
      <3>6. /\ InOp(G, b, y, Mem(Allocate(x))) /\ y.ok = x.ok
            /\ Stretch(Mem(x), Mem(y), h) /\ Extends(Mem(x), Mem(Allocate(x)))
            /\ OneBehind(Mem(Allocate(x)), Mem(y), h)
            /\ Len(ChainOf(y.fat, h)) = Len(ChainOf(x.fat, h)) + 1
            /\ Last(ChainOf(y.fat, h)) = NextFree(x)
            /\ \A X : Tight(Mem(x), X) => Tight(Mem(y), X)
        BY ONLY <1>30, <3>2, <3>4, <3>5, ExtendOne
      <3>7. Extends(m, Mem(y)) /\ Stretch(m, Mem(y), h) /\ Extends(m, Mem(Allocate(x)))
        <4>1. Extends(Mem(x), Mem(y))
          BY <3>6 DEF Stretch
        <4>2. SoundVol(m) /\ h \in Heads(m) /\ Stretch(m, Mem(x), h) /\ Stretch(Mem(x), Mem(y), h)
          BY <1>2, <3>3, <3>6
        <4>3. Stretch(m, Mem(y), h)
          BY ONLY <4>2, StretchAll
        <4>4. Extends(m, Mem(y)) /\ Extends(m, Mem(Allocate(x)))
          BY <3>3, <3>6, <4>1, ExtendsAll
        <4> QED
          BY <4>3, <4>4
      <3>8. \A X : Tight(m, X) => Tight(Mem(y), X)
        BY <3>3, <3>6
      <3>9. Disk(Mem(Allocate(x)), y)
        BY <3>6, <3>7 DEF Disk
      <3>10. Len(ChainOf(y.fat, h)) = l + (k + 1)
        BY <1>3, <2>1, <3>3, <3>6
      <3>11. Ok(k + 1)
        BY <3>1, <3>5, <3>6, <3>7, <3>8, <3>9, <3>10 DEF y
      <3> QED
        BY <2>1, <3>11
    <2> QED
      BY <2>5, <2>6, <2>7
  <1>6. n \in S
    <2> HIDE DEF S
    <2>1. n \in 0..n
      OBVIOUS
    <2>2. \A k \in 0..(n - 1) : k \in S => k + 1 \in S
      BY <1>5
    <2> QED
      BY ONLY <1>4, <2>1, <2>2, UpTo, n \in Nat
  <1>7. Ok(n)
    BY <1>6
  <1> QED
    BY <1>1, <1>7, <1>30

Resized(s, n) == [s EXCEPT !.size = n]
StoredEnd(d, f, offset, len) == Min({offset + len, Len(ChainOf(d.fat, f))})

\* The loop of fat32_vfs_write's second half.
LEMMA StoredIs ==
    ASSUME NEW d, NEW at, NEW offset, NEW len, NEW x,
           StoredEnd(d, SlotAt(d, at).first, offset, len) \in Nat
    PROVE  LET s     == SlotAt(d, at)
               chain == ChainOf(d.fat, s.first)
               end   == StoredEnd(d, s.first, offset, len)
           IN  \E g : /\ g[0] = d
                      /\ \A k \in 1..end : g[k] = IF k <= offset THEN Get(g[k - 1], chain[k])
                                                  ELSE Get(Put(g[k - 1], chain[k], x), chain[k])
                      /\ Stored(d, at, offset, len, x) =
                           IF end > s.size THEN PutSlot(g[end], at, Resized(s, end)) ELSE g[end]
  <1> DEFINE s     == SlotAt(d, at)
             chain == ChainOf(d.fat, s.first)
             end   == StoredEnd(d, s.first, offset, len)
             loop  == [kind |-> "store", chain |-> chain, offset |-> offset, value |-> x]
             body  == CHOOSE f : f = [k \in 0..end |->
                        IF k = 0 THEN d
                        ELSE IF k <= offset THEN Get(f[k - 1], chain[k])
                        ELSE Get(Put(f[k - 1], chain[k], x), chain[k])]
  <1>1. Stored(d, at, offset, len, x) =
          IF end > s.size THEN PutSlot(body[end], at, [s EXCEPT !.size = end]) ELSE body[end]
    BY Zenon DEF Stored, StoredEnd
  <1>2. end \in Nat
    OBVIOUS
  <1>3. \A y, k : Round(loop, y, k) =
                    IF k <= offset THEN Get(y, chain[k]) ELSE Get(Put(y, chain[k], x), chain[k])
    <2>1. loop.kind = "store" /\ loop.chain = chain /\ loop.offset = offset /\ loop.value = x
      OBVIOUS
    <2> HIDE DEF loop, chain
    <2> QED
      BY <2>1 DEF Round
  <1> HIDE DEF s, chain, end
  <1>4. \E f : f = [k \in 0..end |->
                      IF k = 0 THEN d
                      ELSE IF k <= offset THEN Get(f[k - 1], chain[k])
                      ELSE Get(Put(f[k - 1], chain[k], x), chain[k])]
    <2>1. PICK f : IsRun(f, loop, d, end)
      BY <1>2, RunDefined
    <2> HIDE DEF loop
    <2>2. f = [k \in 0..end |-> IF k = 0 THEN d ELSE Round(loop, f[k - 1], k)]
      BY <2>1 DEF IsRun
    <2>3. \A k \in 0..end : Round(loop, f[k - 1], k) =
             IF k <= offset THEN Get(f[k - 1], chain[k])
             ELSE Get(Put(f[k - 1], chain[k], x), chain[k])
      BY <1>3
    <2> QED
      BY <2>2, <2>3
  <1>5. body = [k \in 0..end |->
                  IF k = 0 THEN d
                  ELSE IF k <= offset THEN Get(body[k - 1], chain[k])
                  ELSE Get(Put(body[k - 1], chain[k], x), chain[k])]
    BY <1>4, Zenon
  <1> HIDE DEF body
  <1>6. body[0] = d
    BY <1>2, <1>5
  <1>7. \A k \in 1..end : body[k] = IF k <= offset THEN Get(body[k - 1], chain[k])
                                    ELSE Get(Put(body[k - 1], chain[k], x), chain[k])
    <2> TAKE k \in 1..end
    <2>1. k \in 0..end /\ k # 0
      BY <1>2
    <2> QED
      BY <1>5, <2>1
  <1>8. Stored(d, at, offset, len, x) =
          IF end > s.size THEN PutSlot(body[end], at, Resized(s, end)) ELSE body[end]
    BY <1>1 DEF Resized
  <1> QED
    BY <1>6, <1>7, <1>8 DEF s, chain, end

\* A cluster that is no directory's and none of the files' in w.
Spare(w, v, c) ==
    /\ c \in Clusters
    /\ \A dir \in DirsOf(v) : c \notin InDir(v, dir)
    /\ \A f \in DOMAIN w : c \notin InDir(v, f)

\* The same but for what data clusters hold.
Near(w, t, v, u) == SameView(v, u) /\ u.fat = v.fat /\ u \in GoodSet(w, t)

LEMMA NearSelf ==
    ASSUME NEW w, NEW t, NEW v \in GoodSet(w, t)
    PROVE  Near(w, t, v, v)
  <1>1. SoundVol(v)
    BY DEF GoodSet, Good
  <1> QED
    BY <1>1, SoundIs DEF Near, SameView

LEMMA NearPut ==
    ASSUME NEW w, NEW t, NEW v, SoundVol(v), NEW u, Near(w, t, v, u), NEW c, Spare(w, v, c),
           NEW x \in Sectors
    PROVE  LET z == SecPut(u, c, x)
           IN  /\ Near(w, t, v, z) /\ z \in GoodSet(w, t)
               /\ z.sec[c] = x /\ \A e \in Clusters : e # c => z.sec[e] = u.sec[e]
  <1> DEFINE z == SecPut(u, c, x)
  <1>1. c \in Clusters /\ u \in Disks /\ Good(w, t, u) /\ SoundVol(u) /\ SameView(v, u) /\ u.fat = v.fat
    BY DEF Near, GoodSet, Good, Spare
  <1>2. z \in Disks /\ z.fat = u.fat /\ z.sec[c] = x /\ \A e \in Clusters : e # c => z.sec[e] = u.sec[e]
    BY <1>1, SecPutIs
  <1> HIDE DEF z
  <1>3. DirsOf(u) = DirsOf(v) /\ \A d : InDir(u, d) = InDir(v, d)
    BY <1>1, SameViewKeeps DEF InDir
  <1>4. (\A dir \in DirsOf(u) : c \notin InDir(u, dir)) /\ \A f \in DOMAIN w : c \notin InDir(u, f)
    BY <1>3 DEF Spare
  <1>5. SameView(u, z) /\ Good(w, t, z)
    BY <1>1, <1>2, <1>4, DataPut
  <1>6. \A dir \in DirsOf(v) : \A e \in InDir(v, dir) : z.sec[e] = v.sec[e]
    BY <1>1, <1>3, <1>5 DEF SameView
  <1>7. SameView(v, z)
    BY <1>1, <1>2, <1>6 DEF SameView
  <1> QED
    BY <1>1, <1>2, <1>5, <1>7 DEF Near, GoodSet, z

\* The driver has stored data: on the disk as it was, v, or as in memory, m.
Storing(w, t, b, v, m, x) ==
    /\ \E u : InOp(GoodSet(w, t), b, x, u) /\ (Near(w, t, v, u) \/ Near(w, t, m, u))
    /\ Near(w, t, m, Mem(x))

LEMMA GetStoring ==
    ASSUME NEW w, NEW t, NEW b, NEW v, NEW m, NEW x, Storing(w, t, b, v, m, x), NEW c \in Clusters
    PROVE  LET e == Get(x, c)
           IN  Storing(w, t, b, v, m, e) /\ e.sec = x.sec /\ e.ok = x.ok
  <1> DEFINE e == Get(x, c)
  <1>1. PICK u : InOp(GoodSet(w, t), b, x, u) /\ (Near(w, t, v, u) \/ Near(w, t, m, u))
    BY DEF Storing
  <1>2. /\ InOp(GoodSet(w, t), b, e, u) \/ InOp(GoodSet(w, t), b, e, Mem(x))
        /\ Mem(e) = Mem(x) /\ e.sec = x.sec /\ e.ok = x.ok
    BY <1>1, GetIs
  <1> HIDE DEF e
  <1>3. Near(w, t, m, Mem(x))
    BY DEF Storing
  <1>4. Storing(w, t, b, v, m, e)
    BY <1>1, <1>2, <1>3 DEF Storing
  <1> QED
    BY <1>2, <1>4 DEF e

\* The data of one cluster is new.
DataIn(x, e, c, val) ==
    /\ e.ok = x.ok /\ e.sec[c] = val
    /\ \A y \in Clusters : y # c => e.sec[y] = x.sec[y]

LEMMA PutStoring ==
    ASSUME NEW w, NEW t, NEW b, NEW v, SoundVol(v), NEW m, SoundVol(m),
           NEW x, Storing(w, t, b, v, m, x), NEW c, Spare(w, v, c), Spare(w, m, c),
           NEW val \in Values
    PROVE  LET e == Put(x, c, val)
           IN  Storing(w, t, b, v, m, e) /\ DataIn(x, e, c, val)
  <1> DEFINE e == Put(x, c, val)
             G == GoodSet(w, t)
  <1>1. PICK u : InOp(GoodSet(w, t), b, x, u) /\ (Near(w, t, v, u) \/ Near(w, t, m, u))
    BY DEF Storing
  <1>2. Near(w, t, m, Mem(x))
    BY DEF Storing
  <1>3. val \in Sectors /\ c \in Clusters
    BY DEF Sectors, Spare
  <1>4. /\ Near(w, t, v, SecPut(u, c, val)) \/ Near(w, t, m, SecPut(u, c, val))
        /\ SecPut(u, c, val) \in GoodSet(w, t)
    BY <1>1, <1>3, NearPut
  <1>5. /\ Near(w, t, m, SecPut(Mem(x), c, val)) /\ SecPut(Mem(x), c, val) \in GoodSet(w, t)
        /\ SecPut(Mem(x), c, val).sec[c] = val
        /\ \A y \in Clusters : y # c => SecPut(Mem(x), c, val).sec[y] = Mem(x).sec[y]
    BY <1>2, <1>3, NearPut
  <1>6. /\ InOp(GoodSet(w, t), b, e, SecPut(u, c, val))
        /\ Mem(e) = SecPut(Mem(x), c, val) /\ e.ok = x.ok
    <2>1. SecPut(Mem(x), c, val) \in G /\ SecPut(u, c, val) \in G /\ InOp(G, b, x, u)
      BY <1>1, <1>4, <1>5
    <2> HIDE DEF G
    <2>2. /\ InOp(G, b, e, SecPut(u, c, val))
          /\ Mem(e) = SecPut(Mem(x), c, val) /\ e.ok = x.ok
      BY <1>3, <2>1, PutIs
    <2> QED
      BY <2>2 DEF G
  <1> HIDE DEF e
  <1>7. e.sec = SecPut(Mem(x), c, val).sec /\ Mem(x).sec = x.sec
    BY <1>6 DEF Mem
  <1>8. Storing(w, t, b, v, m, e)
    BY <1>4, <1>5, <1>6 DEF Storing
  <1> QED
    BY <1>5, <1>6, <1>7, <1>8 DEF e, DataIn

\* The rounds of the loop, and what n of them do.
IsBody(g, d, s, val, offset, n) ==
    /\ g[0] = d
    /\ \A k \in 1..n : g[k] = IF k <= offset THEN Get(g[k - 1], s[k])
                              ELSE Get(Put(g[k - 1], s[k], val), s[k])

BodyDone(d, x, s, val, offset, n) ==
    /\ x.ok = d.ok
    /\ \A i \in 1..Len(s) : x.sec[s[i]] = IF offset < i /\ i <= n THEN val ELSE d.sec[s[i]]

LEMMA BodyGood ==
    ASSUME NEW w, NEW t, NEW b, NEW v, SoundVol(v), NEW m, SoundVol(m),
           NEW d, Storing(w, t, b, v, m, d),
           NEW s \in Seq(Clusters), \A i, j \in 1..Len(s) : s[i] = s[j] => i = j,
           \A i \in 1..Len(s) : Spare(w, v, s[i]) /\ Spare(w, m, s[i]),
           NEW val \in Values, NEW offset \in Nat, NEW n \in 0..Len(s),
           NEW g, IsBody(g, d, s, val, offset, n)
    PROVE  Storing(w, t, b, v, m, g[n]) /\ BodyDone(d, g[n], s, val, offset, n)
  <1>0. /\ g[0] = d
        /\ \A k \in 1..n : g[k] = IF k <= offset THEN Get(g[k - 1], s[k])
                                   ELSE Get(Put(g[k - 1], s[k], val), s[k])
    BY DEF IsBody
  <1> DEFINE Ok(k) ==
               /\ Storing(w, t, b, v, m, g[k]) /\ g[k].ok = d.ok
               /\ \A i \in 1..Len(s) : g[k].sec[s[i]] =
                    IF offset < i /\ i <= k THEN val ELSE d.sec[s[i]]
             S == {k \in 0..n : Ok(k)}
  <1>1. 0 \in S
    <2>1. \A i \in 1..Len(s) : ~(offset < i /\ i <= 0)
      OBVIOUS
    <2>2. 0 \in 0..n
      OBVIOUS
    <2> QED
      BY <1>0, <2>1, <2>2
  <1>2. ASSUME NEW k \in 0..(n - 1), k \in S
        PROVE  k + 1 \in S
    <2> DEFINE x == g[k]
               c == s[k + 1]
               e == g[k + 1]
    <2>1. k \in Nat /\ k + 1 \in 1..n /\ k + 1 \in 0..n /\ (k + 1) - 1 = k /\ k + 1 \in 1..Len(s)
      OBVIOUS
    <2>2. e = IF k + 1 <= offset THEN Get(x, c) ELSE Get(Put(x, c, val), c)
      BY <1>0, <2>1
    <2>3. c \in Clusters /\ Spare(w, v, c) /\ Spare(w, m, c)
      BY <2>1
    <2>4. /\ Storing(w, t, b, v, m, x) /\ x.ok = d.ok
          /\ \A i \in 1..Len(s) : x.sec[s[i]] = IF offset < i /\ i <= k THEN val ELSE d.sec[s[i]]
      BY <1>2
    <2>5. \A i \in 1..Len(s) : s[i] \in Clusters /\ (s[i] = c <=> i = k + 1)
      BY <2>1
    <2> HIDE DEF x, c, e
    <2>6. CASE k + 1 <= offset
      <3>1. Storing(w, t, b, v, m, e) /\ e.sec = x.sec /\ e.ok = x.ok
        <4>1. e = Get(x, c)
          BY <2>2, <2>6
        <4> QED
          BY ONLY <2>3, <2>4, <4>1, GetStoring
      <3>2. \A i \in 1..Len(s) : (offset < i /\ i <= k + 1) <=> (offset < i /\ i <= k)
        BY <2>1, <2>6
      <3>3. \A i \in 1..Len(s) : e.sec[s[i]] = IF offset < i /\ i <= k + 1 THEN val ELSE d.sec[s[i]]
        BY <2>4, <3>1, <3>2
      <3>4. Ok(k + 1)
        BY <2>4, <3>1, <3>3 DEF e
      <3> QED
        BY <2>1, <3>4
    <2>7. CASE ~(k + 1 <= offset)
      <3> DEFINE y == Put(x, c, val)
      <3>1. /\ Storing(w, t, b, v, m, y) /\ y.ok = x.ok
            /\ y.sec[c] = val /\ \A z \in Clusters : z # c => y.sec[z] = x.sec[z]
        <4>1. Storing(w, t, b, v, m, y) /\ DataIn(x, y, c, val)
          BY <2>3, <2>4, PutStoring
        <4> QED
          BY <4>1 DEF DataIn
      <3> HIDE DEF y
      <3>2. e = Get(y, c)
        BY <2>2, <2>7 DEF y
      <3>3. Storing(w, t, b, v, m, e) /\ e.sec = y.sec /\ e.ok = y.ok
        BY <2>3, <3>1, <3>2, GetStoring
      <3>4. ASSUME NEW i \in 1..Len(s)
            PROVE  e.sec[s[i]] = IF offset < i /\ i <= k + 1 THEN val ELSE d.sec[s[i]]
        <4>1. CASE i = k + 1
          <5>1. offset < i /\ i <= k + 1
            BY <2>1, <2>7, <4>1
          <5> QED
            BY <2>5, <3>1, <3>3, <4>1, <5>1
        <4>2. CASE i # k + 1
          <5>1. (offset < i /\ i <= k + 1) <=> (offset < i /\ i <= k)
            BY <2>1, <4>2
          <5>2. e.sec[s[i]] = x.sec[s[i]]
            BY <2>5, <3>1, <3>3, <4>2
          <5> QED
            BY <2>4, <5>1, <5>2
        <4> QED
          BY <4>1, <4>2
      <3>5. Ok(k + 1)
        BY <2>4, <3>1, <3>3, <3>4 DEF e
      <3> QED
        BY <2>1, <3>5
    <2> QED
      BY <2>6, <2>7
  <1>3. n \in S
    <2> HIDE DEF S
    <2>1. n \in 0..n /\ n \in Nat
      OBVIOUS
    <2>2. \A k \in 0..(n - 1) : k \in S => k + 1 \in S
      BY <1>2
    <2> QED
      BY ONLY <1>1, <2>1, <2>2, UpTo
  <1> QED
    BY <1>3 DEF BodyDone

\* What fat32_vfs_write's second half leaves in memory.
Rewritten(d, e, at, offset, end, val) ==
    LET s     == SlotAt(Mem(d), at)
        z     == SlotAt(Mem(e), at)
        chain == ChainOf(d.fat, s.first)
    IN  /\ e.ok = d.ok /\ e.fat = d.fat
        /\ DirsOf(Mem(e)) = DirsOf(Mem(d)) /\ EntriesOf(Mem(e)) = EntriesOf(Mem(d))
        /\ z.kind = s.kind /\ z.name = s.name /\ z.first = s.first
        /\ z.size = IF end > s.size THEN end ELSE s.size
        /\ \A q \in EntriesOf(Mem(d)) : q # at => SlotAt(Mem(e), q) = SlotAt(Mem(d), q)
        /\ \A i \in 1..Len(chain) :
             e.sec[chain[i]] = IF offset < i /\ i <= end THEN val ELSE d.sec[chain[i]]

LEMMA ResizedIs ==
    ASSUME NEW s \in Slots, NEW n \in 0..MaxSize
    PROVE  /\ Resized(s, n) \in Slots
           /\ Resized(s, n).kind = s.kind /\ Resized(s, n).name = s.name
           /\ Resized(s, n).first = s.first /\ Resized(s, n).size = n
  BY DEF Resized, Slots

\* The size in the entry.
LEMMA SizeStored ==
    ASSUME NEW w, NEW t, NEW b, NEW x, NEW u, InOp(GoodSet(w, t), b, x, u),
           NEW dir, dir \in DirsOf(u), dir \in DirsOf(Mem(x)),
           NEW at, at \in SlotsIn(u, dir), at \in SlotsIn(Mem(x), dir),
           NEW s, s = SlotAt(Mem(x), at), s = SlotAt(u, at), s.kind = "file",
           s.first \notin DOMAIN w, s.first \in t,
           NEW n \in 0..MaxSize,
           n <= Len(ChainOf(u.fat, s.first)) \/ n = Len(ChainOf(u.fat, s.first)) + 1,
           n <= Len(ChainOf(x.fat, s.first)) \/ n = Len(ChainOf(x.fat, s.first)) + 1
    PROVE  LET e == PutSlot(x, at, Resized(s, n))
           IN  /\ \E q : InOp(GoodSet(w, t), b, e, q)
               /\ SlotPut(Mem(x), Mem(e), dir, at, Resized(s, n))
               /\ e.ok = x.ok /\ e.fat = x.fat
  <1> DEFINE z == Resized(s, n)
             e == PutSlot(x, at, z)
             m == Mem(x)
  <1>1. /\ Good(w, t, m) /\ SoundVol(m) /\ Good(w, t, u) /\ SoundVol(u)
        /\ m.fat = x.fat /\ m \in GoodSet(w, t) /\ u \in GoodSet(w, t) /\ InOp(GoodSet(w, t), b, x, u)
        /\ dir \in DirsOf(m) /\ at \in SlotsIn(m, dir) /\ s = SlotAt(m, at)
    BY DEF InOp, GoodSet, Good, Mem
  <1>2. s \in Slots
    BY <1>1, SoundIs
  <1>3. z \in Slots
    BY <1>2, ResizedIs
  <1>4. z.kind = s.kind /\ z.name = s.name /\ z.first = s.first /\ z.size = n
    BY <1>2, ResizedIs
  <1> HIDE DEF z, m
  <1>5. /\ SlotPut(m, Mem(e), dir, at, z)
        /\ \E q : /\ SlotPut(u, q, dir, at, z)
                  /\ Good(w, t, Mem(e)) /\ Good(w, t, q) => InOp(GoodSet(w, t), b, e, q)
        /\ e.ok = x.ok /\ e.fat = x.fat
    BY <1>1, <1>3, PutSlotIs DEF m
  <1> HIDE DEF e
  <1>6. ASSUME NEW v, NEW q, SlotPut(v, q, dir, at, z), Good(w, t, v), SlotAt(v, at) = s,
               n <= Len(ChainOf(v.fat, s.first)) \/ n = Len(ChainOf(v.fat, s.first)) + 1
        PROVE  Good(w, t, q)
    <2>1. /\ SlotAt(v, at).kind = "file" /\ z.kind = "file" /\ z.size = n
          /\ z.first = SlotAt(v, at).first /\ z.name = SlotAt(v, at).name
      BY <1>4, <1>6
    <2>2. \A w2, t2 : Good(w2, t2, v) /\ z.first \notin DOMAIN w2 /\ z.first \in t2 /\
                      (n <= Len(ChainOf(v.fat, z.first)) \/ n = Len(ChainOf(v.fat, z.first)) + 1)
                      => Good(w2, t2, q)
      BY ONLY <1>6, <2>1, SizePut
    <2> QED
      BY <1>4, <1>6, <2>2
  <1>7. Good(w, t, Mem(e))
    BY <1>1, <1>5, <1>6
  <1>8. \E q : InOp(GoodSet(w, t), b, e, q)
    BY <1>1, <1>5, <1>6, <1>7
  <1> QED
    BY <1>5, <1>8 DEF e, z, m

\* fat32_vfs_write's second half.
LEMMA StoredGood ==
    ASSUME NEW w, NEW t, NEW b, NEW d, NEW v, InOp(GoodSet(w, t), b, d, v),
           NEW dir, dir \in DirsOf(v), dir \in DirsOf(Mem(d)),
           NEW at, at \in SlotsIn(v, dir), at \in SlotsIn(Mem(d), dir),
           SlotAt(d, at).kind = "file",
           NEW f, f = SlotAt(d, at).first, f \notin DOMAIN w, f \in t,
           \A c \in InDir(Mem(d), f) : Spare(w, v, c) /\ Spare(w, Mem(d), c),
           Len(ChainOf(v.fat, f)) \in Nat, Len(ChainOf(d.fat, f)) <= Len(ChainOf(v.fat, f)) + 1,
           NEW offset \in Nat, NEW len \in Nat, offset + len <= MaxSize, NEW val \in Values
    PROVE  LET e   == Stored(d, at, offset, len, val)
               end == StoredEnd(d, f, offset, len)
           IN  /\ \E u : InOp(GoodSet(w, t), b, e, u)
               /\ Rewritten(d, e, at, offset, end, val)
               /\ \A X : Tight(Mem(d), X) => Tight(Mem(e), X)
               /\ end \in Nat /\ end <= offset + len /\ end <= Len(ChainOf(d.fat, f))
               /\ end = offset + len \/ end = Len(ChainOf(d.fat, f))
  <1> DEFINE m     == Mem(d)
             s     == SlotAt(m, at)
             chain == ChainOf(d.fat, f)
             n     == Len(chain)
             end   == StoredEnd(d, f, offset, len)
             e     == Stored(d, at, offset, len, val)
  <1>1. /\ Good(w, t, m) /\ SoundVol(m) /\ Good(w, t, v) /\ SoundVol(v) /\ m.fat = d.fat /\ m.sec = d.sec
        /\ m \in GoodSet(w, t) /\ v \in GoodSet(w, t) /\ v.sec = d.sec
    BY DEF InOp, GoodSet, Good, Mem, Behind
  <1>2. s = SlotAt(d, at) /\ s = SlotAt(v, at) /\ s.first = f /\ s.kind = "file"
    BY <1>1 DEF SlotAt
  <1>3. at \in EntriesOf(m) /\ f \in Heads(m) /\ s \in Slots
    <2>1. at \in EntriesOf(m) /\ s \in Slots
      <3>1. Entry(SlotAt(m, at))
        BY <1>2 DEF Entry
      <3> QED
        BY <1>1, <3>1, SoundIs
    <2> QED
      BY <1>2, <2>1, HeadsAre
  <1>4. /\ chain \in Seq(Clusters) /\ n \in Nat /\ \A i, j \in 1..n : chain[i] = chain[j] => i = j
        /\ InDir(m, f) = {chain[i] : i \in 1..n}
    <2>1. FatOK(d.fat) /\ IsHead(d.fat, f)
      BY <1>1, <1>3, SoundIs
    <2> QED
      BY <1>1, <2>1, HeadChain DEF InDir
  <1>5. /\ end \in Nat /\ end <= offset + len /\ end <= n /\ (end = offset + len \/ end = n)
        /\ end \in 0..n /\ end \in 0..MaxSize
    <2>1. offset + len \in Nat
      OBVIOUS
    <2> DEFINE a == offset + len
    <2>2. end = Min({a, n})
      BY DEF StoredEnd
    <2> HIDE DEF a, n, end
    <2>3. end = IF a <= n THEN a ELSE n
      BY <1>4, <2>1, <2>2, MinOfTwo DEF a
    <2> QED
      BY <1>4, <2>1, <2>3, FatBoundsAssumption DEF a
  <1>6. PICK g : /\ g[0] = d
                 /\ \A k \in 1..end : g[k] = IF k <= offset THEN Get(g[k - 1], chain[k])
                                             ELSE Get(Put(g[k - 1], chain[k], val), chain[k])
                 /\ e = IF end > s.size THEN PutSlot(g[end], at, Resized(s, end)) ELSE g[end]
    <2>1. StoredEnd(d, SlotAt(d, at).first, offset, len) \in Nat
      BY <1>2, <1>5
    <2> HIDE DEF s
    <2>2. s = SlotAt(d, at) /\ s.first = f
      BY <1>2
    <2> QED
      BY ONLY <2>1, <2>2, StoredIs
  <1>7. \A i \in 1..n : Spare(w, v, chain[i]) /\ Spare(w, m, chain[i]) /\ chain[i] \in InDir(m, f)
    BY <1>4
  <1>8. Storing(w, t, b, v, m, d)
    BY <1>1, NearSelf DEF Storing
  <1>9. f = s.first /\ s = SlotAt(m, at)
    BY <1>2
  <1>60. IsBody(g, d, chain, val, offset, end)
    BY <1>6 DEF IsBody
  <1> HIDE DEF m, s, chain, end, e
  <1> DEFINE x == g[end]
  <1>10. /\ Storing(w, t, b, v, m, x) /\ x.ok = d.ok
         /\ \A i \in 1..n : x.sec[chain[i]] = IF offset < i /\ i <= end THEN val ELSE d.sec[chain[i]]
    <2>1. SoundVol(v) /\ SoundVol(m) /\ val \in Values /\ offset \in Nat
      BY <1>1
    <2>2. Storing(w, t, b, v, m, x) /\ BodyDone(d, x, chain, val, offset, end)
      BY ONLY <1>4, <1>5, <1>60, <1>7, <1>8, <2>1, BodyGood
    <2> QED
      BY <2>2 DEF BodyDone
  <1> HIDE DEF x
  <1>11. PICK u : InOp(GoodSet(w, t), b, x, u) /\ (Near(w, t, v, u) \/ Near(w, t, m, u))
    BY <1>10 DEF Storing
  <1>12. Near(w, t, m, Mem(x)) /\ x.fat = d.fat /\ Mem(x).fat = d.fat /\ Mem(x).sec = x.sec
    BY <1>1, <1>10 DEF Storing, Near, Mem
  <1>13. /\ DirsOf(Mem(x)) = DirsOf(m) /\ EntriesOf(Mem(x)) = EntriesOf(m) /\ Heads(Mem(x)) = Heads(m)
         /\ \A q \in EntriesOf(m) : SlotAt(Mem(x), q) = SlotAt(m, q)
         /\ SoundVol(Mem(x))
    BY <1>1, <1>12, SameViewKeeps DEF Near
  <1>14. \A h : InDir(Mem(x), h) = InDir(m, h) /\ SlotsIn(Mem(x), h) = SlotsIn(m, h)
    BY <1>1, <1>12 DEF InDir, SlotsIn
  <1>15. ASSUME NEW X, Tight(m, X)
         PROVE  Tight(Mem(x), X)
    BY <1>1, <1>12, <1>13, <1>14, <1>15 DEF Tight
  <1>16. CASE ~(end > s.size)
    <2>1. e = x
      BY <1>6, <1>16 DEF x
    <2>2. Rewritten(d, e, at, offset, end, val)
      BY <1>3, <1>9, <1>10, <1>12, <1>13, <1>16, <2>1 DEF Rewritten, chain, m
    <2> QED
      BY <1>5, <1>11, <1>15, <2>1, <2>2 DEF m, e, end, chain
  <1>17. CASE end > s.size
    <2>1. e = PutSlot(x, at, Resized(s, end))
      BY <1>6, <1>17 DEF x
    <2>2. \A q : Near(w, t, q, u) /\ (q = v \/ q = m) =>
             dir \in DirsOf(u) /\ at \in SlotsIn(u, dir) /\ SlotAt(u, at) = s /\ u.fat = q.fat
      <3> SUFFICES ASSUME NEW q, Near(w, t, q, u), q = v \/ q = m
                   PROVE  dir \in DirsOf(u) /\ at \in SlotsIn(u, dir) /\ SlotAt(u, at) = s /\ u.fat = q.fat
        OBVIOUS
      <3>1. dir \in DirsOf(q) /\ at \in SlotsIn(q, dir) /\ SlotAt(q, at) = s /\ SoundVol(q)
        BY <1>1, <1>2, <1>9 DEF m
      <3>2. SameView(q, u) /\ u.fat = q.fat
        BY DEF Near
      <3>3. DirsOf(u) = DirsOf(q) /\ SlotAt(u, at) = SlotAt(q, at)
        BY <3>1, <3>2, SameViewKeeps
      <3>4. SlotsIn(u, dir) = SlotsIn(q, dir)
        BY <3>2 DEF SlotsIn, InDir
      <3> QED
        BY <3>1, <3>2, <3>3, <3>4
    <2>3. dir \in DirsOf(u) /\ at \in SlotsIn(u, dir) /\ SlotAt(u, at) = s
      BY <1>11, <2>2
    <2>4. dir \in DirsOf(Mem(x)) /\ at \in SlotsIn(Mem(x), dir) /\ SlotAt(Mem(x), at) = s
      BY <1>3, <1>9, <1>13, <1>14 DEF m
    <2>5. u.fat = v.fat \/ u.fat = d.fat
      BY <1>1, <1>11, <2>2
    <2>6. /\ end <= Len(ChainOf(u.fat, f)) \/ end = Len(ChainOf(u.fat, f)) + 1
          /\ end <= Len(ChainOf(x.fat, f)) \/ end = Len(ChainOf(x.fat, f)) + 1
      <3>1. end <= Len(ChainOf(d.fat, f))
        BY <1>5 DEF chain
      <3>2. Len(ChainOf(d.fat, f)) \in Nat
        BY <1>4 DEF chain
      <3>3. end <= Len(ChainOf(v.fat, f)) \/ end = Len(ChainOf(v.fat, f)) + 1
        BY <1>5, <3>1, <3>2
      <3> QED
        BY <1>12, <2>5, <3>1, <3>3
    <2>7. /\ \E q : InOp(GoodSet(w, t), b, e, q)
          /\ SlotPut(Mem(x), Mem(e), dir, at, Resized(s, end))
          /\ e.ok = x.ok /\ e.fat = x.fat
      <3>1. /\ InOp(GoodSet(w, t), b, x, u) /\ s.first \notin DOMAIN w /\ s.first \in t /\ end \in 0..MaxSize
            /\ s.kind = "file"
            /\ end <= Len(ChainOf(u.fat, s.first)) \/ end = Len(ChainOf(u.fat, s.first)) + 1
            /\ end <= Len(ChainOf(x.fat, s.first)) \/ end = Len(ChainOf(x.fat, s.first)) + 1
        BY <1>2, <1>5, <1>9, <1>11, <2>6
      <3> QED
        BY ONLY <2>1, <2>3, <2>4, <3>1, SizeStored
    <2>8. /\ Resized(s, end).kind = s.kind /\ Resized(s, end).name = s.name
          /\ Resized(s, end).first = s.first /\ Resized(s, end).size = end
      BY <1>3, <1>5, ResizedIs DEF s, m
    <2>9. /\ Mem(e).fat = e.fat /\ Mem(e).sec = e.sec
      BY DEF Mem
    <2>10. /\ DirsOf(Mem(e)) = DirsOf(Mem(x)) /\ EntriesOf(Mem(e)) = EntriesOf(Mem(x))
           /\ \A q \in EntriesOf(Mem(x)) : q # at => SlotAt(Mem(e), q) = SlotAt(Mem(x), q)
           /\ \A X : Tight(Mem(x), X) => Tight(Mem(e), X)
      <3>1. /\ SlotAt(Mem(x), at).kind = "file" /\ Resized(s, end).kind = "file"
            /\ Resized(s, end).first = SlotAt(Mem(x), at).first
            /\ Resized(s, end).name = SlotAt(Mem(x), at).name
        BY <1>2, <1>9, <2>4, <2>8
      <3> QED
        BY ONLY <2>7, <2>8, <3>1, SizePut
    <2>11. SlotAt(Mem(e), at) = Resized(s, end) /\ \A c \in Clusters : c # at[1] => e.sec[c] = x.sec[c]
      BY <1>12, <2>7, <2>9, SlotPutIs
    <2>12. \A i \in 1..n : chain[i] \in Clusters /\ chain[i] # at[1]
      <3>1. at[1] \in InDir(m, dir) /\ dir \in DirsOf(m)
        BY DEF SlotsIn, m
      <3> QED
        BY <1>7, <3>1 DEF Spare
    <2>13. \A i \in 1..n : e.sec[chain[i]] = IF offset < i /\ i <= end THEN val ELSE d.sec[chain[i]]
      BY <1>10, <2>11, <2>12
    <2>14. Rewritten(d, e, at, offset, end, val)
      BY <1>3, <1>9, <1>10, <1>12, <1>13, <1>17, <2>7, <2>8, <2>10, <2>11, <2>13
         DEF Rewritten, chain, m
    <2>15. \A X : Tight(m, X) => Tight(Mem(e), X)
      BY <1>15, <2>10
    <2> QED
      BY <1>5, <2>7, <2>14, <2>15 DEF m, e, end, chain
  <1> QED
    BY <1>16, <1>17

-----------------------------------------------------------------------------
(* The operations.                                                          *)

\* What was written completely but for the file of the operation.
Others == [f \in DOMAIN want \ {busy} |-> want[f]]

\* The writes to be made lead through volumes that are good for all files but
\* the one of the operation, to one that is good for all and is in memory.
FatInv ==
    /\ TypeOK
    /\ ~ram.dirty /\ pending \in Seq(Writes)
    /\ pending = <<>> => busy = Unused
    /\ \E v : /\ Shown(GoodSet(Others, torn \cup {busy}), disk, pending, v)
              /\ Good(want, torn, v) /\ v.fat = ram.fat
              /\ ~leaky => Tight(v, {})

\* The slots by their numbers.
LEMMA SlotsAre ==
    ASSUME NEW v, SoundVol(v), NEW dir \in DirsOf(v)
    PROVE  /\ DirSlots(v, dir) = [i \in Numbers(v, dir) |-> SlotIn(v, dir, i)]
           /\ Range(DirSlots(v, dir)) = {SlotAt(v, p) : p \in SlotsIn(v, dir)}
  <1>1. DirSlots(v, dir) = [i \in Numbers(v, dir) |-> SlotIn(v, dir, i)]
    BY DEF DirSlots, Numbers, SlotIn, Place
  <1>2. Range(DirSlots(v, dir)) = {SlotIn(v, dir, i) : i \in Numbers(v, dir)}
    BY <1>1 DEF Range
  <1>3. \A x : x \in Range(DirSlots(v, dir)) <=> \E p \in SlotsIn(v, dir) : x = SlotAt(v, p)
    BY <1>2, SlotNumbers
  <1> QED
    BY <1>1, <1>3

LEMMA MatchesAre ==
    ASSUME NEW v, SoundVol(v), NEW dir \in DirsOf(v), NEW name
    PROVE  Matches(v, dir, name) =
             {i \in Numbers(v, dir) :
                /\ \A j \in 1..i : SlotIn(v, dir, j).kind # "end"
                /\ Entry(SlotIn(v, dir, i)) /\ SlotIn(v, dir, i).name = name
                /\ name \in LongNames => i > 1 /\ SlotIn(v, dir, i - 1) = Slot("lfn", name, 0)}
  <1> DEFINE s == DirSlots(v, dir)
             P(i) == /\ \A j \in 1..i : s[j].kind # "end"
                     /\ Entry(s[i]) /\ s[i].name = name
                     /\ name \in LongNames => i > 1 /\ s[i - 1] = Slot("lfn", name, 0)
             Q(i) == /\ \A j \in 1..i : SlotIn(v, dir, j).kind # "end"
                     /\ Entry(SlotIn(v, dir, i)) /\ SlotIn(v, dir, i).name = name
                     /\ name \in LongNames => i > 1 /\ SlotIn(v, dir, i - 1) = Slot("lfn", name, 0)
  <1>1. s = [i \in Numbers(v, dir) |-> SlotIn(v, dir, i)]
    BY SlotsAre
  <1>2. Matches(v, dir, name) = {i \in DOMAIN s : P(i)}
    BY DEF Matches
  <1>3. /\ Numbers(v, dir) \subseteq Nat \ {0}
        /\ \A i \in Numbers(v, dir), j \in Nat : j # 0 /\ j <= i => j \in Numbers(v, dir)
    BY SlotNumbers
  <1> HIDE DEF s
  <1>4. DOMAIN s = Numbers(v, dir) /\ \A i \in Numbers(v, dir) : s[i] = SlotIn(v, dir, i)
    BY <1>1
  <1>5. ASSUME NEW i \in Numbers(v, dir)
        PROVE  P(i) <=> Q(i)
    <2>1. \A j \in 1..i : j \in Numbers(v, dir)
      BY <1>3
    <2>2. i > 1 => i - 1 \in Numbers(v, dir)
      BY <1>3
    <2>3. \A j \in 1..i : s[j] = SlotIn(v, dir, j)
      BY <1>4, <2>1
    <2>4. i > 1 => s[i - 1] = SlotIn(v, dir, i - 1)
      BY <1>4, <2>2
    <2> QED
      BY <1>4, <2>3, <2>4
  <1> QED
    BY <1>2, <1>4, <1>5

\* What the scan finds.
LEMMA LookupIs ==
    ASSUME NEW v, SoundVol(v), NEW dir \in DirsOf(v), NEW name, Exists(v, dir, name)
    PROVE  LET at == Lookup(v, dir, name)
           IN  at \in SlotsIn(v, dir) /\ Entry(SlotAt(v, at)) /\ SlotAt(v, at).name = name
  <1> DEFINE M == Matches(v, dir, name)
             i == Min(M)
  <1>1. /\ \A k \in M : k \in Numbers(v, dir) /\ Entry(SlotIn(v, dir, k)) /\ SlotIn(v, dir, k).name = name
    BY MatchesAre
  <1>2. /\ Numbers(v, dir) \subseteq Nat \ {0}
        /\ \A k \in Numbers(v, dir) :
             Place(v, dir, k) \in SlotsIn(v, dir) /\ SlotIn(v, dir, k) = SlotAt(v, Place(v, dir, k))
    BY SlotNumbers
  <1>3. M # {} /\ Lookup(v, dir, name) = Place(v, dir, i)
    BY DEF Exists, Lookup
  <1> HIDE DEF M
  <1>4. M \in SUBSET Nat
    BY <1>1, <1>2
  <1>5. i \in M
    BY <1>3, <1>4, MinIs
  <1> QED
    BY <1>1, <1>2, <1>3, <1>5

\* An entry with a short name is found.
LEMMA ShortFound ==
    ASSUME NEW v, SoundVol(v), ShortOK(v), NEW dir \in DirsOf(v),
           NEW p \in SlotsIn(v, dir), Entry(SlotAt(v, p)), SlotAt(v, p).name \notin LongNames
    PROVE  Exists(v, dir, SlotAt(v, p).name) /\ Lookup(v, dir, SlotAt(v, p).name) = p
  <1> DEFINE name == SlotAt(v, p).name
             M == Matches(v, dir, name)
  <1>1. PICK i \in Numbers(v, dir) : Place(v, dir, i) = p
    BY SlotNumbers
  <1>2. SlotIn(v, dir, i) = SlotAt(v, p) /\ i \in Nat \ {0}
    BY <1>1, SlotNumbers
  <1>3. /\ \A j \in Numbers(v, dir) : j <= i => SlotIn(v, dir, j).kind # "end"
        /\ \A j \in Numbers(v, dir) : Entry(SlotIn(v, dir, j)) /\ SlotIn(v, dir, j).name = name => j = i
    BY <1>1, <1>2 DEF ShortOK
  <1>4. M = {k \in Numbers(v, dir) :
                /\ \A j \in 1..k : SlotIn(v, dir, j).kind # "end"
                /\ Entry(SlotIn(v, dir, k)) /\ SlotIn(v, dir, k).name = name
                /\ name \in LongNames => k > 1 /\ SlotIn(v, dir, k - 1) = Slot("lfn", name, 0)}
    BY MatchesAre
  <1>5. \A j \in 1..i : SlotIn(v, dir, j).kind # "end"
    <2> TAKE j \in 1..i
    <2>1. j \in Numbers(v, dir) /\ j <= i
      BY <1>2, SlotNumbers
    <2> QED
      BY <1>3, <2>1
  <1>6. name \notin LongNames /\ Entry(SlotIn(v, dir, i)) /\ SlotIn(v, dir, i).name = name
    BY <1>2
  <1>7. M = {i}
    <2> HIDE DEF name, M
    <2> QED
      BY <1>3, <1>4, <1>5, <1>6
  <1>8. Min(M) = i
    <2>1. {i} \in SUBSET Nat /\ {i} # {}
      BY <1>2
    <2> QED
      BY <1>7, <2>1, MinIs
  <1> QED
    BY <1>1, <1>7, <1>8 DEF Exists, Lookup

LEMMA NotFound ==
    ASSUME NEW v, SoundVol(v), ShortOK(v), NEW dir \in DirsOf(v), NEW name, name \notin LongNames,
           ~Exists(v, dir, name)
    PROVE  NoName(v, dir, name)
  <1> SUFFICES ASSUME NEW q \in EntriesOf(v), q \in SlotsIn(v, dir), SlotAt(v, q).name = name
               PROVE  FALSE
    BY DEF NoName
  <1>1. Entry(SlotAt(v, q))
    BY SoundIs
  <1> QED
    BY <1>1, ShortFound

\* The directories of the model are those of the volume.
LEMMA DirsAreDirs ==
    ASSUME SoundVol(disk)
    PROVE  Dirs = DirsOf(disk)
  <1>1. RootDir \in DirsOf(disk)
    BY DirsAre
  <1>2. Range(DirSlots(disk, RootDir)) = {SlotAt(disk, p) : p \in SlotsIn(disk, RootDir)}
    BY <1>1, SlotsAre
  <1>3. \A x : x \in Dirs <=> x \in DirsOf(disk)
    BY <1>2, DirsAre DEF Dirs
  <1> QED
    BY <1>3

\* Between operations the disk has everything.
LEMMA IdleIs ==
    ASSUME FatInv, Idle
    PROVE  /\ Good(want, torn, disk) /\ SoundVol(disk) /\ disk \in Disks
           /\ disk.fat = ram.fat /\ (~leaky => Tight(disk, {}))
           /\ Mem(Volume) = disk /\ ~Volume.dirty /\ Volume.ok /\ Volume.fat = disk.fat
           /\ \A w, t : Good(w, t, disk) => InOp(GoodSet(w, t), disk, Volume, Mem(Volume))
  <1>1. PICK v : /\ Shown(GoodSet(Others, torn \cup {busy}), disk, pending, v)
                 /\ Good(want, torn, v) /\ v.fat = ram.fat
                 /\ ~leaky => Tight(v, {})
    BY DEF FatInv
  <1>2. pending = <<>> /\ Len(pending) = 0
    BY DEF Idle
  <1>3. v = disk /\ disk \in Disks
    <2>1. PICK ds \in [0..Len(pending) -> GoodSet(Others, torn \cup {busy})] :
            ds[0] = disk /\ ds[Len(pending)] = v
      BY <1>1 DEF Shown
    <2>2. ds[0] = disk /\ ds[0] = v /\ ds[0] \in GoodSet(Others, torn \cup {busy})
      BY <1>2, <2>1
    <2> QED
      BY <2>2 DEF GoodSet
  <1>4. Good(want, torn, disk) /\ SoundVol(disk) /\ disk.fat = ram.fat /\ (~leaky => Tight(disk, {}))
    BY <1>1, <1>3 DEF Good
  <1>5. /\ Volume.fat = ram.fat /\ Volume.sec = disk.sec /\ ~Volume.dirty /\ Volume.ok
        /\ Volume.log = <<>> /\ Volume.cache = ram.cache
    BY DEF Volume, FatInv
  <1>6. Mem(Volume) = disk
    BY <1>3, <1>4, <1>5 DEF Mem, Disks
  <1>7. Volume \in Drivers
    <2>1. <<>> \in Seq(Writes)
      OBVIOUS
    <2>2. ram.cache \in FatSectors \cup {NoSector} /\ ram.dirty \in BOOLEAN /\ ram.hint \in Clusters
      BY DEF FatInv, TypeOK
    <2>3. ram.fat \in [Clusters -> Links] /\ disk.sec \in [Clusters -> Sectors]
      BY <1>3, <1>4 DEF Disks
    <2> QED
      BY <2>1, <2>2, <2>3 DEF Drivers, Volume
  <1>8. ASSUME NEW w, NEW t, Good(w, t, disk)
        PROVE  InOp(GoodSet(w, t), disk, Volume, Mem(Volume))
    <2>1. disk \in GoodSet(w, t) /\ GoodSet(w, t) \subseteq Disks
      BY <1>3, <1>8 DEF GoodSet
    <2>2. Behind(Volume, disk)
      BY <1>4, <1>5, <1>6 DEF Behind
    <2>3. Shown(GoodSet(w, t), disk, <<>>, disk)
      <3> DEFINE ds == [k \in 0..0 |-> disk]
      <3>1. Len(<<>>) = 0 /\ ds \in [0..0 -> GoodSet(w, t)] /\ ds[0] = disk /\ \A k \in 1..0 : FALSE
        BY <2>1
      <3> HIDE DEF ds
      <3> QED
        BY <3>1 DEF Shown
    <2> QED
      BY <1>5, <1>6, <1>7, <2>1, <2>2, <2>3 DEF InOp
  <1> QED
    BY <1>3, <1>4, <1>5, <1>6, <1>8

LEMMA ShownWeaker ==
    ASSUME NEW G, NEW H, G \subseteq H, NEW b, NEW log, NEW v, Shown(G, b, log, v)
    PROVE  Shown(H, b, log, v)
  <1>1. PICK ds \in [0..Len(log) -> G] :
          /\ ds[0] = b /\ ds[Len(log)] = v
          /\ \A k \in 1..Len(log) : ds[k] = Written(ds[k - 1], log[k])
    BY DEF Shown
  <1>2. ds \in [0..Len(log) -> H]
    BY <1>1
  <1> QED
    BY <1>1, <1>2 DEF Shown

LEMMA ShownNone ==
    ASSUME NEW G, NEW b, NEW v
    PROVE  Shown(G, b, <<>>, v) <=> v = b /\ b \in G
  <1>0. Len(<<>>) = 0 /\ \A k \in 1..0 : FALSE
    OBVIOUS
  <1>1. ASSUME Shown(G, b, <<>>, v)
        PROVE  v = b /\ b \in G
    <2>1. PICK ds \in [0..0 -> G] : ds[0] = b /\ ds[0] = v
      BY <1>0, <1>1 DEF Shown
    <2>2. ds[0] \in G
      OBVIOUS
    <2> QED
      BY <2>1, <2>2
  <1>2. ASSUME v = b, b \in G
        PROVE  Shown(G, b, <<>>, v)
    <2> DEFINE ds == [k \in 0..0 |-> b]
    <2>1. ds \in [0..0 -> G] /\ ds[0] = b
      BY <1>2
    <2> HIDE DEF ds
    <2> QED
      BY <1>0, <1>2, <2>1 DEF Shown
  <1> QED
    BY <1>1, <1>2

WantedTypes(w) == DOMAIN w \subseteq Clusters /\ \A f \in DOMAIN w : w[f] \in Files

Excluding(w, f) == [g \in DOMAIN w \ {f} |-> w[g]]

LEMMA ExcludingGood ==
    ASSUME NEW w, NEW t, NEW f, NEW v, Good(w, t, v)
    PROVE  Good(Excluding(w, f), t \cup {f}, v)
  <1> DEFINE w2 == Excluding(w, f)
             t2 == t \cup {f}
  <1>1. DOMAIN w2 \subseteq DOMAIN w /\ (\A g \in DOMAIN w2 : w2[g] = w[g]) /\ t \subseteq t2
    BY DEF Excluding
  <1> HIDE DEF w2, t2
  <1>2. Good(w2, t2, v)
    BY <1>1, GoodWeaker
  <1> QED
    BY <1>2 DEF w2, t2

\* An operation has been computed.
LEMMA PerformKeeps ==
    ASSUME FatInv, NEW e, NEW f \in Clusters \cup {Unused}, Perform(e, f), NEW w, NEW t,
           InOp(GoodSet(w, t), disk, e, Mem(e)), ~e.dirty,
           \A v : Good(w, t, v) => Good(Excluding(want', f), torn' \cup {f}, v),
           Good(want', torn', Mem(e)), ~leaky' => Tight(Mem(e), {}),
           WantedTypes(want'), torn' \subseteq Clusters, leaky' \in BOOLEAN
    PROVE  FatInv'
  <1>1. /\ e \in Drivers /\ Mem(e) \in Disks /\ Shown(GoodSet(w, t), disk, e.log, Mem(e))
        /\ Mem(e).fat = e.fat
    BY DEF InOp, GoodSet, Mem
  <1>2. /\ pending' = e.log /\ disk' = disk /\ crashes' = crashes
        /\ ram' = [fat |-> e.fat, cache |-> NoSector, dirty |-> e.dirty, hint |-> e.hint]
        /\ busy' = IF e.log = <<>> THEN Unused ELSE f
    BY DEF Perform
  <1>3. e.log \in Seq(Writes) /\ e.fat \in [Clusters -> Links] /\ e.hint \in Clusters /\ e.dirty \in BOOLEAN
    BY <1>1 DEF Drivers
  <1>4. TypeOK'
    <2>1. busy' \in Clusters \cup {Unused}
      BY <1>2
    <2>2. /\ ram'.fat \in [Clusters -> Clusters \cup {Unused, Eoc}]
          /\ ram'.cache \in FatSectors \cup {NoSector} /\ ram'.dirty \in BOOLEAN
          /\ ram'.hint \in Clusters
      BY <1>2, <1>3 DEF Links
    <2>3. DOMAIN want' \subseteq Clusters /\ \A g \in DOMAIN want' : want'[g] \in Files
      BY DEF WantedTypes
    <2>4. disk'.fat = disk.fat /\ disk'.sec = disk.sec /\ crashes' = crashes
      BY <1>2
    <2> QED
      BY <2>1, <2>2, <2>3, <2>4 DEF FatInv, TypeOK
  <1>5. Others' = Excluding(want', busy')
    BY DEF Others, Excluding
  <1>6. Shown(GoodSet(Others', torn' \cup {busy'}), disk, e.log, Mem(e))
    <2>1. CASE e.log = <<>>
      <3>1. Mem(e) = disk
        BY <1>1, <2>1, ShownNone
      <3>2. Good(Excluding(want', busy'), torn' \cup {busy'}, disk)
        BY <3>1, ExcludingGood
      <3>3. disk \in GoodSet(Others', torn' \cup {busy'})
        BY <1>1, <1>5, <3>1, <3>2 DEF GoodSet
      <3> QED
        BY <2>1, <3>1, <3>3, ShownNone
    <2>2. CASE e.log # <<>>
      <3>1. busy' = f
        BY <1>2, <2>2
      <3>2. GoodSet(w, t) \subseteq GoodSet(Others', torn' \cup {busy'})
        BY <1>5, <3>1 DEF GoodSet
      <3> QED
        BY <1>1, <3>2, ShownWeaker
    <2> QED
      BY <2>1, <2>2
  <1>7. \E v : /\ Shown(GoodSet(Others', torn' \cup {busy'}), disk', pending', v)
               /\ Good(want', torn', v) /\ v.fat = ram'.fat
               /\ ~leaky' => Tight(v, {})
    <2>1. ram'.fat = Mem(e).fat
      BY <1>1, <1>2
    <2> QED
      BY <1>2, <1>6, <2>1
  <1>8. ~ram'.dirty /\ pending' \in Seq(Writes) /\ (pending' = <<>> => busy' = Unused)
    BY <1>2, <1>3
  <1> QED
    BY <1>4, <1>7, <1>8 DEF FatInv

LEMMA ShownTail ==
    ASSUME NEW G, NEW b, NEW log \in Seq(Writes), log # <<>>, NEW v, Shown(G, b, log, v)
    PROVE  /\ Shown(G, Written(b, Head(log)), Tail(log), v)
           /\ Written(b, Head(log)) \in G /\ Tail(log) \in Seq(Writes)
  <1> DEFINE n == Len(log)
             rest == Tail(log)
  <1>1. PICK ds \in [0..n -> G] :
          /\ ds[0] = b /\ ds[n] = v
          /\ \A k \in 1..n : ds[k] = Written(ds[k - 1], log[k])
    BY DEF Shown
  <1>2. /\ n \in Nat /\ n >= 1 /\ Head(log) = log[1] /\ rest \in Seq(Writes) /\ Len(rest) = n - 1
        /\ \A k \in 1..(n - 1) : rest[k] = log[k + 1]
    OBVIOUS
  <1> DEFINE fs == [k \in 0..(n - 1) |-> ds[k + 1]]
  <1> HIDE DEF n, rest
  <1>3. fs \in [0..(n - 1) -> G]
    BY <1>2
  <1>4. ds[1] = Written(b, Head(log)) /\ ds[1] \in G
    <2>1. 1 \in 1..n /\ 1 \in 0..n /\ 1 - 1 = 0
      BY <1>2
    <2> QED
      BY <1>1, <1>2, <2>1
  <1>5. fs[0] = Written(b, Head(log)) /\ fs[n - 1] = v
    <2>1. 0 \in 0..(n - 1) /\ n - 1 \in 0..(n - 1) /\ 0 + 1 = 1 /\ (n - 1) + 1 = n
      BY <1>2
    <2> QED
      BY <1>1, <1>4, <2>1
  <1>6. \A k \in 1..(n - 1) : fs[k] = Written(fs[k - 1], rest[k])
    <2> TAKE k \in 1..(n - 1)
    <2>1. /\ k \in 0..(n - 1) /\ k - 1 \in 0..(n - 1) /\ k + 1 \in 1..n
          /\ (k + 1) - 1 = k /\ (k - 1) + 1 = k
      BY <1>2
    <2>2. fs[k] = ds[k + 1] /\ fs[k - 1] = ds[k]
      BY <2>1
    <2> QED
      BY <1>1, <1>2, <2>1, <2>2
  <1> HIDE DEF fs
  <1>7. Shown(G, Written(b, Head(log)), rest, v)
    BY <1>2, <1>3, <1>5, <1>6 DEF Shown
  <1> QED
    BY <1>2, <1>4, <1>7 DEF rest

LEMMA DiskTypes ==
    ASSUME NEW v \in Disks
    PROVE  /\ v.fat \in [Clusters -> Clusters \cup {Unused, Eoc}]
           /\ \A c \in Clusters : v.sec[c] \in Values \/ v.sec[c] \in [1..PerCluster -> Slots]
  BY DEF Disks, Sectors, Links

\* A sector is written.
LEMMA DiskWriteKeeps == FatInv /\ DiskWrite => FatInv'
  <1> SUFFICES ASSUME FatInv, DiskWrite PROVE FatInv'
    OBVIOUS
  <1> DEFINE G == GoodSet(Others, torn \cup {busy})
             after == Written(disk, Head(pending))
  <1>1. PICK v : /\ Shown(G, disk, pending, v)
                 /\ Good(want, torn, v) /\ v.fat = ram.fat
                 /\ ~leaky => Tight(v, {})
    BY DEF FatInv
  <1>2. /\ pending # <<>> /\ disk' = after /\ pending' = Tail(pending)
        /\ busy' = IF Tail(pending) = <<>> THEN Unused ELSE busy
        /\ ram' = ram /\ want' = want /\ torn' = torn /\ leaky' = leaky /\ crashes' = crashes
    BY DEF DiskWrite
  <1>3. pending \in Seq(Writes) /\ ~ram.dirty /\ TypeOK
    BY DEF FatInv
  <1>40. pending # <<>> /\ pending \in Seq(Writes) /\ Shown(G, disk, pending, v)
    BY <1>1, <1>2, <1>3
  <1> HIDE DEF G
  <1>4. Shown(G, after, Tail(pending), v) /\ after \in G /\ Tail(pending) \in Seq(Writes)
    BY ONLY <1>40, ShownTail
  <1>5. after \in Disks
    BY <1>4 DEF G, GoodSet
  <1>6. TypeOK'
    <2>1. /\ after.fat \in [Clusters -> Clusters \cup {Unused, Eoc}]
          /\ \A c \in Clusters : after.sec[c] \in Values \/ after.sec[c] \in [1..PerCluster -> Slots]
      BY <1>5, DiskTypes
    <2>2. busy' \in Clusters \cup {Unused}
      BY <1>2, <1>3 DEF TypeOK
    <2> HIDE DEF after
    <2> QED
      BY <1>2, <1>3, <2>1, <2>2 DEF TypeOK
  <1> HIDE DEF after
  <1>7. Others' = Excluding(want, busy')
    BY <1>2 DEF Others, Excluding
  <1>8. Shown(GoodSet(Others', torn' \cup {busy'}), disk', pending', v)
    <2>1. CASE Tail(pending) = <<>>
      <3>0. Shown(G, after, <<>>, v)
        BY <1>4, <2>1
      <3>1. v = after
        BY ONLY <3>0, ShownNone
      <3>2. Good(Others', torn' \cup {busy'}, v)
        BY <1>1, <1>2, <1>7, ExcludingGood
      <3>3. after \in GoodSet(Others', torn' \cup {busy'})
        BY <1>5, <3>1, <3>2 DEF GoodSet
      <3>4. Shown(GoodSet(Others', torn' \cup {busy'}), after, <<>>, after)
        BY ONLY <3>3, ShownNone
      <3> QED
        BY <1>2, <2>1, <3>1, <3>4
    <2>2. CASE Tail(pending) # <<>>
      <3>1. Others' = Others /\ torn' \cup {busy'} = torn \cup {busy}
        BY <1>2, <1>7, <2>2 DEF Others, Excluding
      <3> QED
        BY <1>2, <1>4, <3>1 DEF G
    <2> QED
      BY <2>1, <2>2
  <1>9. pending' = <<>> => busy' = Unused
    BY <1>2
  <1>10. Good(want', torn', v) /\ v.fat = ram'.fat /\ (~leaky' => Tight(v, {}))
    BY <1>1, <1>2
  <1>11. ~ram'.dirty /\ pending' \in Seq(Writes)
    BY <1>2, <1>3, <1>4
  <1> QED
    BY <1>6, <1>8, <1>9, <1>10, <1>11 DEF FatInv

\* The machine stops and starts again.
LEMMA CrashKeeps == FatInv /\ Crash => FatInv'
  <1> SUFFICES ASSUME FatInv, Crash PROVE FatInv'
    OBVIOUS
  <1> DEFINE G == GoodSet(Others, torn \cup {busy})
  <1>1. PICK v : /\ Shown(G, disk, pending, v)
                 /\ Good(want, torn, v) /\ v.fat = ram.fat
                 /\ ~leaky => Tight(v, {})
    BY DEF FatInv
  <1>2. /\ ram' = [fat |-> disk.fat, cache |-> NoSector, dirty |-> FALSE, hint |-> RootDir + 1]
        /\ pending' = <<>> /\ busy' = Unused /\ want' = Without(busy)
        /\ torn' = torn \cup ({busy} \ {Unused}) /\ leaky' = (leaky \/ pending # <<>>)
        /\ disk' = disk /\ crashes' = crashes + 1 /\ crashes < MaxCrashes
    BY DEF Crash, Mounted
  <1>3. pending \in Seq(Writes) /\ TypeOK
    BY DEF FatInv
  <1>4. disk \in Disks /\ Good(Others, torn \cup {busy}, disk)
    <2>1. PICK ds \in [0..Len(pending) -> G] : ds[0] = disk
      BY <1>1 DEF Shown
    <2>2. 0 \in 0..Len(pending)
      BY <1>3
    <2>3. disk \in G
      BY <2>1, <2>2
    <2> QED
      BY <2>3 DEF GoodSet
  <1>5. /\ DOMAIN Without(busy) = {x \in DOMAIN want \ {busy} : want[x].dir # busy}
        /\ \A g \in DOMAIN Without(busy) : Without(busy)[g] = want[g]
    BY DEF Without
  <1>6. Good(want', torn \cup {busy}, disk)
    <2>1. DOMAIN want' \subseteq DOMAIN Others /\ \A f \in DOMAIN want' : want'[f] = Others[f]
      BY <1>2, <1>5 DEF Others
    <2>2. torn \cup {busy} \subseteq torn \cup {busy}
      OBVIOUS
    <2> QED
      BY ONLY <1>4, <2>1, <2>2, GoodWeaker
  <1>7. Good(want', torn', disk)
    <2>1. \A p \in EntriesOf(disk) : SlotAt(disk, p).first # Unused
      <3>1. \A p \in EntriesOf(disk) : SlotAt(disk, p).first \in Clusters
        BY <1>4 DEF Good, SoundVol, IsHead
      <3> QED
        BY <3>1, LinksAre
    <2>2. torn \cup {busy} \subseteq torn' \cup {Unused}
      BY <1>2
    <2>3. \A p \in EntriesOf(disk) : SlotAt(disk, p).first = Unused =>
             SlotAt(disk, p).size <= Len(ChainOf(disk.fat, Unused))
      BY <2>1
    <2> QED
      BY ONLY <1>6, <2>2, <2>3, GoodNotTorn
  <1>8. ASSUME ~leaky'
        PROVE  Tight(disk, {})
    <2>1. pending = <<>> /\ ~leaky
      BY <1>2, <1>8
    <2>2. v = disk
      BY <1>1, <2>1, ShownNone
    <2> QED
      BY <1>1, <2>1, <2>2
  <1>9. TypeOK'
    <2>1. RootDir + 1 \in Clusters /\ NoSector \in FatSectors \cup {NoSector}
      BY FatAssumption DEF RootDir, Clusters
    <2>2. disk'.fat = disk.fat /\ disk'.sec = disk.sec
      BY <1>2
    <2>3. /\ ram'.fat = disk.fat /\ ram'.cache = NoSector /\ ram'.dirty = FALSE /\ ram'.hint = RootDir + 1
      BY <1>2
    <2>4. torn' \subseteq Clusters /\ leaky' \in BOOLEAN /\ crashes' \in 0..MaxCrashes
      BY <1>2, <1>3, FatBoundsAssumption DEF TypeOK
    <2>5. DOMAIN want' \subseteq Clusters /\ \A f \in DOMAIN want' : want'[f] \in Files
      BY <1>2, <1>3, <1>5 DEF TypeOK
    <2>6. busy' \in Clusters \cup {Unused}
      BY <1>2
    <2> QED
      BY <1>3, <2>1, <2>2, <2>3, <2>4, <2>5, <2>6 DEF TypeOK
  <1>10. Shown(GoodSet(Others', torn' \cup {busy'}), disk', pending', disk)
    <2>1. Others' = Excluding(want', busy')
      BY DEF Others, Excluding
    <2>2. Good(Others', torn' \cup {busy'}, disk)
      BY <1>7, <2>1, ExcludingGood
    <2>3. disk \in GoodSet(Others', torn' \cup {busy'})
      BY <1>4, <2>2 DEF GoodSet
    <2> QED
      BY <1>2, <2>3, ShownNone
  <1>11. /\ ~ram'.dirty /\ pending' \in Seq(Writes) /\ (pending' = <<>> => busy' = Unused)
         /\ disk.fat = ram'.fat
    BY <1>2
  <1> QED
    BY <1>7, <1>8, <1>9, <1>10, <1>11 DEF FatInv

\* An operation ends with Sync.
LEMMA SyncedGood ==
    ASSUME NEW w, NEW t, NEW b, NEW d, NEW v, InOp(GoodSet(w, t), b, d, v)
    PROVE  LET e == Sync(d)
           IN  InOp(GoodSet(w, t), b, e, Mem(e)) /\ ~e.dirty /\ Mem(e) = Mem(d) /\ Good(w, t, Mem(e))
  <1>1. InOp(GoodSet(w, t), b, Sync(d), Mem(d)) /\ ~Sync(d).dirty /\ Mem(Sync(d)) = Mem(d)
    BY SyncIs
  <1>2. Mem(d) \in GoodSet(w, t)
    BY <1>1 DEF InOp
  <1> QED
    BY <1>1, <1>2 DEF GoodSet

\* A new file is wanted, and not torn.
LEMMA WithGood ==
    ASSUME NEW v, Good(want, torn, v), NEW f, NEW file, FileOK(file, f, v), Len(file.data) = 0
    PROVE  Good(With(f, file), torn \ {f}, v)
  <1> DEFINE w2 == With(f, file)
             t2 == torn \ {f}
  <1>1. /\ DOMAIN w2 = DOMAIN want \cup {f} /\ w2[f] = file
        /\ \A g \in DOMAIN w2 : g # f => w2[g] = want[g]
    BY DEF With
  <1>2. SoundVol(v)
    BY DEF Good
  <1> HIDE DEF w2
  <1>3. Good(w2, torn, v)
    BY <1>1, GoodWith
  <1>4. \A p \in EntriesOf(v) : SlotAt(v, p).first = f => SlotAt(v, p).size <= Len(ChainOf(v.fat, f))
    <2> SUFFICES ASSUME NEW p \in EntriesOf(v), SlotAt(v, p).first = f
                 PROVE  SlotAt(v, p).size <= Len(ChainOf(v.fat, f))
      OBVIOUS
    <2>1. file.at \in EntriesOf(v) /\ f \in Heads(v) /\ SlotAt(v, file.at).first = f
      BY <1>2, FileHead
    <2>2. p = file.at
      BY <1>2, <2>1 DEF SoundVol
    <2>3. SlotAt(v, p).size = 0
      BY <2>2 DEF FileOK
    <2>4. Len(ChainOf(v.fat, f)) \in Nat
      BY <1>2, <2>1, SoundIs, HeadChain
    <2> QED
      BY <2>3, <2>4
  <1>5. torn \subseteq t2 \cup {f}
    OBVIOUS
  <1> HIDE DEF t2
  <1>6. Good(w2, t2, v)
    BY ONLY <1>3, <1>4, <1>5, GoodNotTorn
  <1> QED
    BY <1>6 DEF w2, t2

LEMMA NewFileIs ==
    ASSUME NEW dir \in Clusters, NEW name \in Names, NEW at \in Places
    PROVE  NewFile(dir, name, at) \in Files /\ Len(NewFile(dir, name, at).data) = 0
  <1>1. <<>> \in [1..0 -> Values \cup {Blank}] /\ Len(<<>>) = 0
    OBVIOUS
  <1>2. 0 \in 0..MaxSize
    BY FatBoundsAssumption
  <1>3. <<>> \in UNION {[1..n -> Values \cup {Blank}] : n \in 0..MaxSize}
    BY <1>1, <1>2
  <1>4. NewFile(dir, name, at).data = <<>>
    BY DEF NewFile
  <1>5. NewFile(dir, name, at) \in Files
    BY <1>3 DEF NewFile, Files, Places
  <1> QED
    BY <1>1, <1>4, <1>5

\* What is wanted, without or with something, is still what the type says.
LEMMA WithoutIs ==
    ASSUME TypeOK, NEW f
    PROVE  /\ DOMAIN Without(f) = {x \in DOMAIN want \ {f} : want[x].dir # f}
           /\ \A g \in DOMAIN Without(f) : Without(f)[g] = want[g]
           /\ WantedTypes(Without(f)) /\ WantedTypes(want)
  <1>1. /\ DOMAIN Without(f) = {x \in DOMAIN want \ {f} : want[x].dir # f}
        /\ \A g \in DOMAIN Without(f) : Without(f)[g] = want[g]
    BY DEF Without
  <1>2. DOMAIN want \subseteq Clusters /\ \A g \in DOMAIN want : want[g] \in Files
    BY DEF TypeOK
  <1> QED
    BY <1>1, <1>2 DEF WantedTypes

LEMMA WithIs ==
    ASSUME TypeOK, NEW f \in Clusters, NEW file \in Files
    PROVE  WantedTypes(With(f, file)) /\ \A v : Good(want, torn, v) =>
              Good(Excluding(With(f, file), f), (torn \ {f}) \cup {f}, v)
  <1> DEFINE w2 == With(f, file)
  <1>1. /\ DOMAIN w2 = DOMAIN want \cup {f} /\ w2[f] = file
        /\ \A g \in DOMAIN w2 : g # f => w2[g] = want[g]
    BY DEF With
  <1>2. DOMAIN want \subseteq Clusters /\ \A g \in DOMAIN want : want[g] \in Files
    BY DEF TypeOK
  <1> HIDE DEF w2
  <1>3. WantedTypes(w2)
    BY <1>1, <1>2 DEF WantedTypes
  <1>4. ASSUME NEW v, Good(want, torn, v)
        PROVE  Good(Excluding(w2, f), (torn \ {f}) \cup {f}, v)
    <2> DEFINE w3 == Excluding(w2, f)
               t3 == (torn \ {f}) \cup {f}
    <2>1. DOMAIN w3 \subseteq DOMAIN want /\ (\A g \in DOMAIN w3 : w3[g] = want[g]) /\ torn \subseteq t3
      BY <1>1 DEF Excluding
    <2> HIDE DEF w3, t3
    <2>2. Good(w3, t3, v)
      BY <1>4, <2>1, GoodWeaker
    <2> QED
      BY <2>2 DEF w3, t3
  <1> QED
    BY <1>3, <1>4 DEF w2

\* An operation that changes nothing of what is wanted.
LEMMA IdlePerform ==
    ASSUME FatInv, NEW e, Perform(e, Unused), InOp(GoodSet(want, torn), disk, e, Mem(e)), ~e.dirty,
           UNCHANGED <<want, torn, leaky>>, ~leaky => Tight(Mem(e), {})
    PROVE  FatInv'
  <1>1. Good(want, torn, Mem(e))
    BY DEF InOp, GoodSet
  <1>2. want' = want /\ torn' = torn /\ leaky' = leaky /\ TypeOK
    BY DEF FatInv
  <1>3. WantedTypes(want') /\ torn' \subseteq Clusters /\ leaky' \in BOOLEAN
    BY <1>2, WithoutIs DEF TypeOK
  <1>4. \A v : Good(want, torn, v) => Good(Excluding(want', Unused), torn' \cup {Unused}, v)
    BY <1>2, ExcludingGood
  <1>5. Unused \in Clusters \cup {Unused} /\ Good(want', torn', Mem(e)) /\ (~leaky' => Tight(Mem(e), {}))
    BY <1>1, <1>2
  <1> QED
    BY <1>3, <1>4, <1>5, PerformKeeps

\* A new file or directory has its cluster.
LEMMA MakeBegins ==
    ASSUME FatInv, Idle, NEW dir \in DirsOf(disk), NEW name, ~Exists(disk, dir, name),
           NextFree(Volume) # Unused
    PROVE  LET f   == NextFree(Volume)
               new == Allocate(Volume)
           IN  /\ InOp(GoodSet(want, torn), disk, new, Mem(new)) /\ ~new.dirty /\ new.ok
               /\ f \in Clusters /\ Fresh(Mem(new), f) /\ dir \in DirsOf(Mem(new))
               /\ name \notin LongNames => NoName(Mem(new), dir, name)
               /\ ~leaky => Tight(Mem(new), {f})
  <1> DEFINE f   == NextFree(Volume)
             new == Allocate(Volume)
  <1>1. /\ Good(want, torn, disk) /\ SoundVol(disk) /\ ShortOK(disk)
        /\ Mem(Volume) = disk /\ ~Volume.dirty /\ Volume.ok
        /\ InOp(GoodSet(want, torn), disk, Volume, Mem(Volume))
        /\ ~leaky => Tight(disk, {})
    BY IdleIs DEF Good
  <1>2. /\ InOp(GoodSet(want, torn), disk, new, Mem(new)) /\ ~new.dirty /\ new.ok = Volume.ok
        /\ f \in Clusters /\ Fresh(Mem(new), f) /\ Extends(Mem(Volume), Mem(new))
        /\ \A X : Tight(Mem(Volume), X) => Tight(Mem(new), X \cup {f})
    BY <1>1, AllocateGood
  <1> HIDE DEF f, new
  <1>3. dir \in DirsOf(Mem(new))
    BY <1>1, <1>2 DEF Extends
  <1>4. name \notin LongNames => NoName(Mem(new), dir, name)
    BY <1>1, <1>2, NotFound, NoNameExtends
  <1>5. ~leaky => Tight(Mem(new), {f})
    <2>1. {} \cup {f} = {f}
      OBVIOUS
    <2> QED
      BY <1>1, <1>2, <2>1
  <1> QED
    BY <1>1, <1>2, <1>3, <1>4, <1>5 DEF f, new

\* Its entry is made, and in a directory the first two.
LEMMA DotsGood ==
    ASSUME NEW w, NEW t, NEW b, NEW d, InOp(GoodSet(w, t), b, d, Mem(d)), ~d.dirty,
           NEW f \in DirsOf(Mem(d)), f \in Clusters, NEW dir \in Clusters
    PROVE  LET e == AddEntry(AddEntry(d, f, ".", "dot", f), f, ".", "dot", dir)
           IN  /\ InOp(GoodSet(w, t), b, e, Mem(e)) /\ Extends(Mem(d), Mem(e))
               /\ \A X : Tight(Mem(d), X) => Tight(Mem(e), X)
  <1> DEFINE x == AddEntry(d, f, ".", "dot", f)
             e == AddEntry(x, f, ".", "dot", dir)
  <1>0. "." \in SlotNames /\ f \in Clusters \cup {0} /\ dir \in Clusters \cup {0}
    BY DEF SlotNames
  <1>1. /\ InOp(GoodSet(w, t), b, x, Mem(x)) /\ ~x.dirty
        /\ Extends(Mem(d), Mem(x))
        /\ \A X : Tight(Mem(d), X) => Tight(Mem(x), X)
    BY <1>0, AddDotGood
  <1> HIDE DEF x
  <1>2. f \in DirsOf(Mem(x))
    BY <1>1 DEF Extends
  <1>3. /\ InOp(GoodSet(w, t), b, e, Mem(e)) /\ Extends(Mem(x), Mem(e))
        /\ \A X : Tight(Mem(x), X) => Tight(Mem(e), X)
    BY <1>0, <1>1, <1>2, AddDotGood
  <1> HIDE DEF e
  <1>4. Extends(Mem(d), Mem(e))
    BY <1>1, <1>3, ExtendsAll
  <1> QED
    BY <1>1, <1>3, <1>4 DEF e, x

LEMMA MakeKeeps ==
    ASSUME FatInv, NEW dir \in Dirs, NEW name \in Names, NEW kind \in {"file", "dir"},
           kind = "dir" => dir = RootDir, Make(dir, name, kind)
    PROVE  FatInv'
  <1> DEFINE G     == GoodSet(want, torn)
             f     == NextFree(Volume)
             new   == Allocate(Volume)
             added == AddEntry(new, dir, name, kind, f)
             dots  == AddEntry(AddEntry(added, f, ".", "dot", f), f, ".", "dot", dir)
             at    == EntryPlace(new, dir, name)
             file  == NewFile(dir, name, at)
             last  == IF kind = "dir" THEN dots ELSE added
  <1>1. /\ Idle /\ ~Exists(disk, dir, name) /\ leaky' = leaky
        /\ \/ new.ok /\ added.ok /\ Perform(Sync(last), f) /\ want' = With(f, file) /\ torn' = torn \ {f}
           \/ ~new.ok /\ Perform(new, Unused) /\ want' = want /\ torn' = torn
           \/ /\ new.ok /\ ~added.ok /\ Perform(Sync(FreeChain(added, f)), Unused)
              /\ want' = want /\ torn' = torn
    BY DEF Make, EntryPlace, NewFile
  <1>2. /\ Good(want, torn, disk) /\ SoundVol(disk) /\ Mem(Volume) = disk /\ ~Volume.dirty /\ Volume.ok
        /\ InOp(G, disk, Volume, Mem(Volume)) /\ (~leaky => Tight(disk, {}))
    BY <1>1, IdleIs
  <1>3. dir \in DirsOf(disk) /\ dir \in Clusters
    BY <1>2, DirsAreDirs, SoundIs DEF IsHead
  <1>4. TypeOK
    BY DEF FatInv
  <1>5. CASE f = Unused
    <2>1. /\ InOp(G, disk, new, Mem(Volume)) \/ (InOp(G, disk, new, Mem(Volume)) /\ ~new.dirty)
          /\ ~Volume.dirty => ~new.dirty
          /\ Mem(new) = Mem(Volume) /\ ~new.ok
      BY <1>2, <1>5, AllocateFull
    <2>2. InOp(G, disk, new, Mem(new)) /\ ~new.dirty /\ Perform(new, Unused)
      BY <1>1, <1>2, <2>1
    <2>3. UNCHANGED <<want, torn, leaky>> /\ (~leaky => Tight(Mem(new), {}))
      BY <1>1, <1>2, <2>1
    <2> QED
      BY <2>2, <2>3, IdlePerform
  <1>6. ASSUME f # Unused PROVE FatInv'
    <2>1. /\ InOp(G, disk, new, Mem(new)) /\ ~new.dirty /\ new.ok
          /\ f \in Clusters /\ Fresh(Mem(new), f) /\ dir \in DirsOf(Mem(new))
          /\ name \notin LongNames => NoName(Mem(new), dir, name)
          /\ ~leaky => Tight(Mem(new), {f})
      BY <1>1, <1>3, <1>6, MakeBegins
    <2> HIDE DEF new, f
    <2>2. /\ InOp(G, disk, added, Mem(added)) /\ ~added.dirty
          /\ ~added.ok => /\ Fresh(Mem(added), f)
                          /\ \A X : Tight(Mem(new), X) => Tight(Mem(added), X)
          /\ added.ok => /\ at \in Places /\ FileOK(file, f, Mem(added))
                         /\ kind = "dir" => f \in DirsOf(Mem(added))
                         /\ \A X : Tight(Mem(new), X) => Tight(Mem(added), X \ {f})
      BY <2>1, AddEntryGood
    <2> HIDE DEF added
    <2>3. Mem(added) \in G /\ Good(want, torn, Mem(added)) /\ SoundVol(Mem(added))
      BY <2>2 DEF InOp, GoodSet, Good
    <2>4. CASE added.ok
      <3>1. Perform(Sync(last), f) /\ want' = With(f, file) /\ torn' = torn \ {f}
        BY <1>1, <2>1, <2>4
      <3>2. file \in Files /\ Len(file.data) = 0
        BY <1>3, <2>2, <2>4, NewFileIs
      <3>3. ~leaky => Tight(Mem(added), {})
        <4>1. {f} \ {f} = {}
          OBVIOUS
        <4> QED
          BY <2>1, <2>2, <2>4, <4>1
      <3>4. Good(With(f, file), torn \ {f}, Mem(added))
        BY <2>2, <2>3, <2>4, <3>2, WithGood
      <3>5. /\ InOp(G, disk, last, Mem(last)) /\ Good(With(f, file), torn \ {f}, Mem(last))
            /\ ~leaky => Tight(Mem(last), {})
        <4>1. CASE kind = "dir"
          <5>1. /\ InOp(G, disk, dots, Mem(dots)) /\ Extends(Mem(added), Mem(dots))
                /\ \A X : Tight(Mem(added), X) => Tight(Mem(dots), X)
            BY <1>3, <2>1, <2>2, <2>4, <4>1, DotsGood
          <5>2. Good(With(f, file), torn \ {f}, Mem(dots))
            BY <3>4, <5>1 DEF Extends, Keeps
          <5> QED
            BY <3>3, <4>1, <5>1, <5>2
        <4>2. CASE kind # "dir"
          BY <2>2, <3>3, <3>4, <4>2
        <4> QED
          BY <4>1, <4>2
      <3> HIDE DEF last
      <3>6. /\ InOp(G, disk, Sync(last), Mem(Sync(last))) /\ ~Sync(last).dirty
            /\ Mem(Sync(last)) = Mem(last)
        BY <3>5, SyncedGood
      <3> DEFINE e == Sync(last)
      <3>7. /\ Perform(e, f) /\ InOp(GoodSet(want, torn), disk, e, Mem(e)) /\ ~e.dirty
            /\ f \in Clusters \cup {Unused}
        BY <2>1, <3>1, <3>6
      <3> HIDE DEF e, file, G
      <3>8. /\ WantedTypes(With(f, file))
            /\ \A v : Good(want, torn, v) => Good(Excluding(With(f, file), f), (torn \ {f}) \cup {f}, v)
        BY <1>4, <2>1, <3>2, WithIs
      <3>9. /\ WantedTypes(want')
            /\ \A v : Good(want, torn, v) => Good(Excluding(want', f), torn' \cup {f}, v)
        BY <3>1, <3>8
      <3>10. /\ torn' \subseteq Clusters /\ leaky' \in BOOLEAN
             /\ Good(want', torn', Mem(e)) /\ (~leaky' => Tight(Mem(e), {}))
        BY <1>1, <1>4, <3>1, <3>5, <3>6 DEF TypeOK, e
      <3> QED
        BY ONLY FatInv, <3>7, <3>9, <3>10, PerformKeeps
    <2>5. CASE ~added.ok
      <3> DEFINE x == FreeChain(added, f)
                 e == Sync(x)
      <3>1. Perform(e, Unused) /\ want' = want /\ torn' = torn
        BY <1>1, <2>1, <2>5
      <3>2. Loose(Mem(added), f) /\ FatOK(Mem(added).fat)
        BY <2>2, <2>3, <2>5, SoundIs DEF Fresh
      <3>3. InDir(Mem(added), f) = {f}
        BY <2>2, <2>5, <3>2, FreshChain
      <3>4. /\ \E u : InOp(G, disk, x, u)
            /\ \A X : Tight(Mem(added), X) => Tight(Mem(x), X \ InDir(Mem(added), f))
        BY <2>2, <3>2, FreeChainGood
      <3>5. ~leaky => Tight(Mem(x), {})
        <4>1. {f} \ {f} = {}
          OBVIOUS
        <4> QED
          BY <2>1, <2>2, <2>5, <3>3, <3>4, <4>1
      <3> HIDE DEF x
      <3>6. InOp(GoodSet(want, torn), disk, e, Mem(e)) /\ ~e.dirty /\ Mem(e) = Mem(x)
        BY <3>4, SyncedGood
      <3> HIDE DEF e
      <3>7. UNCHANGED <<want, torn, leaky>> /\ (~leaky => Tight(Mem(e), {}))
        BY <1>1, <3>1, <3>5, <3>6
      <3> QED
        BY <3>1, <3>6, <3>7, IdlePerform
    <2> QED
      BY <2>4, <2>5
  <1> QED
    BY <1>5, <1>6

LEMMA DeletedSlot == Slot("deleted", "", 0) \in Slots /\ Slot("deleted", "", 0).kind = "deleted"
  <1>1. 0 \in 0..MaxSize
    BY FatBoundsAssumption
  <1> QED
    BY <1>1 DEF Slot, Slots

\* A file or directory is deleted, and its clusters are freed.
LEMMA UnlinkKeeps ==
    ASSUME FatInv, NEW dir \in Dirs, NEW name, Unlink(dir, name)
    PROVE  FatInv'
  <1> DEFINE at   == Lookup(disk, dir, name)
             s    == SlotAt(disk, at)
             f    == s.first
             w    == Without(f)
             G    == GoodSet(w, torn)
             none == Slot("deleted", "", 0)
             d    == PutSlot(Volume, at, none)
             x    == FreeChain(d, f)
             e    == Sync(x)
             full == s.kind = "dir" /\ \E y \in Range(DirSlots(disk, f)) : Entry(y)
  <1>1. /\ Idle /\ Exists(disk, dir, name) /\ Perform(e, f)
        /\ want' = w /\ torn' = torn \ {f} /\ leaky' = (leaky \/ full)
    BY DEF Unlink
  <1>2. /\ Good(want, torn, disk) /\ SoundVol(disk) /\ Mem(Volume) = disk /\ ~Volume.dirty
        /\ Volume.fat = disk.fat /\ (~leaky => Tight(disk, {}))
        /\ \A w2, t : Good(w2, t, disk) => InOp(GoodSet(w2, t), disk, Volume, Mem(Volume))
    BY <1>1, IdleIs
  <1>3. dir \in DirsOf(disk) /\ TypeOK
    BY <1>2, DirsAreDirs DEF FatInv
  <1>4. at \in SlotsIn(disk, dir) /\ Entry(s)
    BY <1>1, <1>2, <1>3, LookupIs
  <1>5. at \in EntriesOf(disk) /\ f \in Clusters /\ (f \in DirsOf(disk) => s.kind = "dir")
    <2>1. at \in EntriesOf(disk)
      BY <1>2, <1>3, <1>4, SoundIs
    <2>2. f \in Heads(disk)
      BY <2>1, HeadsAre
    <2>3. f \in Clusters
      BY <1>2, <2>2, SoundIs DEF IsHead
    <2>4. s.kind = "file" \/ s.kind = "dir"
      BY <1>4 DEF Entry
    <2> QED
      BY <1>2, <2>1, <2>3, <2>4, SoundIs
  <1>6. /\ DOMAIN w = {g \in DOMAIN want \ {f} : want[g].dir # f}
        /\ \A g \in DOMAIN w : w[g] = want[g]
        /\ WantedTypes(w)
    BY <1>3, WithoutIs
  <1>7. none \in Slots /\ none.kind = "deleted"
    BY DeletedSlot
  <1> HIDE DEF at, none
  <1> HIDE DEF w
  <1>8. \A g \in DOMAIN w : g # f /\ w[g].dir # f
    BY <1>6
  <1>9. Good(w, torn, disk)
    <2>1. DOMAIN w \subseteq DOMAIN want /\ torn \subseteq torn
      BY <1>6
    <2> QED
      BY <1>2, <1>6, <2>1, GoodWeaker
  <1>10. InOp(G, disk, Volume, Mem(Volume))
    BY <1>2, <1>9
  <1>11. /\ SlotPut(disk, Mem(d), dir, at, none)
         /\ Good(w, torn, Mem(d)) => InOp(G, disk, d, Mem(d))
    BY <1>2, <1>3, <1>4, <1>7, <1>10, PutSlotClean
  <1> HIDE DEF d
  <1>12. /\ SoundVol(Mem(d)) /\ Loose(Mem(d), f) /\ Mem(d).fat = disk.fat
         /\ \A w2, t : Good(w2, t, disk) /\ (\A g \in DOMAIN w2 : g # f /\ w2[g].dir # f) => Good(w2, t, Mem(d))
         /\ (f \in DirsOf(disk) => \A q \in SlotsIn(disk, f) : ~Entry(SlotAt(disk, q))) =>
               \A X : Tight(disk, X) => Tight(Mem(d), X \cup InDir(disk, f))
    BY <1>4, <1>7, <1>11, EntryDeleted
  <1>13. Good(w, torn, Mem(d)) /\ InOp(G, disk, d, Mem(d))
    BY <1>8, <1>9, <1>11, <1>12
  <1>14. Good(w, torn \ {f}, Mem(d))
    <2> DEFINE t2 == torn \ {f}
    <2>1. \A p \in EntriesOf(Mem(d)) : SlotAt(Mem(d), p).first # f
      BY <1>12, HeadsAre DEF Loose
    <2>2. torn \subseteq t2 \cup {f}
      OBVIOUS
    <2>3. \A p \in EntriesOf(Mem(d)) : SlotAt(Mem(d), p).first = f =>
             SlotAt(Mem(d), p).size <= Len(ChainOf(Mem(d).fat, f))
      BY <2>1
    <2> HIDE DEF t2, f
    <2>4. Good(w, t2, Mem(d))
      BY ONLY <1>13, <2>2, <2>3, GoodNotTorn
    <2> QED
      BY <2>4 DEF t2
  <1>15. /\ \E u : InOp(G, disk, x, u)
         /\ Keeps(Mem(d), Mem(x))
         /\ \A X : Tight(Mem(d), X) => Tight(Mem(x), X \ InDir(Mem(d), f))
    BY <1>12, <1>13, FreeChainGood
  <1> HIDE DEF x
  <1>16. InOp(G, disk, e, Mem(e)) /\ ~e.dirty /\ Mem(e) = Mem(x)
    BY <1>15, SyncedGood
  <1> HIDE DEF e
  <1>17. Good(want', torn', Mem(e))
    BY <1>1, <1>14, <1>15, <1>16 DEF Keeps
  <1>18. ASSUME ~leaky'
         PROVE  Tight(Mem(e), {})
    <2>1. ~leaky /\ ~full
      BY <1>1, <1>18
    <2>2. f \in DirsOf(disk) => \A q \in SlotsIn(disk, f) : ~Entry(SlotAt(disk, q))
      <3> SUFFICES ASSUME f \in DirsOf(disk), NEW q \in SlotsIn(disk, f)
                   PROVE  ~Entry(SlotAt(disk, q))
        OBVIOUS
      <3>1. SlotAt(disk, q) \in Range(DirSlots(disk, f))
        BY <1>2, SlotsAre
      <3> QED
        BY <1>5, <2>1, <3>1
    <2>3. Tight(Mem(d), {} \cup InDir(disk, f))
      BY <1>2, <1>12, <2>1, <2>2
    <2>4. InDir(Mem(d), f) = InDir(disk, f)
      BY <1>12 DEF InDir
    <2>5. Tight(Mem(x), ({} \cup InDir(disk, f)) \ InDir(disk, f))
      BY <1>15, <2>3, <2>4
    <2>6. ({} \cup InDir(disk, f)) \ InDir(disk, f) = {}
      OBVIOUS
    <2> QED
      BY <1>16, <2>5, <2>6
  <1>19. ASSUME NEW v, Good(w, torn, v)
         PROVE  Good(Excluding(want', f), torn' \cup {f}, v)
    <2> DEFINE w3 == Excluding(w, f)
               t3 == (torn \ {f}) \cup {f}
    <2>1. DOMAIN w3 \subseteq DOMAIN w /\ (\A g \in DOMAIN w3 : w3[g] = w[g]) /\ torn \subseteq t3
      BY DEF Excluding
    <2> HIDE DEF w3, t3
    <2>2. Good(w3, t3, v)
      BY <1>19, <2>1, GoodWeaker
    <2> QED
      BY <1>1, <2>2 DEF w3, t3
  <1>20. /\ WantedTypes(want') /\ torn' \subseteq Clusters /\ leaky' \in BOOLEAN
         /\ f \in Clusters \cup {Unused}
    BY <1>1, <1>3, <1>5, <1>6 DEF TypeOK
  <1>21. Perform(e, f) /\ InOp(GoodSet(w, torn), disk, e, Mem(e)) /\ ~e.dirty
    BY <1>1, <1>16
  <1> HIDE DEF f, G, full
  <1> QED
    BY ONLY FatInv, <1>17, <1>18, <1>19, <1>20, <1>21, PerformKeeps

\* How many clusters a write still needs.
Needed(size, offset, len) ==
    IF offset + len > Owned(size) THEN offset + len - Owned(size) ELSE 0

LEMMA ExtendedGood ==
    ASSUME NEW w, NEW t, NEW b, NEW d, InOp(GoodSet(w, t), b, d, Mem(d)), ~d.dirty, d.ok,
           NEW s, s.first \in Heads(Mem(d)), s.size \in Nat, NEW offset \in Nat, NEW len \in Nat
    PROVE  LET e == Extended(d, s, offset, len)
               h == s.first
           IN  /\ Extends(Mem(d), Mem(e))
               /\ \A X : Tight(Mem(d), X) => Tight(Mem(e), X)
               /\ \E v : /\ InOp(GoodSet(w, t), b, e, v)
                         /\ e.ok => v = Mem(e) \/ (Extends(Mem(d), v) /\ OneBehind(v, Mem(e), h))
               /\ e.ok => /\ Stretch(Mem(d), Mem(e), h)
                          /\ Len(ChainOf(e.fat, h)) = Len(ChainOf(d.fat, h)) + Needed(s.size, offset, len)
  <1> DEFINE e == Extended(d, s, offset, len)
             h == s.first
             n == Needed(s.size, offset, len)
  <1>1. SoundVol(Mem(d)) /\ Mem(d).fat = d.fat
    BY DEF InOp, GoodSet, Good, Mem
  <1>2. n \in Nat /\ (offset + len > Owned(s.size) => n = offset + len - Owned(s.size))
        /\ (~(offset + len > Owned(s.size)) => n = 0)
    BY DEF Needed, Owned
  <1>3. CASE offset + len > Owned(s.size)
    <2>1. e = Extend(d, Last(ChainOf(d.fat, h)), n)
      BY <1>2, <1>3 DEF Extended
    <2>2. h \in Heads(Mem(d)) /\ n \in Nat
      BY <1>2
    <2> HIDE DEF e, h, n
    <2>3. /\ Extends(Mem(d), Mem(e))
          /\ \A X : Tight(Mem(d), X) => Tight(Mem(e), X)
          /\ \E v : /\ InOp(GoodSet(w, t), b, e, v)
                    /\ e.ok => v = Mem(e) \/ (Extends(Mem(d), v) /\ OneBehind(v, Mem(e), h))
          /\ e.ok => /\ Stretch(Mem(d), Mem(e), h)
                     /\ Len(ChainOf(e.fat, h)) = Len(ChainOf(d.fat, h)) + n
      BY <2>1, <2>2, ExtendGood
    <2> QED
      BY <2>3 DEF e, h, n
  <1>4. CASE ~(offset + len > Owned(s.size))
    <2>1. e = d
      BY <1>4 DEF Extended
    <2>2. n = 0
      BY <1>2, <1>4
    <2>3. Len(ChainOf(d.fat, h)) \in Nat
      BY <1>1, SoundIs, HeadChain
    <2>4. Extends(Mem(d), Mem(d)) /\ Stretch(Mem(d), Mem(d), h)
      BY <1>1, ExtendsSelf, StretchSelf
    <2> HIDE DEF e, h, n
    <2> QED
      BY <2>1, <2>2, <2>3, <2>4 DEF e, h, n
  <1> QED
    BY <1>3, <1>4

\* The clusters of a file, and a fresh one, are no directory's and no other file's.
LEMMA SpareIs ==
    ASSUME NEW w, NEW t, NEW u \in GoodSet(w, t), NEW f \in Heads(u), f \notin DirsOf(u), f \notin DOMAIN w
    PROVE  /\ \A c \in InDir(u, f) : Spare(w, u, c)
           /\ \A c : Fresh(u, c) => Spare(w, u, c)
  <1>1. SoundVol(u) /\ WantedOK(w, u)
    BY DEF GoodSet, Good
  <1>2. \A g \in DOMAIN w : g \in Heads(u)
    BY <1>1, FileHead DEF WantedOK
  <1>3. /\ FatOK(u.fat) /\ DirsOf(u) \subseteq Heads(u)
        /\ \A h \in Heads(u) : IsHead(u.fat, h) /\ InDir(u, h) \subseteq Clusters
        /\ \A h, k \in Heads(u) : h # k => InDir(u, h) \cap InDir(u, k) = {}
    BY <1>1, SoundIs
  <1>4. ASSUME NEW c \in InDir(u, f)
        PROVE  Spare(w, u, c)
    BY <1>2, <1>3 DEF Spare
  <1>5. ASSUME NEW c, Fresh(u, c)
        PROVE  Spare(w, u, c)
    <2>1. IsHead(u.fat, c) /\ c \notin Heads(u) /\ c \in Clusters
      BY <1>5 DEF Fresh, Loose, IsHead
    <2>2. c \in InChain(u.fat, c)
      BY <1>3, <2>1, InChainIs
    <2>3. ASSUME NEW h \in Heads(u)
          PROVE  c \notin InDir(u, h)
      <3>1. IsHead(u.fat, h) /\ h # c
        BY <1>3, <2>1
      <3>2. InChain(u.fat, c) \cap InChain(u.fat, h) = {}
        BY <1>3, <2>1, <3>1, ChainsApart
      <3> QED
        BY <2>2, <3>2 DEF InDir
    <2> QED
      BY <1>2, <1>3, <2>1, <2>3 DEF Spare
  <1> QED
    BY <1>4, <1>5

\* Behind by one link, the file has the same clusters but for a fresh one.
LEMMA BehindIs ==
    ASSUME NEW v, NEW u, NEW f, OneBehind(v, u, f), Len(ChainOf(v.fat, f)) \in Nat,
           ChainOf(v.fat, f) \in Seq(Clusters)
    PROVE  /\ Len(ChainOf(u.fat, f)) = Len(ChainOf(v.fat, f)) + 1
           /\ \A c \in InDir(u, f) : c \in InDir(v, f) \/ Fresh(v, c)
  <1>1. PICK c : Fresh(v, c) /\ ChainOf(u.fat, f) = Append(ChainOf(v.fat, f), c)
    BY DEF OneBehind
  <1>2. c \in Clusters
    BY <1>1 DEF Fresh, Loose, IsHead
  <1> DEFINE s == ChainOf(v.fat, f)
             z == ChainOf(u.fat, f)
  <1>3. s \in Seq(Clusters) /\ z = Append(s, c)
    BY <1>1
  <1>4. InDir(u, f) = {z[i] : i \in DOMAIN z} /\ InDir(v, f) = {s[i] : i \in DOMAIN s}
    BY DEF InDir, InChain, Range
  <1> HIDE DEF s, z
  <1>5. /\ Len(z) = Len(s) + 1
        /\ \A i \in DOMAIN z : z[i] = c \/ (i \in DOMAIN s /\ z[i] = s[i])
    BY <1>2, <1>3
  <1>6. \A y \in InDir(u, f) : y \in InDir(v, f) \/ y = c
    BY <1>4, <1>5
  <1> QED
    BY <1>1, <1>5, <1>6 DEF s, z

LEMMA MaxOfTwo ==
    ASSUME NEW a \in Nat, NEW b \in Nat
    PROVE  Max({a, b}) = IF a >= b THEN a ELSE b
  <1> DEFINE m == IF a >= b THEN a ELSE b
  <1>1. m \in {a, b} /\ \A y \in {a, b} : m >= y
    OBVIOUS
  <1>2. \A x \in {a, b} : (\A y \in {a, b} : x >= y) => x = m
    OBVIOUS
  <1> QED
    BY <1>1, <1>2 DEF Max

\* What a write makes of the data of a file.
LEMMA OverwrittenIs ==
    ASSUME NEW n \in 0..MaxSize, NEW data \in [1..n -> Values \cup {Blank}],
           NEW offset \in Nat, NEW len \in Nat, offset + len <= MaxSize, NEW val \in Values
    PROVE  LET new == Overwritten(data, offset, len, val)
               m   == IF n >= offset + len THEN n ELSE offset + len
           IN  /\ Len(data) = n /\ Len(new) = m /\ m \in 0..MaxSize
               /\ new \in [1..m -> Values \cup {Blank}]
               /\ \A i \in 1..m :
                    new[i] = IF offset < i /\ i <= offset + len THEN val
                             ELSE IF i <= n THEN data[i] ELSE Blank
  <1> DEFINE m   == IF n >= offset + len THEN n ELSE offset + len
             new == [i \in 1..m |-> IF i \in (offset + 1)..(offset + len) THEN val
                                    ELSE IF i <= n THEN data[i] ELSE Blank]
  <1>1. n \in Nat /\ m \in Nat /\ m <= MaxSize /\ MaxSize \in Nat
    BY FatBoundsAssumption
  <1>2. Len(data) = n
    BY <1>1
  <1>3. Max({Len(data), offset + len}) = m
    <2>1. offset + len \in Nat
      OBVIOUS
    <2> QED
      BY <1>1, <1>2, <2>1, MaxOfTwo
  <1>4. Overwritten(data, offset, len, val) = new
    BY <1>2, <1>3 DEF Overwritten
  <1>5. \A i \in 1..m : i \in (offset + 1)..(offset + len) <=> (offset < i /\ i <= offset + len)
    BY <1>1
  <1>6. \A i \in 1..m : i <= n => i \in 1..n
    BY <1>1
  <1> HIDE DEF m
  <1>7. new \in [1..m -> Values \cup {Blank}]
    BY <1>6
  <1>8. Len(new) = m
    BY <1>1
  <1>9. \A i \in 1..m :
           new[i] = IF offset < i /\ i <= offset + len THEN val
                    ELSE IF i <= n THEN data[i] ELSE Blank
    BY <1>5
  <1> HIDE DEF new
  <1> QED
    BY <1>1, <1>2, <1>4, <1>7, <1>8, <1>9 DEF m

Rewrote(file, offset, len, val) == [file EXCEPT !.data = Overwritten(@, offset, len, val)]

IsRewrote(file, new, offset, len, val) ==
    LET n == Len(file.data)
        m == IF n >= offset + len THEN n ELSE offset + len
    IN  /\ new \in Files
        /\ new.dir = file.dir /\ new.name = file.name /\ new.at = file.at
        /\ n \in Nat /\ Len(new.data) = m
        /\ \A i \in 1..m :
             new.data[i] = IF offset < i /\ i <= offset + len THEN val
                           ELSE IF i <= n THEN file.data[i] ELSE Blank

LEMMA RewroteIs ==
    ASSUME NEW file \in Files, NEW offset \in Nat, NEW len \in Nat, offset + len <= MaxSize,
           NEW val \in Values
    PROVE  IsRewrote(file, Rewrote(file, offset, len, val), offset, len, val)
  <1> DEFINE new  == Rewrote(file, offset, len, val)
             data == file.data
             over == Overwritten(data, offset, len, val)
  <1>1. /\ file.dir \in Clusters /\ file.name \in Names /\ file.at \in Clusters \X (1..PerCluster)
        /\ data \in UNION {[1..k -> Values \cup {Blank}] : k \in 0..MaxSize}
    BY DEF Files
  <1>2. PICK n \in 0..MaxSize : data \in [1..n -> Values \cup {Blank}]
    BY <1>1
  <1>3. /\ new.dir = file.dir /\ new.name = file.name /\ new.at = file.at /\ new.data = over
        /\ new = [dir |-> file.dir, name |-> file.name, at |-> file.at, data |-> over]
    BY DEF Rewrote, Files
  <1> DEFINE m == IF n >= offset + len THEN n ELSE offset + len
  <1>4. /\ Len(data) = n /\ Len(over) = m /\ m \in 0..MaxSize
        /\ over \in [1..m -> Values \cup {Blank}]
        /\ \A i \in 1..m :
             over[i] = IF offset < i /\ i <= offset + len THEN val
                       ELSE IF i <= n THEN data[i] ELSE Blank
    BY <1>2, OverwrittenIs
  <1> HIDE DEF over, new, m
  <1>5. over \in UNION {[1..k -> Values \cup {Blank}] : k \in 0..MaxSize}
    BY <1>4
  <1>6. new \in Files
    BY <1>1, <1>3, <1>5 DEF Files
  <1>7. n \in Nat
    BY FatBoundsAssumption
  <1> QED
    BY <1>3, <1>4, <1>6, <1>7 DEF new, m, IsRewrote

\* The file is on the volume with its new data.
LEMMA RewrittenFile ==
    ASSUME NEW v, SoundVol(v), NEW f, NEW file \in Files, FileOK(file, f, v),
           SlotAt(v, file.at).kind = "file",
           NEW d, Stretch(v, Mem(d), f),
           NEW offset \in Nat, NEW len \in Nat, offset + len <= MaxSize, NEW val \in Values,
           NEW e, Rewritten(d, e, file.at, offset, offset + len, val),
           offset + len <= Len(ChainOf(d.fat, f)), Len(ChainOf(d.fat, f)) \in Nat
    PROVE  FileOK(Rewrote(file, offset, len, val), f, Mem(e))
  <1> DEFINE at    == file.at
             s     == SlotAt(v, at)
             z     == SlotAt(Mem(e), at)
             old   == ChainOf(v.fat, f)
             chain == ChainOf(d.fat, f)
             end   == offset + len
             new   == Rewrote(file, offset, len, val)
             n     == Len(file.data)
             m     == IF n >= offset + len THEN n ELSE offset + len
  <1>1. /\ new.dir = file.dir /\ new.name = file.name /\ new.at = file.at
        /\ n \in Nat /\ Len(new.data) = m
        /\ \A i \in 1..m :
             new.data[i] = IF offset < i /\ i <= end THEN val
                           ELSE IF i <= n THEN file.data[i] ELSE Blank
    <2>1. IsRewrote(file, new, offset, len, val)
      BY RewroteIs
    <2> HIDE DEF new
    <2> QED
      BY <2>1 DEF IsRewrote
  <1>2. at \in EntriesOf(v) /\ f \in Heads(v) /\ s.first = f
    BY FileHead
  <1>3. /\ file.dir \in DirsOf(v) /\ at \in SlotsIn(v, file.dir) /\ Entry(s) /\ s.name = file.name
        /\ s.size = n /\ n <= Len(old)
        /\ \A i \in 1..n : v.sec[old[i]] = file.data[i]
        /\ \A i \in 1..Len(old) : i > n => v.sec[old[i]] = Blank
    BY DEF FileOK
  <1>4. /\ Mem(d).fat = d.fat /\ Mem(d).sec = d.sec /\ Mem(e).fat = e.fat /\ Mem(e).sec = e.sec
    BY DEF Mem
  <1>5. /\ Extends(v, Mem(d)) /\ Len(old) <= Len(chain)
        /\ \A i \in 1..Len(old) : chain[i] = old[i] /\ d.sec[chain[i]] = v.sec[old[i]]
        /\ \A i \in 1..Len(chain) : i > Len(old) => d.sec[chain[i]] = Blank
    BY <1>4 DEF Stretch
  <1>6. /\ SlotAt(Mem(d), at) = s /\ DirsOf(Mem(d)) = DirsOf(v)
        /\ \A h \in Heads(v) : InDir(v, h) \subseteq InDir(Mem(d), h)
    BY <1>2, <1>5 DEF Extends
  <1>7. /\ e.fat = d.fat /\ DirsOf(Mem(e)) = DirsOf(Mem(d))
        /\ z.kind = s.kind /\ z.name = s.name /\ z.first = s.first
        /\ z.size = IF end > s.size THEN end ELSE s.size
        /\ \A i \in 1..Len(chain) :
             e.sec[chain[i]] = IF offset < i /\ i <= end THEN val ELSE d.sec[chain[i]]
    BY <1>2, <1>6 DEF Rewritten
  <1>8. Len(old) \in Nat /\ Len(chain) \in Nat /\ end \in Nat
    BY <1>2, SoundIs, HeadChain
  <1>9. new.dir \in DirsOf(Mem(e)) /\ new.at \in SlotsIn(Mem(e), new.dir)
    <2>1. file.dir \in Heads(v)
      BY <1>3, SoundIs
    <2>2. InDir(v, file.dir) \subseteq InDir(Mem(e), file.dir)
      BY <1>4, <1>6, <1>7, <2>1 DEF InDir
    <2> QED
      BY <1>1, <1>3, <1>6, <1>7, <2>2 DEF SlotsIn
  <1> HIDE DEF new, old, chain, n, z, s, at
  <1>10. m \in Nat /\ m <= Len(chain) /\ n <= m /\ z.size = m
    BY <1>1, <1>3, <1>5, <1>7, <1>8 DEF chain
  <1>11. \A i \in 1..m : e.sec[chain[i]] = new.data[i]
    <2> TAKE i \in 1..m
    <2>1. i \in 1..Len(chain)
      BY <1>8, <1>10
    <2>2. CASE offset < i /\ i <= end
      BY <1>1, <1>7, <2>1, <2>2
    <2>3. CASE ~(offset < i /\ i <= end)
      <3>1. e.sec[chain[i]] = d.sec[chain[i]]
        BY <1>7, <2>1, <2>3
      <3>2. CASE i <= n
        <4>1. i \in 1..n /\ i \in 1..Len(old)
          BY <1>1, <1>3, <1>8, <3>2
        <4>2. d.sec[chain[i]] = file.data[i]
          BY <1>3, <1>5, <4>1
        <4>3. new.data[i] = file.data[i]
          BY <1>1, <2>3, <3>2
        <4> QED
          BY <3>1, <4>2, <4>3
      <3>3. CASE i > n
        <4>1. d.sec[chain[i]] = Blank
          <5>1. CASE i <= Len(old)
            <6>1. i \in 1..Len(old)
              BY <1>8, <5>1
            <6> QED
              BY <1>3, <1>5, <3>3, <6>1
          <5>2. CASE i > Len(old)
            BY <1>5, <2>1, <5>2
          <5> QED
            BY <1>8, <5>1, <5>2
        <4>2. new.data[i] = Blank
          <5>1. ~(i <= n)
            BY <1>1, <3>3
          <5> QED
            BY <1>1, <2>3, <5>1
        <4> QED
          BY <3>1, <4>1, <4>2
      <3> QED
        BY <1>1, <3>2, <3>3
    <2> QED
      BY <2>2, <2>3
  <1>12. \A i \in 1..Len(chain) : i > m => e.sec[chain[i]] = Blank
    <2> SUFFICES ASSUME NEW i \in 1..Len(chain), i > m PROVE e.sec[chain[i]] = Blank
      OBVIOUS
    <2>1. i > n /\ ~(i <= end) /\ i \in Nat
      BY <1>1, <1>8, <1>10
    <2>2. e.sec[chain[i]] = d.sec[chain[i]]
      BY <1>7, <2>1
    <2>3. d.sec[chain[i]] = Blank
      <3>1. CASE i <= Len(old)
        <4>1. i \in 1..Len(old)
          BY <1>8, <3>1
        <4> QED
          BY <1>3, <1>5, <2>1, <4>1
      <3>2. CASE i > Len(old)
        BY <1>5, <3>2
      <3> QED
        BY <1>8, <2>1, <3>1, <3>2
    <2> QED
      BY <2>2, <2>3
  <1>13. Entry(z) /\ z.name = new.name /\ z.first = f
    BY <1>1, <1>2, <1>3, <1>7 DEF Entry
  <1>14. SlotAt(Mem(e), new.at) = z /\ ChainOf(Mem(e).fat, f) = chain
    BY <1>1, <1>4, <1>7 DEF z, at, chain
  <1>15. Len(new.data) = m
    BY <1>1
  <1> HIDE DEF m
  <1>16. FileOK(new, f, Mem(e))
    BY <1>4, <1>9, <1>10, <1>11, <1>12, <1>13, <1>14, <1>15 DEF FileOK
  <1> QED
    BY <1>16 DEF new

\* What the write of an open file finds: its entry and what is wanted of others.
LEMMA WriteBegins ==
    ASSUME FatInv, Idle, NEW dir \in DirsOf(disk), NEW name, Exists(disk, dir, name),
           NEW at, at = Lookup(disk, dir, name), SlotAt(disk, at).kind = "file"
    PROVE  LET s == SlotAt(disk, at)
               f == s.first
           IN  /\ at \in SlotsIn(disk, dir) /\ at \in EntriesOf(disk) /\ s.size \in Nat
               /\ f \in Clusters /\ f \in Heads(disk) /\ f \notin DirsOf(disk)
               /\ InOp(GoodSet(want, torn), disk, Volume, Mem(Volume))
               /\ InOp(GoodSet(Excluding(want, f), torn \cup {f}), disk, Volume, Mem(Volume))
               /\ Len(ChainOf(disk.fat, f)) \in Nat /\ Len(ChainOf(disk.fat, f)) >= 1
  <1> DEFINE s == SlotAt(disk, at)
             f == s.first
  <1>1. /\ Good(want, torn, disk) /\ SoundVol(disk)
        /\ \A w2, t : Good(w2, t, disk) => InOp(GoodSet(w2, t), disk, Volume, Mem(Volume))
    BY IdleIs
  <1>2. at \in SlotsIn(disk, dir) /\ Entry(s)
    BY <1>1, LookupIs
  <1>3. at \in EntriesOf(disk) /\ s \in Slots /\ f \notin DirsOf(disk)
    BY <1>1, <1>2, SoundIs
  <1>4. f \in Heads(disk)
    BY <1>3, HeadsAre
  <1>5. f \in Clusters /\ IsHead(disk.fat, f) /\ FatOK(disk.fat)
    BY <1>1, <1>4, SoundIs DEF IsHead
  <1>6. s.size \in Nat
    BY <1>3, SizeIs
  <1>7. Good(Excluding(want, f), torn \cup {f}, disk)
    BY <1>1, ExcludingGood
  <1>8. Len(ChainOf(disk.fat, f)) \in Nat /\ Len(ChainOf(disk.fat, f)) >= 1
    BY <1>5, HeadChain
  <1> QED
    BY <1>1, <1>2, <1>3, <1>4, <1>5, <1>6, <1>7, <1>8

\* The file's clusters, with those that the write has added, are its own on the
\* disk as it is and with everything in memory.
LEMMA WriteSpare ==
    ASSUME NEW w, NEW t, NEW u \in GoodSet(w, t), NEW v \in GoodSet(w, t),
           NEW f \in Heads(disk), f \notin DirsOf(disk), f \notin DOMAIN w,
           Extends(disk, u), v = u \/ (Extends(disk, v) /\ OneBehind(v, u, f))
    PROVE  /\ \A c \in InDir(u, f) : Spare(w, v, c) /\ Spare(w, u, c)
           /\ Len(ChainOf(v.fat, f)) \in Nat
           /\ Len(ChainOf(u.fat, f)) \in Nat
           /\ Len(ChainOf(u.fat, f)) <= Len(ChainOf(v.fat, f)) + 1
           /\ Extends(disk, v)
  <1>1. Extends(disk, v)
    OBVIOUS
  <1>2. /\ f \in Heads(u) /\ f \notin DirsOf(u) /\ SoundVol(u)
        /\ f \in Heads(v) /\ f \notin DirsOf(v) /\ SoundVol(v)
    BY <1>1 DEF Extends
  <1>3. /\ ChainOf(v.fat, f) \in Seq(Clusters) /\ Len(ChainOf(v.fat, f)) \in Nat
        /\ Len(ChainOf(u.fat, f)) \in Nat
    BY <1>2, SoundIs, HeadChain
  <1>4. \A c \in InDir(u, f) : Spare(w, u, c)
    BY <1>2, SpareIs
  <1>5. (\A c \in InDir(v, f) : Spare(w, v, c)) /\ \A c : Fresh(v, c) => Spare(w, v, c)
    BY <1>2, SpareIs
  <1>6. CASE v = u
    BY <1>1, <1>3, <1>4, <1>6
  <1>7. CASE OneBehind(v, u, f)
    <2>1. /\ Len(ChainOf(u.fat, f)) = Len(ChainOf(v.fat, f)) + 1
          /\ \A c \in InDir(u, f) : c \in InDir(v, f) \/ Fresh(v, c)
      BY <1>3, <1>7, BehindIs
    <2> QED
      BY <1>1, <1>3, <1>4, <1>5, <2>1
  <1> QED
    BY <1>6, <1>7

\* The first half of a write that has the clusters it needs, and the second.
LEMMA WriteStored ==
    ASSUME NEW w, NEW t, NEW d, NEW v, InOp(GoodSet(w, t), disk, d, v),
           NEW dir \in DirsOf(disk), NEW at \in SlotsIn(disk, dir), at \in EntriesOf(disk),
           SoundVol(disk), SlotAt(disk, at).kind = "file",
           NEW f, f = SlotAt(disk, at).first, f \in Heads(disk), f \notin DirsOf(disk),
           f \notin DOMAIN w, f \in t,
           Stretch(disk, Mem(d), f), v = Mem(d) \/ (Extends(disk, v) /\ OneBehind(v, Mem(d), f)),
           NEW offset \in Nat, NEW len \in Nat, offset + len <= MaxSize, NEW val \in Values
    PROVE  LET e   == Stored(d, at, offset, len, val)
               end == StoredEnd(d, f, offset, len)
           IN  /\ \E u : InOp(GoodSet(w, t), disk, e, u)
               /\ Rewritten(d, e, at, offset, end, val)
               /\ \A X : Tight(Mem(d), X) => Tight(Mem(e), X)
               /\ end \in Nat /\ end <= offset + len /\ end <= Len(ChainOf(d.fat, f))
               /\ end = offset + len \/ end = Len(ChainOf(d.fat, f))
               /\ SlotAt(Mem(d), at) = SlotAt(disk, at)
  <1> DEFINE G == GoodSet(w, t)
             e   == Stored(d, at, offset, len, val)
             end == StoredEnd(d, f, offset, len)
  <1>1. Mem(d) \in G /\ v \in G /\ Mem(d).fat = d.fat /\ Mem(d).sec = d.sec
    BY DEF InOp, Mem
  <1>2. Extends(disk, Mem(d))
    BY DEF Stretch
  <1>3. /\ \A c \in InDir(Mem(d), f) : Spare(w, v, c) /\ Spare(w, Mem(d), c)
        /\ Len(ChainOf(v.fat, f)) \in Nat
        /\ Len(ChainOf(d.fat, f)) <= Len(ChainOf(v.fat, f)) + 1
        /\ Extends(disk, v)
    <2> DEFINE m == Mem(d)
    <2>1. m \in GoodSet(w, t) /\ v \in GoodSet(w, t) /\ Extends(disk, m)
          /\ (v = m \/ (Extends(disk, v) /\ OneBehind(v, m, f))) /\ ChainOf(m.fat, f) = ChainOf(d.fat, f)
      BY <1>1, <1>2
    <2> HIDE DEF m
    <2>2. /\ \A c \in InDir(m, f) : Spare(w, v, c) /\ Spare(w, m, c)
          /\ Len(ChainOf(v.fat, f)) \in Nat
          /\ Len(ChainOf(m.fat, f)) <= Len(ChainOf(v.fat, f)) + 1
          /\ Extends(disk, v)
      BY <2>1, WriteSpare
    <2> QED
      BY <2>1, <2>2 DEF m
  <1>4. ASSUME NEW x, Extends(disk, x)
        PROVE  dir \in DirsOf(x) /\ at \in SlotsIn(x, dir) /\ SlotAt(x, at) = SlotAt(disk, at)
    <2>1. dir \in Heads(disk)
      BY SoundIs
    <2> QED
      BY <1>4, <2>1 DEF Extends, SlotsIn
  <1>5. /\ dir \in DirsOf(v) /\ dir \in DirsOf(Mem(d)) /\ at \in SlotsIn(v, dir) /\ at \in SlotsIn(Mem(d), dir)
        /\ SlotAt(Mem(d), at) = SlotAt(disk, at)
    BY <1>2, <1>3, <1>4
  <1>6. SlotAt(d, at) = SlotAt(Mem(d), at)
    BY <1>1 DEF SlotAt
  <1>7. SlotAt(d, at).kind = "file" /\ f = SlotAt(d, at).first
    BY <1>5, <1>6
  <1>8. /\ \E u : InOp(GoodSet(w, t), disk, e, u)
        /\ Rewritten(d, e, at, offset, end, val)
        /\ \A X : Tight(Mem(d), X) => Tight(Mem(e), X)
        /\ end \in Nat /\ end <= offset + len /\ end <= Len(ChainOf(d.fat, f))
        /\ end = offset + len \/ end = Len(ChainOf(d.fat, f))
    <2>1. /\ InOp(GoodSet(w, t), disk, d, v) /\ f \notin DOMAIN w /\ f \in t
          /\ offset \in Nat /\ len \in Nat /\ offset + len <= MaxSize /\ val \in Values
      OBVIOUS
    <2> QED
      BY ONLY <1>3, <1>5, <1>7, <2>1, StoredGood
  <1> QED
    BY <1>5, <1>8

\* What is wanted after a write to file f.
Changed(f, offset, len, val) ==
    IF f \in DOMAIN want THEN [want EXCEPT ![f].data = Overwritten(@, offset, len, val)] ELSE want

LEMMA ChangedIs ==
    ASSUME TypeOK, NEW f \in Clusters, NEW offset \in Nat, NEW len \in Nat, offset + len <= MaxSize,
           NEW val \in Values
    PROVE  LET w2 == Changed(f, offset, len, val)
           IN  /\ DOMAIN w2 = DOMAIN want
               /\ \A g \in DOMAIN want : g # f => w2[g] = want[g]
               /\ f \in DOMAIN want => w2[f] = Rewrote(want[f], offset, len, val)
               /\ WantedTypes(w2)
               /\ Excluding(w2, f) = Excluding(want, f)
  <1> DEFINE w2 == Changed(f, offset, len, val)
  <1>1. DOMAIN want \subseteq Clusters /\ \A g \in DOMAIN want : want[g] \in Files
    BY DEF TypeOK
  <1>2. /\ DOMAIN w2 = DOMAIN want
        /\ \A g \in DOMAIN want : g # f => w2[g] = want[g]
        /\ f \in DOMAIN want => w2[f] = Rewrote(want[f], offset, len, val)
    <2>1. CASE f \in DOMAIN want
      <3>1. w2 = [want EXCEPT ![f] = Rewrote(want[f], offset, len, val)]
        BY <2>1 DEF Changed, Rewrote
      <3> HIDE DEF w2
      <3> QED
        BY <2>1, <3>1
    <2>2. CASE f \notin DOMAIN want
      <3>1. w2 = want
        BY <2>2 DEF Changed
      <3> QED
        BY <2>2, <3>1
    <2> QED
      BY <2>1, <2>2
  <1> HIDE DEF w2
  <1>3. \A g \in DOMAIN w2 : w2[g] \in Files
    <2> TAKE g \in DOMAIN w2
    <2>1. CASE g = f
      <3>1. IsRewrote(want[f], Rewrote(want[f], offset, len, val), offset, len, val)
        BY <1>1, <1>2, <2>1, RewroteIs
      <3> QED
        BY <1>2, <2>1, <3>1 DEF IsRewrote
    <2>2. CASE g # f
      BY <1>1, <1>2, <2>2
    <2> QED
      BY <2>1, <2>2
  <1>4. WantedTypes(w2)
    BY <1>1, <1>2, <1>3 DEF WantedTypes
  <1>5. Excluding(w2, f) = Excluding(want, f)
    BY <1>2 DEF Excluding
  <1> QED
    BY <1>2, <1>4, <1>5 DEF w2

\* The write is made as wanted.
LEMMA WriteDone ==
    ASSUME TypeOK, Good(want, torn, disk), NEW at \in EntriesOf(disk), SlotAt(disk, at).kind = "file",
           NEW f \in Clusters, f = SlotAt(disk, at).first, f \in Heads(disk), SlotAt(disk, at).size \in Nat,
           NEW d, Stretch(disk, Mem(d), f), SlotAt(Mem(d), at) = SlotAt(disk, at),
           NEW offset \in Nat, NEW len \in Nat, offset + len <= MaxSize, NEW val \in Values,
           Len(ChainOf(d.fat, f)) =
             Len(ChainOf(disk.fat, f)) + Needed(SlotAt(disk, at).size, offset, len),
           Len(ChainOf(disk.fat, f)) \in Nat, Len(ChainOf(disk.fat, f)) >= 1,
           NEW e, NEW end \in Nat, Rewritten(d, e, at, offset, end, val), end <= Len(ChainOf(d.fat, f)),
           end <= offset + len, end = offset + len \/ end = Len(ChainOf(d.fat, f)),
           Good(Excluding(want, f), torn \cup {f}, Mem(e))
    PROVE  Good(Changed(f, offset, len, val), torn, Mem(e))
  <1> DEFINE s   == SlotAt(disk, at)
             old == Len(ChainOf(disk.fat, f))
             new == Len(ChainOf(d.fat, f))
             w   == Excluding(want, f)
             w2  == Changed(f, offset, len, val)
  <1>1. SoundVol(disk) /\ SizesOK(torn, disk) /\ WantedOK(want, disk) /\ SoundVol(Mem(e))
    BY DEF Good
  <1>2. old \in Nat /\ new \in Nat /\ old <= new /\ (s.size <= old => offset + len <= new)
    <2>1. new = old + Needed(s.size, offset, len) /\ old \in Nat /\ old >= 1 /\ s.size \in Nat
      OBVIOUS
    <2> HIDE DEF s, old, new
    <2> QED
      BY <2>1 DEF Needed, Owned
  <1>3. Extends(disk, Mem(d)) /\ at \in EntriesOf(Mem(d)) /\ Mem(d).fat = d.fat /\ Mem(e).fat = e.fat
    BY DEF Stretch, Extends, Mem
  <1>4. /\ e.fat = d.fat /\ EntriesOf(Mem(e)) = EntriesOf(Mem(d))
        /\ SlotAt(Mem(e), at).first = f
        /\ SlotAt(Mem(e), at).size = IF end > s.size THEN end ELSE s.size
    BY DEF Rewritten
  <1>5. Good(w, torn, Mem(e))
    <2>1. CASE f \in torn
      <3>1. torn \cup {f} = torn
        BY <2>1
      <3> QED
        BY <3>1
    <2>2. CASE f \notin torn
      <3>1. s.size <= old
        BY <1>1, <2>2 DEF SizesOK
      <3>2. SlotAt(Mem(e), at).size <= new
        BY <1>2, <1>4, <3>1
      <3>3. \A p \in EntriesOf(Mem(e)) : SlotAt(Mem(e), p).first = f =>
               SlotAt(Mem(e), p).size <= Len(ChainOf(Mem(e).fat, f))
        <4> SUFFICES ASSUME NEW p \in EntriesOf(Mem(e)), SlotAt(Mem(e), p).first = f
                     PROVE  SlotAt(Mem(e), p).size <= Len(ChainOf(Mem(e).fat, f))
          OBVIOUS
        <4>1. p = at
          BY <1>1, <1>3, <1>4 DEF SoundVol
        <4> QED
          BY <1>3, <1>4, <3>2, <4>1
      <3>4. torn \cup {f} \subseteq torn \cup {f} /\ Good(w, torn \cup {f}, Mem(e))
        OBVIOUS
      <3> HIDE DEF w
      <3> QED
        BY ONLY <3>3, <3>4, GoodNotTorn
    <2> QED
      BY <2>1, <2>2
  <1>6. /\ DOMAIN w2 = DOMAIN want
        /\ \A g \in DOMAIN want : g # f => w2[g] = want[g]
        /\ f \in DOMAIN want => w2[f] = Rewrote(want[f], offset, len, val)
    BY ChangedIs
  <1>7. DOMAIN w = DOMAIN want \ {f} /\ \A g \in DOMAIN w : w[g] = want[g]
    BY DEF Excluding
  <1>8. f \in DOMAIN want => FileOK(w2[f], f, Mem(e))
    <2> SUFFICES ASSUME f \in DOMAIN want PROVE FileOK(w2[f], f, Mem(e))
      OBVIOUS
    <2> DEFINE file == want[f]
    <2>1. FileOK(file, f, disk) /\ file \in Files
      BY <1>1 DEF WantedOK, TypeOK
    <2>2. file.at \in EntriesOf(disk) /\ SlotAt(disk, file.at).first = f
      BY <1>1, <2>1, FileHead
    <2>3. file.at = at
      BY <1>1, <2>2 DEF SoundVol
    <2>4. s.size <= old
      BY <2>1, <2>3 DEF FileOK
    <2>5. offset + len <= new
      BY <1>2, <2>4
    <2>6. end = offset + len
      BY <1>2, <2>5
    <2>7. /\ SlotAt(disk, file.at).kind = "file" /\ Rewritten(d, e, file.at, offset, offset + len, val)
          /\ SoundVol(disk) /\ Stretch(disk, Mem(d), f)
          /\ offset + len <= Len(ChainOf(d.fat, f)) /\ Len(ChainOf(d.fat, f)) \in Nat
          /\ offset \in Nat /\ len \in Nat /\ offset + len <= MaxSize /\ val \in Values
      BY <1>1, <1>2, <2>3, <2>5, <2>6
    <2> HIDE DEF file
    <2>8. FileOK(Rewrote(file, offset, len, val), f, Mem(e))
      BY ONLY <2>1, <2>7, RewrittenFile
    <2> QED
      BY <1>6, <2>8 DEF file
  <1> HIDE DEF w2
  <1>9. DOMAIN w2 \subseteq DOMAIN w \cup {f} /\ \A g \in DOMAIN w2 : g # f => w2[g] = w[g]
    BY <1>6, <1>7
  <1>10. Good(w2, torn, Mem(e))
    <2> HIDE DEF w
    <2> QED
      BY <1>5, <1>6, <1>8, <1>9, GoodWith
  <1> QED
    BY <1>10 DEF w2

\* A file is written.
LEMMA WriteKeeps ==
    ASSUME FatInv, NEW dir \in Dirs, NEW name, NEW offset \in 0..(MaxSize - 1),
           NEW len \in 1..(MaxSize - offset), NEW val \in Values, Write(dir, name, offset, len, val)
    PROVE  FatInv'
  <1> DEFINE at   == Lookup(disk, dir, name)
             s    == SlotAt(disk, at)
             f    == s.first
             room == Extended(Volume, s, offset, len)
             w    == Excluding(want, f)
             t    == torn \cup {f}
             w2   == Changed(f, offset, len, val)
             x    == Stored(room, at, offset, len, val)
             end  == StoredEnd(room, f, offset, len)
  <1>1. /\ Idle /\ Exists(disk, dir, name) /\ s.kind = "file" /\ torn' = torn /\ leaky' = leaky
        /\ \/ ~room.ok /\ Perform(Sync(room), Unused) /\ want' = want
           \/ room.ok /\ Perform(Sync(x), f) /\ want' = w2
    BY DEF Write, Changed
  <1>2. /\ Good(want, torn, disk) /\ SoundVol(disk) /\ Mem(Volume) = disk /\ ~Volume.dirty
        /\ Volume.ok /\ Volume.fat = disk.fat /\ (~leaky => Tight(disk, {}))
    BY <1>1, IdleIs
  <1>3. dir \in DirsOf(disk) /\ TypeOK
    BY <1>2, DirsAreDirs DEF FatInv
  <1>4. offset \in Nat /\ len \in Nat /\ offset + len <= MaxSize
    BY FatBoundsAssumption
  <1>5. /\ at \in SlotsIn(disk, dir) /\ at \in EntriesOf(disk) /\ s.size \in Nat
        /\ f \in Clusters /\ f \in Heads(disk) /\ f \notin DirsOf(disk)
        /\ InOp(GoodSet(want, torn), disk, Volume, Mem(Volume))
        /\ InOp(GoodSet(w, t), disk, Volume, Mem(Volume))
        /\ Len(ChainOf(disk.fat, f)) \in Nat /\ Len(ChainOf(disk.fat, f)) >= 1
    BY <1>1, <1>3, WriteBegins
  <1>6. CASE ~room.ok
    <2> DEFINE e == Sync(room)
    <2>1. Perform(e, Unused) /\ UNCHANGED <<want, torn, leaky>>
      BY <1>1, <1>6
    <2>2. /\ \E v : InOp(GoodSet(want, torn), disk, room, v)
          /\ \A X : Tight(disk, X) => Tight(Mem(room), X)
      BY <1>2, <1>4, <1>5, ExtendedGood
    <2> HIDE DEF room
    <2>3. InOp(GoodSet(want, torn), disk, e, Mem(e)) /\ ~e.dirty /\ Mem(e) = Mem(room)
      BY <2>2, SyncedGood
    <2> HIDE DEF e
    <2>4. ~leaky => Tight(Mem(e), {})
      BY <1>2, <2>2, <2>3
    <2> QED
      BY <2>1, <2>3, <2>4, IdlePerform
  <1>7. CASE room.ok
    <2> DEFINE e == Sync(x)
    <2>1. Perform(e, f) /\ want' = w2 /\ torn' = torn /\ leaky' = leaky
      BY <1>1, <1>7
    <2>20. s.first \in Heads(Mem(Volume))
      BY <1>2, <1>5
    <2> HIDE DEF at, w, t
    <2>2. /\ \E v : /\ InOp(GoodSet(w, t), disk, room, v)
                    /\ v = Mem(room) \/ (Extends(disk, v) /\ OneBehind(v, Mem(room), f))
          /\ \A X : Tight(disk, X) => Tight(Mem(room), X)
          /\ Stretch(disk, Mem(room), f)
          /\ Len(ChainOf(room.fat, f)) = Len(ChainOf(disk.fat, f)) + Needed(s.size, offset, len)
      BY <1>2, <1>4, <1>5, <1>7, <2>20, ExtendedGood
    <2> HIDE DEF room
    <2>3. PICK v : /\ InOp(GoodSet(w, t), disk, room, v)
                   /\ v = Mem(room) \/ (Extends(disk, v) /\ OneBehind(v, Mem(room), f))
      BY <2>2
    <2>4. f \notin DOMAIN w /\ f \in t
      BY DEF w, t, Excluding
    <2>50. SlotAt(disk, at).kind = "file" /\ f = SlotAt(disk, at).first /\ val \in Values
      BY <1>1
    <2> HIDE DEF x, f, end
    <2>5. /\ \E u : InOp(GoodSet(w, t), disk, x, u)
          /\ Rewritten(room, x, at, offset, end, val)
          /\ \A X : Tight(Mem(room), X) => Tight(Mem(x), X)
          /\ end \in Nat /\ end <= offset + len /\ end <= Len(ChainOf(room.fat, f))
          /\ end = offset + len \/ end = Len(ChainOf(room.fat, f))
          /\ SlotAt(Mem(room), at) = SlotAt(disk, at)
      BY <1>2, <1>3, <1>4, <1>5, <2>2, <2>3, <2>4, <2>50, WriteStored DEF x, end
    <2>6. /\ InOp(GoodSet(w, t), disk, e, Mem(e)) /\ ~e.dirty /\ Mem(e) = Mem(x)
          /\ Good(w, t, Mem(e))
      BY <2>5, SyncedGood
    <2>70. Good(Excluding(want, f), torn \cup {f}, Mem(x))
      BY <2>6 DEF w, t
    <2>7. Good(w2, torn, Mem(x))
      <3>1. SlotAt(disk, at).size \in Nat /\ f \in Clusters /\ f \in Heads(disk) /\ at \in EntriesOf(disk)
        BY <1>5
      <3>2. Len(ChainOf(room.fat, f)) =
              Len(ChainOf(disk.fat, f)) + Needed(SlotAt(disk, at).size, offset, len)
        BY <2>2
      <3>3. Len(ChainOf(disk.fat, f)) \in Nat /\ Len(ChainOf(disk.fat, f)) >= 1
        BY <1>5
      <3>4. Stretch(disk, Mem(room), f)
        BY <2>2
      <3> QED
        BY ONLY <1>2, <1>3, <1>4, <2>5, <2>50, <2>70, <3>1, <3>2, <3>3, <3>4, WriteDone
    <2>8. WantedTypes(w2) /\ Excluding(w2, f) = Excluding(want, f)
      BY <1>3, <1>4, <1>5, ChangedIs
    <2> HIDE DEF e, w2
    <2>9. Good(want', torn', Mem(e)) /\ (~leaky' => Tight(Mem(e), {}))
      BY <1>2, <2>1, <2>2, <2>5, <2>6, <2>7
    <2>10. \A y : Good(w, t, y) => Good(Excluding(want', f), torn' \cup {f}, y)
      BY <2>1, <2>8 DEF w, t
    <2>11. /\ WantedTypes(want') /\ torn' \subseteq Clusters /\ leaky' \in BOOLEAN
           /\ f \in Clusters \cup {Unused}
      BY <1>3, <1>5, <2>1, <2>8 DEF TypeOK
    <2> QED
      BY ONLY FatInv, <2>1, <2>6, <2>9, <2>10, <2>11, PerformKeeps
  <1> QED
    BY <1>6, <1>7

\* A volume with an empty root directory.
LEMMA EmptyVolume ==
    ASSUME NEW v \in Disks, v.fat = [c \in Clusters |-> IF c = RootDir THEN Eoc ELSE Unused],
           v.sec = [c \in Clusters |-> Blank]
    PROVE  /\ \A w, t : DOMAIN w = {} => Good(w, t, v)
           /\ Tight(v, {})
  <1>1. /\ FatOK(v.fat) /\ IsHead(v.fat, RootDir)
    BY LinksAre DEF FatOK, IsHead, Links, Disks
  <1>2. InDir(v, RootDir) \subseteq Clusters /\ RootDir \in InDir(v, RootDir)
    BY <1>1, InChainIs DEF InDir
  <1>3. \A p \in SlotsIn(v, RootDir) : ~Entry(SlotAt(v, p)) /\ SlotAt(v, p).kind # "dir"
    BY <1>2, BlankIs DEF SlotsIn, SlotAt
  <1>4. DirsOf(v) = {RootDir}
    BY <1>3, DirsAre
  <1>5. EntriesOf(v) = {} /\ Heads(v) = {RootDir}
    <2>1. EntriesOf(v) = {}
      BY <1>3, <1>4 DEF EntriesOf
    <2> QED
      BY <2>1 DEF Heads
  <1>6. SoundVol(v)
    BY <1>1, <1>2, <1>4, <1>5, BlankIs DEF SoundVol
  <1>7. ShortOK(v)
    <2>1. \A i \in Numbers(v, RootDir) : ~Entry(SlotIn(v, RootDir, i))
      <3>1. \A i \in Numbers(v, RootDir) :
               Place(v, RootDir, i) \in SlotsIn(v, RootDir) /\ SlotIn(v, RootDir, i) = SlotAt(v, Place(v, RootDir, i))
        BY <1>4, <1>6, SlotNumbers
      <3> QED
        BY <1>3, <3>1
    <2> QED
      BY <1>4, <2>1 DEF ShortOK
  <1>8. Tight(v, {})
    BY <1>2, <1>5, LinksAre DEF Tight
  <1>9. ASSUME NEW w, NEW t, DOMAIN w = {}
        PROVE  Good(w, t, v)
    BY <1>5, <1>6, <1>7, <1>9 DEF Good, SizesOK, WantedOK
  <1> QED
    BY <1>8, <1>9

LEMMA InitKeeps == Init => FatInv
  <1> SUFFICES ASSUME Init PROVE FatInv
    OBVIOUS
  <1>1. /\ disk = [fat |-> [c \in Clusters |-> IF c = RootDir THEN Eoc ELSE Unused],
                   sec |-> [c \in Clusters |-> Blank]]
        /\ ram = [fat |-> disk.fat, cache |-> NoSector, dirty |-> FALSE, hint |-> RootDir + 1]
        /\ pending = <<>> /\ busy = Unused /\ want = <<>>
        /\ torn = {} /\ leaky = FALSE /\ crashes = 0
    BY DEF Init, Mounted
  <1>2. /\ disk.fat = [c \in Clusters |-> IF c = RootDir THEN Eoc ELSE Unused]
        /\ disk.sec = [c \in Clusters |-> Blank]
    BY <1>1
  <1>3. disk \in Disks
    <2>1. \A c \in Clusters : disk.fat[c] \in Links
      BY <1>2 DEF Links
    <2>2. \A c \in Clusters : disk.sec[c] \in Sectors
      BY <1>2, BlankIs DEF Sectors
    <2> QED
      BY <1>1, <2>1, <2>2 DEF Disks
  <1>4. (\A w, t : DOMAIN w = {} => Good(w, t, disk)) /\ Tight(disk, {})
    BY <1>2, <1>3, EmptyVolume
  <1>5. DOMAIN want = {} /\ DOMAIN Others = {}
    BY <1>1 DEF Others
  <1>6. Shown(GoodSet(Others, torn \cup {busy}), disk, <<>>, disk)
    <2>1. disk \in GoodSet(Others, torn \cup {busy})
      BY <1>3, <1>4, <1>5 DEF GoodSet
    <2> QED
      BY <2>1, ShownNone
  <1>7. TypeOK
    <2>1. /\ disk.fat \in [Clusters -> Clusters \cup {Unused, Eoc}]
          /\ \A c \in Clusters : disk.sec[c] \in Values \/ disk.sec[c] \in [1..PerCluster -> Slots]
      BY <1>3, DiskTypes
    <2>2. RootDir + 1 \in Clusters
      BY FatAssumption DEF RootDir, Clusters
    <2>3. 0 \in 0..MaxCrashes
      BY FatBoundsAssumption
    <2>4. /\ ram.fat = disk.fat /\ ram.cache = NoSector /\ ram.dirty = FALSE /\ ram.hint = RootDir + 1
      BY <1>1
    <2> QED
      BY <1>1, <1>5, <2>1, <2>2, <2>3, <2>4 DEF TypeOK
  <1>8. <<>> \in Seq(Writes) /\ ~ram.dirty /\ ram.fat = disk.fat
    BY <1>1
  <1> QED
    BY <1>1, <1>4, <1>5, <1>6, <1>7, <1>8 DEF FatInv

LEMMA NextKeeps == FatInv /\ [Next]_vars => FatInv'
  <1> SUFFICES ASSUME FatInv, [Next]_vars PROVE FatInv'
    OBVIOUS
  <1>1. ASSUME NEW name \in DirNames, Mkdir(name) PROVE FatInv'
    <2>1. RootDir \in Dirs /\ name \in Names
      BY FatBoundsAssumption DEF Dirs
    <2> QED
      BY <1>1, <2>1, MakeKeeps DEF Mkdir
  <1>2. ASSUME NEW name \in Names, NEW dir \in Dirs, Create(dir, name) PROVE FatInv'
    BY <1>2, MakeKeeps DEF Create
  <1>3. ASSUME NEW name \in Names, NEW dir \in Dirs, Unlink(dir, name) PROVE FatInv'
    BY <1>3, UnlinkKeeps
  <1>4. ASSUME NEW name \in Names, NEW dir \in Dirs, NEW offset \in 0..(MaxSize - 1), NEW val \in Values,
               NEW len \in 1..(MaxSize - offset), Write(dir, name, offset, len, val)
        PROVE  FatInv'
    BY <1>4, WriteKeeps
  <1>5. CASE DiskWrite
    BY <1>5, DiskWriteKeeps
  <1>6. CASE Crash
    BY <1>6, CrashKeeps
  <1>7. CASE UNCHANGED vars
    <2>1. /\ disk' = disk /\ ram' = ram /\ pending' = pending /\ busy' = busy /\ want' = want
          /\ torn' = torn /\ leaky' = leaky /\ crashes' = crashes
      BY <1>7 DEF vars
    <2>2. TypeOK'
      BY <2>1 DEF FatInv, TypeOK
    <2>3. Others' = Others
      BY <2>1 DEF Others
    <2> QED
      BY <2>1, <2>2, <2>3 DEF FatInv
  <1> QED
    BY <1>1, <1>2, <1>3, <1>4, <1>5, <1>6, <1>7 DEF Next

\* Whatever is created, made, removed and written, and wherever crashes cut it
\* short, what is still to be written leads the disk through good volumes to
\* the one in memory (FatInv).
THEOREM Invariance == Spec => []FatInv
  BY InitKeeps, NextKeeps, PTL DEF Spec

\* Whatever is pending, the disk is good for all files but that of the operation.
LEMMA DiskGood ==
    ASSUME FatInv
    PROVE  /\ disk \in Disks /\ Good(Others, torn \cup {busy}, disk) /\ SoundVol(disk)
           /\ DirsOf(disk) = Dirs
  <1> DEFINE G == GoodSet(Others, torn \cup {busy})
  <1>1. PICK v : Shown(G, disk, pending, v)
    BY DEF FatInv
  <1>2. PICK ds \in [0..Len(pending) -> G] : ds[0] = disk
    BY <1>1 DEF Shown
  <1>3. 0 \in 0..Len(pending)
    BY DEF FatInv
  <1>4. disk \in G
    BY <1>2, <1>3
  <1> QED
    BY <1>4, DirsAreDirs DEF GoodSet, Good

\* The entries and chains of the model are those of the volume.
LEMMA LiveIs ==
    ASSUME FatInv
    PROVE  /\ \A s : s \in Live <=> \E p \in EntriesOf(disk) : s = SlotAt(disk, p)
           /\ \A s : s \in Chains <=> \E h \in Heads(disk) : s = ChainOf(disk.fat, h)
  <1>1. SoundVol(disk) /\ DirsOf(disk) = Dirs
    BY DiskGood
  <1>2. \A dir \in DirsOf(disk) : Range(DirSlots(disk, dir)) = {SlotAt(disk, p) : p \in SlotsIn(disk, dir)}
    BY <1>1, SlotsAre
  <1>3. \A p : p \in EntriesOf(disk) <=>
           Entry(SlotAt(disk, p)) /\ \E dir \in DirsOf(disk) : p \in SlotsIn(disk, dir)
    BY <1>1, SoundIs
  <1>4. ASSUME NEW s
        PROVE  s \in Live <=> \E p \in EntriesOf(disk) : s = SlotAt(disk, p)
    BY <1>1, <1>2, <1>3 DEF Live, Entries
  <1>5. {RootDir} \cup {s.first : s \in Live} = Heads(disk)
    <2>1. \A h : h \in {RootDir} \cup {s.first : s \in Live} <=> h \in Heads(disk)
      BY <1>4, HeadsAre
    <2> QED
      BY <2>1
  <1>6. \A s : s \in Chains <=> \E h \in Heads(disk) : s = ChainOf(disk.fat, h)
    BY <1>5 DEF Chains
  <1> QED
    BY <1>4, <1>6

LEMMA ChainFacts ==
    ASSUME NEW v, SoundVol(v), NEW h \in Heads(v)
    PROVE  LET s == ChainOf(v.fat, h)
           IN  /\ s # <<>> /\ IsInjective(s) /\ v.fat[Last(s)] = Eoc
               /\ Range(s) = InDir(v, h) /\ Len(s) \in Nat
  <1> DEFINE s == ChainOf(v.fat, h)
  <1>1. FatOK(v.fat) /\ IsHead(v.fat, h)
    BY SoundIs
  <1>2. /\ s \in Seq(Clusters) /\ Len(s) \in Nat /\ Len(s) >= 1
        /\ \A i, j \in 1..Len(s) : s[i] = s[j] => i = j
        /\ v.fat[s[Len(s)]] = Eoc
    BY <1>1, HeadChain
  <1>3. Range(s) = InDir(v, h)
    BY DEF InDir, InChain
  <1> HIDE DEF s
  <1>4. s # <<>> /\ Last(s) = s[Len(s)] /\ DOMAIN s = 1..Len(s)
    BY <1>2 DEF Last
  <1>5. IsInjective(s)
    BY <1>2, <1>4 DEF IsInjective
  <1> QED
    BY <1>2, <1>3, <1>4, <1>5 DEF s

LEMMA ChainsAreSound == FatInv => ChainsSound
  <1> SUFFICES ASSUME FatInv PROVE ChainsSound
    OBVIOUS
  <1>1. SoundVol(disk)
    BY DiskGood
  <1>2. \A s \in Chains : s # <<>> /\ IsInjective(s) /\ disk.fat[Last(s)] = Eoc
    BY <1>1, LiveIs, ChainFacts
  <1>3. \A s, t \in Chains : s # t => Range(s) \cap Range(t) = {}
    <2> SUFFICES ASSUME NEW s \in Chains, NEW t \in Chains, s # t
                 PROVE  Range(s) \cap Range(t) = {}
      OBVIOUS
    <2>1. PICK h \in Heads(disk) : s = ChainOf(disk.fat, h)
      BY LiveIs
    <2>2. PICK k \in Heads(disk) : t = ChainOf(disk.fat, k)
      BY LiveIs
    <2>3. h # k
      BY <2>1, <2>2
    <2>4. InDir(disk, h) \cap InDir(disk, k) = {}
      BY <1>1, <2>3, SoundIs
    <2>5. Range(s) = InDir(disk, h) /\ Range(t) = InDir(disk, k)
      BY <1>1, <2>1, <2>2, ChainFacts
    <2> QED
      BY <2>4, <2>5
  <1>4. \A s, t \in Live : s.first = t.first => s = t
    BY <1>1, LiveIs DEF SoundVol
  <1> QED
    BY <1>2, <1>3, <1>4 DEF ChainsSound

LEMMA NoneLost == FatInv => NoLostCluster
  <1> SUFFICES ASSUME FatInv, pending = <<>>, ~leaky
               PROVE  {c \in Clusters : disk.fat[c] # Unused} = UNION {Range(s) : s \in Chains}
    BY DEF NoLostCluster
  <1>1. SoundVol(disk) /\ Tight(disk, {})
    BY IdleIs DEF Idle
  <1>2. ASSUME NEW c \in Clusters, disk.fat[c] # Unused
        PROVE  c \in UNION {Range(s) : s \in Chains}
    <2>1. PICK h \in Heads(disk) : c \in InDir(disk, h)
      BY <1>1, <1>2 DEF Tight
    <2>2. Range(ChainOf(disk.fat, h)) = InDir(disk, h)
      BY <1>1, ChainFacts
    <2>3. ChainOf(disk.fat, h) \in Chains
      BY LiveIs
    <2> QED
      BY <2>1, <2>2, <2>3
  <1>3. ASSUME NEW s \in Chains, NEW c \in Range(s)
        PROVE  c \in Clusters /\ disk.fat[c] # Unused
    <2>1. PICK h \in Heads(disk) : s = ChainOf(disk.fat, h)
      BY LiveIs
    <2>2. FatOK(disk.fat) /\ IsHead(disk.fat, h)
      BY <1>1, SoundIs
    <2>3. c \in InChain(disk.fat, h)
      BY <1>3, <2>1 DEF InChain
    <2> QED
      BY <2>2, <2>3, InChainIs
  <1> QED
    BY <1>2, <1>3

LEMMA AllIntact == FatInv => Intact
  <1> SUFFICES ASSUME FatInv, NEW f \in DOMAIN want \ {busy}
               PROVE  LET at == want[f].at
                          s  == SlotAt(disk, at)
                      IN  /\ Entry(s) /\ s.name = want[f].name /\ s.first = f
                          /\ s.size = Len(want[f].data)
                          /\ Content(disk, s) = want[f].data
    BY DEF Intact
  <1> DEFINE file  == want[f]
             s     == SlotAt(disk, file.at)
             chain == ChainOf(disk.fat, f)
             n     == Len(file.data)
  <1>1. f \in DOMAIN Others /\ Others[f] = file
    BY DEF Others
  <1>2. SoundVol(disk) /\ FileOK(file, f, disk)
    BY <1>1, DiskGood DEF Good, WantedOK
  <1>3. /\ Entry(s) /\ s.name = file.name /\ s.first = f /\ s.size = n
        /\ n <= Len(chain) /\ \A i \in 1..n : disk.sec[chain[i]] = file.data[i]
    BY <1>2 DEF FileOK
  <1>4. n \in Nat /\ file.data = [i \in 1..n |-> file.data[i]]
    <2>1. file \in Files
      BY DEF FatInv, TypeOK
    <2>2. PICK k \in 0..MaxSize : file.data \in [1..k -> Values \cup {Blank}]
      BY <2>1 DEF Files
    <2>3. k \in Nat
      BY FatBoundsAssumption
    <2> QED
      BY <2>2, <2>3
  <1>5. Len(chain) \in Nat
    BY <1>2, FileHead, ChainFacts
  <1>6. Min({s.size, Len(chain)}) = n
    BY <1>3, <1>4, <1>5, MinOfTwo
  <1>7. Content(disk, s) = [i \in 1..n |-> disk.sec[chain[i]]]
    BY <1>3, <1>6 DEF Content
  <1> HIDE DEF n, chain, s
  <1>8. Content(disk, s) = file.data
    BY <1>3, <1>4, <1>7
  <1> QED
    BY <1>3, <1>8 DEF n, s

LEMMA IsSynced == FatInv => Synced
  BY IdleIs DEF Synced, Idle, FatInv

LEMMA AllCovered == FatInv => SizeCovered
  <1> SUFFICES ASSUME FatInv, NEW s \in Live
               PROVE  \/ s.size <= Len(ChainOf(disk.fat, s.first))
                      \/ s.first \in torn \cup {busy} /\ s.size = Len(ChainOf(disk.fat, s.first)) + 1
    BY DEF SizeCovered
  <1>1. PICK p \in EntriesOf(disk) : s = SlotAt(disk, p)
    BY LiveIs
  <1>2. SizesOK(torn \cup {busy}, disk)
    BY DiskGood DEF Good
  <1> QED
    BY <1>1, <1>2 DEF SizesOK

LEMMA AllFindable == FatInv => ShortFindable
  <1> SUFFICES ASSUME FatInv, pending = <<>>, NEW f \in DOMAIN want, want[f].name \notin LongNames
               PROVE  Found(f)
    BY DEF ShortFindable
  <1> DEFINE file == want[f]
  <1>1. Good(want, torn, disk)
    BY IdleIs DEF Idle
  <1>2. SoundVol(disk) /\ ShortOK(disk) /\ FileOK(file, f, disk)
    BY <1>1 DEF Good, WantedOK
  <1>3. /\ file.dir \in DirsOf(disk) /\ file.at \in SlotsIn(disk, file.dir)
        /\ Entry(SlotAt(disk, file.at)) /\ SlotAt(disk, file.at).name = file.name
    BY <1>2 DEF FileOK
  <1>4. Exists(disk, file.dir, file.name) /\ Lookup(disk, file.dir, file.name) = file.at
    BY <1>2, <1>3, ShortFound
  <1> QED
    BY <1>4 DEF Found

\* Types of the volume on the disk and of the driver's variables (TypeOK).
THEOREM TypeCorrect == Spec => []TypeOK
  <1>1. FatInv => TypeOK
    BY DEF FatInv
  <1> QED
    BY <1>1, Invariance, PTL

\* After every sector write, so after every crash, each file and directory has
\* a chain of its own that ends: no crash can break the order in which the
\* driver writes marks, links and entries (ChainsSound).
THEOREM ChainsStaySound == Spec => []ChainsSound
  BY Invariance, ChainsAreSound, PTL

\* Between operations every cluster in use belongs to a file or directory,
\* without crashes and deletions of full directories (NoLostCluster).
THEOREM NothingLost == Spec => []NoLostCluster
  BY Invariance, NoneLost, PTL

\* A file that was written completely is on the disk as written, however the
\* writes of other files are cut short (Intact).
THEOREM FilesIntact == Spec => []Intact
  BY Invariance, AllIntact, PTL

\* No operation leaves anything of the FAT in memory only (Synced).
THEOREM FatSynced == Spec => []Synced
  BY Invariance, IsSynced, PTL

\* A file's size never exceeds its chain by more than the sector that a write
\* under way, or cut short, owes (SizeCovered).
THEOREM SizesCovered == Spec => []SizeCovered
  BY Invariance, AllCovered, PTL

\* Between operations what was created under a short name is found again
\* (ShortFindable).
THEOREM ShortNamesFound == Spec => []ShortFindable
  BY Invariance, AllFindable, PTL
=============================================================================
