--------------------------- MODULE FatVolumeProofs ---------------------------
(* FatVolume for every number of files, clusters, units in a sector, errors  *)
(* and losses of power: types, chains that end and stay apart, the           *)
(* refinement of FileStore, what a close acknowledges, the count of the free *)
(* clusters, and that none is lost.  Inv holds whatever fails; it has six    *)
(* parts, of which Rooted keeps the chains apart, Lengths says that what the *)
(* card lacks is not needed for the sizes it knows, and TextInv where each   *)
(* unit of the open file is.  Pending, Counted, Kept and Owner add what      *)
(* holds as long as every call ends well.  An induction along a chain looks  *)
(* at the least place where it would fail.                                   *)
EXTENDS FatVolume, FunctionTheorems, FiniteSetTheorems, WellFoundedInduction, TLAPS
-----------------------------------------------------------------------------
(* Induction, in the form the provers can use: over a set of naturals.       *)

\* Every nonempty set of naturals has a least element.
LEMMA Least == \A S \in SUBSET Nat : S # {} => \E m \in S : \A k \in S : m =< k
<1> DEFINE R == {ss \in Nat \X Nat : ss[1] < ss[2]}
<1>1. IsWellFoundedOn(R, Nat)
      BY NatLessThanWellFounded DEF OpToRel
<1>2. \A x, y \in Nat : <<x, y>> \in R <=> x < y
      OBVIOUS
<1> HIDE DEF R
<1> SUFFICES ASSUME NEW S \in SUBSET Nat, S # {}
             PROVE  \E m \in S : \A k \in S : m =< k
    OBVIOUS
<1>3. PICK m \in S : \A k \in S : ~(<<k, m>> \in R)
      BY <1>1, WFMin
<1>4. \A k \in S : k \in Nat /\ m \in Nat /\ ~(k < m)
      BY <1>2, <1>3
<1> QED BY <1>3, <1>4

\* A set that has 0, and n + 1 with every n, has every natural number.
LEMMA Induct ==
    \A S : 0 \in S /\ (\A n \in Nat : n \in S => n + 1 \in S) => \A n \in Nat : n \in S
<1> SUFFICES ASSUME NEW S, 0 \in S, \A n \in Nat : n \in S => n + 1 \in S,
                    NEW k \in Nat, k \notin S
             PROVE  FALSE
    OBVIOUS
<1> DEFINE T == {n \in Nat : n \notin S}
<1>1. PICK m \in T : \A n \in T : m =< n
      BY Least, k \in T, T \in SUBSET Nat
<1>2. m # 0 /\ m - 1 \in Nat /\ m - 1 \notin T
      BY <1>1
<1> QED BY <1>1, <1>2
-----------------------------------------------------------------------------
(* The sector of a position in a file, and its place there.                  *)

Idx(p) == (p - 1) \div SectorUnits
Off(p) == ((p - 1) % SectorUnits) + 1

\* Division, as far as it is needed.
LEMMA Division ==
    ASSUME NEW a \in Nat
    PROVE  /\ a \div SectorUnits \in Nat /\ a % SectorUnits \in 0..(SectorUnits - 1)
           /\ a = SectorUnits * (a \div SectorUnits) + (a % SectorUnits)
BY FatAssumption

LEMMA Places ==
    ASSUME NEW p \in Nat \ {0}
    PROVE  /\ Idx(p) \in Nat /\ Off(p) \in 1..SectorUnits
           /\ p = SectorUnits * Idx(p) + Off(p)
<1>1. p - 1 \in Nat
      OBVIOUS
<1> QED BY <1>1, Division, FatAssumption DEF Idx, Off

\* Of two products with one factor the one with the greater other is greater.
LEMMA Products ==
    ASSUME NEW a \in Nat, NEW b \in Nat, NEW s \in Nat, a < b
    PROVE  s * a + s =< s * b
<1>1. PICK d \in Nat : b = a + 1 + d
      BY b - a - 1 \in Nat, b = a + 1 + (b - a - 1)
<1>2. s * b = s * a + s + s * d /\ s * d \in Nat
      BY <1>1
<1> QED BY <1>2

\* A quotient and a remainder are the only ones.
LEMMA Unique ==
    ASSUME NEW q \in Nat, NEW r \in 1..SectorUnits, NEW p \in Nat \ {0},
           p = SectorUnits * q + r
    PROVE  Idx(p) = q /\ Off(p) = r
<1>1. /\ Idx(p) \in Nat /\ Off(p) \in 1..SectorUnits
      /\ p = SectorUnits * Idx(p) + Off(p) /\ SectorUnits \in Nat
      BY Places, FatAssumption
<1>2. CASE Idx(p) < q
      <2>1. SectorUnits * Idx(p) + SectorUnits =< SectorUnits * q
            BY <1>1, <1>2, Products
      <2>2. SectorUnits * q \in Nat /\ SectorUnits * Idx(p) \in Nat
            BY <1>1
      <2> QED BY <1>1, <2>1, <2>2
<1>3. CASE q < Idx(p)
      <2>1. SectorUnits * q + SectorUnits =< SectorUnits * Idx(p)
            BY <1>1, <1>3, Products
      <2>2. SectorUnits * q \in Nat /\ SectorUnits * Idx(p) \in Nat
            BY <1>1
      <2> QED BY <1>1, <2>1, <2>2
<1>4. CASE q = Idx(p)
      BY <1>1, <1>4
<1> QED BY <1>1, <1>2, <1>3, <1>4

\* A later position is in the same sector, further on, or in a later one.
LEMMA Later ==
    ASSUME NEW p \in Nat \ {0}, NEW q \in Nat \ {0}, p < q
    PROVE  Idx(p) < Idx(q) \/ (Idx(p) = Idx(q) /\ Off(p) < Off(q))
<1>1. /\ Idx(p) \in Nat /\ Off(p) \in 1..SectorUnits /\ p = SectorUnits * Idx(p) + Off(p)
      /\ Idx(q) \in Nat /\ Off(q) \in 1..SectorUnits /\ q = SectorUnits * Idx(q) + Off(q)
      /\ SectorUnits \in Nat
      BY Places, FatAssumption
<1>2. SectorUnits * q \in Nat /\ SectorUnits * Idx(p) \in Nat /\ SectorUnits * Idx(q) \in Nat
      BY <1>1
<1>3. CASE Idx(q) < Idx(p)
      <2>1. SectorUnits * Idx(q) + SectorUnits =< SectorUnits * Idx(p)
            BY <1>1, <1>3, Products
      <2> QED BY <1>1, <1>2, <2>1
<1>4. CASE Idx(q) = Idx(p)
      BY <1>1, <1>2, <1>4
<1> QED BY <1>1, <1>3, <1>4

\* The position after the last one of a sector is the first of the next.
LEMMA NextSector ==
    ASSUME NEW p \in Nat, p % SectorUnits = 0
    PROVE  /\ p = 0 => Idx(p + 1) = 0
           /\ p > 0 => Idx(p + 1) = Idx(p) + 1
           /\ Off(p + 1) = 1
<1>1. PICK q \in Nat : p = SectorUnits * q
      <2>1. p \div SectorUnits \in Nat /\ p = SectorUnits * (p \div SectorUnits)
            BY Division, FatAssumption
      <2> QED BY <2>1
<1>2. PICK n \in Nat \ {0}, i \in 1..SectorUnits : n = p + 1 /\ i = 1
      BY FatAssumption
<1>3. n = SectorUnits * q + i
      BY <1>1, <1>2
<1>4. Idx(n) = q /\ Off(n) = i
      BY <1>3, Unique
<1>5. SectorUnits * q \in Nat /\ SectorUnits \in Nat \ {0}
      BY FatAssumption
<1>6. CASE p = 0
      <2>1. q = 0
            BY <1>1, <1>5, <1>6
      <2> QED BY <1>2, <1>4, <1>6, <2>1
<1>7. CASE p > 0
      <2>1. PICK k \in Nat, j \in 1..SectorUnits : q = k + 1 /\ j = SectorUnits
            <3>1. q > 0
                  BY <1>1, <1>5, <1>7
            <3> QED BY <1>5, <3>1, q = (q - 1) + 1, q - 1 \in Nat
      <2>2. p = SectorUnits * k + j /\ p \in Nat \ {0}
            BY <1>1, <1>5, <1>7, <2>1
      <2>3. Idx(p) = k
            BY <2>2, Unique
      <2> QED BY <1>2, <1>4, <1>7, <2>1, <2>3
<1> QED BY <1>6, <1>7

\* Any other position is followed by one in its sector.
LEMMA SameSector ==
    ASSUME NEW p \in Nat, p % SectorUnits # 0
    PROVE  /\ p > 0 /\ Idx(p + 1) = Idx(p)
           /\ Off(p + 1) = (p % SectorUnits) + 1 /\ Off(p) = p % SectorUnits
<1> DEFINE q == p \div SectorUnits
           r == p % SectorUnits
<1>1. /\ q \in Nat /\ r \in 1..(SectorUnits - 1) /\ p = SectorUnits * q + r
      /\ SectorUnits \in Nat \ {0}
      BY Division, FatAssumption
<1> HIDE DEF q, r
<1>2. SectorUnits * q \in Nat
      BY <1>1
<1>3. p > 0 /\ p + 1 = SectorUnits * q + (r + 1) /\ r + 1 \in 1..SectorUnits
      /\ r \in 1..SectorUnits /\ p \in Nat \ {0} /\ p + 1 \in Nat \ {0}
      BY <1>1, <1>2
<1>4. Idx(p) = q /\ Off(p) = r
      BY <1>1, <1>3, Unique
<1>5. Idx(p + 1) = q /\ Off(p + 1) = r + 1
      BY <1>1, <1>3, Unique
<1> QED BY <1>3, <1>4, <1>5 DEF r

\* A file whose last sector is one of the clusters is no longer than they are.
LEMMA Fits ==
    ASSUME NEW p \in Nat \ {0}, Idx(p) < Clusters
    PROVE  p =< Clusters * SectorUnits
<1>1. /\ Idx(p) \in Nat /\ Off(p) \in 1..SectorUnits /\ p = SectorUnits * Idx(p) + Off(p)
      /\ SectorUnits \in Nat /\ Clusters \in Nat
      BY Places, FatAssumption DEF Clusters
<1>2. SectorUnits * Idx(p) + SectorUnits =< SectorUnits * Clusters
      BY <1>1, Products
<1>3. SectorUnits * Clusters = Clusters * SectorUnits /\ SectorUnits * Idx(p) \in Nat
      /\ Clusters * SectorUnits \in Nat
      BY <1>1
<1> QED BY <1>1, <1>2, <1>3
-----------------------------------------------------------------------------
(* Chains.                                                                   *)

Fat == [Cluster -> 0..EOC]
Follow(fat, c) == IF c \in Cluster THEN fat[c] ELSE c

LEMMA ClusterFacts ==
    /\ Last \in Nat /\ Clusters \in Nat \ {0} /\ Clusters = Last - 1 /\ EOC = Last + 1
    /\ NoCount = Last /\ EOC \notin Cluster /\ 0 \notin Cluster
    /\ \A c \in Cluster : c \in 0..EOC /\ c \in 0..Last /\ c \in Nat /\ c > 1
    /\ \A c \in 0..EOC : c \in Cluster \/ c \in {0, 1, EOC}
    /\ IsFiniteSet(Cluster) /\ Cardinality(Cluster) = Clusters
<1>1. IsFiniteSet(2..Last) /\ Cardinality(2..Last) = Last - 1
      BY FatAssumption, FS_Interval
<1> QED BY <1>1, FatAssumption DEF Cluster, Clusters, EOC, NoCount

LEMMA WalkIs ==
    \A fat, s : Walk(fat, s) = CHOOSE w : w = [n \in 0..Clusters |->
        IF n = 0 THEN s ELSE IF w[n - 1] \in Cluster THEN fat[w[n - 1]] ELSE w[n - 1]]
BY DEF Walk

\* A walk begins at its start and follows the FAT.
LEMMA WalkFacts ==
    ASSUME NEW fat \in Fat, NEW s \in 0..EOC
    PROVE  /\ Walk(fat, s) \in [0..Clusters -> 0..EOC] /\ Walk(fat, s)[0] = s
           /\ \A n \in 1..Clusters : Walk(fat, s)[n] = Follow(fat, Walk(fat, s)[n - 1])
<1> DEFINE Steps(w, n) == w[0] = s /\ \A i \in 1..n : w[i] = Follow(fat, w[i - 1])
           Ways == {n \in Nat : \E w \in [0..n -> 0..EOC] : Steps(w, n)}
           Body(w) == [n \in 0..Clusters |-> IF n = 0 THEN s
                        ELSE IF w[n - 1] \in Cluster THEN fat[w[n - 1]] ELSE w[n - 1]]
           v == Walk(fat, s)
<1>0. Clusters \in Nat /\ \A c \in 0..EOC : Follow(fat, c) \in 0..EOC
      BY ClusterFacts DEF Follow, Fat
<1>1. 0 \in Ways
      <2>1. [i \in 0..0 |-> s] \in [0..0 -> 0..EOC] /\ Steps([i \in 0..0 |-> s], 0)
            OBVIOUS
      <2> QED BY <2>1
<1>2. ASSUME NEW n \in Nat, n \in Ways
      PROVE  n + 1 \in Ways
      <2>1. PICK w \in [0..n -> 0..EOC] : Steps(w, n)
            BY <1>2
      <2> DEFINE u == [i \in 0..(n + 1) |-> IF i = n + 1 THEN Follow(fat, w[n]) ELSE w[i]]
      <2>2. u \in [0..(n + 1) -> 0..EOC]
            <3>1. Follow(fat, w[n]) \in 0..EOC
                  BY <1>0
            <3> HIDE DEF Steps
            <3> QED BY <3>1
      <2>3. u[0] = s /\ u[n + 1] = Follow(fat, u[n])
            BY <2>1
      <2>4. ASSUME NEW i \in 1..n
            PROVE  u[i] = Follow(fat, u[i - 1])
            BY <2>1
      <2>5. Steps(u, n + 1)
            <3> HIDE DEF u
            <3>1. ASSUME NEW i \in 1..(n + 1)
                  PROVE  u[i] = Follow(fat, u[i - 1])
                  <4>1. i \in 1..n \/ (i = n + 1 /\ i - 1 = n)
                        OBVIOUS
                  <4> QED BY <2>3, <2>4, <4>1
            <3> QED BY <2>3, <3>1
      <2> HIDE DEF u, Steps
      <2> QED BY <2>2, <2>5
<1>3. \E w \in [0..Clusters -> 0..EOC] : Steps(w, Clusters)
      <2> HIDE DEF Steps
      <2>1. \A n \in Nat : n \in Ways
            <3> HIDE DEF Ways
            <3> QED BY <1>1, <1>2, Induct
      <2> QED BY <2>1, <1>0
<1>4. \E w : w = Body(w)
      <2>1. PICK w \in [0..Clusters -> 0..EOC] : Steps(w, Clusters)
            BY <1>3
      <2>2. \A n \in 0..Clusters : w[n] = Body(w)[n]
            <3> TAKE n \in 0..Clusters
            <3>1. n = 0 \/ (n \in 1..Clusters /\ w[n] = Follow(fat, w[n - 1]))
                  BY <2>1, <1>0
            <3> QED BY <2>1, <3>1, <1>0 DEF Follow
      <2> QED BY <2>2
<1>5. v = Body(v)
      <2>1. v = CHOOSE w : w = Body(w)
            BY WalkIs
      <2> HIDE DEF Body, v
      <2> QED BY <1>4, <2>1
<1>6. /\ DOMAIN v = 0..Clusters /\ v = [n \in 0..Clusters |-> v[n]] /\ v[0] = s
      /\ \A n \in 1..Clusters : v[n] = Follow(fat, v[n - 1])
      <2> HIDE DEF v
      <2> QED BY <1>5, <1>0 DEF Follow
<1>7. \A n \in Nat : n \in {k \in Nat : k =< Clusters => v[k] \in 0..EOC}
      <2> HIDE DEF v
      <2> DEFINE Typed == {k \in Nat : k =< Clusters => v[k] \in 0..EOC}
      <2>1. 0 \in Typed
            BY <1>6
      <2>2. ASSUME NEW n \in Nat, n \in Typed PROVE n + 1 \in Typed
            <3> SUFFICES ASSUME n + 1 =< Clusters PROVE v[n + 1] \in 0..EOC
                OBVIOUS
            <3>1. n + 1 \in 1..Clusters /\ (n + 1) - 1 = n /\ v[n] \in 0..EOC
                  BY <1>0, <2>2
            <3>2. v[n + 1] = Follow(fat, v[n])
                  BY <1>6, <3>1
            <3> QED BY <1>0, <3>1, <3>2
      <2> HIDE DEF Typed
      <2>3. \A n \in Nat : n \in Typed
            BY <2>1, <2>2, Induct
      <2> QED BY <2>3 DEF Typed
<1> HIDE DEF v
<1>8. v \in [0..Clusters -> 0..EOC]
      BY <1>0, <1>6, <1>7
<1> QED BY <1>6, <1>8 DEF v

LEMMA WalkNext ==
    ASSUME NEW fat \in Fat, NEW s \in 0..EOC, NEW n \in Nat, n < Clusters
    PROVE  /\ n \in 0..Clusters /\ n + 1 \in 0..Clusters
           /\ Walk(fat, s)[n + 1] = Follow(fat, Walk(fat, s)[n])
<1>1. n + 1 \in 1..Clusters /\ (n + 1) - 1 = n /\ Clusters \in Nat
      BY ClusterFacts
<1>2. \A k \in 1..Clusters : Walk(fat, s)[k] = Follow(fat, Walk(fat, s)[k - 1])
      BY WalkFacts
<1>3. Walk(fat, s)[n + 1] = Follow(fat, Walk(fat, s)[(n + 1) - 1])
      BY <1>1, <1>2, Zenon
<1> QED BY <1>1, <1>3

\* What comes before a cluster of a walk is a cluster.
LEMMA Earlier ==
    ASSUME NEW fat \in Fat, NEW s \in 0..EOC, NEW n \in 0..Clusters,
           Walk(fat, s)[n] \in Cluster
    PROVE  \A m \in 0..n : Walk(fat, s)[m] \in Cluster
<1> DEFINE w == Walk(fat, s)
           S == {d \in Nat : d =< n => w[n - d] \in Cluster}
<1>1. Clusters \in Nat /\ n \in Nat
      BY ClusterFacts
<1>2. 0 \in S
      BY <1>1
<1>3. ASSUME NEW d \in Nat, d \in S PROVE d + 1 \in S
      <2> SUFFICES ASSUME d + 1 =< n PROVE w[n - (d + 1)] \in Cluster
          OBVIOUS
      <2>1. n - d \in 1..Clusters /\ (n - d) - 1 = n - (d + 1) /\ w[n - d] \in Cluster
            BY <1>1, <1>3
      <2>2. w[n - d] = Follow(fat, w[n - (d + 1)])
            BY <2>1, WalkFacts
      <2> QED BY <2>1, <2>2 DEF Follow
<1> HIDE DEF S
<1>4. \A d \in Nat : d \in S
      BY <1>2, <1>3, Induct
<1>5. ASSUME NEW m \in 0..n PROVE w[m] \in Cluster
      <2>1. n - m \in Nat /\ n - m =< n /\ n - (n - m) = m
            BY <1>1
      <2> QED BY <1>4, <2>1 DEF S
<1> QED BY <1>5

\* As far as its n-th step the walk is the same.
Same(fat, new, s, n) == \A m \in 0..n : Walk(new, s)[m] = Walk(fat, s)[m]

\* The FAT says something else of no cluster but d.
OnlyAt(fat, new, d) == \A a \in Cluster : a # d => new[a] = fat[a]

\* As long as the FAT says the same of the clusters a walk comes by, the walk
\* is the same.
LEMMA SameWalk ==
    ASSUME NEW fat \in Fat, NEW new \in Fat, NEW s \in 0..EOC, NEW n \in 0..Clusters,
           \A m \in 0..(n - 1) : Walk(fat, s)[m] \in Cluster =>
               new[Walk(fat, s)[m]] = fat[Walk(fat, s)[m]]
    PROVE  Same(fat, new, s, n)
<1> DEFINE w == Walk(fat, s)
           v == Walk(new, s)
           S == {m \in Nat : m =< n => v[m] = w[m]}
<1>1. Clusters \in Nat /\ n \in Nat
      BY ClusterFacts
<1>2. 0 \in S
      BY WalkFacts
<1>3. ASSUME NEW m \in Nat, m \in S PROVE m + 1 \in S
      <2> SUFFICES ASSUME m + 1 =< n PROVE v[m + 1] = w[m + 1]
          OBVIOUS
      <2>1. m + 1 \in 1..Clusters /\ (m + 1) - 1 = m /\ m \in 0..(n - 1) /\ v[m] = w[m]
            BY <1>1, <1>3
      <2>2. v[m + 1] = Follow(new, v[m]) /\ w[m + 1] = Follow(fat, w[m])
            BY <2>1, WalkFacts
      <2> QED BY <2>1, <2>2 DEF Follow
<1> HIDE DEF S
<1>4. \A m \in Nat : m \in S
      BY <1>2, <1>3, Induct
<1> QED BY <1>4, <1>1 DEF S, Same

\* A walk that has not come to the one cluster of which the FAT says something
\* else.
LEMMA WalkOff ==
    ASSUME NEW fat \in Fat, NEW new \in Fat, NEW s \in 0..EOC, NEW n \in 0..Clusters,
           NEW d \in Cluster, OnlyAt(fat, new, d),
           \A m \in 0..(n - 1) : Walk(fat, s)[m] # d
    PROVE  Same(fat, new, s, n)
<1>1. \A m \in 0..(n - 1) : Walk(fat, s)[m] \in Cluster =>
          new[Walk(fat, s)[m]] = fat[Walk(fat, s)[m]]
      BY DEF OnlyAt
<1> QED BY <1>1, SameWalk

\* A FAT in which no two chains meet, and no chain comes to a free cluster.
Linked(fat) ==
    /\ \A c \in Cluster : fat[c] # 1
    /\ \A a, b \in Cluster : fat[a] = fat[b] /\ fat[a] \in Cluster => a = b
    /\ \A a \in Cluster : fat[a] \in Cluster => fat[fat[a]] # 0

\* A used cluster that no other points to.
Begins(fat, s) ==
    s \in Cluster /\ fat[s] # 0 /\ \A a \in Cluster : fat[a] # s

Root(fat, s) == s = 0 \/ Begins(fat, s)

\* A chain from its beginning is of used clusters, to the mark of its end.
LEMMA ChainUsed ==
    ASSUME NEW fat \in Fat, Linked(fat), NEW s \in 0..EOC, Begins(fat, s)
    PROVE  \A n \in 0..Clusters :
              \/ Walk(fat, s)[n] = EOC
              \/ Walk(fat, s)[n] \in Cluster /\ fat[Walk(fat, s)[n]] # 0
<1> DEFINE w == Walk(fat, s)
           S == {n \in Nat : n =< Clusters => (w[n] = EOC \/ (w[n] \in Cluster /\ fat[w[n]] # 0))}
<1>1. Clusters \in Nat /\ EOC \notin Cluster
      BY ClusterFacts
<1>2. 0 \in S
      BY WalkFacts DEF Begins
<1>3. ASSUME NEW n \in Nat, n \in S PROVE n + 1 \in S
      <2> SUFFICES ASSUME n + 1 =< Clusters
                   PROVE  w[n + 1] = EOC \/ (w[n + 1] \in Cluster /\ fat[w[n + 1]] # 0)
          OBVIOUS
      <2>1. n + 1 \in 1..Clusters /\ (n + 1) - 1 = n /\ n =< Clusters
            BY <1>1
      <2>2. w[n + 1] = Follow(fat, w[n]) /\ (w[n] = EOC \/ (w[n] \in Cluster /\ fat[w[n]] # 0))
            BY <2>1, <1>3, WalkFacts
      <2>3. CASE w[n] = EOC
            BY <1>1, <2>2, <2>3 DEF Follow
      <2>4. CASE w[n] \in Cluster /\ fat[w[n]] # 0
            <3>1. w[n + 1] = fat[w[n]] /\ fat[w[n]] \in 0..EOC /\ fat[w[n]] # 0 /\ fat[w[n]] # 1
                  BY <2>2, <2>4 DEF Follow, Fat, Linked
            <3>2. fat[w[n]] = EOC \/ fat[w[n]] \in Cluster
                  BY <3>1, ClusterFacts
            <3> QED BY <2>4, <3>1, <3>2 DEF Linked
      <2> QED BY <2>2, <2>3, <2>4
<1> HIDE DEF S
<1>4. \A n \in Nat : n \in S
      BY <1>2, <1>3, Induct
<1> QED BY <1>1, <1>4 DEF S

\* Two chains have no cluster in common, and none has one twice.
LEMMA Apart ==
    ASSUME NEW fat \in Fat, Linked(fat),
           NEW s \in 0..EOC, Begins(fat, s), NEW t \in 0..EOC, Begins(fat, t)
    PROVE  \A i, j \in 0..Clusters :
              Walk(fat, s)[i] = Walk(fat, t)[j] /\ Walk(fat, s)[i] \in Cluster => s = t /\ i = j
<1> DEFINE v == Walk(fat, s)
           w == Walk(fat, t)
           S == {i \in Nat : i =< Clusters => \A j \in 0..Clusters :
                    v[i] = w[j] /\ v[i] \in Cluster => s = t /\ i = j}
<1>1. Clusters \in Nat
      BY ClusterFacts
<1>2. /\ v[0] = s /\ \A n \in 1..Clusters : v[n] = Follow(fat, v[n - 1])
      /\ w[0] = t /\ \A n \in 1..Clusters : w[n] = Follow(fat, w[n - 1])
      BY WalkFacts
<1>3. \A a \in Cluster : fat[a] # s /\ fat[a] # t
      BY DEF Begins
<1> HIDE DEF v, w
<1>4. 0 \in S
      <2> SUFFICES ASSUME NEW j \in 0..Clusters, v[0] = w[j], v[0] \in Cluster
                   PROVE  s = t /\ 0 = j
          OBVIOUS
      <2>1. CASE j = 0
            BY <1>2, <2>1
      <2>2. CASE j \in 1..Clusters
            <3>1. j - 1 \in 0..Clusters /\ Follow(fat, w[j - 1]) = s
                  <4>1. j - 1 \in 0..Clusters
                        BY <1>1, <2>2
                  <4>2. w[j] = Follow(fat, w[j - 1])
                        BY <1>2, <2>2, Zenon
                  <4>3. w[j] = s
                        BY <1>2, Zenon
                  <4> QED BY <4>1, <4>2, <4>3
            <3>2. w[j - 1] \in Cluster
                  <4>1. ASSUME w[j - 1] \notin Cluster PROVE FALSE
                        <5>1. w[j - 1] = s
                              BY <3>1, <4>1 DEF Follow
                        <5> QED BY <1>2, <4>1, <5>1 DEF Begins
                  <4> QED BY <4>1
            <3> QED BY <1>3, <3>1, <3>2 DEF Follow
      <2> QED BY <1>1, <2>1, <2>2
<1>5. ASSUME NEW i \in Nat, i \in S PROVE i + 1 \in S
      <2> SUFFICES ASSUME i + 1 =< Clusters, NEW j \in 0..Clusters,
                          v[i + 1] = w[j], v[i + 1] \in Cluster
                   PROVE  s = t /\ i + 1 = j
          OBVIOUS
      <2>1. i + 1 \in 1..Clusters /\ (i + 1) - 1 = i /\ i =< Clusters
            BY <1>1
      <2>2. v[i + 1] = Follow(fat, v[i])
            BY <1>2, <2>1
      <2>3. v[i] \in Cluster /\ fat[v[i]] = v[i + 1]
            BY <2>2 DEF Follow
      <2>4. CASE j = 0
            BY <1>2, <1>3, <2>3, <2>4
      <2>5. CASE j \in 1..Clusters
            <3>1. j - 1 \in 0..Clusters /\ w[j] = Follow(fat, w[j - 1])
                  BY <1>1, <1>2, <2>5
            <3>2. w[j - 1] \in Cluster /\ fat[w[j - 1]] = v[i + 1]
                  BY <3>1 DEF Follow
            <3>3. v[i] = w[j - 1]
                  BY <2>3, <3>2 DEF Linked
            <3> QED BY <1>5, <2>1, <2>3, <3>1, <3>3
      <2> QED BY <1>1, <2>4, <2>5
<1> HIDE DEF S
<1>6. \A i \in Nat : i \in S
      BY <1>4, <1>5, Induct
<1> QED BY <1>1, <1>6 DEF S, v, w

\* A chain ends within as many steps as there are clusters.
LEMMA Ends ==
    ASSUME NEW fat \in Fat, Linked(fat), NEW s \in 0..EOC, Begins(fat, s)
    PROVE  /\ Walk(fat, s)[Clusters] = EOC
           /\ \A n \in 0..Clusters : Walk(fat, s)[n] \in Cluster => n < Clusters
<1> DEFINE w == Walk(fat, s)
<1>1. Clusters \in Nat /\ IsFiniteSet(Cluster) /\ Cardinality(Cluster) = Clusters
      BY ClusterFacts
<1>2. IsFiniteSet(0..Clusters) /\ Cardinality(0..Clusters) = Clusters + 1
      BY <1>1, FS_Interval
<1>3. w \in [0..Clusters -> 0..EOC]
      BY WalkFacts
<1>4. w[Clusters] \notin Cluster
      <2> SUFFICES ASSUME w[Clusters] \in Cluster PROVE FALSE
          OBVIOUS
      <2>1. \A n \in 0..Clusters : w[n] \in Cluster
            BY <1>1, Earlier
      <2> HIDE DEF w
      <2>2. w \in [0..Clusters -> Cluster]
            BY <1>3, <2>1
      <2>3. PICK i, j \in 0..Clusters : i # j /\ w[i] = w[j]
            BY <1>1, <1>2, <2>2, FS_PigeonHole
      <2> QED BY <2>1, <2>3, Apart DEF w
<1>5. w[Clusters] = EOC
      BY <1>1, <1>4, ChainUsed
<1> QED BY <1>1, <1>4, <1>5
-----------------------------------------------------------------------------
(* What the three updates of the FAT do to chains.                           *)

\* A cluster at which no chain goes on is only on the walk that begins there.
LEMMA OffWalk ==
    ASSUME NEW fat \in Fat, NEW s \in 0..EOC, NEW c \in Cluster,
           c # s, \A a \in Cluster : fat[a] # c
    PROVE  \A n \in 0..Clusters : Walk(fat, s)[n] # c
<1> SUFFICES ASSUME NEW n \in 0..Clusters, Walk(fat, s)[n] = c
             PROVE  FALSE
    OBVIOUS
<1>1. Clusters \in Nat
      BY ClusterFacts
<1>2. n # 0
      BY WalkFacts
<1>3. n \in 1..Clusters
      BY <1>1, <1>2
<1>4. Walk(fat, s)[n] = Follow(fat, Walk(fat, s)[n - 1])
      BY <1>3, WalkFacts
<1> QED BY <1>4 DEF Follow

\* remove_chain: the first cluster of a chain that belongs to nobody is freed.
LEMMA FreeFat ==
    ASSUME NEW fat \in Fat, Linked(fat), NEW c, Begins(fat, c),
           NEW new, new = [fat EXCEPT ![c] = 0]
    PROVE  /\ new \in Fat /\ Linked(new)
           /\ \A s \in 0..EOC : Root(fat, s) /\ s # c => Root(new, s)
           /\ \A s \in 0..EOC : s # c => Same(fat, new, s, Clusters)
           /\ fat[c] \in Cluster =>
                 Begins(new, fat[c]) /\ \A s \in 0..EOC : Root(fat, s) => s # fat[c]
<1>1. /\ c \in Cluster /\ fat[c] # 0 /\ \A a \in Cluster : fat[a] # c
      /\ 0 \in 0..EOC /\ 0 \notin Cluster /\ EOC \notin Cluster /\ Clusters \in Nat
      BY ClusterFacts, FatAssumption DEF Begins, EOC
<1>2. /\ new \in Fat /\ new[c] = 0
      /\ \A a \in Cluster : a # c => new[a] = fat[a]
      BY <1>1 DEF Fat
<1>3. Linked(new)
      BY <1>1, <1>2 DEF Linked
<1>4. ASSUME NEW s \in 0..EOC, Root(fat, s), s # c PROVE Root(new, s)
      BY <1>1, <1>2, <1>4 DEF Root, Begins
<1>5. ASSUME NEW s \in 0..EOC, s # c
      PROVE  Same(fat, new, s, Clusters)
      <2>1. \A n \in 0..Clusters : Walk(fat, s)[n] # c
            BY <1>1, <1>5, OffWalk
      <2>2. Clusters \in 0..Clusters /\ c \in Cluster /\ new \in Fat
            BY <1>1, <1>2
      <2>3. \A n \in 0..(Clusters - 1) : Walk(fat, s)[n] # c
            BY <1>1, <2>1
      <2>4. OnlyAt(fat, new, c)
            BY <1>2 DEF OnlyAt
      <2> QED BY <2>2, <2>3, <2>4, WalkOff
<1>6. ASSUME fat[c] \in Cluster
      PROVE  Begins(new, fat[c]) /\ \A s \in 0..EOC : Root(fat, s) => s # fat[c]
      BY <1>1, <1>2, <1>6 DEF Linked, Begins, Root
<1> QED BY <1>2, <1>3, <1>4, <1>5, <1>6

\* create_chain takes a free cluster: a chain of its own.
LEMMA TakeFat ==
    ASSUME NEW fat \in Fat, Linked(fat), NEW c \in Cluster, fat[c] = 0,
           NEW new, new = [fat EXCEPT ![c] = EOC]
    PROVE  /\ new \in Fat /\ Linked(new) /\ Begins(new, c) /\ new[c] = EOC
           /\ \A s \in 0..EOC : Root(fat, s) => Root(new, s) /\ s # c
           /\ \A s \in 0..EOC : Root(fat, s) => Same(fat, new, s, Clusters)
           /\ OnlyAt(fat, new, c)
<1>1. /\ 0 \notin Cluster /\ EOC \notin Cluster /\ Clusters \in Nat /\ EOC \in 0..EOC
      /\ EOC # 0 /\ EOC # 1
      BY ClusterFacts, FatAssumption DEF EOC
<1>2. /\ new \in Fat /\ new[c] = EOC
      /\ \A a \in Cluster : a # c => new[a] = fat[a]
      BY <1>1 DEF Fat
<1>3. Linked(new)
      BY <1>1, <1>2 DEF Linked
<1>4. ASSUME NEW s \in 0..EOC, Root(fat, s) PROVE Root(new, s) /\ s # c
      BY <1>1, <1>2, <1>4 DEF Root, Begins
<1>5. ASSUME NEW s \in 0..EOC, Root(fat, s)
      PROVE  Same(fat, new, s, Clusters)
      <2>1. \A n \in 0..Clusters : Walk(fat, s)[n] # c
            <3>1. CASE s = 0
                  <4>1. s # c /\ \A a \in Cluster : fat[a] # c
                        BY <1>1, <3>1 DEF Linked
                  <4> QED BY <4>1, OffWalk
            <3>2. CASE Begins(fat, s)
                  <4>1. \A n \in 0..Clusters : Walk(fat, s)[n] = EOC
                            \/ (Walk(fat, s)[n] \in Cluster /\ fat[Walk(fat, s)[n]] # 0)
                        BY <3>2, ChainUsed
                  <4> QED BY <1>1, <4>1
            <3> QED BY <1>5, <3>1, <3>2 DEF Root
      <2>2. Clusters \in 0..Clusters /\ c \in Cluster /\ new \in Fat
            BY <1>1, <1>2
      <2>3. \A n \in 0..(Clusters - 1) : Walk(fat, s)[n] # c
            BY <1>1, <2>1
      <2>4. OnlyAt(fat, new, c)
            BY <1>2 DEF OnlyAt
      <2> QED BY <2>2, <2>3, <2>4, WalkOff
<1>6. Begins(new, c)
      BY <1>1, <1>2 DEF Begins, Linked
<1> QED BY <1>2, <1>3, <1>4, <1>5, <1>6 DEF OnlyAt

\* create_chain links it to the end of another.
LEMMA LinkFat ==
    ASSUME NEW fat \in Fat, Linked(fat), NEW c, Begins(fat, c),
           NEW d \in Cluster, d # c, fat[d] = EOC,
           NEW new, new = [fat EXCEPT ![d] = c]
    PROVE  /\ new \in Fat /\ Linked(new)
           /\ \A s \in 0..EOC : Root(fat, s) /\ s # c => Root(new, s)
           /\ \A s \in 0..EOC, n \in 0..Clusters :
                 Walk(fat, s)[n] \in Cluster => Same(fat, new, s, n)
           /\ \A s \in 0..EOC, n \in 0..(Clusters - 1) :
                 Walk(fat, s)[n] = d => Walk(new, s)[n + 1] = c
<1>1. /\ c \in Cluster /\ fat[c] # 0 /\ \A a \in Cluster : fat[a] # c
      /\ c \in 0..EOC /\ c # 0 /\ c # 1 /\ EOC \notin Cluster /\ Clusters \in Nat
      BY ClusterFacts DEF Begins
<1>2. /\ new \in Fat /\ new[d] = c
      /\ \A a \in Cluster : a # d => new[a] = fat[a]
      BY <1>1 DEF Fat
<1>3. Linked(new)
      <2>1. EOC # 0
            BY FatAssumption DEF EOC
      <2>2. \A a, b \in Cluster : new[a] = new[b] /\ new[a] \in Cluster => a = b
            BY <1>1, <1>2 DEF Linked
      <2>3. \A a \in Cluster : new[a] # 1
            BY <1>1, <1>2 DEF Linked
      <2>4. \A a \in Cluster : new[a] \in Cluster => new[new[a]] # 0
            BY <1>1, <1>2, <2>1 DEF Linked
      <2> QED BY <2>2, <2>3, <2>4 DEF Linked
<1>4. ASSUME NEW s \in 0..EOC, Root(fat, s), s # c PROVE Root(new, s)
      BY <1>1, <1>2, <1>4 DEF Root, Begins
<1>5. ASSUME NEW s \in 0..EOC, NEW n \in 0..Clusters, Walk(fat, s)[n] \in Cluster
      PROVE  Same(fat, new, s, n)
      <2>1. ASSUME NEW m \in 0..(n - 1) PROVE Walk(fat, s)[m] # d
            <3>1. m + 1 \in 0..n /\ m \in Nat /\ m < Clusters
                  BY <1>1
            <3>2. Walk(fat, s)[m + 1] \in Cluster
                  BY <1>5, <3>1, Earlier
            <3>3. Walk(fat, s)[m + 1] = Follow(fat, Walk(fat, s)[m])
                  BY <3>1, WalkNext
            <3> QED BY <1>1, <3>2, <3>3 DEF Follow
      <2>2. \A m \in 0..(n - 1) : Walk(fat, s)[m] # d
            BY <2>1
      <2>3. OnlyAt(fat, new, d)
            BY <1>2 DEF OnlyAt
      <2>4. new \in Fat
            BY <1>2
      <2> QED BY <2>2, <2>3, <2>4, WalkOff
<1>6. ASSUME NEW s \in 0..EOC, NEW n \in 0..(Clusters - 1), Walk(fat, s)[n] = d
      PROVE  Walk(new, s)[n + 1] = c
      <2>1. n \in 0..Clusters /\ n \in 0..n /\ n \in Nat /\ n < Clusters
            BY <1>1
      <2>2. Walk(new, s)[n] = d
            BY <1>5, <1>6, <2>1 DEF Same
      <2>3. Walk(new, s)[n + 1] = Follow(new, Walk(new, s)[n])
            BY <1>2, <2>1, WalkNext
      <2> QED BY <1>2, <2>2, <2>3 DEF Follow
<1> QED BY <1>2, <1>3, <1>4, <1>5, <1>6
-----------------------------------------------------------------------------
(* What the card holds for a position of a file.                             *)

Starts == Cluster \cup {0}

At(data, c, i) == IF c \in Cluster THEN data[c][i] ELSE Unknown
Piece(fat, data, s, p) == At(data, Walk(fat, s)[Idx(p)], Off(p))

\* The walk from s comes to a cluster in n steps.
Reaches(fat, s, n) == s # 0 /\ n \in Nat /\ n < Clusters /\ Walk(fat, s)[n] \in Cluster

\* The chain is long enough for the size.
Long(fat, e) == e.size > 0 => Reaches(fat, e.start, Idx(e.size))

LEMMA TextIs ==
    ASSUME NEW e, NEW fat, NEW data
    PROVE  Text(e, fat, data) = [p \in 1..e.size |-> Piece(fat, data, e.start, p)]
BY DEF Text, Piece, At, Idx, Off

LEMMA TextType ==
    ASSUME NEW e, e.size \in Nat, e.start \in Starts, NEW fat \in Fat,
           NEW data \in [Cluster -> Sector]
    PROVE  Text(e, fat, data) \in Seq(Nat) /\ Len(Text(e, fat, data)) = e.size
<1>1. ASSUME NEW p \in 1..e.size PROVE Piece(fat, data, e.start, p) \in Nat
      <2>1. Off(p) \in 1..SectorUnits
            BY Places
      <2>2. \A c \in Cluster, i \in 1..SectorUnits : data[c][i] \in Nat
            BY FatAssumption DEF Sector, Units, Unknown
      <2> QED BY <2>1, <2>2 DEF Piece, At, Unknown
<1>2. Text(e, fat, data) \in [1..e.size -> Nat]
      BY <1>1, TextIs
<1> QED BY <1>2

\* A text that is the one of the card, position by position.
LEMMA TextFrom ==
    ASSUME NEW e, e.size \in Nat, NEW fat, NEW data, NEW t \in Seq(Nat), Len(t) = e.size,
           \A p \in 1..e.size : Piece(fat, data, e.start, p) = t[p]
    PROVE  Text(e, fat, data) = t
<1>1. t = [p \in 1..e.size |-> t[p]]
      OBVIOUS
<1> QED BY <1>1, TextIs

\* Two texts are the same if they are position by position.
LEMMA TextSame ==
    ASSUME NEW e, NEW fat, NEW data, NEW new, NEW card,
           \A p \in 1..e.size : Piece(new, card, e.start, p) = Piece(fat, data, e.start, p)
    PROVE  Text(e, new, card) = Text(e, fat, data)
BY TextIs

\* A position is where it was if the walk is the same so far.
LEMMA SamePiece ==
    ASSUME NEW fat, NEW new, NEW data, NEW s, NEW n \in Nat, Same(fat, new, s, n),
           NEW p \in Nat \ {0}, Idx(p) =< n
    PROVE  Piece(new, data, s, p) = Piece(fat, data, s, p)
<1>1. Idx(p) \in 0..n
      BY Places
<1> QED BY <1>1 DEF Same, Piece

LEMMA SameText ==
    ASSUME NEW e, e.size \in Nat, NEW fat, NEW new, NEW data,
           e.size > 0 => Same(fat, new, e.start, Idx(e.size))
    PROVE  Text(e, new, data) = Text(e, fat, data)
<1>1. ASSUME NEW p \in 1..e.size
      PROVE  Piece(new, data, e.start, p) = Piece(fat, data, e.start, p)
      <2>1. Idx(p) =< Idx(e.size) /\ Idx(e.size) \in Nat /\ Idx(p) \in Nat
            <3>1. p \in Nat \ {0} /\ e.size \in Nat \ {0} /\ (p < e.size \/ p = e.size)
                  OBVIOUS
            <3>2. Idx(p) \in Nat /\ Idx(e.size) \in Nat
                  BY <3>1, Places
            <3>3. CASE p = e.size
                  BY <3>2, <3>3
            <3>4. CASE p < e.size
                  BY <3>1, <3>2, <3>4, Later
            <3> QED BY <3>1, <3>3, <3>4
      <2> QED BY <2>1, SamePiece
<1> QED BY <1>1, TextSame

\* A sector written changes the positions in it.
LEMMA WrittenPiece ==
    ASSUME NEW fat, NEW data \in [Cluster -> Sector], NEW s, NEW p,
           NEW c \in Cluster, NEW buf
    PROVE  Piece(fat, [data EXCEPT ![c] = buf], s, p) =
              IF Walk(fat, s)[Idx(p)] = c THEN buf[Off(p)] ELSE Piece(fat, data, s, p)
BY DEF Piece, At

LEMMA Sectors ==
    ASSUME NEW q \in Nat, NEW p \in 1..q
    PROVE  /\ Idx(p) \in Nat /\ Idx(q) \in Nat /\ Idx(p) =< Idx(q)
           /\ Idx(p) = Idx(q) /\ p # q => Off(p) < Off(q)
           /\ Off(p) \in 1..SectorUnits
<1>1. p \in Nat \ {0} /\ q \in Nat \ {0} /\ (p < q \/ p = q)
      OBVIOUS
<1>2. Idx(p) \in Nat /\ Idx(q) \in Nat /\ Off(p) \in 1..SectorUnits
      BY <1>1, Places
<1>3. CASE p = q
      BY <1>2, <1>3
<1>4. CASE p < q
      BY <1>1, <1>2, <1>4, Later
<1> QED BY <1>1, <1>3, <1>4
-----------------------------------------------------------------------------
(* The inductive invariant, in six parts.                                    *)

IsOpen == fil.file # Nobody

Entries == [there : BOOLEAN, start : Starts, size : Nat]
Directories == [Files -> Entries]
Volumes == [fat : Fat, dir : Directories, data : [Cluster -> Sector],
            free : 0..NoCount, last : 0..Last]
Views == [fat : Fat, dir : Directories]
Windows == [at : -3..FatSector(Last), dirty : BOOLEAN]
Mounts == [mounted : BOOLEAN, free : 0..NoCount, last : 0..Last, flag : 0..1]
Bads == {"no", "write", "close"}
Objects == [file : Files \cup {Nobody}, start : Starts, size : Nat, clust : Starts,
            sect : Starts, buf : Sector, dirty : BOOLEAN, modified : BOOLEAN,
            bad : Bads, text : Seq(Nat)]
Args == [file : Files \cup {Nobody}, mode : {"append", "create"},
         clu : Starts, first : Starts]
Steps == {"ready", "find", "free", "reopen", "seek", "grow", "link", "spill",
          "data", "entry", "dir", "info"}

\* The types, of which TypeOK gives the sizes a bound that follows from Lengths.
Typed ==
    /\ disk \in Volumes /\ view \in Views /\ win \in Windows /\ fs \in Mounts
    /\ fil \in Objects /\ Len(fil.text) = fil.size /\ arg \in Args /\ pc \in Steps
    /\ locks \in SUBSET Files /\ clean \in BOOLEAN /\ DOMAIN acked = Files
    /\ opens \in 0..MaxOpens /\ errors \in 0..MaxErrors /\ losses \in 0..MaxLosses

\* Where a call is tells what the file object and the locals are good for.
Control ==
    /\ ~IsOpen => fil = NoFile
    /\ pc \in {"find", "free", "reopen", "seek"} =>
          ~IsOpen /\ arg.file \in Files /\ opens > 0
    /\ pc \in {"grow", "link", "spill"} =>
          IsOpen /\ fil.bad = "no" /\ fil.size % SectorUnits = 0
    /\ pc \in {"data", "entry", "dir", "info"} => IsOpen /\ fil.modified
    /\ pc \in {"entry", "dir", "info"} => ~fil.dirty
    /\ IsOpen => opens > 0
    /\ fil.dirty => fil.sect # 0
    /\ fil.sect # 0 => fil.size > 0
    /\ fil.size % SectorUnits # 0 => fil.sect # 0
    /\ pc \in {"free", "reopen"} =>
          arg.first \in Cluster /\ view.dir[arg.file].size = 0
    /\ pc \in {"free", "link", "spill"} => arg.clu \in Cluster
    /\ pc = "link" => fs.free # 0 /\ fil.size > 0
    /\ pc = "seek" => view.dir[arg.file].size > 0
    /\ pc = "grow" => fil.size > 0 \/ fil.start = 0

\* The card differs from what the window shows only in the window's sector.
Coherent ==
    /\ win.dirty => win.at >= DirSector
    /\ disk.dir = view.dir \/ (win.dirty /\ win.at = DirSector)
    /\ \A c \in Cluster :
          disk.fat[c] = view.fat[c] \/ (win.dirty /\ win.at = FatSector(c))
    /\ pc = "info" => ~win.dirty

\* A cluster that begins a chain which no file has.
New(c) ==
    /\ Begins(view.fat, c) /\ c # fil.start
    /\ \A f \in Files : c # view.dir[f].start /\ c # disk.dir[f].start

\* Every file's chain, the one on the card and the one in the window, begins
\* where no other goes on, and no two files have the same.
Rooted ==
    /\ Linked(view.fat) /\ Linked(disk.fat)
    /\ \A f \in Files : /\ Root(view.fat, view.dir[f].start)
                        /\ Root(view.fat, disk.dir[f].start)
                        /\ Root(disk.fat, disk.dir[f].start)
    /\ Root(view.fat, fil.start)
    /\ \A f, g \in Files : f # g =>
          /\ view.dir[f].start # 0 => view.dir[f].start # view.dir[g].start
          /\ view.dir[f].start # 0 => view.dir[f].start # disk.dir[g].start
          /\ disk.dir[f].start # 0 => disk.dir[f].start # disk.dir[g].start
    /\ fil.start # 0 => \A f \in Files \ {fil.file} :
          fil.start # view.dir[f].start /\ fil.start # disk.dir[f].start
    /\ pc = "free" => /\ Begins(view.fat, arg.clu)
                      /\ \A f \in Files : view.dir[f].start # arg.clu
    /\ pc = "link" => /\ New(arg.clu) /\ fil.clust \in Cluster
                      /\ fil.clust # arg.clu /\ view.fat[fil.clust] = EOC
    /\ pc = "spill" /\ fil.size = 0 =>
          IF fil.start = 0 THEN New(arg.clu) ELSE arg.clu = fil.start

\* Every chain is long enough, also for the size that the card still has, and
\* the file object knows where its end is.
Lengths ==
    /\ Long(view.fat, fil)
    /\ \A f \in Files :
          /\ Long(view.fat, view.dir[f]) /\ Long(view.fat, disk.dir[f])
          /\ disk.dir[f].size > 0 =>
                Same(view.fat, disk.fat, disk.dir[f].start, Idx(disk.dir[f].size))
    /\ fil.size > 0 =>
          LET end == Walk(view.fat, fil.start)[Idx(fil.size)] IN
          (fil.bad = "no" => fil.clust = end) /\ (fil.sect # 0 => fil.sect = end)
    /\ pc = "spill" /\ fil.size > 0 =>
          arg.clu = Walk(view.fat, fil.start)[Idx(fil.size) + 1]
    /\ \A f \in Files : disk.dir[f].start # 0 /\ disk.dir[f].start = view.dir[f].start =>
          disk.dir[f].size =< view.dir[f].size
    /\ fil.start # 0 => \A f \in Files :
          /\ view.dir[f].start = fil.start => view.dir[f].size =< fil.size
          /\ disk.dir[f].start = fil.start => disk.dir[f].size =< fil.size

\* The text of the open file is on the card but for what the buffer holds, and
\* what the card has of it already stays as it is.
TextInv ==
    /\ \A p \in 1..fil.size :
          (fil.dirty => Walk(view.fat, fil.start)[Idx(p)] # fil.sect) =>
             Piece(view.fat, disk.data, fil.start, p) = fil.text[p]
    /\ fil.sect # 0 => \A p \in 1..fil.size :
          Idx(p) = Idx(fil.size) => fil.buf[Off(p)] = fil.text[p]
    /\ fil.start # 0 => \A f \in Files :
          /\ view.dir[f].start = fil.start => \A p \in 1..view.dir[f].size :
                Piece(view.fat, disk.data, fil.start, p) = fil.text[p]
          /\ disk.dir[f].start = fil.start => \A p \in 1..disk.dir[f].size :
                Piece(view.fat, disk.data, fil.start, p) = fil.text[p]
    /\ pc \in {"dir", "info"} =>
          view.dir[fil.file] = [there |-> TRUE, start |-> fil.start, size |-> fil.size]

Inv == Typed /\ Control /\ Coherent /\ Rooted /\ Lengths /\ TextInv
-----------------------------------------------------------------------------
(* Types.                                                                    *)

LEMMA StartFacts ==
    /\ \A s \in Starts : s \in 0..EOC /\ s \in 0..Last /\ s \in Nat /\ (s # 0 => s \in Cluster)
    /\ 0 \in Starts /\ \A c \in Cluster : c \in Starts /\ c # 0
BY ClusterFacts, FatAssumption DEF Starts, EOC

LEMMA SectorNumbers ==
    \A c \in Cluster : FatSector(c) \in 0..FatSector(Last) /\ FatSector(Last) \in Nat
<1> SUFFICES ASSUME NEW c \in Cluster
             PROVE  FatSector(c) \in 0..FatSector(Last) /\ FatSector(Last) \in Nat
    OBVIOUS
<1>1. PerFat \in Nat \ {0} /\ c \in Nat /\ Last \in Nat /\ c =< Last
      BY ClusterFacts, FatAssumption
<1> DEFINE a == c \div PerFat
           b == Last \div PerFat
<1>2. a \in Nat /\ c % PerFat \in 0..(PerFat - 1) /\ c = PerFat * a + (c % PerFat)
      BY <1>1
<1>3. b \in Nat /\ Last % PerFat \in 0..(PerFat - 1) /\ Last = PerFat * b + (Last % PerFat)
      BY <1>1
<1> HIDE DEF a, b
<1>4. ~(b < a)
      <2> SUFFICES ASSUME b < a PROVE FALSE
          OBVIOUS
      <2>1. PerFat * b + PerFat =< PerFat * a /\ PerFat * a \in Nat /\ PerFat * b \in Nat
            BY <1>1, <1>2, <1>3, Products
      <2> QED BY <1>1, <1>2, <1>3, <2>1
<1> QED BY <1>2, <1>3, <1>4 DEF FatSector, a, b

LEMMA WindowTypes ==
    ASSUME win \in Windows
    PROVE  /\ [win EXCEPT !.dirty = FALSE] \in Windows
           /\ \A s \in {NoSector, InfoSector, DirSector} \cup {FatSector(c) : c \in Cluster} :
                 \A b \in BOOLEAN : [at |-> s, dirty |-> b] \in Windows
<1>1. FatSector(Last) \in Nat
      BY SectorNumbers, ClusterFacts, FatAssumption DEF Cluster
<1>2. [win EXCEPT !.dirty = FALSE] \in Windows
      BY DEF Windows
<1>3. ASSUME NEW s \in {NoSector, InfoSector, DirSector} \cup {FatSector(c) : c \in Cluster},
             NEW b \in BOOLEAN
      PROVE  [at |-> s, dirty |-> b] \in Windows
      <2>1. s \in {-3, -2, -1} \/ s \in 0..FatSector(Last)
            BY SectorNumbers DEF NoSector, InfoSector, DirSector
      <2>2. s \in -3..FatSector(Last)
            BY <1>1, <2>1
      <2> QED BY <2>2 DEF Windows
<1> QED BY <1>2, <1>3

LEMMA NoTypes ==
    /\ NoFile \in Objects /\ NoFile.file = Nobody /\ NoFile.size = 0 /\ NoFile.start = 0
    /\ NoFile.text = <<>> /\ NoFile.sect = 0 /\ ~NoFile.dirty /\ NoFile.bad = "no"
    /\ NoFile.buf \in Sector /\ NoFile.clust = 0 /\ ~NoFile.modified /\ Len(NoFile.text) = 0
    /\ NoArg \in Args /\ NoArg.clu = 0 /\ NoArg.file = Nobody /\ NoArg.first = 0
    /\ NoEntry \in Entries /\ [NoEntry EXCEPT !.there = TRUE] \in Entries
    /\ NoEntry.start = 0 /\ NoEntry.size = 0
<1>1. Blank \in Sector
      BY DEF Blank, Sector, Unknown
<1>2. <<>> \in Seq(Nat) /\ Len(<<>>) = 0 /\ 0 \in Starts
      BY StartFacts
<1>3. NoFile \in Objects
      <2> DEFINE t == <<>>
      <2>1. t \in Seq(Nat)
            BY <1>2
      <2> HIDE DEF t
      <2>2. [file |-> Nobody, start |-> 0, size |-> 0, clust |-> 0, sect |-> 0,
             buf |-> Blank, dirty |-> FALSE, modified |-> FALSE, bad |-> "no",
             text |-> t] \in Objects
            BY <1>1, <1>2, <2>1 DEF Objects, Bads
      <2> QED BY <2>2 DEF NoFile, t
<1>4. /\ NoFile.file = Nobody /\ NoFile.size = 0 /\ NoFile.start = 0
      /\ NoFile.sect = 0 /\ ~NoFile.dirty /\ NoFile.bad = "no"
      /\ NoFile.buf \in Sector /\ NoFile.clust = 0 /\ ~NoFile.modified
      BY <1>1 DEF NoFile
<1>5. NoFile.text = <<>>
      BY DEF NoFile
<1>6. NoArg \in Args /\ NoArg.clu = 0 /\ NoArg.file = Nobody /\ NoArg.first = 0
      BY <1>2 DEF NoArg, Args
<1>7. /\ NoEntry \in Entries /\ [NoEntry EXCEPT !.there = TRUE] \in Entries
      /\ NoEntry.start = 0 /\ NoEntry.size = 0
      BY <1>2 DEF NoEntry, Entries
<1> QED BY <1>2, <1>3, <1>4, <1>5, <1>6, <1>7

\* The fields, for the provers.
LEMMA Fields ==
    ASSUME Typed
    PROVE  /\ disk.fat \in Fat /\ disk.dir \in Directories /\ disk.data \in [Cluster -> Sector]
           /\ disk.free \in 0..NoCount /\ disk.last \in 0..Last
           /\ view.fat \in Fat /\ view.dir \in Directories
           /\ \A f \in Files : /\ view.dir[f] \in Entries /\ disk.dir[f] \in Entries
                               /\ view.dir[f].start \in Starts /\ view.dir[f].size \in Nat
                               /\ disk.dir[f].start \in Starts /\ disk.dir[f].size \in Nat
           /\ fil.file \in Files \cup {Nobody} /\ fil.start \in Starts /\ fil.size \in Nat
           /\ fil.clust \in Starts /\ fil.sect \in Starts /\ fil.buf \in Sector
           /\ fil.dirty \in BOOLEAN /\ fil.text \in Seq(Nat) /\ fil.modified \in BOOLEAN
           /\ fil.bad \in Bads
           /\ arg.file \in Files \cup {Nobody} /\ arg.clu \in Starts /\ arg.first \in Starts
           /\ fs.free \in 0..NoCount /\ fs.last \in 0..Last /\ fs.flag \in 0..1
<1>1. /\ disk \in Volumes /\ view \in Views /\ fil \in Objects /\ arg \in Args /\ fs \in Mounts
      BY DEF Typed
<1>2. \A d \in Directories, f \in Files :
          d[f] \in Entries /\ d[f].start \in Starts /\ d[f].size \in Nat
      BY DEF Directories, Entries
<1>3. disk.dir \in Directories /\ view.dir \in Directories
      BY <1>1 DEF Volumes, Views
<1>4. /\ disk.fat \in Fat /\ disk.data \in [Cluster -> Sector]
      /\ disk.free \in 0..NoCount /\ disk.last \in 0..Last /\ view.fat \in Fat
      BY <1>1 DEF Volumes, Views
<1>5. /\ fil.file \in Files \cup {Nobody} /\ fil.start \in Starts /\ fil.size \in Nat
      /\ fil.clust \in Starts /\ fil.sect \in Starts /\ fil.buf \in Sector
      /\ fil.dirty \in BOOLEAN /\ fil.text \in Seq(Nat) /\ fil.modified \in BOOLEAN
      /\ fil.bad \in Bads
      BY <1>1 DEF Objects
<1>6. arg.file \in Files \cup {Nobody} /\ arg.clu \in Starts /\ arg.first \in Starts
      BY <1>1 DEF Args
<1>7. fs.free \in 0..NoCount /\ fs.last \in 0..Last /\ fs.flag \in 0..1
      BY <1>1 DEF Mounts
<1> QED BY <1>2, <1>3, <1>4, <1>5, <1>6, <1>7

\* create_chain looks at clusters only.
LEMMA Candidate ==
    ASSUME Typed, NEW clst \in Starts, NEW i \in DOMAIN Candidates(clst)
    PROVE  Candidates(clst)[i] \in Cluster
<1> DEFINE scl == IF fs.last \in Cluster THEN fs.last ELSE IF clst = 0 THEN 1 ELSE clst
<1>1. /\ Clusters \in Nat \ {0} /\ Clusters = Last - 1 /\ Last \in Nat
      /\ scl \in Nat \ {0}
      BY ClusterFacts, StartFacts, Fields
<1> HIDE DEF scl
<1>2. ASSUME NEW k \in 1..Clusters PROVE Ring(scl)[k] \in Cluster
      <2>1. scl + k - 2 \in Nat
            BY <1>1
      <2>2. (scl + k - 2) % Clusters \in 0..(Clusters - 1)
            BY <1>1, <2>1
      <2>3. Ring(scl)[k] = ((scl + k - 2) % Clusters) + 2
            BY DEF Ring
      <2> QED BY <1>1, <2>2, <2>3 DEF Cluster
<1>3. Ring(scl) \in [1..Clusters -> Cluster]
      BY <1>2 DEF Ring
<1>4. Ring(scl) \in Seq(Cluster)
      BY <1>1, <1>3
<1>5. CASE clst = 0
      <2>1. Candidates(clst) = Ring(scl)
            BY <1>5 DEF Candidates, scl
      <2> QED BY <1>3, <2>1
<1>6. CASE clst # 0
      <2> DEFINE x == IF clst = Last THEN 2 ELSE clst + 1
      <2>1. Candidates(clst) = <<x>> \o Ring(scl)
            BY <1>6 DEF Candidates, scl
      <2>2. x \in Cluster
            BY <1>1, <1>6, StartFacts, FatAssumption DEF Cluster
      <2> HIDE DEF x
      <2>3. <<x>> \o Ring(scl) \in Seq(Cluster)
            BY <1>4, <2>2
      <2> QED BY <2>1, <2>3
<1> QED BY <1>5, <1>6

LEMMA OpenedIs ==
    ASSUME Typed, arg.file \in Files, NEW e \in Entries, NEW m \in BOOLEAN, Opened(e, m)
    PROVE  /\ fil' \in Objects /\ Len(fil'.text) = fil'.size /\ locks' \in SUBSET Files
           /\ fil'.file = arg.file /\ fil'.start = e.start /\ fil'.size = e.size
           /\ fil'.clust = 0 /\ fil'.sect = 0 /\ ~fil'.dirty /\ fil'.modified = m
           /\ fil'.bad = "no" /\ fil'.text = Text(e, view.fat, disk.data)
<1> DEFINE t == Text(e, view.fat, disk.data)
<1>1. e.start \in Starts /\ e.size \in Nat
      BY DEF Entries
<1>2. t \in Seq(Nat) /\ Len(t) = e.size
      BY <1>1, Fields, TextType
<1>3. fil' = [NoFile EXCEPT !.file = arg.file, !.start = e.start, !.size = e.size,
                            !.modified = m, !.text = t]
      BY DEF Opened
<1> HIDE DEF t
<1>4. /\ fil' \in Objects /\ fil'.file = arg.file /\ fil'.start = e.start
      /\ fil'.size = e.size /\ fil'.modified = m /\ fil'.text = t
      BY <1>1, <1>2, <1>3, NoTypes DEF Objects
<1>5. fil'.clust = 0 /\ fil'.sect = 0 /\ ~fil'.dirty /\ fil'.bad = "no"
      BY <1>3, NoTypes DEF Objects
<1>6. locks' \in SUBSET Files
      BY DEF Opened, Typed
<1> QED BY <1>2, <1>4, <1>5, <1>6 DEF t

LEMMA WrittenType == Typed => Written \in Volumes
<1> SUFFICES ASSUME Typed PROVE Written \in Volumes
    OBVIOUS
<1>1. disk \in Volumes /\ view.dir \in Directories /\ view.fat \in Fat /\ disk.fat \in Fat
      BY Fields DEF Typed
<1>2. [disk EXCEPT !.dir = view.dir] \in Volumes
      BY <1>1 DEF Volumes
<1> DEFINE f == [c \in Cluster |-> IF FatSector(c) = win.at THEN view.fat[c] ELSE disk.fat[c]]
<1>3. f \in Fat
      BY <1>1 DEF Fat
<1>4. [disk EXCEPT !.fat = f] \in Volumes
      <2> HIDE DEF f
      <2> QED BY <1>1, <1>3 DEF Volumes
<1>5. [disk EXCEPT !.fat = [c \in Cluster |->
            IF FatSector(c) = win.at THEN view.fat[c] ELSE @[c]]] = [disk EXCEPT !.fat = f]
      OBVIOUS
<1> QED BY <1>2, <1>4, <1>5 DEF Written

LEMMA FlushedType == Typed /\ Control => Flushed \in Volumes
<1> SUFFICES ASSUME Typed, Control PROVE Flushed \in Volumes
    OBVIOUS
<1>1. disk \in Volumes /\ fil.buf \in Sector /\ disk.data \in [Cluster -> Sector]
      BY Fields DEF Typed
<1>2. fil.dirty => fil.sect \in Cluster
      BY Fields, StartFacts DEF Control
<1>3. fil.dirty => [disk EXCEPT !.data[fil.sect] = fil.buf] \in Volumes
      BY <1>1, <1>2 DEF Volumes
<1> QED BY <1>1, <1>3 DEF Flushed

LEMMA IntoType == Typed /\ opens > 0 => Into(fil.buf, opens) \in Sector
<1> SUFFICES ASSUME Typed, opens > 0 PROVE Into(fil.buf, opens) \in Sector
    OBVIOUS
<1>1. opens \in Units /\ fil.buf \in [1..SectorUnits -> Units \cup {Unknown}]
      BY Fields, FatAssumption DEF Typed, Units, Sector
<1> QED BY <1>1 DEF Into, Sector

LEMMA AppendType ==
    ASSUME Typed
    PROVE  /\ Append(fil.text, opens) \in Seq(Nat)
           /\ Len(Append(fil.text, opens)) = fil.size + 1
<1>1. fil.text \in Seq(Nat) /\ opens \in Nat /\ Len(fil.text) = fil.size
      BY Fields DEF Typed
<1> QED BY <1>1

LEMMA ClosedType ==
    ASSUME Typed, Closed
    PROVE  /\ fil' = NoFile /\ fil' \in Objects /\ Len(fil'.text) = fil'.size
           /\ locks' \in SUBSET Files /\ arg' = NoArg /\ arg' \in Args /\ pc' = "ready"
           /\ DOMAIN acked' = Files
<1>1. fil' = NoFile /\ arg' = NoArg /\ pc' = "ready"
      BY DEF Closed, Return
<1>2. DOMAIN acked' = Files /\ locks' \in SUBSET Files
      BY DEF Closed, Typed
<1> QED BY <1>1, <1>2, NoTypes

LEMMA HopsIs == Hops = Idx(view.dir[arg.file].size)
BY DEF Hops, Idx

\* Where f_open for appending comes to.
LEMMA SeekIs ==
    ASSUME Typed, Control, Lengths, Seek
    PROVE  LET e == view.dir[arg.file]
               c == Walk(view.fat, e.start)[Idx(e.size)]
               part == e.size % SectorUnits # 0 IN
           /\ c \in Cluster /\ e \in Entries /\ e.size > 0 /\ e.start \in Cluster
           /\ Reaches(view.fat, e.start, Idx(e.size))
           /\ fil' \in Objects /\ Len(fil'.text) = fil'.size
           /\ fil'.file = arg.file /\ fil'.start = e.start /\ fil'.size = e.size
           /\ fil'.clust = c /\ fil'.sect = IF part THEN c ELSE 0
           /\ fil'.buf = IF part THEN disk.data[c] ELSE Blank
           /\ ~fil'.dirty /\ ~fil'.modified /\ fil'.bad = "no"
           /\ fil'.text = Text(e, view.fat, disk.data)
<1> DEFINE e == view.dir[arg.file]
           c == Walk(view.fat, e.start)[Idx(e.size)]
           part == e.size % SectorUnits # 0
           s == IF part THEN c ELSE 0
           b == IF part THEN disk.data[c] ELSE Blank
           t == Text(e, view.fat, disk.data)
<1>1. arg.file \in Files /\ e.size > 0
      BY DEF Seek, Control
<1>2. e \in Entries /\ e.start \in Starts /\ e.size \in Nat
      BY <1>1, Fields
<1>3. Reaches(view.fat, e.start, Idx(e.size))
      BY <1>1 DEF Lengths, Long
<1>4. c \in Cluster /\ e.start \in Cluster
      BY <1>2, <1>3, StartFacts DEF Reaches
<1>5. t \in Seq(Nat) /\ Len(t) = e.size
      BY <1>2, Fields, TextType
<1>6. fil' = [NoFile EXCEPT !.file = arg.file, !.start = e.start, !.size = e.size,
                  !.clust = c, !.sect = s, !.buf = b, !.text = t]
      BY HopsIs DEF Seek, AsSeen
<1>7. s \in Starts /\ c \in Starts /\ b \in Sector
      BY <1>4, Fields, StartFacts DEF Blank, Sector, Unknown
<1> HIDE DEF e, c, part, s, b, t
<1>8. /\ fil' \in Objects /\ fil'.file = arg.file /\ fil'.start = e.start
      /\ fil'.size = e.size /\ fil'.clust = c /\ fil'.sect = s /\ fil'.buf = b
      /\ fil'.text = t
      BY <1>1, <1>2, <1>5, <1>6, <1>7, NoTypes DEF Objects
<1>9. ~fil'.dirty /\ ~fil'.modified /\ fil'.bad = "no"
      BY <1>6, NoTypes DEF Objects
<1> QED BY <1>1, <1>2, <1>3, <1>4, <1>5, <1>8, <1>9 DEF e, c, part, s, b, t

LEMMA WindowSteps ==
    ASSUME Typed
    PROVE  /\ \A s \in {DirSector} \cup {FatSector(c) : c \in Cluster} :
                 Seen(s) \/ Changed(s) => win' \in Windows
           /\ [win EXCEPT !.dirty = FALSE] \in Windows
           /\ [at |-> InfoSector, dirty |-> FALSE] \in Windows
           /\ [at |-> NoSector, dirty |-> FALSE] \in Windows
<1>1. win \in Windows
      BY DEF Typed
<1>2. win.dirty \in BOOLEAN
      BY <1>1 DEF Windows
<1>3. ASSUME NEW s \in {DirSector} \cup {FatSector(c) : c \in Cluster}, Seen(s) \/ Changed(s)
      PROVE  win' \in Windows
      <2>1. s \in {NoSector, InfoSector, DirSector} \cup {FatSector(c) : c \in Cluster}
            OBVIOUS
      <2>2. PICK b \in BOOLEAN : win' = [at |-> s, dirty |-> b]
            BY <1>2, <1>3 DEF Seen, Changed
      <2> QED BY <1>1, <2>1, <2>2, WindowTypes
<1> QED BY <1>1, <1>3, WindowTypes

LEMMA BookedType == \A c \in Cluster : Typed /\ fs.free # 0 /\ Booked(c) => fs' \in Mounts
<1> SUFFICES ASSUME NEW c \in Cluster, Typed, fs.free # 0, Booked(c)
             PROVE  fs' \in Mounts
    OBVIOUS
<1>1. fs \in Mounts /\ fs.free \in 0..NoCount /\ NoCount \in Nat /\ Clusters \in Nat /\ c \in 0..Last
      BY Fields, ClusterFacts DEF Typed
<1> DEFINE k == IF fs.free =< Clusters THEN fs.free - 1 ELSE fs.free
<1>2. k \in 0..NoCount /\ 1 \in 0..1
      BY <1>1
<1>3. fs' = [fs EXCEPT !.last = c, !.flag = 1, !.free = k]
      BY DEF Booked
<1> HIDE DEF k
<1> QED BY <1>1, <1>2, <1>3 DEF Mounts

\* Where the three outcomes of create_chain lead.
LEMMA GrowIs ==
    ASSUME Typed, Control, Lengths, Grow
    PROVE  /\ pc = "grow" /\ Rear \in Starts /\ (fil.size > 0 <=> Rear # 0)
           /\ Looked \subseteq Cluster
           /\ \/ /\ Followed /\ Seen(FatSector(Rear)) /\ Rear \in Cluster
                 /\ pc' = "spill" /\ arg' = [arg EXCEPT !.clu = view.fat[Rear]]
                 /\ UNCHANGED <<view, fs, fil>>
              \/ /\ win' = win \/ \E c \in Looked : Seen(FatSector(c))
                 /\ fil' = [fil EXCEPT !.modified = TRUE, !.bad = "write"] /\ Return
                 /\ UNCHANGED <<view, fs>>
              \/ /\ ~Followed /\ fs.free # 0
                 /\ \E c \in Cluster :
                       /\ view.fat[c] = 0 /\ view' = [view EXCEPT !.fat[c] = EOC]
                       /\ Changed(FatSector(c)) /\ (win.dirty => win.at = FatSector(c))
                       /\ arg' = [arg EXCEPT !.clu = c]
                       /\ IF Rear = 0 THEN pc' = "spill" /\ Booked(c)
                          ELSE pc' = "link" /\ UNCHANGED fs
                 /\ UNCHANGED fil
           /\ UNCHANGED <<disk, locks, spent, clean, acked>>
<1>1. pc = "grow" /\ IsOpen /\ fil.bad = "no" /\ fil.size \in Nat
      BY Fields DEF Grow, Control
<1>2. fil.size > 0 => fil.clust \in Cluster /\ fil.clust # 0
      BY <1>1, StartFacts DEF Lengths, Long, Reaches
<1>3. Rear \in Starts /\ (fil.size > 0 <=> Rear # 0)
      BY <1>1, <1>2, StartFacts DEF Rear
<1>4. Looked \subseteq Cluster
      <2>1. \A i \in Tried(Rear) : i \in DOMAIN Candidates(Rear)
            BY DEF Tried
      <2> QED BY <1>3, <2>1, Candidate, StartFacts DEF Looked
<1>5. UNCHANGED <<disk, locks, spent, clean, acked>>
      BY DEF Grow
<1>6. CASE /\ Followed /\ Seen(FatSector(Rear))
           /\ pc' = "spill" /\ arg' = [arg EXCEPT !.clu = view.fat[Rear]]
           /\ UNCHANGED <<view, fs, fil>>
      <2>1. Rear \in Cluster
            BY <1>3, <1>6, StartFacts DEF Followed
      <2> QED BY <1>1, <1>3, <1>4, <1>5, <1>6, <2>1
<1>7. CASE /\ IF Looked = {} THEN UNCHANGED win
              ELSE \E c \in Looked : Seen(FatSector(c))
           /\ fil' = [fil EXCEPT !.modified = TRUE, !.bad = "write"] /\ Return
           /\ UNCHANGED <<view, fs>>
      <2>1. win' = win \/ \E c \in Looked : Seen(FatSector(c))
            BY <1>7
      <2> QED BY <1>1, <1>3, <1>4, <1>5, <1>7, <2>1
<1>8. CASE /\ ~Followed /\ fs.free # 0
           /\ \E i \in Hit(Rear) : LET c == Candidates(Rear)[i] IN
                /\ view' = [view EXCEPT !.fat[c] = EOC] /\ Changed(FatSector(c))
                /\ arg' = [arg EXCEPT !.clu = c]
                /\ IF Rear = 0 THEN pc' = "spill" /\ Booked(c)
                   ELSE pc' = "link" /\ UNCHANGED fs
           /\ UNCHANGED fil
      <2>1. PICK i \in Hit(Rear) : LET c == Candidates(Rear)[i] IN
                /\ view' = [view EXCEPT !.fat[c] = EOC] /\ Changed(FatSector(c))
                /\ arg' = [arg EXCEPT !.clu = c]
                /\ IF Rear = 0 THEN pc' = "spill" /\ Booked(c)
                   ELSE pc' = "link" /\ UNCHANGED fs
            BY <1>8
      <2> DEFINE c == Candidates(Rear)[i]
      <2>2. i \in Tried(Rear) /\ i \in DOMAIN Candidates(Rear) /\ view.fat[c] = 0
            BY DEF Hit, Tried
      <2>3. c \in Cluster
            BY <1>3, <2>2, Candidate
      <2>4. c \in Looked
            BY <1>8, <2>2 DEF Looked
      <2>5. FatSector(c) \in Wanted
            BY <1>1, <2>4 DEF Wanted
      <2>6. win.dirty => win.at = FatSector(c)
            BY <2>5 DEF Grow, Reach
      <2> QED BY <1>1, <1>3, <1>4, <1>5, <1>8, <2>1, <2>2, <2>3, <2>6
<1> QED BY <1>6, <1>7, <1>8 DEF Grow

LEMMA TypedStep ==
    ASSUME Typed, Control, Lengths, Next
    PROVE  Typed'
<1>0. /\ disk \in Volumes /\ view \in Views /\ win \in Windows /\ fs \in Mounts
      /\ fil \in Objects /\ Len(fil.text) = fil.size /\ arg \in Args /\ pc \in Steps
      /\ locks \in SUBSET Files /\ clean \in BOOLEAN /\ DOMAIN acked = Files
      /\ opens \in 0..MaxOpens /\ errors \in 0..MaxErrors /\ losses \in 0..MaxLosses
      BY DEF Typed
<1>a. "ready" \in Steps /\ "free" \in Steps /\ "seek" \in Steps /\ "reopen" \in Steps
      /\ "spill" \in Steps /\ "grow" \in Steps /\ "link" \in Steps /\ "data" \in Steps
      /\ "entry" \in Steps /\ "dir" \in Steps /\ "info" \in Steps /\ "find" \in Steps
      BY DEF Steps
<1>b. NoArg \in Args /\ NoFile \in Objects /\ Len(NoFile.text) = NoFile.size
      BY NoTypes
<1>c. /\ errors < MaxErrors => errors + 1 \in 0..MaxErrors
      /\ losses < MaxLosses => losses + 1 \in 0..MaxLosses
      /\ opens < MaxOpens => opens + 1 \in 0..MaxOpens
      <2>1. /\ errors \in 0..MaxErrors /\ losses \in 0..MaxLosses /\ opens \in 0..MaxOpens
            /\ MaxOpens \in Nat /\ MaxErrors \in Nat /\ MaxLosses \in Nat
            BY <1>0, FatAssumption
      <2> QED BY <2>1
<1>d. 0 \in 0..1 /\ 1 \in 0..1
      OBVIOUS
<1>1. CASE Flush
      BY <1>0, <1>1, WrittenType, WindowSteps DEF Flush, Typed, spent
<1>2. CASE Locked
      BY <1>0, <1>a, <1>b, <1>2, WindowSteps DEF Locked, Return, Typed, spent
<1>3. CASE Clear
      <2> DEFINE f == arg.file
                 empty == [NoEntry EXCEPT !.there = TRUE]
      <2>1. f \in Files
            BY <1>3 DEF Clear, Control
      <2>2. empty \in Entries
            BY NoTypes
      <2>3. view' \in Views
            <3>1. view' = [view EXCEPT !.dir[f] = empty] /\ view.dir \in Directories
                  BY <1>3, Fields DEF Clear
            <3> HIDE DEF empty
            <3> QED BY <1>0, <2>1, <2>2, <3>1 DEF Views, Directories
      <2>4. win' \in Windows
            BY <1>3, WindowSteps DEF Clear
      <2>5. /\ UNCHANGED <<disk, fs, opens, errors, losses, clean>>
            /\ DOMAIN acked' = Files
            BY <1>0, <1>3 DEF Clear, spent
      <2>6. CASE Opened(empty, TRUE) /\ Return
            <3>1. fil' \in Objects /\ Len(fil'.text) = fil'.size /\ locks' \in SUBSET Files
                  BY <2>1, <2>2, <2>6, OpenedIs
            <3> QED BY <1>0, <1>a, <1>b, <2>3, <2>4, <2>5, <2>6, <3>1 DEF Typed, Return
      <2>7. CASE /\ view.dir[f].start # 0 /\ pc' = "free"
                 /\ arg' = [arg EXCEPT !.clu = view.dir[f].start, !.first = view.dir[f].start]
                 /\ UNCHANGED <<fil, locks>>
            <3>1. view.dir[f].start \in Starts
                  BY <2>1, Fields
            <3>2. arg' \in Args
                  BY <1>0, <2>7, <3>1 DEF Args
            <3> QED BY <1>0, <1>a, <2>3, <2>4, <2>5, <2>7, <3>2 DEF Typed
      <2> QED BY <1>3, <2>6, <2>7 DEF Clear
<1>4. CASE Free
      <2> DEFINE nxt == view.fat[arg.clu]
      <2>1. arg.clu \in Cluster /\ nxt \in 0..EOC
            BY <1>4, Fields DEF Free, Control, Fat
      <2>2. win' \in Windows
            BY <1>4, <2>1, WindowSteps DEF Free
      <2>3. view' \in Views
            <3>1. 0 \in 0..EOC /\ view.fat \in Fat
                  BY Fields, FatAssumption DEF EOC
            <3>2. view' = view \/ view' = [view EXCEPT !.fat[arg.clu] = 0]
                  BY <1>4 DEF Free
            <3>3. [view.fat EXCEPT ![arg.clu] = 0] \in Fat
                  BY <2>1, <3>1 DEF Fat
            <3> QED BY <1>0, <3>2, <3>3 DEF Views
      <2>4. fs' \in Mounts
            <3>1. fs' = fs \/ (fs.free < Clusters /\ fs' = [fs EXCEPT !.free = @ + 1, !.flag = 1])
                  BY <1>4 DEF Free
            <3>2. fs.free < Clusters => fs.free + 1 \in 0..NoCount
                  BY Fields, ClusterFacts
            <3> DEFINE k == fs.free + 1
            <3>3. fs' = fs \/ (k \in 0..NoCount /\ fs' = [fs EXCEPT !.free = k, !.flag = 1])
                  BY <3>1, <3>2
            <3> HIDE DEF k
            <3> QED BY <1>0, <1>d, <3>3 DEF Mounts
      <2>5. arg' \in Args /\ pc' \in Steps
            <3>1. nxt \in Cluster => nxt \in Starts
                  BY StartFacts
            <3> QED BY <1>0, <1>a, <1>4, <3>1 DEF Free, Args
      <2> QED BY <1>0, <1>4, <2>2, <2>3, <2>4, <2>5 DEF Free, Typed, spent
<1>5. CASE Reopen
      <2>1. arg.file \in Files /\ arg.first \in Cluster
            BY <1>5 DEF Reopen, Control
      <2>2. fil' \in Objects /\ Len(fil'.text) = fil'.size /\ locks' \in SUBSET Files
            BY <1>5, <2>1, Fields, OpenedIs DEF Reopen
      <2>3. fs' \in Mounts
            <3>1. arg.first - 1 \in 0..Last
                  BY <2>1, ClusterFacts
            <3> QED BY <1>0, <1>5, <3>1 DEF Reopen, Mounts
      <2>4. win' \in Windows
            BY <1>5, WindowSteps DEF Reopen
      <2> QED BY <1>0, <1>a, <1>b, <1>5, <2>2, <2>3, <2>4 DEF Reopen, Return, Typed, spent
<1>6. CASE Find
      <2>1. arg.file \in Files /\ win' \in Windows
            BY <1>6, WindowSteps DEF Find, Control
      <2>2. CASE Opened(view.dir[arg.file], FALSE) /\ Return
            <3>1. fil' \in Objects /\ Len(fil'.text) = fil'.size /\ locks' \in SUBSET Files
                  BY <2>1, <2>2, Fields, OpenedIs
            <3> QED BY <1>0, <1>a, <1>b, <1>6, <2>1, <2>2, <3>1 DEF Find, Return, Typed, spent
      <2>3. CASE pc' = "seek" /\ locks' = locks \cup {arg.file} /\ UNCHANGED <<fil, arg>>
            BY <1>0, <1>a, <1>6, <2>1, <2>3 DEF Find, Typed, spent
      <2> QED BY <1>6, <2>2, <2>3 DEF Find
<1>7. CASE Seek
      <2>1. fil' \in Objects /\ Len(fil'.text) = fil'.size
            BY <1>7, SeekIs
      <2>2. win' \in Windows
            <3> DEFINE e == view.dir[arg.file]
            <3>1. Reaches(view.fat, e.start, Hops) /\ e.start \in 0..EOC /\ view.fat \in Fat
                  BY <1>7, SeekIs, HopsIs, Fields, StartFacts, ClusterFacts
            <3>2. Hops # 0 => Walk(view.fat, e.start)[Hops - 1] \in Cluster
                  <4>1. Hops # 0 => Hops - 1 \in 0..Hops /\ Hops \in 0..Clusters
                        BY <3>1, ClusterFacts DEF Reaches
                  <4> QED BY <3>1, <4>1, Earlier DEF Reaches
            <3> QED BY <1>0, <1>7, <3>2, WindowSteps DEF Seek
      <2> QED BY <1>0, <1>a, <1>b, <1>7, <2>1, <2>2 DEF Seek, Return, Typed, spent
<1>8. CASE Grow
      <2>1. /\ Rear \in Starts /\ Looked \subseteq Cluster
            /\ UNCHANGED <<disk, locks, spent, clean, acked>>
            BY <1>8, GrowIs
      <2>2. CASE /\ Seen(FatSector(Rear)) /\ Rear \in Cluster
                 /\ pc' = "spill" /\ arg' = [arg EXCEPT !.clu = view.fat[Rear]]
                 /\ UNCHANGED <<view, fs, fil>> /\ Followed
            <3>1. win' \in Windows /\ view.fat[Rear] \in Starts
                  BY <2>2, WindowSteps, StartFacts DEF Followed
            <3> QED BY <1>0, <1>a, <2>1, <2>2, <3>1 DEF Typed, Args, spent
      <2>3. CASE /\ win' = win \/ \E c \in Looked : Seen(FatSector(c))
                 /\ fil' = [fil EXCEPT !.modified = TRUE, !.bad = "write"] /\ Return
                 /\ UNCHANGED <<view, fs>>
            <3>1. win' \in Windows
                  BY <1>0, <2>1, <2>3, WindowSteps
            <3>2. fil' \in Objects /\ fil'.text = fil.text /\ fil'.size = fil.size
                  BY <1>0, <2>3 DEF Objects, Bads
            <3> QED BY <1>0, <1>a, <1>b, <2>1, <2>3, <3>1, <3>2 DEF Typed, Return, spent
      <2>4. CASE /\ ~Followed /\ fs.free # 0
                 /\ \E c \in Cluster :
                       /\ view.fat[c] = 0 /\ view' = [view EXCEPT !.fat[c] = EOC]
                       /\ Changed(FatSector(c)) /\ (win.dirty => win.at = FatSector(c))
                       /\ arg' = [arg EXCEPT !.clu = c]
                       /\ IF Rear = 0 THEN pc' = "spill" /\ Booked(c)
                          ELSE pc' = "link" /\ UNCHANGED fs
                 /\ UNCHANGED fil
            <3>1. PICK c \in Cluster :
                       /\ view' = [view EXCEPT !.fat[c] = EOC]
                       /\ Changed(FatSector(c))
                       /\ arg' = [arg EXCEPT !.clu = c]
                       /\ IF Rear = 0 THEN pc' = "spill" /\ Booked(c)
                          ELSE pc' = "link" /\ UNCHANGED fs
                  BY <2>4
            <3>2. win' \in Windows /\ c \in Starts /\ EOC \in 0..EOC
                  BY <3>1, WindowSteps, StartFacts, FatAssumption DEF EOC
            <3>3. view' \in Views
                  BY <1>0, <3>1, <3>2 DEF Views, Fat
            <3>4. fs' \in Mounts /\ pc' \in Steps
                  BY <1>0, <1>a, <2>4, <3>1, BookedType
            <3>5. arg' \in Args
                  BY <1>0, <3>1, <3>2 DEF Args
            <3> QED BY <1>0, <2>1, <2>4, <3>2, <3>3, <3>4, <3>5 DEF Typed, spent
      <2> QED BY <1>8, <2>2, <2>3, <2>4, GrowIs
<1>9. CASE Link
      <2>1. arg.clu \in Cluster /\ fs.free # 0 /\ fil.clust \in Starts
            BY <1>9, Fields DEF Link, Control
      <2>2. fil.clust \in Cluster
            BY <1>9, <2>1, Fields, StartFacts DEF Link, Control, Lengths, Long, Reaches
      <2>3. fs' \in Mounts /\ win' \in Windows
            BY <1>9, <2>1, <2>2, BookedType, WindowSteps DEF Link
      <2>4. view' \in Views
            <3>1. arg.clu \in 0..EOC
                  BY <2>1, ClusterFacts
            <3> QED BY <1>0, <1>9, <2>2, <3>1 DEF Link, Views, Fat
      <2> QED BY <1>0, <1>a, <1>9, <2>3, <2>4 DEF Link, Typed, spent
<1>10. CASE Spill
      <2>1. arg.clu \in Cluster /\ arg.clu \in Starts /\ opens > 0
            BY <1>10, StartFacts DEF Spill, Control
      <2>2. /\ Append(fil.text, opens) \in Seq(Nat)
            /\ Len(Append(fil.text, opens)) = fil.size + 1
            /\ Into(fil.buf, opens) \in Sector /\ fil.size + 1 \in Nat
            BY <2>1, AppendType, IntoType, Fields
      <2> DEFINE t == Append(fil.text, opens)
                 b == Into(fil.buf, opens)
                 s == IF fil.start = 0 THEN arg.clu ELSE fil.start
      <2>3. fil' = [fil EXCEPT !.clust = arg.clu, !.start = s, !.sect = arg.clu, !.buf = b,
                        !.dirty = TRUE, !.size = fil.size + 1, !.modified = TRUE, !.text = t]
            BY <1>0, <1>10 DEF Spill, InCluster, Objects
      <2>4. s \in Starts
            BY <2>1, Fields
      <2> HIDE DEF t, b, s
      <2>5. fil' \in Objects /\ fil'.text = t /\ fil'.size = fil.size + 1
            BY <1>0, <2>1, <2>2, <2>3, <2>4 DEF Objects, t, b
      <2>6. disk' \in Volumes
            BY <1>10, FlushedType DEF Spill
      <2> QED BY <1>0, <1>a, <1>b, <1>10, <2>2, <2>5, <2>6 DEF Spill, Return, Typed, spent, t
<1>11. CASE Data
      <2>1. fil' \in Objects /\ fil'.text = fil.text /\ fil'.size = fil.size
            BY <1>0, <1>11 DEF Data, Objects
      <2>2. disk' \in Volumes
            BY <1>11, FlushedType DEF Data
      <2> QED BY <1>0, <1>a, <1>11, <2>1, <2>2 DEF Data, Typed, spent
<1>12. CASE Entry
      <2> DEFINE e == [there |-> TRUE, start |-> fil.start, size |-> fil.size]
      <2>1. e \in Entries
            BY Fields DEF Entries
      <2>2. view' = [view EXCEPT !.dir[fil.file] = e] /\ view.dir \in Directories
            BY <1>12, Fields DEF Entry
      <2>3. fil.file \in Files
            BY <1>12, Fields DEF Entry, Control, IsOpen
      <2> HIDE DEF e
      <2>4. view' \in Views
            BY <1>0, <2>1, <2>2, <2>3 DEF Views, Directories
      <2>5. win' \in Windows
            BY <1>12, WindowSteps DEF Entry
      <2> QED BY <1>0, <1>a, <1>12, <2>4, <2>5 DEF Entry, Typed, spent
<1>13. CASE Dir
      BY <1>0, <1>a, <1>13, WrittenType, WindowSteps DEF Dir, Typed, spent
<1>14. CASE Info
      <2>1. /\ fil' \in Objects /\ Len(fil'.text) = fil'.size /\ locks' \in SUBSET Files
            /\ arg' \in Args /\ pc' = "ready" /\ DOMAIN acked' = Files /\ view' = view
            BY <1>14, ClosedType DEF Info
      <2>2. win' \in Windows /\ fs' \in Mounts
            <3>1. win' = win \/ win' = [at |-> InfoSector, dirty |-> FALSE]
                  BY <1>14 DEF Info
            <3>2. fs' = fs \/ fs' = [fs EXCEPT !.flag = 0]
                  BY <1>14 DEF Info
            <3>3. win' \in Windows
                  BY <1>0, <3>1, WindowSteps
            <3>4. fs' \in Mounts
                  BY <1>0, <1>d, <3>2 DEF Mounts
            <3> QED BY <3>3, <3>4
      <2>3. /\ disk' \in Volumes /\ clean' \in BOOLEAN
            /\ opens' \in 0..MaxOpens /\ errors' \in 0..MaxErrors /\ losses' \in 0..MaxLosses
            <3>1. CASE disk' = [disk EXCEPT !.free = fs.free, !.last = fs.last]
                       /\ UNCHANGED <<spent, clean>>
                  BY <1>0, <3>1, Fields DEF Volumes, spent
            <3>2. CASE /\ errors < MaxErrors /\ errors' = errors + 1 /\ clean' = FALSE
                       /\ UNCHANGED <<disk, opens, losses>>
                  BY <1>0, <1>c, <3>2
            <3>3. CASE UNCHANGED <<disk, win, fs, spent, clean>>
                  BY <1>0, <3>3 DEF spent
            <3> QED BY <1>14, <3>1, <3>2, <3>3 DEF Info
      <2> QED BY <1>0, <1>a, <2>1, <2>2, <2>3 DEF Typed
<1>15. CASE Fail
      <2>1. errors' \in 0..MaxErrors /\ clean' \in BOOLEAN
            BY <1>0, <1>c, <1>15 DEF Fail
      <2>2. win' \in Windows
            <3>1. win' = win \/ win' = [at |-> NoSector, dirty |-> FALSE]
                  BY <1>15 DEF Fail
            <3> QED BY <1>0, <3>1, WindowSteps
      <2>3. fs' \in Mounts
            <3>1. CASE pc = "reopen"
                  <4>1. arg.first \in Cluster
                        BY <3>1 DEF Control
                  <4>2. arg.first - 1 \in 0..Last
                        BY <4>1, ClusterFacts
                  <4> QED BY <1>0, <1>15, <3>1, <4>2 DEF Fail, Mounts
            <3>2. CASE pc # "reopen"
                  BY <1>0, <1>15, <3>2 DEF Fail
            <3> QED BY <3>1, <3>2
      <2>4. fil' \in Objects /\ fil'.text = fil.text /\ fil'.size = fil.size
            <3>1. CASE pc = "spill"
                  <4>1. arg.clu \in Starts /\ (IF fil.start = 0 THEN arg.clu ELSE fil.start) \in Starts
                        BY Fields
                  <4>2. fil' = [InCluster EXCEPT !.bad = "write"]
                        BY <1>15, <3>1 DEF Fail
                  <4> QED BY <1>0, <4>1, <4>2 DEF InCluster, Objects, Bads
            <3>2. CASE pc # "spill"
                  <4>1. \/ fil' = [fil EXCEPT !.bad = "write"]
                        \/ fil' = [fil EXCEPT !.bad = "close"]
                        \/ fil' = [fil EXCEPT !.bad = "close", !.modified = FALSE]
                        \/ fil' = fil
                        BY <1>15, <3>2 DEF Fail
                  <4>2. "write" \in Bads /\ "close" \in Bads
                        BY DEF Bads
                  <4>3. \A b \in Bads, m \in BOOLEAN :
                            LET x == [fil EXCEPT !.bad = b, !.modified = m] IN
                            x \in Objects /\ x.text = fil.text /\ x.size = fil.size
                        BY <1>0 DEF Objects
                  <4>4. \A b \in Bads :
                            LET x == [fil EXCEPT !.bad = b] IN
                            x \in Objects /\ x.text = fil.text /\ x.size = fil.size
                        BY <1>0 DEF Objects
                  <4>5. CASE fil' = [fil EXCEPT !.bad = "write"]
                        BY <4>2, <4>4, <4>5
                  <4>6. CASE fil' = [fil EXCEPT !.bad = "close"]
                        BY <4>2, <4>4, <4>6
                  <4>7. CASE fil' = [fil EXCEPT !.bad = "close", !.modified = FALSE]
                        BY <4>2, <4>3, <4>7
                  <4> QED BY <1>0, <4>1, <4>5, <4>6, <4>7
            <3> QED BY <3>1, <3>2
      <2> QED BY <1>0, <1>a, <1>b, <1>15, <2>1, <2>2, <2>3, <2>4 DEF Fail, Return, Typed
<1>16. CASE Forget
      BY <1>0, <1>b, <1>16 DEF Forget, Typed, spent
<1>17. CASE Mount \/ PowerLoss
      <2>1. view' \in Views
            BY <1>17, Fields DEF Mount, PowerLoss, Fresh, Views
      <2>2. fil' = NoFile /\ locks' = {} /\ disk' = disk /\ acked' = acked
            BY <1>17 DEF Mount, PowerLoss, Fresh
      <2>3. win' \in Windows
            BY <1>17, WindowSteps DEF Mount, PowerLoss
      <2>4. fs' \in Mounts
            <3>1. NoCount \in 0..NoCount /\ 0 \in 0..Last /\ disk.free \in 0..NoCount /\ disk.last \in 0..Last
                  BY Fields, ClusterFacts
            <3>2. \A m \in BOOLEAN, k \in 0..NoCount, l \in 0..Last :
                     [mounted |-> m, free |-> k, last |-> l, flag |-> 0] \in Mounts
                  BY <1>d DEF Mounts
            <3> QED BY <1>17, <3>1, <3>2 DEF Mount, PowerLoss
      <2>5. arg' \in Args /\ pc' \in Steps
            BY <1>0, <1>a, <1>b, <1>17 DEF Mount, PowerLoss, Return
      <2>6. /\ clean' \in BOOLEAN /\ opens' = opens /\ errors' = errors
            /\ losses' \in 0..MaxLosses
            BY <1>0, <1>c, <1>17 DEF Mount, PowerLoss, spent
      <2> QED BY <1>0, <1>b, <2>1, <2>2, <2>3, <2>4, <2>5, <2>6 DEF Typed
<1>18. CASE WriteCall
      <2>1. IsOpen /\ opens > 0
            BY <1>18 DEF WriteCall, Control
      <2>2. CASE fil.size % SectorUnits # 0
            <3>1. /\ Append(fil.text, opens) \in Seq(Nat)
                  /\ Len(Append(fil.text, opens)) = fil.size + 1
                  /\ Into(fil.buf, opens) \in Sector /\ fil.size + 1 \in Nat
                  BY <2>1, AppendType, IntoType, Fields
            <3> DEFINE t == Append(fil.text, opens)
                       b == Into(fil.buf, opens)
            <3>2. fil' = [fil EXCEPT !.buf = b, !.dirty = TRUE, !.size = fil.size + 1,
                                  !.modified = TRUE, !.text = t]
                  BY <1>0, <1>18, <2>2 DEF WriteCall, Objects
            <3> HIDE DEF t, b
            <3>3. fil' \in Objects /\ fil'.text = t /\ fil'.size = fil.size + 1
                  BY <1>0, <3>1, <3>2 DEF Objects, t, b
            <3> QED BY <1>0, <1>18, <2>2, <3>1, <3>3 DEF WriteCall, Typed, spent, t
      <2>3. CASE fil.size % SectorUnits = 0
            <3>1. arg' = arg \/ arg' = [NoArg EXCEPT !.clu = fil.start]
                  BY <1>18, <2>3 DEF WriteCall
            <3>2. arg' \in Args
                  BY <1>0, <1>b, <3>1, Fields DEF Args
            <3>3. pc' \in Steps /\ fil' = fil
                  BY <1>a, <1>18, <2>3 DEF WriteCall
            <3> QED BY <1>0, <1>18, <3>2, <3>3 DEF WriteCall, Typed, spent
      <2> QED BY <2>2, <2>3
<1>19. CASE CloseCall
      <2>1. CASE Closed
            <3>1. /\ fil' \in Objects /\ Len(fil'.text) = fil'.size /\ locks' \in SUBSET Files
                  /\ arg' \in Args /\ pc' = "ready" /\ DOMAIN acked' = Files
                  BY <2>1, ClosedType
            <3> QED BY <1>0, <1>a, <1>19, <3>1 DEF CloseCall, Typed, spent
      <2>2. CASE /\ pc' = "data" /\ acked' = [acked EXCEPT ![fil.file] = Unsettled]
                 /\ UNCHANGED <<fil, arg, locks>>
            BY <1>0, <1>a, <1>19, <2>2 DEF CloseCall, Typed, spent
      <2> QED BY <1>19, <2>1, <2>2 DEF CloseCall
<1>20. ASSUME NEW f \in Files, NEW m \in {"create", "append"}, OpenCall(f, m)
       PROVE  Typed'
      <2>1. opens' \in 0..MaxOpens /\ pc' \in Steps
            BY <1>0, <1>a, <1>c, <1>20 DEF OpenCall
      <2>2. arg' \in Args
            BY <1>b, <1>20 DEF OpenCall, Args
      <2> QED BY <1>0, <1>20, <2>1, <2>2 DEF OpenCall, Typed
<1> QED BY <1>1, <1>2, <1>3, <1>4, <1>5, <1>6, <1>7, <1>8, <1>9, <1>10, <1>11, <1>12,
           <1>13, <1>14, <1>15, <1>16, <1>17, <1>18, <1>19, <1>20 DEF Next, Step
-----------------------------------------------------------------------------
(* What the steps do to the fields.                                          *)

\* The data on the card after the buffer has been written, if it had to be.
Backed == IF fil.dirty THEN [disk.data EXCEPT ![fil.sect] = fil.buf] ELSE disk.data

LEMMA FlushedIs ==
    ASSUME Typed, disk' = Flushed
    PROVE  disk'.fat = disk.fat /\ disk'.dir = disk.dir /\ disk'.data = Backed
           /\ disk'.free = disk.free
<1>1. disk \in Volumes
      BY DEF Typed
<1> QED BY <1>1 DEF Flushed, Backed, Volumes

LEMMA SpillIs ==
    ASSUME Typed, Spill
    PROVE  /\ pc = "spill" /\ pc' = "ready" /\ arg' = NoArg /\ view' = view
           /\ disk'.fat = disk.fat /\ disk'.dir = disk.dir /\ disk'.data = Backed
           /\ fil'.file = fil.file /\ fil'.size = fil.size + 1 /\ fil'.clust = arg.clu
           /\ fil'.start = IF fil.start = 0 THEN arg.clu ELSE fil.start
           /\ fil'.sect = arg.clu /\ fil'.buf = Into(fil.buf, opens) /\ fil'.dirty
           /\ fil'.bad = fil.bad /\ fil'.text = Append(fil.text, opens) /\ fil'.modified
           /\ UNCHANGED <<win, fs, opens, acked, locks>>
<1>1. fil \in Objects
      BY DEF Typed
<1>2. /\ pc = "spill" /\ pc' = "ready" /\ arg' = NoArg /\ view' = view
      /\ UNCHANGED <<win, fs, opens, acked, locks>>
      BY DEF Spill, Return, spent
<1>3. disk'.fat = disk.fat /\ disk'.dir = disk.dir /\ disk'.data = Backed
      BY FlushedIs DEF Spill
<1>4. fil' = [[fil EXCEPT !.clust = arg.clu,
                          !.start = IF fil.start = 0 THEN arg.clu ELSE fil.start]
                  EXCEPT !.sect = arg.clu, !.buf = Into(fil.buf, opens),
                         !.dirty = TRUE, !.size = fil.size + 1, !.modified = TRUE,
                         !.text = Append(fil.text, opens)]
      BY <1>1 DEF Spill, InCluster, Objects
<1> QED BY <1>1, <1>2, <1>3, <1>4 DEF Objects

LEMMA DataIs ==
    ASSUME Typed, Data
    PROVE  /\ pc = "data" /\ pc' = "entry" /\ arg' = arg /\ view' = view
           /\ disk'.fat = disk.fat /\ disk'.dir = disk.dir /\ disk'.data = Backed
           /\ fil'.file = fil.file /\ fil'.size = fil.size /\ fil'.clust = fil.clust
           /\ fil'.start = fil.start /\ fil'.sect = fil.sect /\ fil'.buf = fil.buf
           /\ ~fil'.dirty /\ fil'.bad = fil.bad /\ fil'.text = fil.text
           /\ fil'.modified = fil.modified
           /\ UNCHANGED <<win, fs, opens, acked, locks>>
<1>1. fil \in Objects
      BY DEF Typed
<1>2. /\ pc = "data" /\ pc' = "entry" /\ arg' = arg /\ view' = view
      /\ UNCHANGED <<win, fs, opens, acked, locks>>
      BY DEF Data, spent
<1>3. disk'.fat = disk.fat /\ disk'.dir = disk.dir /\ disk'.data = Backed
      BY FlushedIs DEF Data
<1>4. fil' = [fil EXCEPT !.dirty = FALSE]
      BY DEF Data
<1> QED BY <1>1, <1>2, <1>3, <1>4 DEF Objects

\* A unit that goes into the sector at hand.
LEMMA WriteIs ==
    ASSUME Typed, WriteCall, fil.size % SectorUnits # 0
    PROVE  /\ pc = "ready" /\ fil # NoFile /\ fil.bad = "no"
           /\ fil'.file = fil.file /\ fil'.size = fil.size + 1 /\ fil'.clust = fil.clust
           /\ fil'.start = fil.start /\ fil'.sect = fil.sect
           /\ fil'.buf = Into(fil.buf, opens) /\ fil'.dirty /\ fil'.modified
           /\ fil'.bad = fil.bad /\ fil'.text = Append(fil.text, opens)
           /\ UNCHANGED <<pc, arg, disk, view, win, fs, opens, acked, locks>>
<1>1. fil \in Objects
      BY DEF Typed
<1>2. /\ pc = "ready" /\ fil # NoFile /\ fil.bad = "no"
      /\ UNCHANGED <<pc, arg, disk, view, win, fs, opens, acked, locks>>
      BY DEF WriteCall, spent
<1>3. fil' = [fil EXCEPT !.buf = Into(fil.buf, opens), !.dirty = TRUE,
                         !.size = fil.size + 1, !.modified = TRUE,
                         !.text = Append(fil.text, opens)]
      BY <1>1 DEF WriteCall, Objects
<1> QED BY <1>1, <1>2, <1>3 DEF Objects

\* A unit that needs a sector of its own.
LEMMA WriteOn ==
    ASSUME Typed, WriteCall, fil.size % SectorUnits = 0
    PROVE  /\ pc = "ready" /\ fil # NoFile /\ fil.bad = "no"
           /\ \/ /\ fil.size = 0 /\ fil.start # 0 /\ pc' = "spill"
                 /\ arg'.clu = fil.start
              \/ /\ ~(fil.size = 0 /\ fil.start # 0) /\ pc' = "grow" /\ arg' = arg
           /\ UNCHANGED <<disk, view, win, fs, fil, opens, acked, locks>>
<1>1. NoArg \in Args
      BY NoTypes
<1>2. [NoArg EXCEPT !.clu = fil.start].clu = fil.start
      BY <1>1 DEF Args
<1> QED BY <1>2 DEF WriteCall, spent

LEMMA EntryIs ==
    ASSUME Typed, Control, Entry
    PROVE  LET e == [there |-> TRUE, start |-> fil.start, size |-> fil.size] IN
           /\ pc = "entry" /\ pc' = "dir" /\ fil.file \in Files /\ view'.fat = view.fat
           /\ view'.dir[fil.file] = e /\ e.start = fil.start /\ e.size = fil.size
           /\ \A f \in Files \ {fil.file} : view'.dir[f] = view.dir[f]
           /\ Changed(DirSector) /\ (win.dirty => win.at = DirSector)
           /\ UNCHANGED <<disk, fs, fil, arg, opens, acked, locks>>
<1>1. view \in Views /\ view.dir \in Directories
      BY Fields DEF Typed
<1>2. fil.file \in Files
      BY Fields DEF Entry, Control, IsOpen
<1>3. win.dirty => win.at = DirSector
      BY DEF Entry, Reach, Wanted
<1> QED BY <1>1, <1>2, <1>3 DEF Entry, Views, Directories, spent

LEMMA FailIs ==
    ASSUME Typed, Fail
    PROVE  /\ fil'.file = fil.file /\ fil'.size = fil.size /\ fil'.text = fil.text
           /\ fil'.sect = fil.sect /\ fil'.buf = fil.buf /\ fil'.dirty = fil.dirty
           /\ pc' = "ready" /\ arg' = NoArg /\ ~clean'
           /\ win' = win \/ (~win.dirty /\ win' = [at |-> NoSector, dirty |-> FALSE])
           /\ \/ /\ pc = "spill" /\ fil'.bad = "write" /\ fil'.clust = arg.clu
                 /\ fil'.start = IF fil.start = 0 THEN arg.clu ELSE fil.start
              \/ /\ pc # "spill" /\ fil'.start = fil.start /\ fil'.clust = fil.clust
                 /\ fil'.bad \in {fil.bad, "write", "close"}
           /\ (pc \in {"find", "free", "reopen", "seek"} => fil' = fil)
           /\ UNCHANGED <<disk, view, locks, opens, acked>>
<1>1. fil \in Objects
      BY DEF Typed
<1>2. /\ pc' = "ready" /\ arg' = NoArg /\ ~clean'
      /\ UNCHANGED <<disk, view, locks, opens, acked>>
      /\ win' = win \/ (~win.dirty /\ win' = [at |-> NoSector, dirty |-> FALSE])
      /\ (pc \in {"find", "free", "reopen", "seek"} => fil' = fil)
      BY DEF Fail, Return
<1>3. CASE pc = "spill"
      <2>1. fil' = [fil EXCEPT !.clust = arg.clu,
                        !.start = IF fil.start = 0 THEN arg.clu ELSE fil.start,
                        !.bad = "write"]
            BY <1>1, <1>3 DEF Fail, InCluster, Objects
      <2> QED BY <1>1, <1>2, <1>3, <2>1 DEF Objects
<1>4. CASE pc # "spill"
      <2>1. \/ fil' = [fil EXCEPT !.bad = "write"]
            \/ fil' = [fil EXCEPT !.bad = "close"]
            \/ fil' = [fil EXCEPT !.bad = "close", !.modified = FALSE]
            \/ fil' = fil
            BY <1>4 DEF Fail
      <2>2. /\ fil'.file = fil.file /\ fil'.size = fil.size /\ fil'.text = fil.text
            /\ fil'.sect = fil.sect /\ fil'.buf = fil.buf /\ fil'.dirty = fil.dirty
            /\ fil'.start = fil.start /\ fil'.clust = fil.clust
            /\ fil'.bad \in {fil.bad, "write", "close"}
            BY <1>1, <2>1 DEF Objects
      <2> QED BY <1>2, <1>4, <2>2
<1> QED BY <1>3, <1>4

\* A mount, and the power coming back: what the card has is what there is.
LEMMA FreshIs ==
    ASSUME Typed, Mount \/ PowerLoss
    PROVE  /\ disk' = disk /\ view'.fat = disk.fat /\ view'.dir = disk.dir
           /\ fil' = NoFile /\ pc' = "ready" /\ ~win'.dirty /\ acked' = acked
           /\ win'.dirty = FALSE
BY DEF Mount, PowerLoss, Fresh, Return
-----------------------------------------------------------------------------
(* Where a call is, and what the card lacks.                                 *)

LEMMA ControlStep ==
    ASSUME Typed, Control, Rooted, Lengths, Next
    PROVE  Control'
<1>0. /\ fil.size \in Nat /\ fil.start \in Starts /\ NoFile.file = Nobody
      /\ NoFile.size = 0 /\ NoFile.sect = 0 /\ ~NoFile.dirty /\ NoFile.start = 0
      /\ Nobody \notin Files /\ 0 % SectorUnits = 0
      BY Fields, NoTypes, FatAssumption
<1>1. CASE Flush \/ Locked \/ Forget
      BY <1>0, <1>1 DEF Flush, Locked, Forget, Return, Control, IsOpen, spent
<1>2. CASE Clear
      <2> DEFINE f == arg.file
                 empty == [NoEntry EXCEPT !.there = TRUE]
      <2>1. f \in Files /\ ~IsOpen /\ opens > 0 /\ pc = "find"
            BY <1>2 DEF Clear, Control
      <2>2. empty \in Entries /\ empty.size = 0 /\ empty.start = 0
            BY NoTypes DEF Entries
      <2>3. view'.dir[f] = empty /\ opens' = opens
            BY <1>2, <2>1, Fields DEF Clear, Typed, Views, Directories, spent
      <2>4. CASE Opened(empty, TRUE) /\ Return
            BY <1>0, <2>1, <2>2, <2>3, <2>4, OpenedIs DEF Return, Control, IsOpen
      <2>5. CASE /\ view.dir[f].start # 0 /\ pc' = "free"
                 /\ arg' = [arg EXCEPT !.clu = view.dir[f].start, !.first = view.dir[f].start]
                 /\ UNCHANGED <<fil, locks>>
            <3>1. view.dir[f].start \in Cluster
                  BY <2>1, <2>5, Fields, StartFacts
            <3>2. arg'.file = f /\ arg'.clu \in Cluster /\ arg'.first \in Cluster
                  BY <2>5, <3>1 DEF Typed, Args
            <3> QED BY <2>1, <2>2, <2>3, <2>5, <3>2 DEF Control, IsOpen
      <2> QED BY <1>2, <2>4, <2>5 DEF Clear
<1>3. CASE Free
      <2>1. pc = "free" /\ fil' = fil /\ opens' = opens /\ view'.dir = view.dir
            BY <1>3 DEF Free, spent, Typed, Views
      <2>2. /\ arg'.file = arg.file /\ arg'.first = arg.first
            /\ (pc' = "free" /\ arg'.clu \in Cluster) \/ pc' = "reopen"
            BY <1>3 DEF Free, Typed, Args
      <2> QED BY <2>1, <2>2 DEF Control, IsOpen
<1>4. CASE Reopen
      <2>1. arg.file \in Files /\ opens > 0 /\ view.dir[arg.file].size = 0
            BY <1>4 DEF Reopen, Control
      <2>2. Opened(view.dir[arg.file], TRUE) /\ Return /\ opens' = opens
            BY <1>4 DEF Reopen, spent
      <2>3. view.dir[arg.file] \in Entries
            BY <2>1, Fields
      <2> QED BY <1>0, <2>1, <2>2, <2>3, OpenedIs DEF Return, Control, IsOpen
<1>5. CASE Find
      <2>1. arg.file \in Files /\ opens > 0 /\ opens' = opens /\ view' = view /\ ~IsOpen
            BY <1>5 DEF Find, Control, spent
      <2>2. view.dir[arg.file] \in Entries /\ view.dir[arg.file].size \in Nat
            BY <2>1, Fields
      <2>3. CASE view.dir[arg.file].size = 0
            <3>1. Opened(view.dir[arg.file], FALSE) /\ Return
                  BY <1>5, <2>3 DEF Find
            <3> QED BY <1>0, <2>1, <2>2, <2>3, <3>1, OpenedIs DEF Return, Control, IsOpen
      <2>4. CASE view.dir[arg.file].size # 0
            <3>1. pc' = "seek" /\ UNCHANGED <<fil, arg>>
                  BY <1>5, <2>4 DEF Find
            <3>2. view'.dir[arg'.file].size > 0
                  BY <2>1, <2>2, <2>4, <3>1
            <3> QED BY <2>1, <3>1, <3>2 DEF Control, IsOpen
      <2> QED BY <2>3, <2>4
<1>6. CASE Seek
      <2>1. pc' = "ready" /\ opens' = opens /\ opens > 0
            BY <1>6 DEF Seek, Return, spent, Control
      <2>2. /\ fil'.size > 0 /\ ~fil'.dirty
            /\ fil'.file \in Files /\ (fil'.size % SectorUnits # 0 => fil'.sect # 0)
            <3>1. arg.file \in Files
                  BY <1>6 DEF Seek, Control
            <3> QED BY <1>6, <3>1, SeekIs, StartFacts
      <2> QED BY <1>0, <2>1, <2>2 DEF Control, IsOpen
<1>7. CASE Grow
      <2>1. pc = "grow" /\ IsOpen /\ fil.bad = "no" /\ fil.size % SectorUnits = 0 /\ opens > 0
            BY <1>7 DEF Grow, Control
      <2>2. opens' = opens /\ (fil.size > 0 <=> Rear # 0)
            BY <1>7, GrowIs DEF spent
      <2>3. CASE /\ pc' = "spill" /\ arg' = [arg EXCEPT !.clu = view.fat[Rear]]
                 /\ UNCHANGED <<view, fs, fil>> /\ Followed
            <3>1. arg'.clu \in Cluster
                  BY <2>3 DEF Followed, Typed, Args
            <3> QED BY <2>1, <2>2, <2>3, <3>1 DEF Control, IsOpen
      <2>4. CASE fil' = [fil EXCEPT !.modified = TRUE, !.bad = "write"] /\ Return
            <3>1. /\ fil'.file = fil.file /\ fil'.size = fil.size /\ fil'.sect = fil.sect
                  /\ fil'.dirty = fil.dirty /\ pc' = "ready"
                  BY <2>4 DEF Return, Typed, Objects
            <3> QED BY <2>1, <2>2, <3>1 DEF Control, IsOpen
      <2>5. CASE \E c \in Cluster :
                    /\ arg' = [arg EXCEPT !.clu = c] /\ fs.free # 0 /\ UNCHANGED fil
                    /\ IF Rear = 0 THEN pc' = "spill" /\ Booked(c)
                       ELSE pc' = "link" /\ UNCHANGED fs
            <3>1. arg'.clu \in Cluster /\ fil' = fil
                  BY <2>5 DEF Typed, Args
            <3>2. pc' = "spill" \/ (pc' = "link" /\ fs'.free # 0 /\ fil.size > 0)
                  BY <2>2, <2>5
            <3> QED BY <2>1, <2>2, <3>1, <3>2 DEF Control, IsOpen
      <2> QED BY <1>7, <2>3, <2>4, <2>5, GrowIs
<1>8. CASE Link
      BY <1>8 DEF Link, Control, IsOpen, spent
<1>9. CASE Spill
      <2>1. arg.clu \in Cluster /\ arg.clu # 0 /\ opens > 0 /\ IsOpen
            BY <1>9, StartFacts DEF Spill, Control
      <2> QED BY <1>0, <1>9, <2>1, SpillIs DEF Control, IsOpen
<1>10. CASE Data
      BY <1>10, DataIs DEF Control, IsOpen
<1>11. CASE Entry
      BY <1>11, EntryIs DEF Control, IsOpen
<1>12. CASE Dir
      BY <1>12 DEF Dir, Control, IsOpen, spent
<1>13. CASE Info
      <2>1. fil' = NoFile /\ pc' = "ready"
            BY <1>13, ClosedType DEF Info
      <2> QED BY <1>0, <2>1 DEF Control, IsOpen
<1>14. CASE Fail
      <2>1. ~IsOpen => fil' = fil
            <3>1. ~IsOpen => pc \notin {"grow", "link", "spill", "data", "entry", "dir", "info"}
                  BY DEF Control
            <3> QED BY <1>14, <3>1 DEF Fail
      <2> QED BY <1>0, <1>14, <2>1, FailIs DEF Control, IsOpen
<1>15. CASE Mount \/ PowerLoss
      BY <1>0, <1>15, FreshIs DEF Control, IsOpen
<1>16. CASE WriteCall
      <2>1. CASE fil.size % SectorUnits # 0
            <3>1. fil.sect # 0 /\ fil.size > 0
                  BY <2>1 DEF Control
            <3>2. IsOpen
                  BY <1>16, <2>1, WriteIs DEF Control
            <3> QED BY <1>0, <1>16, <2>1, <3>1, <3>2, WriteIs DEF Control, IsOpen
      <2>2. CASE fil.size % SectorUnits = 0
            <3>1. IsOpen /\ (fil.start # 0 => fil.start \in Cluster)
                  BY <1>16, <2>2, WriteOn, Fields, StartFacts DEF Control
            <3>2. fil.size > 0 \/ fil.size = 0
                  BY <1>0
            <3> QED BY <1>16, <2>2, <3>1, <3>2, WriteOn DEF Control, IsOpen
      <2> QED BY <2>1, <2>2
<1>17. CASE CloseCall
      <2>1. CASE Closed
            <3>1. fil' = NoFile /\ pc' = "ready"
                  BY <2>1, ClosedType
            <3> QED BY <1>0, <3>1 DEF Control, IsOpen
      <2>2. CASE fil.modified /\ pc' = "data" /\ UNCHANGED <<fil, arg, locks>>
            <3>1. pc = "ready" /\ fil # NoFile /\ opens' = opens
                  BY <1>17 DEF CloseCall, spent
            <3> QED BY <2>2, <3>1 DEF Control, IsOpen
      <2> QED BY <1>17, <2>1, <2>2 DEF CloseCall
<1>18. ASSUME NEW f \in Files, NEW m \in {"create", "append"}, OpenCall(f, m)
       PROVE  Control'
      <2>1. arg'.file = f
            BY <1>18, NoTypes DEF OpenCall, Args
      <2>2. opens' > 0
            BY <1>18 DEF OpenCall, Typed
      <2> QED BY <1>0, <1>18, <2>1, <2>2 DEF OpenCall, Control, IsOpen
<1> QED BY <1>1, <1>2, <1>3, <1>4, <1>5, <1>6, <1>7, <1>8, <1>9, <1>10, <1>11, <1>12,
           <1>13, <1>14, <1>15, <1>16, <1>17, <1>18 DEF Next, Step
-----------------------------------------------------------------------------
(* What the steps do to the directory, the FAT and the window.               *)

\* The window is where it was, unless it was clean.
WinKept == win'.dirty = win.dirty /\ (win.dirty => win'.at = win.at)

LEMMA SeenKeeps == \A s : Typed /\ Seen(s) /\ (win.dirty => win.at = s) => WinKept
<1> SUFFICES ASSUME NEW s, Typed, Seen(s), win.dirty => win.at = s
             PROVE  WinKept
    OBVIOUS
<1>1. win.dirty \in BOOLEAN
      BY DEF Typed, Windows
<1>2. win' = [at |-> s, dirty |-> win.dirty /\ win.at = s]
      BY DEF Seen
<1>3. CASE win.dirty
      BY <1>1, <1>2, <1>3 DEF WinKept
<1>4. CASE ~win.dirty
      BY <1>1, <1>2, <1>4 DEF WinKept
<1> QED BY <1>3, <1>4

LEMMA ChangedIs == \A s : Changed(s) => win'.at = s /\ win'.dirty = TRUE
BY DEF Changed

\* The window's sector is all in which the card is behind.
LEMMA WrittenIs ==
    ASSUME Typed, Coherent
    PROVE  /\ Written.fat = view.fat /\ Written.dir = view.dir
           /\ Written.data = disk.data /\ Written.free = disk.free
<1>1. /\ disk \in Volumes /\ view.fat \in Fat /\ disk.fat \in Fat
      BY Fields DEF Typed
<1>2. CASE win.at = DirSector
      <2>1. Written = [disk EXCEPT !.dir = view.dir]
            BY <1>2 DEF Written
      <2>2. \A c \in Cluster : FatSector(c) # win.at
            BY <1>2, SectorNumbers DEF DirSector
      <2>3. disk.fat = view.fat
            BY <1>1, <2>2 DEF Coherent, Fat
      <2> QED BY <1>1, <2>1, <2>3 DEF Volumes
<1>3. CASE win.at # DirSector
      <2> DEFINE f == [c \in Cluster |-> IF FatSector(c) = win.at THEN view.fat[c] ELSE disk.fat[c]]
      <2>1. Written = [disk EXCEPT !.fat = f]
            BY <1>3 DEF Written
      <2>2. disk.dir = view.dir
            BY <1>3 DEF Coherent
      <2>3. \A c \in Cluster : f[c] = view.fat[c]
            BY DEF Coherent
      <2>4. f = view.fat
            BY <1>1, <2>3 DEF Fat
      <2> HIDE DEF f
      <2> QED BY <1>1, <2>1, <2>2, <2>4 DEF Volumes
<1> QED BY <1>2, <1>3

LEMMA SyncIs ==
    ASSUME Typed, Coherent, Flush \/ Dir
    PROVE  /\ disk'.fat = view.fat /\ disk'.dir = view.dir /\ disk'.data = disk.data
           /\ disk'.free = disk.free /\ win'.dirty = FALSE /\ win'.at = win.at
           /\ pc' = IF Dir THEN "info" ELSE pc
           /\ UNCHANGED <<view, fs, fil, arg, acked, clean>>
<1>1. win \in Windows
      BY DEF Typed
<1>2. disk' = Written /\ win' = [win EXCEPT !.dirty = FALSE]
      BY DEF Flush, Dir
<1>3. win'.dirty = FALSE /\ win'.at = win.at
      BY <1>1, <1>2 DEF Windows
<1>4. pc' = IF Dir THEN "info" ELSE pc
      BY DEF Flush, Dir
<1> QED BY <1>2, <1>3, <1>4, WrittenIs DEF Flush, Dir

LEMMA ClearIs ==
    ASSUME Typed, Control, Clear
    PROVE  LET f == arg.file IN
           /\ pc = "find" /\ f \in Files /\ ~IsOpen /\ f \notin locks
           /\ view'.fat = view.fat /\ disk' = disk /\ clean' = clean /\ fs' = fs
           /\ view'.dir[f] \in Entries /\ view'.dir[f].start = 0 /\ view'.dir[f].size = 0
           /\ \A g \in Files \ {f} : view'.dir[g] = view.dir[g]
           /\ Changed(DirSector) /\ (win.dirty => win.at = DirSector)
           /\ acked' = [acked EXCEPT ![f] = Unsettled]
           /\ \/ /\ view.dir[f].start = 0 /\ pc' = "ready"
                 /\ fil'.file = f /\ fil'.start = 0 /\ fil'.size = 0 /\ fil'.clust = 0
                 /\ fil'.sect = 0 /\ ~fil'.dirty /\ fil'.bad = "no" /\ fil'.text = <<>>
                 /\ fil'.modified
              \/ /\ view.dir[f].start # 0 /\ pc' = "free" /\ fil' = fil
                 /\ arg'.clu = view.dir[f].start /\ arg'.file = f
<1> DEFINE f == arg.file
           empty == [NoEntry EXCEPT !.there = TRUE]
<1>1. view \in Views /\ view.dir \in Directories /\ arg \in Args
      BY Fields DEF Typed
<1>2. pc = "find" /\ f \in Files /\ ~IsOpen /\ f \notin locks
      BY DEF Clear, Control
<1>3. win.dirty => win.at = DirSector
      BY DEF Clear, Reach, Wanted
<1>4. empty \in Entries /\ empty.start = 0 /\ empty.size = 0
      BY NoTypes DEF Entries
<1>5. /\ view'.fat = view.fat /\ view'.dir[f] = empty
      /\ \A g \in Files \ {f} : view'.dir[g] = view.dir[g]
      BY <1>1, <1>2 DEF Clear, Views, Directories
<1>6. CASE view.dir[f].start = 0 /\ Opened(empty, TRUE) /\ Return
      <2> HIDE DEF empty
      <2>1. /\ fil'.file = f /\ fil'.start = 0 /\ fil'.size = 0 /\ fil'.clust = 0
            /\ fil'.sect = 0 /\ ~fil'.dirty /\ fil'.bad = "no" /\ fil'.modified
            /\ fil' \in Objects /\ Len(fil'.text) = 0
            BY <1>2, <1>4, <1>6, OpenedIs
      <2>2. fil'.text = <<>>
            BY <2>1 DEF Objects
      <2>3. disk' = disk /\ clean' = clean /\ fs' = fs
            BY DEF Clear
      <2> QED BY <1>2, <1>3, <1>4, <1>5, <1>6, <2>1, <2>2, <2>3 DEF Clear, Return
<1>7. CASE /\ view.dir[f].start # 0 /\ pc' = "free"
           /\ arg' = [arg EXCEPT !.clu = view.dir[f].start, !.first = view.dir[f].start]
           /\ UNCHANGED <<fil, locks>>
      <2>1. arg'.clu = view.dir[f].start /\ arg'.file = f
            BY <1>1, <1>7 DEF Args
      <2> QED BY <1>2, <1>3, <1>4, <1>5, <1>7, <2>1 DEF Clear
<1> QED BY <1>6, <1>7 DEF Clear

LEMMA FreeIs ==
    ASSUME Typed, Control, Free
    PROVE  /\ pc = "free" /\ arg.clu \in Cluster /\ ~IsOpen /\ arg'.file = arg.file
           /\ arg'.first = arg.first
           /\ view'.dir = view.dir /\ (win.dirty => win.at = FatSector(arg.clu))
           /\ \/ /\ view.fat[arg.clu] = 0 /\ view' = view /\ Seen(FatSector(arg.clu))
                 /\ fs' = fs
              \/ /\ view.fat[arg.clu] # 0 /\ view'.fat = [view.fat EXCEPT ![arg.clu] = 0]
                 /\ Changed(FatSector(arg.clu))
                 /\ fs'.mounted = fs.mounted /\ fs'.last = fs.last
                 /\ IF fs.free < Clusters THEN fs'.free = fs.free + 1 /\ fs'.flag = 1
                    ELSE fs' = fs
           /\ \/ /\ view.fat[arg.clu] \in Cluster /\ pc' = "free"
                 /\ arg'.clu = view.fat[arg.clu]
              \/ view.fat[arg.clu] \notin Cluster /\ pc' = "reopen" /\ arg' = arg
           /\ UNCHANGED <<disk, fil, locks, opens, acked, clean>>
<1>1. view \in Views /\ arg \in Args /\ fs \in Mounts
      BY DEF Typed
<1>2. pc = "free" /\ arg.clu \in Cluster /\ ~IsOpen
      BY DEF Free, Control
<1>3. win.dirty => win.at = FatSector(arg.clu)
      BY <1>2 DEF Free, Reach, Wanted
<1>4. /\ view'.dir = view.dir
      /\ \/ /\ view.fat[arg.clu] = 0 /\ view' = view /\ Seen(FatSector(arg.clu))
            /\ fs' = fs
         \/ /\ view.fat[arg.clu] # 0 /\ view'.fat = [view.fat EXCEPT ![arg.clu] = 0]
            /\ Changed(FatSector(arg.clu))
            /\ fs'.mounted = fs.mounted /\ fs'.last = fs.last
            /\ IF fs.free < Clusters THEN fs'.free = fs.free + 1 /\ fs'.flag = 1
               ELSE fs' = fs
      BY <1>1 DEF Free, Views, Mounts
<1>5. /\ arg'.file = arg.file /\ arg'.first = arg.first
      /\ \/ /\ view.fat[arg.clu] \in Cluster /\ pc' = "free"
            /\ arg'.clu = view.fat[arg.clu]
         \/ view.fat[arg.clu] \notin Cluster /\ pc' = "reopen" /\ arg' = arg
      BY <1>1, <1>2 DEF Free, Args
<1> QED BY <1>2, <1>3, <1>4, <1>5 DEF Free, spent

\* The file object of an empty file, or of none.
LEMMA EmptyIs ==
    ASSUME Typed, arg.file \in Files, NEW m \in BOOLEAN, view.dir[arg.file].size = 0,
           Opened(view.dir[arg.file], m)
    PROVE  /\ fil'.file = arg.file /\ fil'.start = view.dir[arg.file].start
           /\ fil'.size = 0 /\ fil'.sect = 0 /\ ~fil'.dirty /\ fil'.bad = "no"
           /\ fil'.text = <<>> /\ fil'.modified = m /\ locks' = locks \cup {arg.file}
<1> DEFINE e == view.dir[arg.file]
<1>1. e \in Entries
      BY Fields
<1> HIDE DEF e
<1>2. /\ fil'.file = arg.file /\ fil'.start = e.start /\ fil'.size = e.size
      /\ fil'.sect = 0 /\ ~fil'.dirty /\ fil'.bad = "no" /\ fil'.modified = m
      /\ fil' \in Objects /\ Len(fil'.text) = fil'.size
      BY <1>1, OpenedIs DEF e
<1>3. fil'.text = <<>>
      BY <1>2 DEF Objects, e
<1> QED BY <1>2, <1>3 DEF Opened, e

LEMMA ReopenIs ==
    ASSUME Typed, Control, Reopen
    PROVE  /\ pc = "reopen" /\ arg.file \in Files /\ ~IsOpen /\ pc' = "ready" /\ arg' = NoArg
           /\ view.dir[arg.file].size = 0 /\ WinKept
           /\ fil'.file = arg.file /\ fil'.start = view.dir[arg.file].start
           /\ fil'.size = 0 /\ fil'.sect = 0 /\ ~fil'.dirty /\ fil'.bad = "no"
           /\ fil'.text = <<>> /\ fil'.modified
           /\ fs'.mounted = fs.mounted /\ fs'.free = fs.free
           /\ fs'.flag = fs.flag
           /\ UNCHANGED <<disk, view, acked, clean>>
<1>1. fs \in Mounts /\ arg.file \in Files /\ ~IsOpen /\ view.dir[arg.file].size = 0
      BY DEF Typed, Reopen, Control
<1>2. fs'.mounted = fs.mounted /\ fs'.free = fs.free /\ fs'.flag = fs.flag
      BY <1>1 DEF Reopen, Mounts
<1>3. win.dirty => win.at = DirSector
      BY DEF Reopen, Reach, Wanted
<1>4. WinKept
      BY <1>3, SeenKeeps DEF Reopen
<1>5. Opened(view.dir[arg.file], TRUE)
      BY DEF Reopen
<1> QED BY <1>1, <1>2, <1>4, <1>5, EmptyIs DEF Reopen, Return

LEMMA FindIs ==
    ASSUME Typed, Control, Find
    PROVE  /\ pc = "find" /\ arg.file \in Files /\ ~IsOpen /\ WinKept
           /\ \/ /\ view.dir[arg.file].size = 0 /\ pc' = "ready" /\ arg' = NoArg
                 /\ fil'.file = arg.file /\ fil'.start = view.dir[arg.file].start
                 /\ fil'.size = 0 /\ fil'.sect = 0 /\ ~fil'.dirty /\ fil'.bad = "no"
                 /\ fil'.text = <<>> /\ ~fil'.modified
              \/ view.dir[arg.file].size # 0 /\ pc' = "seek" /\ fil' = fil /\ arg' = arg
           /\ UNCHANGED <<disk, view, fs, acked, clean>>
<1>1. arg.file \in Files /\ ~IsOpen
      BY DEF Find, Control
<1>2. win.dirty => win.at = DirSector
      BY DEF Find, Reach, Wanted
<1>3. WinKept
      BY <1>2, SeenKeeps DEF Find
<1>4. CASE view.dir[arg.file].size = 0
      <2>1. Opened(view.dir[arg.file], FALSE) /\ pc' = "ready" /\ arg' = NoArg
            BY <1>4 DEF Find, Return
      <2> QED BY <1>1, <1>3, <1>4, <2>1, EmptyIs DEF Find
<1>5. CASE view.dir[arg.file].size # 0
      BY <1>1, <1>3, <1>5 DEF Find
<1> QED BY <1>4, <1>5

LEMMA SeekKeeps ==
    ASSUME Typed, Control, Lengths, Seek
    PROVE  /\ pc = "seek" /\ arg.file \in Files /\ ~IsOpen /\ WinKept
           /\ pc' = "ready" /\ arg' = NoArg
           /\ UNCHANGED <<disk, view, fs, acked, clean>>
<1>1. pc = "seek" /\ arg.file \in Files /\ ~IsOpen
      BY DEF Seek, Control
<1> DEFINE e == view.dir[arg.file]
           d == Walk(view.fat, e.start)[Hops - 1]
<1>2. WinKept
      <2>1. CASE Hops = 0
            BY <2>1 DEF Seek, WinKept
      <2>2. CASE Hops # 0
            <3>1. Hops \in Nat
                  BY SeekIs, HopsIs DEF Reaches
            <3>2. Hops - 1 \in 0..(Hops - 1)
                  BY <2>2, <3>1
            <3>3. d \in Passed
                  BY <3>2 DEF Passed
            <3> HIDE DEF d, e
            <3>4. Wanted = {FatSector(c) : c \in Passed}
                  BY <1>1 DEF Wanted
            <3>5. win.dirty => win.at = FatSector(d)
                  BY <3>3, <3>4 DEF Seek, Reach
            <3>6. Seen(FatSector(d))
                  BY <2>2 DEF Seek, d, e
            <3> QED BY <3>5, <3>6, SeenKeeps
      <2> QED BY <2>1, <2>2
<1> QED BY <1>1, <1>2 DEF Seek, Return

\* The chain goes on already.
Onward ==
    /\ Followed /\ Rear = fil.clust /\ fil.size > 0 /\ Rear \in Cluster
    /\ pc' = "spill" /\ arg'.clu = view.fat[Rear] /\ WinKept
    /\ UNCHANGED <<view, fs, fil, clean>>

\* There is no cluster.
Full ==
    /\ fil'.file = fil.file /\ fil'.start = fil.start /\ fil'.size = fil.size
    /\ fil'.clust = fil.clust /\ fil'.sect = fil.sect /\ fil'.buf = fil.buf
    /\ fil'.dirty = fil.dirty /\ fil'.text = fil.text /\ fil'.bad = "write"
    /\ fil'.modified /\ pc' = "ready" /\ arg' = NoArg /\ WinKept
    /\ UNCHANGED <<view, fs, clean>>

\* Cluster c is taken.
Taken(c) ==
    /\ ~Followed /\ fs.free # 0 /\ view.fat[c] = 0
    /\ view'.fat = [view.fat EXCEPT ![c] = EOC] /\ view'.dir = view.dir
    /\ Changed(FatSector(c)) /\ (win.dirty => win.at = FatSector(c))
    /\ arg'.clu = c
    /\ \/ fil.size = 0 /\ pc' = "spill" /\ Booked(c)
       \/ fil.size > 0 /\ Rear = fil.clust /\ pc' = "link" /\ UNCHANGED fs
    /\ UNCHANGED <<fil, clean>>

LEMMA GrowSplit ==
    ASSUME Typed, Control, Lengths, Grow
    PROVE  /\ pc = "grow" /\ IsOpen /\ fil.bad = "no" /\ UNCHANGED <<disk, acked>>
           /\ fil.size \in Nat
           /\ Onward \/ Full \/ \E c \in Cluster : Taken(c)
<1>1. /\ pc = "grow" /\ Rear \in Starts /\ (fil.size > 0 <=> Rear # 0)
      /\ Looked \subseteq Cluster
      /\ UNCHANGED <<disk, locks, spent, clean, acked>>
      BY GrowIs
<1>2. IsOpen /\ fil.bad = "no" /\ fil.size \in Nat /\ view \in Views /\ arg \in Args /\ fil \in Objects
      BY <1>1, Fields DEF Control, Typed
<1>3. fil.size > 0 => Rear = fil.clust
      BY <1>2 DEF Rear
<1>w. \A c \in Looked : Seen(FatSector(c)) => WinKept
      <2> SUFFICES ASSUME NEW c \in Looked, Seen(FatSector(c)) PROVE WinKept
          OBVIOUS
      <2>1. FatSector(c) \in Wanted
            BY <1>1 DEF Wanted
      <2>2. win.dirty => win.at = FatSector(c)
            BY <2>1 DEF Grow, Reach
      <2> QED BY <2>2, SeenKeeps
<1>4. CASE /\ Followed /\ Seen(FatSector(Rear)) /\ Rear \in Cluster
           /\ pc' = "spill" /\ arg' = [arg EXCEPT !.clu = view.fat[Rear]]
           /\ UNCHANGED <<view, fs, fil>>
      <2>1. Rear # 0 /\ Rear \in Looked
            BY <1>4 DEF Followed, Looked
      <2>2. WinKept
            BY <1>4, <1>w, <2>1
      <2>3. arg'.clu = view.fat[Rear]
            BY <1>2, <1>4 DEF Args
      <2>4. Onward
            BY <1>1, <1>3, <1>4, <2>1, <2>2, <2>3 DEF Onward
      <2> QED BY <1>1, <1>2, <2>4
<1>5. CASE /\ win' = win \/ \E c \in Looked : Seen(FatSector(c))
           /\ fil' = [fil EXCEPT !.modified = TRUE, !.bad = "write"] /\ Return
           /\ UNCHANGED <<view, fs>>
      <2>1. WinKept
            <3>1. win' = win => WinKept
                  BY DEF WinKept
            <3> QED BY <1>5, <1>w, <3>1
      <2>2. Full
            BY <1>1, <1>2, <1>5, <2>1 DEF Full, Return, Objects
      <2> QED BY <1>1, <1>2, <2>2
<1>6. CASE /\ ~Followed /\ fs.free # 0
           /\ \E c \in Cluster :
                 /\ view.fat[c] = 0 /\ view' = [view EXCEPT !.fat[c] = EOC]
                 /\ Changed(FatSector(c)) /\ (win.dirty => win.at = FatSector(c))
                 /\ arg' = [arg EXCEPT !.clu = c]
                 /\ IF Rear = 0 THEN pc' = "spill" /\ Booked(c)
                    ELSE pc' = "link" /\ UNCHANGED fs
           /\ UNCHANGED fil
      <2>1. PICK c \in Cluster :
                 /\ view.fat[c] = 0 /\ view' = [view EXCEPT !.fat[c] = EOC]
                 /\ Changed(FatSector(c)) /\ (win.dirty => win.at = FatSector(c))
                 /\ arg' = [arg EXCEPT !.clu = c]
                 /\ IF Rear = 0 THEN pc' = "spill" /\ Booked(c)
                    ELSE pc' = "link" /\ UNCHANGED fs
            BY <1>6
      <2>2. view'.fat = [view.fat EXCEPT ![c] = EOC] /\ view'.dir = view.dir /\ arg'.clu = c
            BY <1>2, <2>1 DEF Views, Args
      <2>3. \/ fil.size = 0 /\ pc' = "spill" /\ Booked(c)
            \/ fil.size > 0 /\ Rear = fil.clust /\ pc' = "link" /\ UNCHANGED fs
            BY <1>1, <1>2, <1>3, <2>1
      <2>4. Taken(c)
            BY <1>1, <1>6, <2>1, <2>2, <2>3 DEF Taken
      <2> QED BY <1>1, <1>2, <2>4
<1> QED BY <1>4, <1>5, <1>6, GrowIs

LEMMA LinkIs ==
    ASSUME Typed, Control, Lengths, Link
    PROVE  /\ pc = "link" /\ pc' = "spill" /\ arg.clu \in Cluster /\ fil.clust \in Cluster
           /\ fil.size > 0 /\ fil.bad = "no"
           /\ fil.clust = Walk(view.fat, fil.start)[Idx(fil.size)]
           /\ view'.fat = [view.fat EXCEPT ![fil.clust] = arg.clu] /\ view'.dir = view.dir
           /\ Changed(FatSector(fil.clust)) /\ (win.dirty => win.at = FatSector(fil.clust))
           /\ Booked(arg.clu)
           /\ UNCHANGED <<disk, fil, arg, acked, clean>>
<1>1. pc = "link" /\ arg.clu \in Cluster /\ fil.size > 0 /\ fil.bad = "no"
      BY DEF Link, Control
<1>2. fil.clust = Walk(view.fat, fil.start)[Idx(fil.size)]
      BY <1>1 DEF Lengths
<1>3. fil.clust \in Cluster
      BY <1>1, <1>2 DEF Lengths, Long, Reaches
<1>4. view'.fat = [view.fat EXCEPT ![fil.clust] = arg.clu] /\ view'.dir = view.dir
      BY <1>3 DEF Link, Typed, Views
<1>5. win.dirty => win.at = FatSector(fil.clust)
      BY <1>1 DEF Link, Reach, Wanted
<1> QED BY <1>1, <1>2, <1>3, <1>4, <1>5 DEF Link

LEMMA InfoIs ==
    ASSUME Typed, Info
    PROVE  /\ pc = "info" /\ Closed /\ pc' = "ready" /\ fil' = NoFile /\ view' = view
           /\ disk'.fat = disk.fat /\ disk'.dir = disk.dir /\ disk'.data = disk.data
           /\ win' = win \/ win'.dirty = FALSE
<1>1. disk \in Volumes
      BY DEF Typed
<1>2. disk'.fat = disk.fat /\ disk'.dir = disk.dir /\ disk'.data = disk.data
      BY <1>1 DEF Info, Volumes
<1>3. win' = win \/ win' = [at |-> InfoSector, dirty |-> FALSE]
      BY DEF Info
<1> QED BY <1>2, <1>3 DEF Info, Closed, Return
-----------------------------------------------------------------------------
(* What the card lacks is in the window.                                     *)

LEMMA CoherentKept ==
    ASSUME Coherent, WinKept, disk'.fat = disk.fat, disk'.dir = disk.dir, view' = view,
           pc' # "info"
    PROVE  Coherent'
BY DEF Coherent, WinKept

LEMMA CoherentSame ==
    ASSUME disk'.fat = view'.fat, disk'.dir = view'.dir, ~win'.dirty
    PROVE  Coherent'
BY DEF Coherent

LEMMA CoherentDir ==
    ASSUME Coherent, Changed(DirSector), win.dirty => win.at = DirSector,
           disk' = disk, view'.fat = view.fat, pc' # "info"
    PROVE  Coherent'
<1>1. win'.at = DirSector /\ win'.dirty
      BY ChangedIs
<1>2. \A c \in Cluster : FatSector(c) # DirSector
      BY SectorNumbers DEF DirSector
<1>3. \A c \in Cluster : disk'.fat[c] = view'.fat[c]
      BY <1>2 DEF Coherent
<1> QED BY <1>1, <1>3 DEF Coherent, DirSector

LEMMA CoherentFat ==
    ASSUME Coherent, NEW d \in Cluster, Changed(FatSector(d)),
           win.dirty => win.at = FatSector(d), disk' = disk, view'.dir = view.dir,
           OnlyAt(view.fat, view'.fat, d), pc' # "info"
    PROVE  Coherent'
<1>1. win'.at = FatSector(d) /\ win'.dirty
      BY ChangedIs
<1>2. FatSector(d) \in Nat /\ FatSector(d) # DirSector /\ FatSector(d) >= DirSector
      BY SectorNumbers DEF DirSector
<1>3. disk'.dir = view'.dir
      BY <1>2 DEF Coherent
<1>4. \A c \in Cluster : disk'.fat[c] = view'.fat[c] \/ FatSector(c) = FatSector(d)
      BY DEF Coherent, OnlyAt
<1> QED BY <1>1, <1>2, <1>3, <1>4 DEF Coherent

LEMMA CoherentStep ==
    ASSUME Typed, Control, Coherent, Lengths, Next
    PROVE  Coherent'
<1>1. CASE Flush \/ Dir
      BY <1>1, SyncIs, CoherentSame
<1>2. CASE Clear
      BY <1>2, ClearIs, CoherentDir
<1>3. CASE Free
      <2>1. CASE view.fat[arg.clu] = 0
            <3>1. WinKept
                  BY <1>3, <2>1, FreeIs, SeenKeeps
            <3> QED BY <1>3, <2>1, <3>1, FreeIs, CoherentKept
      <2>2. CASE view.fat[arg.clu] # 0
            <3>1. OnlyAt(view.fat, view'.fat, arg.clu)
                  BY <1>3, <2>2, FreeIs, Fields DEF OnlyAt, Fat
            <3> QED BY <1>3, <2>2, <3>1, FreeIs, CoherentFat
      <2> QED BY <2>1, <2>2
<1>4. CASE Reopen \/ Find \/ Seek
      BY <1>4, ReopenIs, FindIs, SeekKeeps, CoherentKept
<1>5. CASE Grow
      <2>1. CASE Onward \/ Full
            BY <1>5, <2>1, GrowSplit, CoherentKept DEF Onward, Full
      <2>2. ASSUME NEW c \in Cluster, Taken(c) PROVE Coherent'
            <3>1. OnlyAt(view.fat, view'.fat, c)
                  BY <2>2, Fields DEF OnlyAt, Fat, Taken
            <3> QED BY <1>5, <2>2, <3>1, GrowSplit, CoherentFat DEF Taken
      <2> QED BY <1>5, <2>1, <2>2, GrowSplit
<1>6. CASE Link
      <2>1. OnlyAt(view.fat, view'.fat, fil.clust)
            BY <1>6, LinkIs, Fields DEF OnlyAt, Fat
      <2> QED BY <1>6, <2>1, LinkIs, CoherentFat
<1>7. CASE Spill \/ Data
      <2>1. WinKept /\ pc' # "info"
            BY <1>7, SpillIs, DataIs DEF WinKept
      <2> QED BY <1>7, <2>1, SpillIs, DataIs, CoherentKept
<1>8. CASE Entry
      BY <1>8, EntryIs, CoherentDir
<1>9. CASE Info
      <2>1. ~win.dirty
            BY <1>9 DEF Coherent, Info
      <2>2. WinKept
            BY <1>9, <2>1, InfoIs DEF WinKept, Info, Typed, Windows
      <2> QED BY <1>9, <2>2, InfoIs, CoherentKept
<1>10. CASE Fail
      <2>1. WinKept
            <3>1. win.dirty \in BOOLEAN
                  BY DEF Typed, Windows
            <3>2. win' = win \/ (~win.dirty /\ win' = [at |-> NoSector, dirty |-> FALSE])
                  BY <1>10, FailIs
            <3>3. CASE win' = win
                  BY <3>3 DEF WinKept
            <3>4. CASE ~win.dirty /\ win' = [at |-> NoSector, dirty |-> FALSE]
                  <4>1. win'.dirty = FALSE /\ win.dirty = FALSE
                        BY <3>1, <3>4
                  <4> QED BY <4>1 DEF WinKept
            <3> QED BY <3>2, <3>3, <3>4
      <2> QED BY <1>10, <2>1, FailIs, CoherentKept
<1>11. CASE Locked
      <2>1. win.dirty => win.at = DirSector
            BY <1>11 DEF Locked, Reach, Wanted
      <2>2. WinKept
            BY <1>11, <2>1, SeenKeeps DEF Locked
      <2> QED BY <1>11, <2>2, CoherentKept DEF Locked, Return
<1>12. CASE Mount \/ PowerLoss
      BY <1>12, FreshIs, CoherentSame
<1>13. CASE Forget \/ WriteCall \/ CloseCall
      <2>1. WinKept /\ pc' # "info" /\ disk' = disk /\ view' = view
            BY <1>13 DEF WinKept, Forget, WriteCall, CloseCall, Closed, Return
      <2> QED BY <2>1, CoherentKept
<1>14. ASSUME NEW f \in Files, NEW m \in {"create", "append"}, OpenCall(f, m)
       PROVE  Coherent'
      <2>1. WinKept /\ pc' # "info" /\ disk' = disk /\ view' = view
            BY <1>14 DEF WinKept, OpenCall
      <2> QED BY <2>1, CoherentKept
<1> QED BY <1>1, <1>2, <1>3, <1>4, <1>5, <1>6, <1>7, <1>8, <1>9, <1>10, <1>11, <1>12,
           <1>13, <1>14 DEF Next, Step
-----------------------------------------------------------------------------
(* Every file has a chain of its own.                                        *)

LEMMA RootedKept ==
    ASSUME Rooted, disk'.fat = disk.fat, disk'.dir = disk.dir,
           view'.fat = view.fat, view'.dir = view.dir,
           fil'.start = 0 \/ (fil'.start = fil.start /\ fil'.file = fil.file),
           pc' \notin {"free", "link", "spill"}
    PROVE  Rooted'
<1>1. Root(view.fat, 0)
      BY DEF Root
<1>2. CASE fil'.start = 0
      BY <1>1, <1>2 DEF Rooted
<1>3. CASE fil'.start = fil.start /\ fil'.file = fil.file
      BY <1>3 DEF Rooted
<1> QED BY <1>2, <1>3

LEMMA RootedOpen ==
    ASSUME Rooted, UNCHANGED <<disk, view>>, fil'.file \in Files,
           fil'.start = view.dir[fil'.file].start, pc' = "ready"
    PROVE  Rooted'
<1>1. Root(view'.fat, fil'.start)
      BY DEF Rooted
<1>2. fil'.start # 0 => \A f \in Files \ {fil'.file} :
          fil'.start # view'.dir[f].start /\ fil'.start # disk'.dir[f].start
      BY DEF Rooted
<1> QED BY <1>1, <1>2 DEF Rooted

LEMMA RootedSync ==
    ASSUME Rooted, disk'.fat = view.fat, disk'.dir = view.dir,
           UNCHANGED <<view, fil, arg>>, pc' = pc \/ pc' = "info"
    PROVE  Rooted'
<1>1. CASE pc' = "info"
      BY <1>1 DEF Rooted
<1>2. CASE pc' = pc
      <2>1. \A c : New(c) => New(c)'
            BY DEF New
      <2> QED BY <1>2, <2>1 DEF Rooted
<1> QED BY <1>1, <1>2

LEMMA RootedFresh ==
    ASSUME Rooted, disk' = disk, view'.fat = disk.fat, view'.dir = disk.dir,
           fil'.start = 0, pc' = "ready"
    PROVE  Rooted'
<1>1. Root(view'.fat, 0)
      BY DEF Root
<1> QED BY <1>1 DEF Rooted

LEMMA RootedClear ==
    ASSUME Typed, Control, Rooted, Clear
    PROVE  Rooted'
<1> DEFINE f == arg.file
<1>1. /\ f \in Files /\ view'.fat = view.fat /\ disk' = disk /\ view'.dir[f].start = 0
      /\ \A g \in Files \ {f} : view'.dir[g] = view.dir[g]
      BY ClearIs
<1>2. fil'.start = 0
      BY ClearIs, NoTypes DEF Control
<1>3. Root(view.fat, 0)
      BY DEF Root
<1>4. \A g \in Files : /\ Root(view'.fat, view'.dir[g].start)
                       /\ view'.dir[g].start = 0 \/ view'.dir[g].start = view.dir[g].start
      BY <1>1, <1>3 DEF Rooted
<1>5. \A a, g \in Files : a # g =>
          /\ view'.dir[a].start # 0 => view'.dir[a].start # view'.dir[g].start
          /\ view'.dir[a].start # 0 => view'.dir[a].start # disk'.dir[g].start
          /\ disk'.dir[a].start # 0 => disk'.dir[a].start # disk'.dir[g].start
      BY <1>1, <1>4 DEF Rooted
<1>6. pc' = "free" => /\ Begins(view'.fat, arg'.clu)
                      /\ \A g \in Files : view'.dir[g].start # arg'.clu
      <2> SUFFICES ASSUME pc' = "free"
                   PROVE  /\ Begins(view'.fat, arg'.clu)
                          /\ \A g \in Files : view'.dir[g].start # arg'.clu
          OBVIOUS
      <2>1. arg'.clu = view.dir[f].start /\ view.dir[f].start # 0
            BY ClearIs
      <2>2. Begins(view.fat, view.dir[f].start)
            BY <1>1, <2>1 DEF Rooted, Root
      <2>3. \A g \in Files \ {f} : view.dir[g].start # view.dir[f].start
            BY <1>1, <2>1 DEF Rooted
      <2> QED BY <1>1, <2>1, <2>2, <2>3
<1>7. pc' \notin {"link", "spill"}
      BY ClearIs
<1> QED BY <1>1, <1>2, <1>3, <1>4, <1>5, <1>6, <1>7 DEF Rooted

\* The cluster that f_open frees is nowhere a chain's beginning any more.
LEMMA FreeOf ==
    ASSUME Typed, Control, Coherent, Rooted, Free
    PROVE  /\ Begins(view.fat, arg.clu) /\ view.fat[arg.clu] # 0 /\ disk.dir = view.dir
           /\ \A f \in Files : view.dir[f].start # arg.clu /\ disk.dir[f].start # arg.clu
           /\ fil.start = 0 /\ view'.fat = [view.fat EXCEPT ![arg.clu] = 0]
<1>1. pc = "free" /\ arg.clu \in Cluster /\ (win.dirty => win.at = FatSector(arg.clu)) /\ ~IsOpen
      BY FreeIs
<1>2. Begins(view.fat, arg.clu) /\ \A f \in Files : view.dir[f].start # arg.clu
      BY <1>1 DEF Rooted
<1>3. disk.dir = view.dir
      BY <1>1, SectorNumbers DEF Coherent, DirSector
<1>4. fil.start = 0
      BY <1>1, NoTypes DEF Control
<1>5. view.fat[arg.clu] # 0
      BY <1>2 DEF Begins
<1> QED BY <1>2, <1>3, <1>4, <1>5, FreeIs

LEMMA RootedFree ==
    ASSUME Typed, Control, Coherent, Rooted, Free
    PROVE  Rooted'
<1> DEFINE c == arg.clu
<1>1. /\ Begins(view.fat, c) /\ disk.dir = view.dir
      /\ \A f \in Files : view.dir[f].start # c /\ disk.dir[f].start # c
      /\ fil.start = 0 /\ view'.fat = [view.fat EXCEPT ![c] = 0]
      BY FreeOf
<1>2. view'.dir = view.dir /\ disk' = disk /\ fil' = fil
      BY FreeIs
<1>3. view.fat \in Fat /\ Linked(view.fat)
      /\ \A f \in Files : view.dir[f].start \in 0..EOC
      BY Fields, StartFacts DEF Rooted
<1>4. /\ Linked(view'.fat)
      /\ \A s \in 0..EOC : Root(view.fat, s) /\ s # c => Root(view'.fat, s)
      /\ view.fat[c] \in Cluster =>
             Begins(view'.fat, view.fat[c]) /\ \A s \in 0..EOC : Root(view.fat, s) => s # view.fat[c]
      BY <1>1, <1>3, FreeFat
<1>5. \A f \in Files : Root(view.fat, view.dir[f].start)
      BY DEF Rooted
<1>6. \A f \in Files : Root(view'.fat, view.dir[f].start)
      BY <1>1, <1>3, <1>4, <1>5
<1>7. Root(view'.fat, 0)
      BY DEF Root
<1>8. pc' = "free" => /\ Begins(view'.fat, arg'.clu)
                      /\ \A f \in Files : view'.dir[f].start # arg'.clu
      <2> SUFFICES ASSUME pc' = "free"
                   PROVE  /\ Begins(view'.fat, arg'.clu)
                          /\ \A f \in Files : view'.dir[f].start # arg'.clu
          OBVIOUS
      <2>1. view.fat[c] \in Cluster /\ arg'.clu = view.fat[c]
            BY FreeIs
      <2> QED BY <1>2, <1>3, <1>4, <1>5, <2>1
<1>9. pc' \notin {"link", "spill"}
      BY FreeIs
<1> QED BY <1>1, <1>2, <1>4, <1>6, <1>7, <1>8, <1>9 DEF Rooted

\* The cluster at the end of the open file's chain.
LEMMA EndIs ==
    ASSUME Typed, Rooted, Lengths, fil.size > 0
    PROVE  LET end == Walk(view.fat, fil.start)[Idx(fil.size)] IN
           /\ fil.start # 0 /\ Begins(view.fat, fil.start) /\ fil.start \in 0..EOC
           /\ Idx(fil.size) \in Nat /\ Idx(fil.size) < Clusters
           /\ Idx(fil.size) \in 0..Clusters /\ Idx(fil.size) \in 0..(Clusters - 1)
           /\ end \in Cluster /\ view.fat[end] # 0
           /\ view.fat[end] = EOC \/ view.fat[end] \in Cluster
           /\ fil.bad = "no" => fil.clust = end
           /\ fil.sect # 0 => fil.sect = end
<1> DEFINE end == Walk(view.fat, fil.start)[Idx(fil.size)]
<1>1. /\ fil.start # 0 /\ Idx(fil.size) \in Nat /\ Idx(fil.size) < Clusters /\ end \in Cluster
      /\ (fil.bad = "no" => fil.clust = end) /\ (fil.sect # 0 => fil.sect = end)
      BY DEF Lengths, Long, Reaches
<1>2. Begins(view.fat, fil.start) /\ Linked(view.fat)
      BY <1>1 DEF Rooted, Root
<1>3. /\ view.fat \in Fat /\ fil.start \in 0..EOC /\ Idx(fil.size) \in 0..Clusters
      /\ Clusters \in Nat /\ EOC \notin Cluster
      <2>1. view.fat \in Fat /\ fil.start \in Starts /\ Clusters \in Nat /\ EOC \notin Cluster
            BY Fields, ClusterFacts
      <2>2. fil.start \in 0..EOC
            BY <2>1, StartFacts
      <2>3. Idx(fil.size) \in 0..Clusters
            BY <1>1, <2>1
      <2> QED BY <2>1, <2>2, <2>3
<1>4. view.fat[end] # 0
      <2>1. end = EOC \/ (end \in Cluster /\ view.fat[end] # 0)
            <3>1. \A n \in 0..Clusters :
                      \/ Walk(view.fat, fil.start)[n] = EOC
                      \/ /\ Walk(view.fat, fil.start)[n] \in Cluster
                         /\ view.fat[Walk(view.fat, fil.start)[n]] # 0
                  BY <1>2, <1>3, ChainUsed
            <3> QED BY <1>3, <3>1
      <2> QED BY <1>1, <1>3, <2>1
<1>5. view.fat[end] # 1 /\ view.fat[end] \in 0..EOC
      BY <1>1, <1>2, <1>3 DEF Linked, Fat
<1>6. view.fat[end] = EOC \/ view.fat[end] \in Cluster
      BY <1>4, <1>5, ClusterFacts
<1>7. Idx(fil.size) \in 0..(Clusters - 1)
      BY <1>1, <1>3
<1> QED BY <1>1, <1>2, <1>3, <1>4, <1>6, <1>7

LEMMA RootedTaken ==
    ASSUME Typed, Control, Rooted, Lengths, pc = "grow", fil.bad = "no", disk' = disk,
           NEW c \in Cluster, Taken(c)
    PROVE  Rooted'
<1>1. /\ view.fat[c] = 0 /\ view'.fat = [view.fat EXCEPT ![c] = EOC]
      /\ view'.dir = view.dir /\ arg'.clu = c /\ fil' = fil
      BY DEF Taken
<1>2. view.fat \in Fat /\ Linked(view.fat) /\ fil.start \in 0..EOC
      /\ \A f \in Files : view.dir[f].start \in 0..EOC /\ disk.dir[f].start \in 0..EOC
      BY Fields, StartFacts DEF Rooted
<1>3. /\ Linked(view'.fat) /\ Begins(view'.fat, c)
      /\ \A s \in 0..EOC : Root(view.fat, s) => Root(view'.fat, s) /\ s # c
      BY <1>1, <1>2, TakeFat
<1>4. /\ \A f \in Files : /\ Root(view'.fat, view.dir[f].start) /\ view.dir[f].start # c
                          /\ Root(view'.fat, disk.dir[f].start) /\ disk.dir[f].start # c
      /\ Root(view'.fat, fil.start) /\ fil.start # c
      BY <1>2, <1>3 DEF Rooted
<1>5. New(c)'
      BY <1>1, <1>3, <1>4 DEF New
<1>6. CASE fil.size = 0 /\ pc' = "spill"
      <2>1. fil.start = 0
            BY <1>6 DEF Control
      <2> QED BY <1>1, <1>3, <1>4, <1>5, <1>6, <2>1 DEF Rooted
<1>7. CASE fil.size > 0 /\ Rear = fil.clust /\ pc' = "link"
      <2>1. /\ fil.clust \in Cluster /\ view.fat[fil.clust] # 0
            /\ view.fat[fil.clust] = EOC \/ view.fat[fil.clust] \in Cluster
            BY <1>7, EndIs
      <2>2. view.fat[fil.clust] = EOC
            BY <1>7, <2>1, ClusterFacts DEF Taken, Followed
      <2>3. fil.clust # c /\ view'.fat[fil.clust] = EOC
            BY <1>1, <1>2, <2>1, <2>2 DEF Fat
      <2> QED BY <1>1, <1>3, <1>4, <1>5, <1>7, <2>1, <2>3 DEF Rooted
<1> QED BY <1>6, <1>7 DEF Taken

LEMMA RootedLink ==
    ASSUME Typed, Control, Rooted, Lengths, Link
    PROVE  Rooted'
<1> DEFINE c == arg.clu
           d == fil.clust
<1>1. /\ pc = "link" /\ pc' = "spill" /\ d \in Cluster /\ fil.size > 0
      /\ view'.fat = [view.fat EXCEPT ![d] = c] /\ view'.dir = view.dir
      /\ UNCHANGED <<disk, fil>>
      BY LinkIs
<1>2. New(c) /\ d # c /\ view.fat[d] = EOC
      BY <1>1 DEF Rooted
<1>3. view.fat \in Fat /\ Linked(view.fat) /\ fil.start \in 0..EOC
      /\ \A f \in Files : view.dir[f].start \in 0..EOC /\ disk.dir[f].start \in 0..EOC
      BY Fields, StartFacts DEF Rooted
<1>4. /\ Linked(view'.fat)
      /\ \A s \in 0..EOC : Root(view.fat, s) /\ s # c => Root(view'.fat, s)
      BY <1>1, <1>2, <1>3, LinkFat DEF New
<1>5. /\ \A f \in Files : /\ Root(view'.fat, view.dir[f].start)
                          /\ Root(view'.fat, disk.dir[f].start)
      /\ Root(view'.fat, fil.start)
      BY <1>2, <1>3, <1>4 DEF Rooted, New
<1> QED BY <1>1, <1>4, <1>5 DEF Rooted

\* A spill, also one that fails, gives the file its first cluster.
LEMMA RootedSpill ==
    ASSUME Typed, Control, Rooted, Lengths, pc = "spill", pc' = "ready",
           disk'.fat = disk.fat, disk'.dir = disk.dir, view' = view,
           fil'.file = fil.file,
           fil'.start = IF fil.start = 0 THEN arg.clu ELSE fil.start
    PROVE  Rooted'
<1>1. CASE fil.start = 0
      <2>1. fil.size = 0
            <3>1. ~(fil.size > 0)
                  BY <1>1 DEF Lengths, Long, Reaches
            <3> QED BY <3>1, Fields
      <2>2. New(arg.clu)
            BY <1>1, <2>1 DEF Rooted
      <2> QED BY <1>1, <2>2 DEF Rooted, New, Root
<1>2. CASE fil.start # 0
      BY <1>2, RootedKept
<1> QED BY <1>1, <1>2

LEMMA RootedEntry ==
    ASSUME Typed, Control, Rooted, Entry
    PROVE  Rooted'
<1>1. /\ fil.file \in Files /\ view'.fat = view.fat /\ view'.dir[fil.file].start = fil.start
      /\ \A f \in Files \ {fil.file} : view'.dir[f] = view.dir[f]
      /\ disk' = disk /\ fil' = fil /\ pc' = "dir"
      BY EntryIs
<1>2. \A f \in Files : Root(view'.fat, view'.dir[f].start)
      BY <1>1 DEF Rooted
<1>3. \A f, g \in Files : f # g =>
          /\ view'.dir[f].start # 0 => view'.dir[f].start # view'.dir[g].start
          /\ view'.dir[f].start # 0 => view'.dir[f].start # disk'.dir[g].start
          /\ disk'.dir[f].start # 0 => disk'.dir[f].start # disk'.dir[g].start
      <2> SUFFICES ASSUME NEW f \in Files, NEW g \in Files, f # g
                   PROVE  /\ view'.dir[f].start # 0 => view'.dir[f].start # view'.dir[g].start
                          /\ view'.dir[f].start # 0 => view'.dir[f].start # disk'.dir[g].start
                          /\ disk'.dir[f].start # 0 => disk'.dir[f].start # disk'.dir[g].start
          OBVIOUS
      <2>1. CASE f = fil.file
            <3>1. fil.start # 0 => fil.start # view.dir[g].start /\ fil.start # disk.dir[g].start
                  BY <2>1 DEF Rooted
            <3> QED BY <1>1, <2>1, <3>1 DEF Rooted
      <2>2. CASE g = fil.file
            <3>1. fil.start # 0 => fil.start # view.dir[f].start /\ fil.start # disk.dir[f].start
                  BY <2>2 DEF Rooted
            <3> QED BY <1>1, <2>2, <3>1 DEF Rooted
      <2>3. CASE f # fil.file /\ g # fil.file
            BY <1>1, <2>3 DEF Rooted
      <2> QED BY <2>1, <2>2, <2>3
<1>4. fil'.start # 0 => \A f \in Files \ {fil'.file} :
          fil'.start # view'.dir[f].start /\ fil'.start # disk'.dir[f].start
      BY <1>1 DEF Rooted
<1> QED BY <1>1, <1>2, <1>3, <1>4 DEF Rooted

LEMMA RootedStep ==
    ASSUME Typed, Control, Coherent, Rooted, Lengths, Next
    PROVE  Rooted'
<1>1. CASE Flush \/ Dir
      BY <1>1, SyncIs, RootedSync
<1>2. CASE Clear
      BY <1>2, RootedClear
<1>3. CASE Free
      BY <1>3, RootedFree
<1>4. CASE Reopen \/ Seek
      <2>1. arg.file \in Files /\ fil'.file = arg.file /\ UNCHANGED <<disk, view>>
            /\ fil'.start = view.dir[arg.file].start /\ pc' = "ready"
            BY <1>4, ReopenIs, SeekIs, SeekKeeps
      <2> QED BY <2>1, RootedOpen
<1>5. CASE Find
      <2>1. CASE view.dir[arg.file].size = 0
            BY <1>5, <2>1, FindIs, RootedOpen
      <2>2. CASE view.dir[arg.file].size # 0
            BY <1>5, <2>2, FindIs, RootedKept
      <2> QED BY <2>1, <2>2
<1>6. CASE Grow
      <2>1. pc = "grow" /\ fil.bad = "no" /\ disk' = disk
            BY <1>6, GrowSplit
      <2>2. CASE Onward
            BY <2>1, <2>2 DEF Onward, Rooted
      <2>3. CASE Full
            BY <2>1, <2>3, RootedKept DEF Full
      <2>4. ASSUME NEW c \in Cluster, Taken(c) PROVE Rooted'
            BY <2>1, <2>4, RootedTaken
      <2> QED BY <1>6, <2>2, <2>3, <2>4, GrowSplit
<1>7. CASE Link
      BY <1>7, RootedLink
<1>8. CASE Spill
      BY <1>8, SpillIs, RootedSpill
<1>9. CASE Data
      BY <1>9, DataIs, RootedKept
<1>10. CASE Entry
      BY <1>10, RootedEntry
<1>11. CASE Info
      BY <1>11, InfoIs, NoTypes, RootedKept
<1>12. CASE Fail
      <2>1. /\ pc' = "ready" /\ disk' = disk /\ view' = view /\ fil'.file = fil.file
            BY <1>12, FailIs
      <2>2. CASE pc = "spill"
            BY <1>12, <2>1, <2>2, FailIs, RootedSpill
      <2>3. CASE pc # "spill"
            BY <1>12, <2>1, <2>3, FailIs, RootedKept
      <2> QED BY <2>2, <2>3
<1>13. CASE Mount \/ PowerLoss
      BY <1>13, FreshIs, NoTypes, RootedFresh
<1>14. CASE Locked
      BY <1>14, RootedKept DEF Locked, Return
<1>15. CASE Forget
      BY <1>15, NoTypes, RootedKept DEF Forget
<1>16. CASE WriteCall
      <2>1. CASE fil.size % SectorUnits # 0
            BY <1>16, <2>1, WriteIs, RootedKept
      <2>2. CASE fil.size % SectorUnits = 0
            <3>1. CASE pc' = "spill" /\ fil.start # 0 /\ arg'.clu = fil.start
                  BY <1>16, <2>2, <3>1, WriteOn DEF Rooted
            <3>2. CASE pc' = "grow"
                  BY <1>16, <2>2, <3>2, WriteOn, RootedKept
            <3> QED BY <1>16, <2>2, <3>1, <3>2, WriteOn
      <2> QED BY <2>1, <2>2
<1>17. CASE CloseCall
      <2>1. disk' = disk /\ view' = view
            BY <1>17 DEF CloseCall
      <2>2. CASE Closed
            BY <2>1, <2>2, NoTypes, RootedKept DEF Closed, Return
      <2>3. CASE pc' = "data" /\ fil' = fil
            BY <2>1, <2>3, RootedKept
      <2> QED BY <1>17, <2>2, <2>3 DEF CloseCall
<1>18. ASSUME NEW f \in Files, NEW m \in {"create", "append"}, OpenCall(f, m)
       PROVE  Rooted'
      BY <1>18, RootedKept DEF OpenCall
<1> QED BY <1>1, <1>2, <1>3, <1>4, <1>5, <1>6, <1>7, <1>8, <1>9, <1>10, <1>11, <1>12,
           <1>13, <1>14, <1>15, <1>16, <1>17, <1>18 DEF Next, Step
-----------------------------------------------------------------------------
(* Every chain is long enough.                                               *)

\* What has come to a cluster from s still does, the same way.
Grown(s) ==
    \A n : Reaches(view.fat, s, n) =>
              Reaches(view'.fat, s, n) /\ Same(view.fat, view'.fat, s, n)

LEMMA SameReaches ==
    ASSUME NEW fat, NEW new, NEW s, NEW n, Reaches(fat, s, n), Same(fat, new, s, n)
    PROVE  Reaches(new, s, n)
<1>1. n \in 0..n
      BY DEF Reaches
<1> QED BY <1>1 DEF Reaches, Same

LEMMA SameLess ==
    ASSUME NEW fat, NEW new, NEW s, NEW n \in Nat, NEW m \in Nat, n =< m,
           Same(fat, new, s, m)
    PROVE  Same(fat, new, s, n)
BY DEF Same

LEMMA SameTwice ==
    ASSUME NEW fat, NEW new, NEW old, NEW s, NEW n, Same(fat, new, s, n), Same(fat, old, s, n)
    PROVE  Same(new, old, s, n)
BY DEF Same

LEMMA SameSelf == \A fat, s, n : Same(fat, fat, s, n)
BY DEF Same

LEMMA GrownAll ==
    ASSUME NEW s, Same(view.fat, view'.fat, s, Clusters)
    PROVE  Grown(s)
<1> SUFFICES ASSUME NEW n, Reaches(view.fat, s, n)
             PROVE  Reaches(view'.fat, s, n) /\ Same(view.fat, view'.fat, s, n)
    BY DEF Grown
<1>1. n \in Nat /\ n =< Clusters /\ Clusters \in Nat
      BY ClusterFacts DEF Reaches
<1>2. Same(view.fat, view'.fat, s, n)
      BY <1>1, SameLess
<1> QED BY <1>2, SameReaches

LEMMA GrownNone == Grown(0)
BY DEF Grown, Reaches

\* The FAT changes, and nothing else.
LEMMA LengthsFat ==
    ASSUME Typed, Lengths, disk' = disk, view'.dir = view.dir, fil' = fil,
           Grown(fil.start),
           \A f \in Files : Grown(view.dir[f].start) /\ Grown(disk.dir[f].start),
           pc' = "spill" /\ fil.size > 0 =>
               arg'.clu = Walk(view'.fat, fil.start)[Idx(fil.size) + 1]
    PROVE  Lengths'
<1>1. Long(view'.fat, fil)
      BY DEF Lengths, Long, Grown
<1>2. ASSUME NEW f \in Files
      PROVE  /\ Long(view'.fat, view.dir[f]) /\ Long(view'.fat, disk.dir[f])
             /\ disk.dir[f].size > 0 =>
                   Same(view'.fat, disk.fat, disk.dir[f].start, Idx(disk.dir[f].size))
      <2>1. Long(view'.fat, view.dir[f]) /\ Long(view'.fat, disk.dir[f])
            BY DEF Lengths, Long, Grown
      <2>2. ASSUME disk.dir[f].size > 0
            PROVE  Same(view'.fat, disk.fat, disk.dir[f].start, Idx(disk.dir[f].size))
            <3>1. Reaches(view.fat, disk.dir[f].start, Idx(disk.dir[f].size))
                  BY <2>2 DEF Lengths, Long
            <3>2. Same(view.fat, view'.fat, disk.dir[f].start, Idx(disk.dir[f].size))
                  BY <3>1 DEF Grown
            <3>3. Same(view.fat, disk.fat, disk.dir[f].start, Idx(disk.dir[f].size))
                  BY <2>2 DEF Lengths
            <3> QED BY <3>2, <3>3, SameTwice
      <2> QED BY <2>1, <2>2
<1>3. fil.size > 0 => Walk(view'.fat, fil.start)[Idx(fil.size)]
                        = Walk(view.fat, fil.start)[Idx(fil.size)]
      <2> SUFFICES ASSUME fil.size > 0
                   PROVE  Walk(view'.fat, fil.start)[Idx(fil.size)]
                            = Walk(view.fat, fil.start)[Idx(fil.size)]
          OBVIOUS
      <2>1. Reaches(view.fat, fil.start, Idx(fil.size))
            BY DEF Lengths, Long
      <2>2. Same(view.fat, view'.fat, fil.start, Idx(fil.size)) /\ Idx(fil.size) \in Nat
            BY <2>1 DEF Grown, Reaches
      <2> QED BY <2>2 DEF Same
<1> QED BY <1>1, <1>2, <1>3 DEF Lengths

LEMMA LengthsKept ==
    ASSUME Lengths, disk'.fat = disk.fat, disk'.dir = disk.dir, view' = view,
           \/ fil'.start = 0 /\ fil'.size = 0
           \/ /\ fil'.start = fil.start /\ fil'.size = fil.size /\ fil'.sect = fil.sect
              /\ fil'.bad = "no" => fil.bad = "no" /\ fil'.clust = fil.clust,
           pc' = "spill" => fil'.size = 0, fil.size \in Nat
    PROVE  Lengths'
<1>1. CASE fil'.start = 0 /\ fil'.size = 0
      BY <1>1 DEF Lengths, Long
<1>2. CASE /\ fil'.start = fil.start /\ fil'.size = fil.size /\ fil'.sect = fil.sect
           /\ fil'.bad = "no" => fil.bad = "no" /\ fil'.clust = fil.clust
      <2>1. Long(view'.fat, fil')
            BY <1>2 DEF Lengths, Long
      <2>2. ~(pc' = "spill" /\ fil'.size > 0)
            BY <1>2
      <2> QED BY <1>2, <2>1, <2>2 DEF Lengths
<1> QED BY <1>1, <1>2

LEMMA LengthsOpen ==
    ASSUME Typed, Rooted, Lengths, UNCHANGED <<disk, view>>, NEW f \in Files,
           fil'.start = view.dir[f].start, fil'.size = view.dir[f].size,
           fil'.size > 0 =>
              LET end == Walk(view.fat, fil'.start)[Idx(fil'.size)] IN
              fil'.clust = end /\ (fil'.sect # 0 => fil'.sect = end),
           pc' = "ready"
    PROVE  Lengths'
<1>1. Long(view'.fat, fil')
      BY DEF Lengths, Long
<1>2. fil'.start # 0 => \A g \in Files :
          /\ view'.dir[g].start = fil'.start => view'.dir[g].size =< fil'.size
          /\ disk'.dir[g].start = fil'.start => disk'.dir[g].size =< fil'.size
      <2> SUFFICES ASSUME fil'.start # 0, NEW g \in Files
                   PROVE  /\ view.dir[g].start = fil'.start => view.dir[g].size =< fil'.size
                          /\ disk.dir[g].start = fil'.start => disk.dir[g].size =< fil'.size
          OBVIOUS
      <2>1. CASE f = g
            BY <2>1, Fields DEF Lengths
      <2>2. CASE f # g
            BY <2>2 DEF Rooted
      <2> QED BY <2>1, <2>2
<1> QED BY <1>1, <1>2 DEF Lengths

LEMMA LengthsSync ==
    ASSUME Typed, Lengths, disk'.fat = view.fat, disk'.dir = view.dir,
           UNCHANGED <<view, fil, arg>>, pc' = pc \/ pc' = "info"
    PROVE  Lengths'
<1>1. \A f \in Files : view.dir[f].size =< view.dir[f].size
      BY Fields
<1>2. \A s, n : Same(view'.fat, disk'.fat, s, n)
      BY SameSelf
<1>3. ~(pc' = "spill") \/ pc' = pc
      OBVIOUS
<1> QED BY <1>1, <1>2, <1>3 DEF Lengths

LEMMA LengthsFresh ==
    ASSUME Typed, Lengths, disk' = disk, view'.fat = disk.fat, view'.dir = disk.dir,
           fil'.start = 0, fil'.size = 0, pc' = "ready"
    PROVE  Lengths'
<1>1. \A f \in Files : disk.dir[f].size =< disk.dir[f].size
      BY Fields
<1>2. \A s, n : Same(view'.fat, disk'.fat, s, n)
      BY SameSelf
<1>3. ASSUME NEW f \in Files PROVE Long(disk.fat, disk.dir[f])
      <2> SUFFICES ASSUME disk.dir[f].size > 0
                   PROVE  Reaches(disk.fat, disk.dir[f].start, Idx(disk.dir[f].size))
          BY DEF Long
      <2>1. Reaches(view.fat, disk.dir[f].start, Idx(disk.dir[f].size))
            /\ Same(view.fat, disk.fat, disk.dir[f].start, Idx(disk.dir[f].size))
            BY DEF Lengths, Long
      <2> QED BY <2>1, SameReaches
<1> QED BY <1>1, <1>2, <1>3 DEF Lengths, Long

LEMMA LengthsClear ==
    ASSUME Typed, Control, Lengths, Clear
    PROVE  Lengths'
<1> DEFINE f == arg.file
<1>1. /\ f \in Files /\ view'.fat = view.fat /\ disk' = disk
      /\ view'.dir[f].start = 0 /\ view'.dir[f].size = 0
      /\ \A g \in Files \ {f} : view'.dir[g] = view.dir[g]
      BY ClearIs
<1>2. fil'.start = 0 /\ fil'.size = 0 /\ pc' # "spill"
      BY ClearIs, NoTypes DEF Control
<1>3. \A g \in Files :
         /\ Long(view'.fat, view'.dir[g]) /\ Long(view'.fat, disk'.dir[g])
         /\ disk'.dir[g].size > 0 =>
               Same(view'.fat, disk'.fat, disk'.dir[g].start, Idx(disk'.dir[g].size))
      <2>1. Long(view.fat, view'.dir[f])
            BY <1>1 DEF Long
      <2> QED BY <1>1, <2>1 DEF Lengths
<1>4. \A g \in Files : disk'.dir[g].start # 0 /\ disk'.dir[g].start = view'.dir[g].start =>
          disk'.dir[g].size =< view'.dir[g].size
      BY <1>1 DEF Lengths
<1> QED BY <1>2, <1>3, <1>4 DEF Lengths, Long

\* What the three updates of the FAT leave of the chains.
LEMMA FreeGrown ==
    ASSUME Typed, Control, Coherent, Rooted, Free
    PROVE  /\ Grown(fil.start)
           /\ \A f \in Files : Grown(view.dir[f].start) /\ Grown(disk.dir[f].start)
<1> DEFINE c == arg.clu
<1>1. /\ Begins(view.fat, c)
      /\ \A f \in Files : view.dir[f].start # c /\ disk.dir[f].start # c
      /\ fil.start = 0 /\ view'.fat = [view.fat EXCEPT ![c] = 0]
      BY FreeOf
<1>2. view.fat \in Fat /\ Linked(view.fat)
      /\ \A f \in Files : view.dir[f].start \in 0..EOC /\ disk.dir[f].start \in 0..EOC
      BY Fields, StartFacts DEF Rooted
<1>3. \A s \in 0..EOC : s # c => Same(view.fat, view'.fat, s, Clusters)
      BY <1>1, <1>2, FreeFat
<1>4. \A f \in Files : Grown(view.dir[f].start) /\ Grown(disk.dir[f].start)
      BY <1>1, <1>2, <1>3, GrownAll
<1> QED BY <1>1, <1>4, GrownNone

LEMMA TakenGrown ==
    ASSUME Typed, Rooted, NEW c \in Cluster, Taken(c)
    PROVE  /\ Grown(fil.start)
           /\ \A f \in Files : Grown(view.dir[f].start) /\ Grown(disk.dir[f].start)
<1>1. /\ view.fat[c] = 0 /\ view'.fat = [view.fat EXCEPT ![c] = EOC]
      BY DEF Taken
<1>2. view.fat \in Fat /\ Linked(view.fat) /\ fil.start \in 0..EOC
      /\ \A f \in Files : view.dir[f].start \in 0..EOC /\ disk.dir[f].start \in 0..EOC
      BY Fields, StartFacts DEF Rooted
<1>3. \A s \in 0..EOC : Root(view.fat, s) => Same(view.fat, view'.fat, s, Clusters)
      BY <1>1, <1>2, TakeFat
<1>4. /\ Same(view.fat, view'.fat, fil.start, Clusters)
      /\ \A f \in Files : /\ Same(view.fat, view'.fat, view.dir[f].start, Clusters)
                          /\ Same(view.fat, view'.fat, disk.dir[f].start, Clusters)
      BY <1>2, <1>3 DEF Rooted
<1>5. /\ Grown(fil.start)
      /\ \A f \in Files : Grown(view.dir[f].start) /\ Grown(disk.dir[f].start)
      BY <1>4, GrownAll
<1> QED BY <1>5

LEMMA LinkGrown ==
    ASSUME Typed, Control, Rooted, Lengths, Link
    PROVE  /\ Grown(fil.start)
           /\ \A f \in Files : Grown(view.dir[f].start) /\ Grown(disk.dir[f].start)
           /\ arg'.clu = Walk(view'.fat, fil.start)[Idx(fil.size) + 1]
<1> DEFINE c == arg.clu
           d == fil.clust
           n == Idx(fil.size)
<1>1. /\ pc = "link" /\ d \in Cluster /\ fil.size > 0 /\ d = Walk(view.fat, fil.start)[n]
      /\ view'.fat = [view.fat EXCEPT ![d] = c] /\ arg' = arg
      BY LinkIs
<1>2. Begins(view.fat, c) /\ d # c /\ view.fat[d] = EOC
      BY <1>1 DEF Rooted, New
<1>3. view.fat \in Fat /\ Linked(view.fat) /\ fil.start \in 0..EOC
      /\ \A f \in Files : view.dir[f].start \in 0..EOC /\ disk.dir[f].start \in 0..EOC
      BY Fields, StartFacts DEF Rooted
<1>4. /\ \A s \in 0..EOC, m \in 0..Clusters :
            Walk(view.fat, s)[m] \in Cluster => Same(view.fat, view'.fat, s, m)
      /\ \A s \in 0..EOC, m \in 0..(Clusters - 1) :
            Walk(view.fat, s)[m] = d => Walk(view'.fat, s)[m + 1] = c
      BY <1>1, <1>2, <1>3, LinkFat
<1>5. ASSUME NEW s \in 0..EOC PROVE Grown(s)
      <2> SUFFICES ASSUME NEW m, Reaches(view.fat, s, m)
                   PROVE  Reaches(view'.fat, s, m) /\ Same(view.fat, view'.fat, s, m)
          BY DEF Grown
      <2>1. m \in 0..Clusters /\ Walk(view.fat, s)[m] \in Cluster
            BY ClusterFacts DEF Reaches
      <2>2. Same(view.fat, view'.fat, s, m)
            BY <1>4, <2>1
      <2> QED BY <2>2, SameReaches
<1>6. n \in 0..(Clusters - 1)
      BY <1>1, EndIs
<1>7. arg'.clu = Walk(view'.fat, fil.start)[n + 1]
      BY <1>1, <1>3, <1>4, <1>6
<1>8. /\ Grown(fil.start)
      /\ \A f \in Files : Grown(view.dir[f].start) /\ Grown(disk.dir[f].start)
      BY <1>3, <1>5
<1> HIDE DEF c, d, n
<1> QED BY <1>7, <1>8 DEF n

LEMMA LengthsTable ==
    ASSUME Typed, Control, Coherent, Rooted, Lengths, disk' = disk,
           Free \/ Link \/ \E c \in Cluster : Taken(c)
    PROVE  Lengths'
<1>1. CASE Free
      <2>1. view'.dir = view.dir /\ fil' = fil /\ pc' # "spill"
            BY <1>1, FreeIs
      <2> QED BY <1>1, <2>1, FreeGrown, LengthsFat
<1>2. CASE Link
      <2>1. view'.dir = view.dir /\ fil' = fil
            BY <1>2, LinkIs
      <2> QED BY <1>2, <2>1, LinkGrown, LengthsFat
<1>3. ASSUME NEW c \in Cluster, Taken(c) PROVE Lengths'
      <2>1. view'.dir = view.dir /\ fil' = fil /\ ~(pc' = "spill" /\ fil.size > 0)
            BY <1>3 DEF Taken
      <2> QED BY <1>3, <2>1, TakenGrown, LengthsFat
<1> QED BY <1>1, <1>2, <1>3

\* Where the next unit goes when a sector is full.
LEMMA SpillTo ==
    ASSUME Typed, Control, Rooted, Lengths, pc = "spill"
    PROVE  LET s == IF fil.start = 0 THEN arg.clu ELSE fil.start
               n == Idx(fil.size + 1) IN
           /\ arg.clu \in Cluster /\ s \in Cluster /\ s \in 0..EOC /\ Begins(view.fat, s)
           /\ Reaches(view.fat, s, n) /\ Walk(view.fat, s)[n] = arg.clu
           /\ Off(fil.size + 1) = 1
           /\ fil.start = 0 => New(arg.clu) /\ fil.size = 0
           /\ fil.size > 0 => n = Idx(fil.size) + 1
<1> DEFINE s == IF fil.start = 0 THEN arg.clu ELSE fil.start
           n == Idx(fil.size + 1)
<1>1. /\ fil.size \in Nat /\ fil.size % SectorUnits = 0 /\ arg.clu \in Cluster
      /\ view.fat \in Fat /\ Linked(view.fat) /\ Clusters \in Nat \ {0}
      BY Fields, ClusterFacts DEF Control, Rooted
<1>2. Off(fil.size + 1) = 1
      BY <1>1, NextSector
<1>3. CASE fil.size = 0
      <2>1. n = 0
            BY <1>1, <1>3, NextSector
      <2>2. s = arg.clu /\ Begins(view.fat, s) /\ (fil.start = 0 => New(arg.clu))
            <3>1. CASE fil.start = 0
                  BY <1>3, <3>1 DEF Rooted, New
            <3>2. CASE fil.start # 0
                  BY <1>3, <3>2 DEF Rooted, Root
            <3> QED BY <3>1, <3>2
      <2>3. s \in Cluster /\ s \in 0..EOC /\ s # 0
            BY <1>1, <2>2, ClusterFacts
      <2> HIDE DEF s, n
      <2>4. Walk(view.fat, s)[0] = s
            BY <1>1, <2>3, WalkFacts
      <2>5. Reaches(view.fat, s, n) /\ Walk(view.fat, s)[n] = arg.clu
            BY <1>1, <2>1, <2>2, <2>3, <2>4 DEF Reaches
      <2> QED BY <1>1, <1>2, <1>3, <2>2, <2>3, <2>5 DEF s, n
<1>4. CASE fil.size > 0
      <2>1. fil.start # 0 /\ Begins(view.fat, fil.start) /\ fil.start \in 0..EOC
            /\ Idx(fil.size) \in Nat /\ Idx(fil.size) < Clusters
            BY <1>4, EndIs
      <2>2. n = Idx(fil.size) + 1 /\ s = fil.start /\ n \in 0..Clusters /\ n \in Nat
            <3>1. n = Idx(fil.size) + 1
                  BY <1>1, <1>4, NextSector
            <3> HIDE DEF n
            <3> QED BY <1>1, <2>1, <3>1
      <2>3. Walk(view.fat, fil.start)[n] = arg.clu
            BY <1>4, <2>2 DEF Lengths
      <2>4. \A m \in 0..Clusters : Walk(view.fat, fil.start)[m] \in Cluster => m < Clusters
            BY <1>1, <2>1, Ends
      <2> HIDE DEF s, n
      <2>5. n < Clusters
            BY <1>1, <2>2, <2>3, <2>4
      <2>6. Reaches(view.fat, s, n)
            BY <1>1, <2>1, <2>2, <2>3, <2>5 DEF Reaches
      <2>7. s \in Cluster
            BY <2>1, <2>2 DEF Begins
      <2> QED BY <1>1, <1>2, <1>4, <2>1, <2>2, <2>3, <2>6, <2>7 DEF s, n
<1> QED BY <1>1, <1>3, <1>4

\* The entries on the card and in the window are as they were, and the file is
\* no shorter, or it has just got its first cluster.
LEMMA Longer ==
    ASSUME Typed, Lengths, disk'.dir = disk.dir, view' = view,
           fil'.size \in Nat, fil.size =< fil'.size,
           fil'.start = fil.start \/ New(fil'.start)
    PROVE  fil'.start # 0 => \A f \in Files :
              /\ view'.dir[f].start = fil'.start => view'.dir[f].size =< fil'.size
              /\ disk'.dir[f].start = fil'.start => disk'.dir[f].size =< fil'.size
<1> SUFFICES ASSUME fil'.start # 0, NEW f \in Files
             PROVE  /\ view.dir[f].start = fil'.start => view.dir[f].size =< fil'.size
                    /\ disk.dir[f].start = fil'.start => disk.dir[f].size =< fil'.size
    OBVIOUS
<1>1. view.dir[f].size \in Nat /\ disk.dir[f].size \in Nat /\ fil.size \in Nat
      BY Fields
<1>2. CASE fil'.start = fil.start
      BY <1>1, <1>2 DEF Lengths
<1>3. CASE New(fil'.start)
      BY <1>3 DEF New
<1> QED BY <1>2, <1>3

LEMMA LengthsSpill ==
    ASSUME Typed, Control, Rooted, Lengths, Spill
    PROVE  Lengths'
<1> DEFINE s == IF fil.start = 0 THEN arg.clu ELSE fil.start
           n == Idx(fil.size + 1)
<1>1. /\ pc = "spill" /\ pc' = "ready" /\ view' = view
      /\ disk'.fat = disk.fat /\ disk'.dir = disk.dir
      /\ fil'.size = fil.size + 1 /\ fil'.start = s
      /\ fil'.clust = arg.clu /\ fil'.sect = arg.clu
      BY SpillIs
<1>2. /\ Reaches(view.fat, s, n) /\ Walk(view.fat, s)[n] = arg.clu
      /\ s = fil.start \/ New(s)
      BY <1>1, SpillTo
<1>3. fil.size \in Nat /\ fil'.size \in Nat /\ fil.size =< fil'.size
      BY <1>1, Fields
<1> HIDE DEF s
<1>4. fil'.start # 0 => \A f \in Files :
          /\ view'.dir[f].start = fil'.start => view'.dir[f].size =< fil'.size
          /\ disk'.dir[f].start = fil'.start => disk'.dir[f].size =< fil'.size
      BY <1>1, <1>2, <1>3, Longer
<1>5. Long(view'.fat, fil') /\ Walk(view'.fat, fil'.start)[Idx(fil'.size)] = arg.clu
      BY <1>1, <1>2 DEF Long
<1> HIDE DEF n
<1> QED BY <1>1, <1>4, <1>5 DEF Lengths

LEMMA LengthsFail ==
    ASSUME Typed, Control, Rooted, Lengths, Fail
    PROVE  Lengths'
<1>1. /\ pc' = "ready" /\ disk' = disk /\ view' = view
      /\ fil'.size = fil.size /\ fil'.sect = fil.sect /\ fil.size \in Nat
      BY FailIs, Fields
<1>2. CASE pc = "spill" /\ fil.start = 0
      <2>1. fil'.start = arg.clu /\ New(arg.clu) /\ fil.size = 0
            BY <1>2, FailIs, SpillTo
      <2>2. fil'.start # 0 => \A f \in Files :
                /\ view'.dir[f].start = fil'.start => view'.dir[f].size =< fil'.size
                /\ disk'.dir[f].start = fil'.start => disk'.dir[f].size =< fil'.size
            BY <1>1, <2>1, Longer
      <2> QED BY <1>1, <2>1, <2>2 DEF Lengths, Long
<1>3. CASE pc = "spill" /\ fil.start # 0
      <2>1. fil'.start = fil.start /\ fil'.bad = "write"
            BY <1>3, FailIs
      <2> QED BY <1>1, <2>1, LengthsKept
<1>4. CASE pc # "spill"
      <2>1. fil'.start = fil.start /\ fil'.clust = fil.clust
            /\ (fil'.bad = "no" => fil.bad = "no")
            BY <1>4, FailIs
      <2> QED BY <1>1, <2>1, LengthsKept
<1> QED BY <1>2, <1>3, <1>4

LEMMA LengthsWrite ==
    ASSUME Typed, Control, Rooted, Lengths, WriteCall, fil.size % SectorUnits # 0
    PROVE  Lengths'
<1>1. /\ pc = "ready" /\ fil'.size = fil.size + 1 /\ fil'.clust = fil.clust
      /\ fil'.start = fil.start /\ fil'.sect = fil.sect /\ fil'.bad = fil.bad
      /\ UNCHANGED <<pc, disk, view>>
      BY WriteIs
<1>2. fil.size \in Nat /\ fil.size > 0 /\ Idx(fil.size + 1) = Idx(fil.size)
      BY Fields, SameSector
<1>3. fil'.start # 0 => \A f \in Files :
          /\ view'.dir[f].start = fil'.start => view'.dir[f].size =< fil'.size
          /\ disk'.dir[f].start = fil'.start => disk'.dir[f].size =< fil'.size
      BY <1>1, <1>2, Longer
<1>4. Long(view'.fat, fil') /\ Idx(fil'.size) = Idx(fil.size)
      BY <1>1, <1>2 DEF Lengths, Long
<1> QED BY <1>1, <1>2, <1>3, <1>4 DEF Lengths

LEMMA LengthsEntry ==
    ASSUME Typed, Control, Lengths, Entry
    PROVE  Lengths'
<1> DEFINE f == fil.file
<1>1. /\ f \in Files /\ view'.fat = view.fat /\ pc' = "dir"
      /\ view'.dir[f].start = fil.start /\ view'.dir[f].size = fil.size
      /\ \A g \in Files \ {f} : view'.dir[g] = view.dir[g]
      /\ disk' = disk /\ fil' = fil
      BY EntryIs
<1>2. Long(view'.fat, view'.dir[f])
      BY <1>1 DEF Lengths, Long
<1>3. \A g \in Files : Long(view'.fat, view'.dir[g])
      BY <1>1, <1>2 DEF Lengths
<1>4. \A g \in Files : disk'.dir[g].start # 0 /\ disk'.dir[g].start = view'.dir[g].start =>
          disk'.dir[g].size =< view'.dir[g].size
      BY <1>1 DEF Lengths
<1>5. fil'.start # 0 => \A g \in Files :
          /\ view'.dir[g].start = fil'.start => view'.dir[g].size =< fil'.size
          /\ disk'.dir[g].start = fil'.start => disk'.dir[g].size =< fil'.size
      <2>1. fil.size \in Nat
            BY Fields
      <2>2. fil.start # 0 => \A g \in Files :
                /\ view.dir[g].start = fil.start => view.dir[g].size =< fil.size
                /\ disk.dir[g].start = fil.start => disk.dir[g].size =< fil.size
            BY DEF Lengths
      <2> QED BY <1>1, <2>1, <2>2
<1> QED BY <1>1, <1>3, <1>4, <1>5 DEF Lengths

LEMMA LengthsStep ==
    ASSUME Typed, Control, Coherent, Rooted, Lengths, Next
    PROVE  Lengths'
<1>0. fil.size \in Nat /\ NoFile.start = 0 /\ NoFile.size = 0
      BY Fields, NoTypes
<1>1. CASE Flush \/ Dir
      BY <1>1, SyncIs, LengthsSync
<1>2. CASE Clear
      BY <1>2, LengthsClear
<1>3. CASE Free
      BY <1>3, FreeIs, LengthsTable
<1>4. CASE Reopen
      BY <1>4, ReopenIs, LengthsOpen
<1>5. CASE Find
      <2>1. CASE view.dir[arg.file].size = 0
            BY <1>5, <2>1, FindIs, LengthsOpen
      <2>2. CASE view.dir[arg.file].size # 0
            BY <1>0, <1>5, <2>2, FindIs, LengthsKept
      <2> QED BY <2>1, <2>2
<1>6. CASE Seek
      <2> DEFINE e == view.dir[arg.file]
                 c == Walk(view.fat, e.start)[Idx(e.size)]
      <2>1. arg.file \in Files /\ pc' = "ready" /\ UNCHANGED <<disk, view>>
            BY <1>6, SeekKeeps
      <2>2. /\ fil'.start = e.start /\ fil'.size = e.size /\ fil'.clust = c
            /\ fil'.sect = 0 \/ fil'.sect = c
            BY <1>6, SeekIs
      <2> QED BY <2>1, <2>2, LengthsOpen
<1>7. CASE Grow
      <2>1. pc = "grow" /\ fil.bad = "no" /\ disk' = disk
            BY <1>7, GrowSplit
      <2>2. CASE Onward
            <3> DEFINE n == Idx(fil.size)
            <3>1. /\ fil.size > 0 /\ Rear = fil.clust /\ Rear \in Cluster /\ view' = view
                  /\ fil' = fil /\ arg'.clu = view.fat[Rear]
                  BY <2>2 DEF Onward
            <3>2. /\ fil.clust = Walk(view.fat, fil.start)[n] /\ n \in Nat /\ n < Clusters
                  /\ fil.start \in 0..EOC /\ view.fat \in Fat
                  BY <2>1, <3>1, EndIs, Fields
            <3>3. Walk(view.fat, fil.start)[n + 1] = arg'.clu
                  <4> HIDE DEF n
                  <4>1. Walk(view.fat, fil.start)[n + 1]
                            = Follow(view.fat, Walk(view.fat, fil.start)[n])
                        BY <3>2, WalkNext
                  <4> QED BY <3>1, <3>2, <4>1 DEF Follow
            <3> QED BY <2>1, <3>1, <3>3 DEF Lengths
      <2>3. CASE Full
            BY <1>0, <2>1, <2>3, LengthsKept DEF Full
      <2>4. ASSUME NEW c \in Cluster, Taken(c) PROVE Lengths'
            BY <2>1, <2>4, LengthsTable
      <2> QED BY <1>7, <2>2, <2>3, <2>4, GrowSplit
<1>8. CASE Link
      BY <1>8, LinkIs, LengthsTable
<1>9. CASE Spill
      BY <1>9, LengthsSpill
<1>10. CASE Data
      BY <1>0, <1>10, DataIs, LengthsKept
<1>11. CASE Entry
      BY <1>11, LengthsEntry
<1>12. CASE Info
      BY <1>0, <1>12, InfoIs, LengthsKept
<1>13. CASE Fail
      BY <1>13, LengthsFail
<1>14. CASE Mount \/ PowerLoss
      BY <1>0, <1>14, FreshIs, LengthsFresh
<1>15. CASE Locked
      BY <1>0, <1>15, LengthsKept DEF Locked, Return
<1>16. CASE Forget
      BY <1>0, <1>16, LengthsKept DEF Forget
<1>17. CASE WriteCall
      <2>1. CASE fil.size % SectorUnits # 0
            BY <1>17, <2>1, LengthsWrite
      <2>2. CASE fil.size % SectorUnits = 0
            BY <1>0, <1>17, <2>2, WriteOn, LengthsKept
      <2> QED BY <2>1, <2>2
<1>18. CASE CloseCall
      <2>1. disk' = disk /\ view' = view
            BY <1>18 DEF CloseCall
      <2>2. CASE Closed
            BY <1>0, <2>1, <2>2, LengthsKept DEF Closed, Return
      <2>3. CASE pc' = "data" /\ fil' = fil
            BY <1>0, <2>1, <2>3, LengthsKept
      <2> QED BY <1>18, <2>2, <2>3 DEF CloseCall
<1>19. ASSUME NEW f \in Files, NEW m \in {"create", "append"}, OpenCall(f, m)
       PROVE  Lengths'
      BY <1>0, <1>19, LengthsKept DEF OpenCall
<1> QED BY <1>1, <1>2, <1>3, <1>4, <1>5, <1>6, <1>7, <1>8, <1>9, <1>10, <1>11, <1>12,
           <1>13, <1>14, <1>15, <1>16, <1>17, <1>18, <1>19 DEF Next, Step
-----------------------------------------------------------------------------
(* The text of the open file.                                                *)

LEMMA TextKept ==
    ASSUME TextInv, disk'.data = disk.data, disk'.dir = disk.dir, view' = view,
           \/ fil'.start = 0 /\ fil'.size = 0
           \/ /\ fil'.start = fil.start /\ fil'.size = fil.size /\ fil'.sect = fil.sect
              /\ fil'.buf = fil.buf /\ fil'.dirty = fil.dirty /\ fil'.text = fil.text,
           pc' \notin {"dir", "info"}
    PROVE  TextInv'
<1>1. CASE fil'.start = 0 /\ fil'.size = 0
      BY <1>1 DEF TextInv
<1>2. CASE /\ fil'.start = fil.start /\ fil'.size = fil.size /\ fil'.sect = fil.sect
           /\ fil'.buf = fil.buf /\ fil'.dirty = fil.dirty /\ fil'.text = fil.text
      BY <1>2 DEF TextInv
<1> QED BY <1>1, <1>2

LEMMA TextNone ==
    ASSUME fil'.start = 0, fil'.size = 0, pc' \notin {"dir", "info"}
    PROVE  TextInv'
BY DEF TextInv

LEMMA TextSync ==
    ASSUME TextInv, disk'.data = disk.data, disk'.dir = view.dir, view' = view, fil' = fil,
           pc' = pc \/ (pc = "dir" /\ pc' = "info")
    PROVE  TextInv'
BY DEF TextInv

\* An entry is no longer than the text.
LEMMA TextEntries ==
    ASSUME Typed', Lengths',
           \A p \in 1..fil'.size :
              Piece(view'.fat, disk'.data, fil'.start, p) = fil'.text[p]
    PROVE  fil'.start # 0 => \A f \in Files :
              /\ view'.dir[f].start = fil'.start => \A p \in 1..view'.dir[f].size :
                    Piece(view'.fat, disk'.data, fil'.start, p) = fil'.text[p]
              /\ disk'.dir[f].start = fil'.start => \A p \in 1..disk'.dir[f].size :
                    Piece(view'.fat, disk'.data, fil'.start, p) = fil'.text[p]
<1> SUFFICES ASSUME fil'.start # 0, NEW f \in Files
             PROVE  /\ view'.dir[f].start = fil'.start => \A p \in 1..view'.dir[f].size :
                          Piece(view'.fat, disk'.data, fil'.start, p) = fil'.text[p]
                    /\ disk'.dir[f].start = fil'.start => \A p \in 1..disk'.dir[f].size :
                          Piece(view'.fat, disk'.data, fil'.start, p) = fil'.text[p]
    OBVIOUS
<1>1. /\ view'.dir[f].start = fil'.start => view'.dir[f].size =< fil'.size
      /\ disk'.dir[f].start = fil'.start => disk'.dir[f].size =< fil'.size
      BY DEF Lengths
<1>2. /\ view' \in Views /\ disk' \in Volumes /\ fil' \in Objects
      BY DEF Typed
<1>3. view'.dir[f].size \in Nat /\ disk'.dir[f].size \in Nat /\ fil'.size \in Nat
      BY <1>2 DEF Views, Volumes, Objects, Directories, Entries
<1>4. \A k \in Nat : k =< fil'.size => \A p \in 1..k : p \in 1..fil'.size
      BY <1>3
<1> QED BY <1>1, <1>3, <1>4

\* The buffer is the sector in which the file ends.
LEMMA BackedText ==
    ASSUME Typed, Control, Rooted, Lengths, TextInv
    PROVE  \A p \in 1..fil.size : Piece(view.fat, Backed, fil.start, p) = fil.text[p]
<1> SUFFICES ASSUME NEW p \in 1..fil.size
             PROVE  Piece(view.fat, Backed, fil.start, p) = fil.text[p]
    OBVIOUS
<1>1. fil.size \in Nat /\ fil.size > 0 /\ view.fat \in Fat /\ disk.data \in [Cluster -> Sector]
      BY Fields
<1> DEFINE n == Idx(fil.size)
           i == Idx(p)
           s == fil.start
<1>2. CASE ~fil.dirty
      BY <1>2 DEF TextInv, Backed
<1>3. CASE fil.dirty
      <2>1. /\ s \in 0..EOC /\ Begins(view.fat, s) /\ n < Clusters /\ n \in 0..Clusters
            /\ fil.sect # 0 /\ fil.sect = Walk(view.fat, s)[n] /\ fil.sect \in Cluster
            BY <1>1, <1>3, EndIs DEF Control
      <2>2. Piece(view.fat, Backed, s, p) =
               IF Walk(view.fat, s)[i] = fil.sect THEN fil.buf[Off(p)]
               ELSE Piece(view.fat, disk.data, s, p)
            BY <1>1, <1>3, <2>1, WrittenPiece DEF Backed
      <2>3. CASE Walk(view.fat, s)[i] = fil.sect
            <3>1. i \in Nat /\ i =< n
                  BY <1>1, Sectors
            <3>2. i \in 0..Clusters /\ Linked(view.fat)
                  <4>1. Clusters \in Nat
                        BY ClusterFacts
                  <4> HIDE DEF i, n
                  <4> QED BY <2>1, <3>1, <4>1 DEF Rooted
            <3> HIDE DEF i, n, s
            <3>3. i = n
                  <4>1. \A a, b \in 0..Clusters :
                            Walk(view.fat, s)[a] = Walk(view.fat, s)[b]
                              /\ Walk(view.fat, s)[a] \in Cluster => s = s /\ a = b
                        BY <1>1, <2>1, <3>2, Apart
                  <4>2. n \in 0..Clusters /\ Walk(view.fat, s)[i] = Walk(view.fat, s)[n]
                        /\ Walk(view.fat, s)[i] \in Cluster
                        BY <2>1, <2>3 
                  <4> QED BY <3>2, <4>1, <4>2
            <3> QED BY <2>1, <2>2, <2>3, <3>3 DEF TextInv, i, n, s
      <2>4. CASE Walk(view.fat, s)[i] # fil.sect
            BY <2>2, <2>4 DEF TextInv
      <2> QED BY <2>3, <2>4
<1> QED BY <1>2, <1>3

\* The FAT changes, and nothing else.
LEMMA TextFat ==
    ASSUME Typed, Lengths, TextInv, disk' = disk, view'.dir = view.dir, fil' = fil,
           Grown(fil.start), pc' \notin {"dir", "info"}
    PROVE  TextInv'
<1>1. ASSUME NEW p \in 1..fil.size
      PROVE  /\ Walk(view'.fat, fil.start)[Idx(p)] = Walk(view.fat, fil.start)[Idx(p)]
             /\ Piece(view'.fat, disk.data, fil.start, p) = Piece(view.fat, disk.data, fil.start, p)
      <2>1. fil.size \in Nat /\ fil.size > 0 /\ p \in Nat \ {0}
            BY Fields
      <2>2. Reaches(view.fat, fil.start, Idx(fil.size))
            BY <2>1 DEF Lengths, Long
      <2>3. Same(view.fat, view'.fat, fil.start, Idx(fil.size)) /\ Idx(fil.size) \in Nat
            BY <2>2 DEF Grown, Reaches
      <2>4. Idx(p) \in Nat /\ Idx(p) =< Idx(fil.size)
            BY <2>1, Sectors
      <2>5. Idx(p) \in 0..Idx(fil.size)
            BY <2>3, <2>4
      <2> QED BY <2>1, <2>3, <2>4, <2>5, SamePiece DEF Same
<1>2. \A p \in 1..fil.size :
          (fil.dirty => Walk(view'.fat, fil.start)[Idx(p)] # fil.sect) =>
             Piece(view'.fat, disk.data, fil.start, p) = fil.text[p]
      BY <1>1 DEF TextInv
<1>3. ASSUME fil.start # 0, NEW f \in Files
      PROVE  /\ view.dir[f].start = fil.start => \A p \in 1..view.dir[f].size :
                    Piece(view'.fat, disk.data, fil.start, p) = fil.text[p]
             /\ disk.dir[f].start = fil.start => \A p \in 1..disk.dir[f].size :
                    Piece(view'.fat, disk.data, fil.start, p) = fil.text[p]
      <2>1. /\ view.dir[f].start = fil.start => view.dir[f].size =< fil.size
            /\ disk.dir[f].start = fil.start => disk.dir[f].size =< fil.size
            BY <1>3 DEF Lengths
      <2>2. view.dir[f].size \in Nat /\ disk.dir[f].size \in Nat /\ fil.size \in Nat
            BY Fields
      <2>3. \A k \in Nat : k =< fil.size => \A p \in 1..k : p \in 1..fil.size
            BY <2>2
      <2>4. \A p \in 1..fil.size :
               Piece(view'.fat, disk.data, fil.start, p) = Piece(view.fat, disk.data, fil.start, p)
            BY <1>1
      <2>5. /\ view.dir[f].start = fil.start => \A p \in 1..view.dir[f].size :
                    Piece(view.fat, disk.data, fil.start, p) = fil.text[p]
            /\ disk.dir[f].start = fil.start => \A p \in 1..disk.dir[f].size :
                    Piece(view.fat, disk.data, fil.start, p) = fil.text[p]
            BY <1>3 DEF TextInv
      <2> QED BY <2>1, <2>2, <2>3, <2>4, <2>5
<1> QED BY <1>2, <1>3 DEF TextInv

LEMMA TextFail ==
    ASSUME Typed, Control, Rooted, Lengths, TextInv, Fail
    PROVE  TextInv'
<1>1. /\ pc' = "ready" /\ disk' = disk /\ view' = view /\ fil'.dirty = fil.dirty
      /\ fil'.size = fil.size /\ fil'.sect = fil.sect /\ fil'.buf = fil.buf
      /\ fil'.text = fil.text
      BY FailIs
<1>2. CASE pc = "spill" /\ fil.start = 0
      <2>1. fil'.start = arg.clu /\ New(arg.clu) /\ fil.size = 0
            BY <1>2, FailIs, SpillTo
      <2>2. \A f \in Files : view.dir[f].start # arg.clu /\ disk.dir[f].start # arg.clu
            BY <2>1 DEF New
      <2> QED BY <1>1, <2>1, <2>2 DEF TextInv
<1>3. CASE ~(pc = "spill" /\ fil.start = 0)
      <2>1. fil'.start = fil.start
            BY <1>3, FailIs
      <2> QED BY <1>1, <2>1, TextKept
<1> QED BY <1>2, <1>3

\* An empty file.
LEMMA TextEmpty ==
    ASSUME Typed', Lengths', fil'.size = 0, pc' = "ready"
    PROVE  TextInv'
<1>1. \A p \in 1..fil'.size : FALSE
      OBVIOUS
<1>2. \A p \in 1..fil'.size :
          Piece(view'.fat, disk'.data, fil'.start, p) = fil'.text[p]
      BY <1>1
<1> QED BY <1>1, <1>2, TextEntries DEF TextInv

LEMMA TextSeek ==
    ASSUME Typed, Control, Lengths, Seek, Typed', Lengths'
    PROVE  TextInv'
<1> DEFINE e == view.dir[arg.file]
           c == Walk(view.fat, e.start)[Idx(e.size)]
           part == e.size % SectorUnits # 0
<1>1. /\ pc' = "ready" /\ view' = view /\ disk' = disk
      BY SeekKeeps
<1>2. /\ c \in Cluster /\ e.size > 0
      /\ fil'.start = e.start /\ fil'.size = e.size
      /\ fil'.sect = IF part THEN c ELSE 0
      /\ fil'.buf = IF part THEN disk.data[c] ELSE Blank
      /\ ~fil'.dirty /\ fil'.text = Text(e, view.fat, disk.data)
      BY SeekIs
<1>3. \A p \in 1..fil'.size :
          Piece(view'.fat, disk'.data, fil'.start, p) = fil'.text[p]
      BY <1>1, <1>2, TextIs
<1>4. fil'.sect # 0 => \A p \in 1..fil'.size :
          Idx(p) = Idx(fil'.size) => fil'.buf[Off(p)] = fil'.text[p]
      <2> SUFFICES ASSUME fil'.sect # 0, NEW p \in 1..fil'.size, Idx(p) = Idx(fil'.size)
                   PROVE  fil'.buf[Off(p)] = fil'.text[p]
          OBVIOUS
      <2>1. part /\ fil'.buf = disk.data[c]
            BY <1>2
      <2>2. Walk(view.fat, e.start)[Idx(p)] = c
            BY <1>2
      <2>3. Piece(view.fat, disk.data, e.start, p) = disk.data[c][Off(p)]
            BY <1>2, <2>2 DEF Piece, At
      <2> QED BY <1>1, <1>2, <1>3, <2>1, <2>3
<1> QED BY <1>1, <1>3, <1>4, TextEntries DEF TextInv

\* What mem_cpy leaves in the buffer.
LEMMA IntoIs ==
    ASSUME Typed, NEW i \in 1..SectorUnits, NEW u
    PROVE  /\ i = (fil.size % SectorUnits) + 1 => Into(fil.buf, u)[i] = u
           /\ i < (fil.size % SectorUnits) + 1 => Into(fil.buf, u)[i] = fil.buf[i]
<1>1. fil.size % SectorUnits \in Nat
      <2>1. fil.size \in Nat
            BY Fields
      <2>2. fil.size % SectorUnits \in 0..(SectorUnits - 1)
            BY <2>1, Division
      <2> QED BY <2>2
<1> QED BY <1>1 DEF Into

LEMMA AppendIs ==
    ASSUME Typed, NEW u
    PROVE  /\ \A p \in 1..fil.size : Append(fil.text, u)[p] = fil.text[p]
           /\ Append(fil.text, u)[fil.size + 1] = u
<1>1. fil.text \in Seq(Nat) /\ Len(fil.text) = fil.size
      BY Fields DEF Typed
<1> QED BY <1>1

\* The entries have none of the new unit.
LEMMA TextOlder ==
    ASSUME Typed, Lengths, disk'.dir = disk.dir, view' = view, fil'.start = fil.start,
           \A p \in 1..fil.size : fil'.text[p] = fil.text[p],
           \A p \in 1..fil.size, f \in Files :
              (view.dir[f].start = fil.start /\ p =< view.dir[f].size)
                 \/ (disk.dir[f].start = fil.start /\ p =< disk.dir[f].size)
              => Piece(view.fat, disk'.data, fil.start, p) = fil.text[p]
    PROVE  fil'.start # 0 => \A f \in Files :
              /\ view'.dir[f].start = fil'.start => \A p \in 1..view'.dir[f].size :
                    Piece(view'.fat, disk'.data, fil'.start, p) = fil'.text[p]
              /\ disk'.dir[f].start = fil'.start => \A p \in 1..disk'.dir[f].size :
                    Piece(view'.fat, disk'.data, fil'.start, p) = fil'.text[p]
<1> SUFFICES ASSUME fil.start # 0, NEW f \in Files
             PROVE  /\ view.dir[f].start = fil.start => \A p \in 1..view.dir[f].size :
                          Piece(view.fat, disk'.data, fil.start, p) = fil'.text[p]
                    /\ disk.dir[f].start = fil.start => \A p \in 1..disk.dir[f].size :
                          Piece(view.fat, disk'.data, fil.start, p) = fil'.text[p]
    OBVIOUS
<1>1. /\ view.dir[f].start = fil.start => view.dir[f].size =< fil.size
      /\ disk.dir[f].start = fil.start => disk.dir[f].size =< fil.size
      BY DEF Lengths
<1>2. view.dir[f].size \in Nat /\ disk.dir[f].size \in Nat /\ fil.size \in Nat
      BY Fields
<1>3. \A k \in Nat : k =< fil.size => \A p \in 1..k : p \in 1..fil.size /\ p =< k
      BY <1>2
<1> QED BY <1>1, <1>2, <1>3

LEMMA TextWrite ==
    ASSUME Typed, Control, Rooted, Lengths, TextInv, WriteCall,
           fil.size % SectorUnits # 0
    PROVE  TextInv'
<1> DEFINE q == fil.size
<1>1. /\ pc' = "ready" /\ fil'.size = q + 1 /\ fil'.start = fil.start
      /\ fil'.sect = fil.sect /\ fil'.buf = Into(fil.buf, opens) /\ fil'.dirty
      /\ fil'.text = Append(fil.text, opens) /\ disk' = disk /\ view' = view
      BY WriteIs
<1>2. /\ q \in Nat /\ q > 0 /\ Idx(q + 1) = Idx(q)
      /\ Off(q + 1) = (q % SectorUnits) + 1 /\ Off(q) = q % SectorUnits
      BY Fields, SameSector
<1>3. /\ \A p \in 1..q : fil'.text[p] = fil.text[p]
      /\ fil'.text[q + 1] = opens
      <2>1. /\ \A p \in 1..fil.size : Append(fil.text, opens)[p] = fil.text[p]
            /\ Append(fil.text, opens)[fil.size + 1] = opens
            BY AppendIs
      <2>2. fil'.text = Append(fil.text, opens)
            BY <1>1
      <2> QED BY <2>1, <2>2
<1>4. fil.sect # 0 /\ fil.sect = Walk(view.fat, fil.start)[Idx(q)]
      BY <1>2, EndIs DEF Control
<1>5. \A p \in 1..(q + 1) : p \in 1..q \/ p = q + 1
      BY <1>2
<1>6. \A p \in 1..fil'.size : Walk(view'.fat, fil'.start)[Idx(p)] # fil'.sect =>
          Piece(view'.fat, disk'.data, fil'.start, p) = fil'.text[p]
      <2> SUFFICES ASSUME NEW p \in 1..(q + 1),
                          Walk(view.fat, fil.start)[Idx(p)] # fil.sect
                   PROVE  Piece(view.fat, disk.data, fil.start, p) = fil'.text[p]
          BY <1>1
      <2>1. p # q + 1
            BY <1>2, <1>4
      <2>2. p \in 1..q
            BY <1>5, <2>1
      <2> QED BY <1>3, <2>2 DEF TextInv
<1>7. \A p \in 1..fil'.size :
          Idx(p) = Idx(fil'.size) => fil'.buf[Off(p)] = fil'.text[p]
      <2>0. fil'.size = q + 1 /\ Idx(fil'.size) = Idx(q)
            BY <1>1, <1>2
      <2> SUFFICES ASSUME NEW p \in 1..(q + 1), Idx(p) = Idx(q)
                   PROVE  fil'.buf[Off(p)] = fil'.text[p]
          BY <2>0
      <2>1. Off(p) \in 1..SectorUnits
            <3>1. p \in Nat \ {0}
                  BY <1>2
            <3> QED BY <3>1, Places
      <2>2. CASE p = q + 1
            <3>1. Off(p) = (fil.size % SectorUnits) + 1
                  BY <1>2, <2>2
            <3>2. Into(fil.buf, opens)[Off(p)] = opens
                  BY <2>1, <3>1, IntoIs
            <3> QED BY <1>1, <1>3, <2>2, <3>2
      <2>3. CASE p \in 1..q
            <3>1. Off(p) = Off(q) \/ Off(p) < Off(q)
                  BY <1>2, <2>3, Sectors
            <3>2. q % SectorUnits \in Nat /\ Off(p) \in Nat
                  BY <1>2, <2>1, Division
            <3>3. Off(p) < (q % SectorUnits) + 1
                  BY <1>2, <3>1, <3>2
            <3>4. fil'.buf[Off(p)] = fil.buf[Off(p)]
                  BY <1>1, <2>1, <3>3, IntoIs
            <3>5. fil.buf[Off(p)] = fil.text[p]
                  BY <1>4, <2>3 DEF TextInv
            <3> QED BY <1>3, <2>3, <3>4, <3>5
      <2> QED BY <1>5, <2>2, <2>3
<1>8. \A p \in 1..q, f \in Files :
         (view.dir[f].start = fil.start /\ p =< view.dir[f].size)
            \/ (disk.dir[f].start = fil.start /\ p =< disk.dir[f].size)
         => Piece(view.fat, disk.data, fil.start, p) = fil.text[p]
      <2> SUFFICES ASSUME NEW p \in 1..q, NEW f \in Files,
                          (view.dir[f].start = fil.start /\ p =< view.dir[f].size)
                             \/ (disk.dir[f].start = fil.start /\ p =< disk.dir[f].size)
                   PROVE  Piece(view.fat, disk.data, fil.start, p) = fil.text[p]
          OBVIOUS
      <2>1. fil.start # 0
            BY <1>2, EndIs
      <2>2. p =< view.dir[f].size => p \in 1..view.dir[f].size
            BY Fields
      <2>3. p =< disk.dir[f].size => p \in 1..disk.dir[f].size
            BY Fields
      <2> QED BY <2>1, <2>2, <2>3 DEF TextInv
<1>9. fil'.start # 0 => \A f \in Files :
          /\ view'.dir[f].start = fil'.start => \A p \in 1..view'.dir[f].size :
                Piece(view'.fat, disk'.data, fil'.start, p) = fil'.text[p]
          /\ disk'.dir[f].start = fil'.start => \A p \in 1..disk'.dir[f].size :
                Piece(view'.fat, disk'.data, fil'.start, p) = fil'.text[p]
      BY <1>1, <1>3, <1>8, TextOlder
<1> QED BY <1>1, <1>6, <1>7, <1>9 DEF TextInv

LEMMA TextSpill ==
    ASSUME Typed, Control, Rooted, Lengths, TextInv, Spill
    PROVE  TextInv'
<1> DEFINE q == fil.size
           s == IF fil.start = 0 THEN arg.clu ELSE fil.start
           n == Idx(q + 1)
<1>1. /\ pc = "spill" /\ pc' = "ready" /\ view' = view
      /\ disk'.dir = disk.dir /\ disk'.data = Backed
      /\ fil'.size = q + 1 /\ fil'.start = s /\ fil'.sect = arg.clu
      /\ fil'.buf = Into(fil.buf, opens) /\ fil'.dirty
      /\ fil'.text = Append(fil.text, opens)
      BY SpillIs
<1>2. /\ Walk(view.fat, s)[n] = arg.clu /\ Off(q + 1) = 1
      /\ (fil.start = 0 => New(arg.clu) /\ q = 0) /\ (q > 0 => n = Idx(q) + 1)
      BY <1>1, SpillTo
<1>3. q \in Nat /\ q % SectorUnits = 0 /\ SectorUnits \in Nat \ {0}
      BY <1>1, Fields, FatAssumption DEF Control
<1>4. /\ \A p \in 1..q : fil'.text[p] = fil.text[p]
      /\ fil'.text[q + 1] = opens
      <2>1. /\ \A p \in 1..fil.size : Append(fil.text, opens)[p] = fil.text[p]
            /\ Append(fil.text, opens)[fil.size + 1] = opens
            BY AppendIs
      <2>2. fil'.text = Append(fil.text, opens)
            BY <1>1
      <2> QED BY <2>1, <2>2
<1>5. \A p \in 1..(q + 1) : p \in 1..q \/ p = q + 1
      BY <1>3
<1>6. \A p \in 1..q : Piece(view.fat, Backed, fil.start, p) = fil.text[p]
      BY BackedText
<1>7. \A p \in 1..q : fil.start = s /\ Idx(p) # n
      <2> SUFFICES ASSUME NEW p \in 1..q PROVE fil.start = s /\ Idx(p) # n
          OBVIOUS
      <2>1. q > 0 /\ Idx(p) \in Nat /\ Idx(q) \in Nat /\ Idx(p) =< Idx(q)
            BY <1>3, Sectors
      <2>2. n = Idx(q) + 1
            BY <1>2, <2>1
      <2> HIDE DEF n
      <2> QED BY <1>2, <2>1, <2>2
<1> HIDE DEF s, n
<1>8. \A p \in 1..fil'.size : Walk(view'.fat, fil'.start)[Idx(p)] # fil'.sect =>
          Piece(view'.fat, disk'.data, fil'.start, p) = fil'.text[p]
      <2> SUFFICES ASSUME NEW p \in 1..(q + 1), Walk(view.fat, s)[Idx(p)] # arg.clu
                   PROVE  Piece(view.fat, Backed, s, p) = fil'.text[p]
          BY <1>1
      <2>1. p # q + 1
            BY <1>2 DEF n
      <2>2. p \in 1..q
            BY <1>5, <2>1
      <2> QED BY <1>4, <1>6, <1>7, <2>2
<1>9. \A p \in 1..fil'.size :
          Idx(p) = Idx(fil'.size) => fil'.buf[Off(p)] = fil'.text[p]
      <2> SUFFICES ASSUME NEW p \in 1..(q + 1), Idx(p) = n
                   PROVE  fil'.buf[Off(p)] = fil'.text[p]
          BY <1>1 DEF n
      <2>1. p = q + 1
            BY <1>5, <1>7
      <2>2. 1 \in 1..SectorUnits /\ 1 = (q % SectorUnits) + 1
            BY <1>3
      <2>3. Into(fil.buf, opens)[1] = opens
            BY <2>2, IntoIs
      <2> QED BY <1>1, <1>2, <1>4, <2>1, <2>3
<1>10. fil'.start # 0 => \A f \in Files :
          /\ view'.dir[f].start = fil'.start => \A p \in 1..view'.dir[f].size :
                Piece(view'.fat, disk'.data, fil'.start, p) = fil'.text[p]
          /\ disk'.dir[f].start = fil'.start => \A p \in 1..disk'.dir[f].size :
                Piece(view'.fat, disk'.data, fil'.start, p) = fil'.text[p]
      <2>1. CASE fil.start = 0
            BY <1>1, <1>2, <2>1 DEF New, s
      <2>2. CASE fil.start # 0
            <3>1. fil'.start = fil.start
                  BY <1>1, <2>2 DEF s
            <3> QED BY <1>1, <1>4, <1>6, <3>1, TextOlder
      <2> QED BY <2>1, <2>2
<1> QED BY <1>1, <1>8, <1>9, <1>10 DEF TextInv

LEMMA TextData ==
    ASSUME Typed, Control, Rooted, Lengths, TextInv, Data, Typed', Lengths'
    PROVE  TextInv'
<1>1. /\ pc' = "entry" /\ view' = view /\ disk'.data = Backed
      /\ fil'.size = fil.size /\ fil'.start = fil.start /\ fil'.sect = fil.sect
      /\ fil'.buf = fil.buf /\ fil'.text = fil.text
      BY DataIs
<1>2. \A p \in 1..fil'.size :
          Piece(view'.fat, disk'.data, fil'.start, p) = fil'.text[p]
      BY <1>1, BackedText
<1> QED BY <1>1, <1>2, TextEntries DEF TextInv

LEMMA TextEntry ==
    ASSUME Typed, Control, TextInv, Entry, Typed', Lengths'
    PROVE  TextInv'
<1>1. /\ pc = "entry" /\ view'.fat = view.fat /\ disk' = disk /\ fil' = fil /\ pc' = "dir"
      /\ view'.dir[fil.file] = [there |-> TRUE, start |-> fil.start, size |-> fil.size]
      BY EntryIs
<1>2. \A p \in 1..fil'.size :
          Piece(view'.fat, disk'.data, fil'.start, p) = fil'.text[p]
      BY <1>1 DEF TextInv, Control
<1> QED BY <1>1, <1>2, TextEntries DEF TextInv

LEMMA TextStep ==
    ASSUME Typed, Control, Coherent, Rooted, Lengths, TextInv, Typed', Lengths', Next
    PROVE  TextInv'
<1>0. NoFile.start = 0 /\ NoFile.size = 0
      BY NoTypes
<1>1. CASE Flush \/ Dir
      <2>1. pc' = pc \/ (pc = "dir" /\ pc' = "info")
            BY <1>1 DEF Flush, Dir
      <2> QED BY <1>1, <2>1, SyncIs, TextSync
<1>2. CASE Clear
      <2>1. fil'.start = 0 /\ fil'.size = 0 /\ pc' \notin {"dir", "info"}
            BY <1>0, <1>2, ClearIs DEF Control
      <2> QED BY <2>1, TextNone
<1>3. CASE Free
      <2>1. ~IsOpen /\ fil' = fil /\ pc' \notin {"dir", "info"}
            BY <1>3, FreeIs
      <2> QED BY <1>0, <2>1, TextNone DEF Control
<1>4. CASE Reopen
      BY <1>4, ReopenIs, TextEmpty
<1>5. CASE Find
      <2>1. CASE view.dir[arg.file].size = 0
            BY <1>5, <2>1, FindIs, TextEmpty
      <2>2. CASE view.dir[arg.file].size # 0
            BY <1>5, <2>2, FindIs, TextKept
      <2> QED BY <2>1, <2>2
<1>6. CASE Seek
      BY <1>6, TextSeek
<1>7. CASE Grow
      <2>1. disk' = disk
            BY <1>7, GrowSplit
      <2>2. CASE Onward
            BY <2>1, <2>2, TextKept DEF Onward
      <2>3. CASE Full
            BY <2>1, <2>3, TextKept DEF Full
      <2>4. ASSUME NEW c \in Cluster, Taken(c) PROVE TextInv'
            <3>1. view'.dir = view.dir /\ fil' = fil /\ pc' \notin {"dir", "info"}
                  BY <2>4 DEF Taken
            <3> QED BY <2>1, <2>4, <3>1, TakenGrown, TextFat
      <2> QED BY <1>7, <2>2, <2>3, <2>4, GrowSplit
<1>8. CASE Link
      <2>1. view'.dir = view.dir /\ pc' = "spill" /\ UNCHANGED <<disk, fil>>
            BY <1>8, LinkIs
      <2> QED BY <1>8, <2>1, LinkGrown, TextFat
<1>9. CASE Spill
      BY <1>9, TextSpill
<1>10. CASE Data
      BY <1>10, TextData
<1>11. CASE Entry
      BY <1>11, TextEntry
<1>12. CASE Info
      BY <1>0, <1>12, InfoIs, TextNone
<1>13. CASE Fail
      BY <1>13, TextFail
<1>14. CASE Mount \/ PowerLoss
      BY <1>0, <1>14, FreshIs, TextNone
<1>15. CASE Locked
      BY <1>15, TextKept DEF Locked, Return
<1>16. CASE Forget
      BY <1>0, <1>16, TextNone DEF Forget
<1>17. CASE WriteCall
      <2>1. CASE fil.size % SectorUnits # 0
            BY <1>17, <2>1, TextWrite
      <2>2. CASE fil.size % SectorUnits = 0
            BY <1>17, <2>2, WriteOn, TextKept
      <2> QED BY <2>1, <2>2
<1>18. CASE CloseCall
      <2>1. disk' = disk /\ view' = view
            BY <1>18 DEF CloseCall
      <2>2. CASE Closed
            BY <1>0, <2>2, TextNone DEF Closed, Return
      <2>3. CASE pc' = "data" /\ fil' = fil
            BY <2>1, <2>3, TextKept
      <2> QED BY <1>18, <2>2, <2>3 DEF CloseCall
<1>19. ASSUME NEW f \in Files, NEW m \in {"create", "append"}, OpenCall(f, m)
       PROVE  TextInv'
      BY <1>19, TextKept DEF OpenCall
<1> QED BY <1>1, <1>2, <1>3, <1>4, <1>5, <1>6, <1>7, <1>8, <1>9, <1>10, <1>11, <1>12,
           <1>13, <1>14, <1>15, <1>16, <1>17, <1>18, <1>19 DEF Next, Step
-----------------------------------------------------------------------------
(* The invariant.                                                            *)

LEMMA InitInv == Init => Inv
<1> SUFFICES ASSUME Init PROVE Inv
    OBVIOUS
<1>1. /\ disk.fat = [c \in Cluster |-> 0] /\ disk.dir = [f \in Files |-> NoEntry]
      /\ disk.data = [c \in Cluster |-> Blank] /\ disk.free = Clusters /\ disk.last = 0
      /\ view = [fat |-> disk.fat, dir |-> disk.dir]
      /\ view.fat = disk.fat /\ view.dir = disk.dir
      /\ win = [at |-> NoSector, dirty |-> FALSE] /\ win.dirty = FALSE
      /\ fil = NoFile /\ pc = "ready" /\ arg = NoArg
      BY DEF Init
<1>2. \A c \in Cluster : view.fat[c] = 0
      BY <1>1
<1>3. \A f \in Files : view.dir[f].start = 0 /\ view.dir[f].size = 0
      BY <1>1, NoTypes
<1>4. /\ fil.file = Nobody /\ fil.size = 0 /\ fil.start = 0 /\ fil.sect = 0
      /\ ~fil.dirty /\ 0 % SectorUnits = 0
      BY <1>1, NoTypes, FatAssumption
<1>5. Typed
      <2>1. view.fat \in Fat
            BY <1>1, FatAssumption DEF Fat, EOC
      <2>2. view.dir \in Directories
            BY <1>1, NoTypes DEF Directories
      <2>3. disk.data \in [Cluster -> Sector]
            BY <1>1 DEF Blank, Sector, Unknown
      <2>4. Clusters \in 0..NoCount /\ 0 \in 0..Last /\ NoCount \in 0..NoCount /\ 0 \in 0..1
            BY ClusterFacts
      <2>5. disk \in Volumes /\ view \in Views
            <3>1. disk = [fat |-> disk.fat, dir |-> disk.dir, data |-> disk.data,
                          free |-> Clusters, last |-> 0]
                  BY DEF Init
            <3> QED BY <1>1, <2>1, <2>2, <2>3, <2>4, <3>1 DEF Volumes, Views
      <2>6. win \in Windows
            <3>1. FatSector(Last) \in Nat
                  BY SectorNumbers, ClusterFacts, FatAssumption DEF Cluster
            <3>2. NoSector \in -3..FatSector(Last)
                  BY <3>1 DEF NoSector
            <3> QED BY <1>1, <3>2 DEF Windows
      <2>7. fs \in Mounts
            BY <2>4 DEF Init, Mounts
      <2>8. pc \in Steps
            BY <1>1 DEF Steps
      <2>9. /\ locks \in SUBSET Files /\ clean \in BOOLEAN /\ DOMAIN acked = Files
            /\ opens \in 0..MaxOpens /\ errors \in 0..MaxErrors /\ losses \in 0..MaxLosses
            BY FatAssumption DEF Init
      <2> QED BY <1>1, <2>5, <2>6, <2>7, <2>8, <2>9, NoTypes DEF Typed
<1>6. Control
      BY <1>1, <1>4 DEF Control, IsOpen
<1>7. Coherent
      BY <1>1 DEF Coherent
<1>8. Rooted
      <2>1. Linked(view.fat) /\ Linked(disk.fat)
            BY <1>1, <1>2, ClusterFacts DEF Linked
      <2>2. Root(view.fat, 0) /\ Root(disk.fat, 0)
            BY DEF Root
      <2> QED BY <1>1, <1>3, <1>4, <2>1, <2>2 DEF Rooted
<1>9. Lengths
      BY <1>1, <1>3, <1>4 DEF Lengths, Long
<1>10. TextInv
      BY <1>1, <1>4 DEF TextInv
<1> QED BY <1>5, <1>6, <1>7, <1>8, <1>9, <1>10 DEF Inv

LEMMA NextInv == Inv /\ [Next]_vars => Inv'
<1> SUFFICES ASSUME Inv, [Next]_vars PROVE Inv'
    OBVIOUS
<1>1. Typed /\ Control /\ Coherent /\ Rooted /\ Lengths /\ TextInv
      BY DEF Inv
<1>2. CASE Next
      <2>1. Typed'
            BY <1>1, <1>2, TypedStep
      <2>2. Control'
            BY <1>1, <1>2, ControlStep
      <2>3. Coherent'
            BY <1>1, <1>2, CoherentStep
      <2>4. Rooted'
            BY <1>1, <1>2, RootedStep
      <2>5. Lengths'
            BY <1>1, <1>2, LengthsStep
      <2>6. TextInv'
            BY <1>1, <1>2, <2>1, <2>5, TextStep
      <2> QED BY <2>1, <2>2, <2>3, <2>4, <2>5, <2>6 DEF Inv
<1>3. CASE UNCHANGED vars
      <2>1. Typed'
            BY <1>1, <1>3 DEF Typed, vars, spent
      <2>2. Control'
            BY <1>1, <1>3 DEF Control, IsOpen, vars, spent
      <2>3. Coherent'
            BY <1>1, <1>3 DEF Coherent, vars
      <2>4. Rooted'
            BY <1>1, <1>3 DEF Rooted, New, vars
      <2>5. Lengths'
            BY <1>1, <1>3 DEF Lengths, vars
      <2>6. TextInv'
            BY <1>1, <1>3 DEF TextInv, vars
      <2> QED BY <2>1, <2>2, <2>3, <2>4, <2>5, <2>6 DEF Inv
<1> QED BY <1>2, <1>3

LEMMA AlwaysInv == Spec => []Inv
BY InitInv, NextInv, PTL DEF Spec

\* No file is longer than the card.
LEMMA LongFits ==
    ASSUME NEW fat, NEW e, e.size \in Nat, Long(fat, e)
    PROVE  e.size \in 0..(Clusters * SectorUnits)
<1>1. Clusters \in Nat /\ SectorUnits \in Nat
      BY ClusterFacts, FatAssumption
<1>2. Clusters * SectorUnits \in Nat
      BY <1>1
<1>3. CASE e.size = 0
      BY <1>2, <1>3
<1>4. CASE e.size > 0
      <2>1. e.size \in Nat \ {0} /\ Idx(e.size) < Clusters
            BY <1>4 DEF Long, Reaches
      <2>2. e.size =< Clusters * SectorUnits
            BY <2>1, Fits
      <2> QED BY <1>2, <2>2
<1> QED BY <1>3, <1>4

\* TypeOK: what every part of the volume and of the file object may be.
THEOREM TypesAreKept == Spec => []TypeOK
<1>1. Inv => TypeOK
      <2> SUFFICES ASSUME Inv PROVE TypeOK
          OBVIOUS
      <2>1. Typed /\ Lengths
            BY DEF Inv
      <2>2. ASSUME NEW d \in {disk.dir, view.dir}
            PROVE  d \in [Files -> [there : BOOLEAN, start : 0..Last,
                                    size : 0..(Clusters * SectorUnits)]]
            <3>1. d \in Directories
                  BY <2>1, Fields
            <3>2. ASSUME NEW f \in Files
                  PROVE  d[f] \in [there : BOOLEAN, start : 0..Last,
                                   size : 0..(Clusters * SectorUnits)]
                  <4>1. d[f] \in Entries /\ d[f].size \in Nat /\ d[f].start \in Starts
                        BY <3>1 DEF Directories, Entries
                  <4>2. d[f].start \in 0..Last
                        BY <4>1, StartFacts
                  <4>3. Long(view.fat, d[f])
                        BY <2>1 DEF Lengths
                  <4>4. d[f].size \in 0..(Clusters * SectorUnits)
                        BY <4>1, <4>3, LongFits
                  <4> DEFINE m == Clusters * SectorUnits
                  <4> HIDE DEF m
                  <4>5. d[f].size \in 0..m
                        BY <4>4 DEF m
                  <4>6. d[f] \in [there : BOOLEAN, start : 0..Last, size : 0..m]
                        BY <4>1, <4>2, <4>5 DEF Entries
                  <4> QED BY <4>6 DEF m
            <3> DEFINE E == [there : BOOLEAN, start : 0..Last,
                             size : 0..(Clusters * SectorUnits)]
            <3> HIDE DEF E
            <3>3. \A f \in Files : d[f] \in E
                  BY <3>2 DEF E
            <3>4. d \in [Files -> E]
                  BY <3>1, <3>3 DEF Directories
            <3> QED BY <3>4 DEF E
      <2>3. FatOK(disk) /\ FatOK(view)
            BY <2>1, <2>2, Fields DEF FatOK, Fat
      <2>4. /\ disk.data \in [Cluster -> Sector] /\ disk.free \in 0..NoCount /\ disk.last \in 0..Last
            /\ fil.file \in Files \cup {Nobody} /\ fil.buf \in Sector /\ fil.bad \in Bads
            BY <2>1, Fields
      <2>5. /\ win \in Windows /\ fs \in Mounts /\ Len(fil.text) = fil.size /\ pc \in Steps
            /\ locks \in SUBSET Files /\ clean \in BOOLEAN /\ DOMAIN acked = Files
            /\ opens \in 0..MaxOpens /\ errors \in 0..MaxErrors /\ losses \in 0..MaxLosses
            BY <2>1 DEF Typed
      <2> QED BY <2>3, <2>4, <2>5 DEF TypeOK, Windows, Mounts, Bads, Steps
<1> QED BY <1>1, AlwaysInv, PTL

\* As many clusters as a chain is long.
LEMMA LongChain ==
    ASSUME NEW fat \in Fat, Linked(fat), NEW e, e.size \in Nat, e.start \in Starts,
           Root(fat, e.start), Long(fat, e)
    PROVE  e.size =< SectorUnits * Cardinality(Chain(fat, e.start))
<1> DEFINE own == Chain(fat, e.start)
           w == Walk(fat, e.start)
<1>0. SectorUnits \in Nat \ {0} /\ Clusters \in Nat /\ IsFiniteSet(Cluster)
      BY FatAssumption, ClusterFacts
<1>1. IsFiniteSet(own)
      <2>1. own \in SUBSET Cluster
            BY DEF Chain
      <2> HIDE DEF own
      <2> QED BY <1>0, <2>1, FS_Subset
<1>2. Cardinality(own) \in Nat
      BY <1>1, FS_CardinalityType
<1>3. CASE e.size = 0
      <2>1. SectorUnits * Cardinality(own) \in Nat
            BY <1>0, <1>2
      <2> QED BY <1>3, <2>1
<1>4. CASE e.size > 0
      <2> DEFINE n == Idx(e.size)
      <2>1. e.size \in Nat \ {0}
            BY <1>4
      <2>2. n \in Nat /\ n < Clusters /\ w[n] \in Cluster /\ e.start # 0
            BY <1>4 DEF Long, Reaches
      <2>3. Begins(fat, e.start) /\ e.start \in 0..EOC /\ n \in 0..Clusters
            BY <1>0, <2>2, StartFacts DEF Root
      <2>4. \A m \in 0..n : w[m] \in own
            <3>1. \A m \in 0..n : w[m] \in Cluster
                  BY <2>2, <2>3, Earlier
            <3>2. \A m \in 0..n : m \in 0..Clusters
                  BY <1>0, <2>2
            <3> QED BY <3>1, <3>2 DEF Chain
      <2>5. \A i, j \in 0..n : w[i] = w[j] => i = j
            <3>1. \A i, j \in 0..Clusters : w[i] = w[j] /\ w[i] \in Cluster => e.start = e.start /\ i = j
                  BY <2>3, Apart
            <3>2. \A m \in 0..n : m \in 0..Clusters /\ w[m] \in Cluster
                  BY <1>0, <2>2, <2>4 DEF Chain
            <3> QED BY <3>1, <3>2
      <2> HIDE DEF own, w, n
      <2>6. ~(n + 1 > Cardinality(own))
            <3> SUFFICES ASSUME n + 1 > Cardinality(own) PROVE FALSE
                OBVIOUS
            <3> DEFINE v == [m \in 0..n |-> w[m]]
            <3>1. v \in [0..n -> own]
                  BY <2>4
            <3>2. IsFiniteSet(0..n) /\ Cardinality(0..n) = n + 1
                  BY <2>2, FS_Interval
            <3> HIDE DEF v
            <3>3. \E i, j \in 0..n : i # j /\ v[i] = v[j]
                  BY <1>1, <3>1, <3>2, FS_PigeonHole
            <3> QED BY <2>5, <3>3 DEF v
      <2>7. e.size = SectorUnits * n + Off(e.size) /\ Off(e.size) \in 1..SectorUnits
            BY <2>1, Places DEF n
      <2>8. SectorUnits * n + SectorUnits =< SectorUnits * Cardinality(own)
            BY <1>0, <1>2, <2>2, <2>6, Products
      <2>9. SectorUnits * n \in Nat /\ SectorUnits * Cardinality(own) \in Nat
            BY <1>0, <1>2, <2>2
      <2> QED BY <1>0, <2>7, <2>8, <2>9 DEF own
<1> QED BY <1>3, <1>4

LEMMA ChainSplit ==
    ASSUME NEW fat \in Fat, Linked(fat), NEW s \in Starts, Root(fat, s),
           NEW t \in Starts, Root(fat, t), s # t \/ s = 0
    PROVE  Chain(fat, s) \cap Chain(fat, t) = {}
<1> SUFFICES ASSUME NEW i \in 0..Clusters, NEW j \in 0..Clusters,
                    Walk(fat, s)[i] = Walk(fat, t)[j], Walk(fat, s)[i] \in Cluster
             PROVE  FALSE
    BY DEF Chain
<1>1. s \in 0..EOC /\ t \in 0..EOC /\ Clusters \in Nat /\ 0 \notin Cluster
      BY StartFacts, ClusterFacts
<1>2. \A u \in {s, t}, n \in 0..Clusters : Walk(fat, u)[n] \in Cluster => u # 0
      <2> SUFFICES ASSUME NEW u \in {s, t}, NEW n \in 0..Clusters,
                          Walk(fat, u)[n] \in Cluster, u = 0
                   PROVE  FALSE
          OBVIOUS
      <2>1. Walk(fat, u)[0] \in Cluster
            <3>1. u \in 0..EOC /\ 0 \in 0..n
                  BY <1>1
            <3> QED BY <3>1, Earlier
      <2>2. Walk(fat, u)[0] = 0
            BY <1>1, WalkFacts
      <2> QED BY <1>1, <2>1, <2>2
<1>3. s # 0 /\ t # 0 /\ s # t
      BY <1>2
<1>4. Begins(fat, s) /\ Begins(fat, t)
      BY <1>3 DEF Root
<1>5. \A a, b \in 0..Clusters :
          Walk(fat, s)[a] = Walk(fat, t)[b] /\ Walk(fat, s)[a] \in Cluster => s = t /\ a = b
      BY <1>1, <1>4, Apart
<1> QED BY <1>3, <1>5

\* ChainsApart: on the card and through the window, whatever has failed and
\* whenever the power went, no chain is cut short, runs in a circle or meets
\* another.
THEOREM ChainsStayApart == Spec => []ChainsApart
<1>1. Inv => ChainsApart
      <2> SUFFICES ASSUME Inv, NEW t \in {disk, view}, NEW f \in Files
                   PROVE  LET e == t.dir[f]
                              own == Chain(t.fat, e.start)
                          IN  /\ e.start # 0 => Walk(t.fat, e.start)[Clusters] = EOC
                              /\ e.size =< SectorUnits * Cardinality(own)
                              /\ \A g \in Files \ {f} :
                                    own \cap Chain(t.fat, t.dir[g].start) = {}
          BY DEF ChainsApart
      <2>1. Typed /\ Rooted /\ Lengths
            BY DEF Inv
      <2>2. /\ t.fat \in Fat /\ Linked(t.fat)
            /\ \A g \in Files : /\ t.dir[g].start \in Starts /\ t.dir[g].size \in Nat
                                /\ Root(t.fat, t.dir[g].start)
            /\ \A g \in Files \ {f} : t.dir[f].start # 0 => t.dir[f].start # t.dir[g].start
            BY <2>1, Fields DEF Rooted
      <2>3. Long(t.fat, t.dir[f])
            <3>1. CASE t = view
                  BY <2>1, <3>1 DEF Lengths
            <3>2. CASE t = disk
                  <4> SUFFICES ASSUME disk.dir[f].size > 0
                               PROVE  Reaches(disk.fat, disk.dir[f].start, Idx(disk.dir[f].size))
                      BY <3>2 DEF Long
                  <4>1. /\ Reaches(view.fat, disk.dir[f].start, Idx(disk.dir[f].size))
                        /\ Same(view.fat, disk.fat, disk.dir[f].start, Idx(disk.dir[f].size))
                        BY <2>1 DEF Lengths, Long
                  <4> QED BY <4>1, SameReaches
            <3> QED BY <3>1, <3>2
      <2>4. t.dir[f].start # 0 => Walk(t.fat, t.dir[f].start)[Clusters] = EOC
            <3> SUFFICES ASSUME t.dir[f].start # 0
                         PROVE  Walk(t.fat, t.dir[f].start)[Clusters] = EOC
                OBVIOUS
            <3>1. Begins(t.fat, t.dir[f].start) /\ t.dir[f].start \in 0..EOC
                  BY <2>2, StartFacts DEF Root
            <3> QED BY <2>2, <3>1, Ends
      <2>5. t.dir[f].size =< SectorUnits * Cardinality(Chain(t.fat, t.dir[f].start))
            BY <2>2, <2>3, LongChain
      <2>6. \A g \in Files \ {f} :
                Chain(t.fat, t.dir[f].start) \cap Chain(t.fat, t.dir[g].start) = {}
            <3> SUFFICES ASSUME NEW g \in Files \ {f}
                         PROVE  Chain(t.fat, t.dir[f].start)
                                    \cap Chain(t.fat, t.dir[g].start) = {}
                OBVIOUS
            <3>1. t.dir[f].start # t.dir[g].start \/ t.dir[f].start = 0
                  BY <2>2
            <3> QED BY <2>2, <3>1, ChainSplit
      <2> QED BY <2>4, <2>5, <2>6
<1> QED BY <1>1, AlwaysInv, PTL
-----------------------------------------------------------------------------
(* What a file holds.                                                        *)

\* What is on the card, what the window shows and what the writer has are as
\* they were.
DiskKept == \A f \in Files : OnDisk(f)' = OnDisk(f)
SeenKept == \A f \in Files : AsSeen(f)' = AsSeen(f)
WriterKept == fil'.file = fil.file /\ fil'.text = fil.text
Left == fil'.file = Nobody /\ fil'.text = <<>>

\* The sector written back holds nothing new of what an entry has of its file.
LEMMA BackedSame ==
    ASSUME Typed, Control, Rooted, Lengths, TextInv,
           NEW e, e.size \in Nat, e.start \in Starts,
           Long(view.fat, e), Root(view.fat, e.start),
           e.start = fil.start /\ e.start # 0 =>
              e.size =< fil.size /\ \A p \in 1..e.size :
                 Piece(view.fat, disk.data, fil.start, p) = fil.text[p]
    PROVE  \A p \in 1..e.size :
              Piece(view.fat, Backed, e.start, p) = Piece(view.fat, disk.data, e.start, p)
<1> SUFFICES ASSUME NEW p \in 1..e.size
             PROVE  Piece(view.fat, Backed, e.start, p)
                      = Piece(view.fat, disk.data, e.start, p)
    OBVIOUS
<1> DEFINE s == e.start
           i == Idx(p)
<1>1. CASE ~fil.dirty
      BY <1>1 DEF Backed
<1>2. CASE fil.dirty
      <2>1. fil.size > 0 /\ fil.sect # 0 /\ fil.size \in Nat /\ view.fat \in Fat
            /\ disk.data \in [Cluster -> Sector] /\ e.size > 0 /\ Linked(view.fat)
            BY <1>2, Fields DEF Control, Rooted
      <2>2. /\ fil.start \in 0..EOC /\ Begins(view.fat, fil.start)
            /\ Idx(fil.size) \in 0..Clusters
            /\ fil.sect = Walk(view.fat, fil.start)[Idx(fil.size)] /\ fil.sect \in Cluster
            BY <2>1, EndIs
      <2>3. s # 0 /\ Begins(view.fat, s) /\ s \in 0..EOC
            BY <2>1, StartFacts DEF Long, Reaches, Root
      <2>4. CASE s = fil.start
            <3>1. e.size =< fil.size /\ Piece(view.fat, disk.data, fil.start, p) = fil.text[p]
                  BY <2>3, <2>4
            <3>2. p \in 1..fil.size
                  BY <2>1, <3>1
            <3>3. Piece(view.fat, Backed, fil.start, p) = fil.text[p]
                  BY <3>2, BackedText
            <3> QED BY <2>4, <3>1, <3>3
      <2>5. CASE s # fil.start
            <3>1. i \in 0..Clusters
                  <4>1. Idx(e.size) < Clusters /\ Clusters \in Nat
                        BY <2>1, ClusterFacts DEF Long, Reaches
                  <4>2. i \in Nat /\ i =< Idx(e.size) /\ Idx(e.size) \in Nat
                        BY Sectors
                  <4> HIDE DEF i
                  <4> QED BY <4>1, <4>2
            <3>2. \A a, b \in 0..Clusters :
                      Walk(view.fat, s)[a] = Walk(view.fat, fil.start)[b]
                         /\ Walk(view.fat, s)[a] \in Cluster => s = fil.start /\ a = b
                  BY <2>1, <2>2, <2>3, Apart
            <3>3. Walk(view.fat, s)[i] # fil.sect
                  BY <2>2, <2>5, <3>1, <3>2
            <3>4. Piece(view.fat, Backed, s, p) =
                     IF Walk(view.fat, s)[i] = fil.sect THEN fil.buf[Off(p)]
                     ELSE Piece(view.fat, disk.data, s, p)
                  BY <1>2, <2>1, <2>2, WrittenPiece DEF Backed
            <3> QED BY <3>3, <3>4
      <2> QED BY <2>4, <2>5
<1> QED BY <1>1, <1>2

LEMMA BackedFiles ==
    ASSUME Typed, Control, Rooted, Lengths, TextInv, view' = view,
           disk'.fat = disk.fat, disk'.dir = disk.dir, disk'.data = Backed
    PROVE  DiskKept /\ SeenKept
<1> SUFFICES ASSUME NEW f \in Files
             PROVE  OnDisk(f)' = OnDisk(f) /\ AsSeen(f)' = AsSeen(f)
    BY DEF DiskKept, SeenKept
<1> DEFINE v == view.dir[f]
           d == disk.dir[f]
<1>1. /\ v.size \in Nat /\ v.start \in Starts /\ d.size \in Nat /\ d.start \in Starts
      /\ fil.size \in Nat
      BY Fields
<1>2. /\ Long(view.fat, v) /\ Root(view.fat, v.start)
      /\ Long(view.fat, d) /\ Root(view.fat, d.start)
      BY DEF Lengths, Rooted
<1>3. /\ v.start = fil.start /\ v.start # 0 =>
            v.size =< fil.size /\ \A p \in 1..v.size :
               Piece(view.fat, disk.data, fil.start, p) = fil.text[p]
      /\ d.start = fil.start /\ d.start # 0 =>
            d.size =< fil.size /\ \A p \in 1..d.size :
               Piece(view.fat, disk.data, fil.start, p) = fil.text[p]
      BY DEF Lengths, TextInv
<1> HIDE DEF v, d
<1>4. \A p \in 1..v.size :
          Piece(view.fat, Backed, v.start, p) = Piece(view.fat, disk.data, v.start, p)
      BY <1>1, <1>2, <1>3, BackedSame
<1>5. \A p \in 1..d.size :
          Piece(view.fat, Backed, d.start, p) = Piece(view.fat, disk.data, d.start, p)
      BY <1>1, <1>2, <1>3, BackedSame
<1>6. \A p \in 1..d.size :
          Piece(disk.fat, Backed, d.start, p) = Piece(disk.fat, disk.data, d.start, p)
      <2> SUFFICES ASSUME NEW p \in 1..d.size
                   PROVE  Piece(disk.fat, Backed, d.start, p)
                            = Piece(disk.fat, disk.data, d.start, p)
          OBVIOUS
      <2>1. d.size > 0
            BY <1>1
      <2>2. Same(view.fat, disk.fat, d.start, Idx(d.size))
            BY <2>1 DEF Lengths, d
      <2>3. p \in Nat \ {0} /\ Idx(p) =< Idx(d.size) /\ Idx(d.size) \in Nat
            BY <1>1, Sectors
      <2>4. /\ Piece(disk.fat, Backed, d.start, p) = Piece(view.fat, Backed, d.start, p)
            /\ Piece(disk.fat, disk.data, d.start, p) = Piece(view.fat, disk.data, d.start, p)
            BY <2>2, <2>3, SamePiece
      <2> QED BY <1>5, <2>4
<1>7. Text(v, view.fat, Backed) = Text(v, view.fat, disk.data)
      BY <1>4, TextSame
<1>8. Text(d, disk.fat, Backed) = Text(d, disk.fat, disk.data)
      BY <1>6, TextSame
<1> QED BY <1>7, <1>8 DEF OnDisk, AsSeen, v, d

\* The card as it is: it holds what it held.
LEMMA DiskStill ==
    ASSUME disk'.fat = disk.fat, disk'.dir = disk.dir, disk'.data = disk.data
    PROVE  DiskKept
BY DEF DiskKept, OnDisk

LEMMA SeenStill ==
    ASSUME view' = view, disk'.data = disk.data
    PROVE  SeenKept
BY DEF SeenKept, AsSeen

LEMMA SeenGrown ==
    ASSUME Typed, Lengths, disk' = disk, view'.dir = view.dir,
           \A f \in Files : Grown(view.dir[f].start)
    PROVE  SeenKept
<1> SUFFICES ASSUME NEW f \in Files PROVE AsSeen(f)' = AsSeen(f)
    BY DEF SeenKept
<1> DEFINE e == view.dir[f]
<1>1. e.size \in Nat
      BY Fields
<1>2. e.size > 0 => Same(view.fat, view'.fat, e.start, Idx(e.size))
      BY DEF Lengths, Long, Grown
<1> HIDE DEF e
<1>3. Text(e, view'.fat, disk.data) = Text(e, view.fat, disk.data)
      BY <1>1, <1>2, SameText
<1> QED BY <1>3 DEF AsSeen, e

\* An entry of no length has no text.
LEMMA NoText ==
    ASSUME NEW e, e.size = 0, NEW fat, NEW data
    PROVE  Text(e, fat, data) = <<>>
<1>1. Text(e, fat, data) = [p \in 1..0 |-> Piece(fat, data, e.start, p)]
      BY TextIs
<1>2. [p \in 1..0 |-> Piece(fat, data, e.start, p)] \in Seq(Nat)
      OBVIOUS
<1>3. Len([p \in 1..0 |-> Piece(fat, data, e.start, p)]) = 0
      OBVIOUS
<1> QED BY <1>1, <1>2, <1>3
-----------------------------------------------------------------------------
(* Every step is one that FileStore allows.                                  *)

Stays == DiskKept /\ SeenKept /\ WriterKept

\* No text is left of file f.
Emptied(f) == \A g \in Files : AsSeen(g)' = IF g = f THEN <<>> ELSE AsSeen(g)

\* The steps of FileStore.
Truncates ==
    /\ DiskKept /\ WriterKept
    /\ \E f \in Files : Emptied(f)
Opens ==
    /\ DiskKept /\ SeenKept /\ fil.file = Nobody
    /\ fil'.file \in Files /\ fil'.text = AsSeen(fil'.file)
Puts ==
    /\ DiskKept /\ SeenKept /\ fil.file # Nobody
    /\ fil'.file = fil.file /\ opens \in Units /\ fil'.text = Append(fil.text, opens)
Closes ==
    /\ DiskKept /\ WriterKept /\ fil.file \in Files /\ fil.file # Nobody
    /\ \A f \in Files : AsSeen(f)' = IF f = fil.file THEN fil.text ELSE AsSeen(f)
Settles == SeenKept /\ WriterKept /\ \A f \in Files : OnDisk(f)' = AsSeen(f)
Leaves == DiskKept /\ SeenKept /\ Left
Loses == DiskKept /\ Left /\ \A f \in Files : AsSeen(f)' = OnDisk(f)

LEMMA NoFileText == NoFile.file = Nobody /\ NoFile.text = <<>>
BY DEF NoFile

LEMMA SyncSettles ==
    ASSUME Typed, Coherent, Flush \/ Dir
    PROVE  Settles
<1>1. /\ disk'.fat = view.fat /\ disk'.dir = view.dir /\ disk'.data = disk.data
      /\ view' = view /\ fil' = fil
      BY SyncIs
<1>2. SeenKept
      BY <1>1, SeenStill
<1>3. \A f \in Files : OnDisk(f)' = AsSeen(f)
      BY <1>1 DEF OnDisk, AsSeen
<1> QED BY <1>1, <1>2, <1>3 DEF Settles, WriterKept

\* An empty file made of one that had no cluster is open at once.
LEMMA ClearTruncates ==
    ASSUME Typed, Control, Lengths, Clear
    PROVE  (Truncates \/ Opens) /\ DiskKept /\ arg.file \in Files /\ Emptied(arg.file)
<1> PICK f : f = arg.file
    OBVIOUS
<1>1. /\ f \in Files /\ ~IsOpen /\ view'.fat = view.fat /\ disk' = disk
      /\ view'.dir[f].size = 0
      /\ \A g \in Files \ {f} : view'.dir[g] = view.dir[g]
      BY ClearIs
<1>2. DiskKept
      BY <1>1, DiskStill
<1>3. Emptied(f)
      <2>1. Text(view'.dir[f], view'.fat, disk'.data) = <<>>
            BY <1>1, NoText
      <2> QED BY <1>1, <2>1 DEF AsSeen, Emptied
<1>4. CASE fil' = fil
      BY <1>1, <1>2, <1>3, <1>4 DEF Truncates, WriterKept
<1>5. CASE view.dir[f].start = 0 /\ fil'.file = f /\ fil'.text = <<>>
      <2>1. view.dir[f].size = 0
            BY <1>1, <1>5, Fields DEF Lengths, Long, Reaches
      <2>2. AsSeen(f) = <<>>
            BY <2>1, NoText DEF AsSeen
      <2>3. SeenKept
            BY <1>3, <2>2 DEF SeenKept, Emptied
      <2> QED BY <1>1, <1>2, <1>3, <1>5, <2>2, <2>3 DEF Opens, IsOpen
<1>6. fil' = fil \/ (view.dir[f].start = 0 /\ fil'.file = f /\ fil'.text = <<>>)
      BY ClearIs
<1> QED BY <1>1, <1>2, <1>3, <1>4, <1>5, <1>6

\* The FAT is only changed where no file has its text.
LEMMA FatStays ==
    ASSUME Typed, Control, Coherent, Rooted, Lengths, Free \/ Link \/ Grow
    PROVE  Stays
<1>1. disk' = disk /\ WriterKept
      <2>1. CASE Free \/ Link
            BY <2>1, FreeIs, LinkIs DEF WriterKept
      <2>2. CASE Grow
            BY <2>2, GrowSplit DEF WriterKept, Onward, Full, Taken
      <2> QED BY <2>1, <2>2
<1>2. DiskKept
      BY <1>1, DiskStill
<1>3. CASE Free
      <2>1. view'.dir = view.dir /\ \A f \in Files : Grown(view.dir[f].start)
            BY <1>3, FreeIs, FreeGrown
      <2>2. SeenKept
            BY <1>1, <2>1, SeenGrown
      <2> QED BY <1>1, <1>2, <2>2 DEF Stays
<1>4. CASE Link
      <2>1. view'.dir = view.dir /\ \A f \in Files : Grown(view.dir[f].start)
            BY <1>4, LinkIs, LinkGrown
      <2>2. SeenKept
            BY <1>1, <2>1, SeenGrown
      <2> QED BY <1>1, <1>2, <2>2 DEF Stays
<1>5. CASE Grow
      <2>1. CASE Onward \/ Full
            <3>1. SeenKept
                  BY <1>1, <2>1, SeenStill DEF Onward, Full
            <3> QED BY <1>1, <1>2, <3>1 DEF Stays
      <2>2. ASSUME NEW c \in Cluster, Taken(c) PROVE Stays
            <3>1. view'.dir = view.dir /\ \A f \in Files : Grown(view.dir[f].start)
                  BY <2>2, TakenGrown DEF Taken
            <3>2. SeenKept
                  BY <1>1, <3>1, SeenGrown
            <3> QED BY <1>1, <1>2, <3>2 DEF Stays
      <2> QED BY <1>5, <2>1, <2>2, GrowSplit
<1> QED BY <1>3, <1>4, <1>5

\* A file object begins with the text of its file.
LEMMA OpenOpens ==
    ASSUME Typed, Control, Lengths, Reopen \/ Find \/ Seek
    PROVE  Stays \/ Opens
<1>1. UNCHANGED <<disk, view>> /\ arg.file \in Files /\ fil.file = Nobody
      BY ReopenIs, FindIs, SeekKeeps DEF IsOpen
<1>2. DiskKept /\ SeenKept
      BY <1>1, DiskStill, SeenStill
<1>3. CASE fil' = fil
      BY <1>2, <1>3 DEF Stays, WriterKept
<1>4. CASE fil'.file = arg.file /\ fil'.text = AsSeen(arg.file)
      BY <1>1, <1>2, <1>4 DEF Opens
<1>5. view.dir[arg.file].size = 0 => AsSeen(arg.file) = <<>>
      BY NoText DEF AsSeen
<1>6. CASE Reopen
      BY <1>4, <1>5, <1>6, ReopenIs
<1>7. CASE Find
      BY <1>3, <1>4, <1>5, <1>7, FindIs
<1>8. CASE Seek
      <2>1. fil'.file = arg.file /\ fil'.text = AsSeen(arg.file)
            BY <1>8 DEF Seek, NoFile
      <2> QED BY <1>4, <2>1
<1> QED BY <1>6, <1>7, <1>8

LEMMA WritePuts ==
    ASSUME Typed, Control, Rooted, Lengths, TextInv, Spill \/ WriteCall
    PROVE  Stays \/ Puts
<1>1. fil.file # Nobody /\ opens \in Units
      <2>1. IsOpen
            BY DEF Control, Spill, WriteCall
      <2>2. opens \in 0..MaxOpens /\ opens > 0
            BY <2>1 DEF Typed, Control
      <2> QED BY <2>1, <2>2, FatAssumption DEF IsOpen, Units
<1>2. CASE Spill
      <2>1. DiskKept /\ SeenKept
            BY <1>2, SpillIs, BackedFiles
      <2>2. fil'.file = fil.file /\ fil'.text = Append(fil.text, opens)
            BY <1>2, SpillIs
      <2> QED BY <1>1, <2>1, <2>2 DEF Puts
<1>3. CASE WriteCall
      <2>1. UNCHANGED <<disk, view>>
            BY <1>3 DEF WriteCall
      <2>2. DiskKept /\ SeenKept
            BY <2>1, DiskStill, SeenStill
      <2>3. CASE fil.size % SectorUnits # 0
            <3>1. fil'.file = fil.file /\ fil'.text = Append(fil.text, opens)
                  BY <1>3, <2>3, WriteIs
            <3> QED BY <1>1, <2>2, <3>1 DEF Puts
      <2>4. CASE fil.size % SectorUnits = 0
            <3>1. fil' = fil
                  BY <1>3, <2>4, WriteOn
            <3> QED BY <2>2, <3>1 DEF Stays, WriterKept
      <2> QED BY <2>3, <2>4
<1> QED BY <1>2, <1>3

LEMMA DataStays ==
    ASSUME Typed, Control, Rooted, Lengths, TextInv, Data
    PROVE  Stays
<1>1. DiskKept /\ SeenKept
      BY DataIs, BackedFiles
<1> QED BY <1>1, DataIs DEF Stays, WriterKept

\* The buffer is on the card: what the entry says is what the writer has.
LEMMA WholeText ==
    ASSUME Typed, TextInv, ~fil.dirty
    PROVE  \A e : e.size = fil.size /\ e.start = fil.start =>
              Text(e, view.fat, disk.data) = fil.text
<1> SUFFICES ASSUME NEW e, e.size = fil.size, e.start = fil.start
             PROVE  Text(e, view.fat, disk.data) = fil.text
    OBVIOUS
<1>1. fil.size \in Nat /\ fil.text \in Seq(Nat) /\ Len(fil.text) = fil.size
      BY DEF Typed, Objects
<1>2. \A p \in 1..e.size : Piece(view.fat, disk.data, e.start, p) = fil.text[p]
      BY DEF TextInv
<1>3. e.size \in Nat /\ Len(fil.text) = e.size
      BY <1>1
<1> QED BY <1>1, <1>2, <1>3, TextFrom

LEMMA EntryCloses ==
    ASSUME Typed, Control, TextInv, Entry
    PROVE  Closes
<1> DEFINE e == [there |-> TRUE, start |-> fil.start, size |-> fil.size]
<1>1. /\ pc = "entry" /\ fil.file \in Files /\ view'.fat = view.fat
      /\ view'.dir[fil.file] = e /\ e.start = fil.start /\ e.size = fil.size
      /\ \A g \in Files \ {fil.file} : view'.dir[g] = view.dir[g]
      /\ UNCHANGED <<disk, fil>>
      BY EntryIs
<1>2. ~fil.dirty /\ fil.file # Nobody
      BY <1>1, FatAssumption DEF Control
<1> HIDE DEF e
<1>3. Text(e, view.fat, disk.data) = fil.text
      BY <1>1, <1>2, WholeText
<1>4. \A f \in Files : AsSeen(f)' = IF f = fil.file THEN fil.text ELSE AsSeen(f)
      BY <1>1, <1>3 DEF AsSeen
<1>5. DiskKept
      BY <1>1, DiskStill
<1> QED BY <1>1, <1>2, <1>4, <1>5 DEF Closes, WriterKept

LEMMA CloseLeaves ==
    ASSUME Typed, Info \/ Forget \/ CloseCall \/ Fail \/ Locked
    PROVE  Stays \/ Leaves
<1>1. view' = view /\ disk'.fat = disk.fat /\ disk'.dir = disk.dir /\ disk'.data = disk.data
      <2>1. CASE Info
            BY <2>1, InfoIs
      <2>2. CASE Forget \/ CloseCall \/ Fail \/ Locked
            BY <2>2 DEF Forget, CloseCall, Fail, Locked
      <2> QED BY <2>1, <2>2
<1>2. DiskKept /\ SeenKept
      BY <1>1, DiskStill, SeenStill
<1>3. CASE fil' = NoFile
      BY <1>2, <1>3, NoFileText DEF Leaves, Left
<1>4. CASE fil'.file = fil.file /\ fil'.text = fil.text
      BY <1>2, <1>4 DEF Stays, WriterKept
<1>5. CASE Fail
      BY <1>4, <1>5, FailIs
<1>6. CASE Info \/ Forget \/ CloseCall \/ Locked
      BY <1>3, <1>4, <1>6 DEF Info, Forget, CloseCall, Locked, Closed
<1> QED BY <1>5, <1>6

LEMMA FreshLoses ==
    ASSUME Typed, Mount \/ PowerLoss
    PROVE  Loses
<1>1. /\ disk' = disk /\ view'.fat = disk.fat /\ view'.dir = disk.dir /\ fil' = NoFile
      BY FreshIs
<1>2. DiskKept
      BY <1>1, DiskStill
<1>3. \A f \in Files : AsSeen(f)' = OnDisk(f)
      BY <1>1 DEF AsSeen, OnDisk
<1> QED BY <1>1, <1>2, <1>3, NoFileText DEF Loses, Left

LEMMA Effects ==
    ASSUME Inv, [Next]_vars
    PROVE  Stays \/ Truncates \/ Opens \/ Puts \/ Closes \/ Settles \/ Leaves \/ Loses
<1>1. Typed /\ Control /\ Coherent /\ Rooted /\ Lengths /\ TextInv
      BY DEF Inv
<1>2. CASE Flush \/ Dir
      BY <1>1, <1>2, SyncSettles
<1>3. CASE Clear
      BY <1>1, <1>3, ClearTruncates
<1>4. CASE Free \/ Link \/ Grow
      BY <1>1, <1>4, FatStays
<1>5. CASE Reopen \/ Find \/ Seek
      BY <1>1, <1>5, OpenOpens
<1>6. CASE Spill \/ WriteCall
      BY <1>1, <1>6, WritePuts
<1>7. CASE Data
      BY <1>1, <1>7, DataStays
<1>8. CASE Entry
      BY <1>1, <1>8, EntryCloses
<1>9. CASE Info \/ Forget \/ CloseCall \/ Fail \/ Locked
      BY <1>1, <1>9, CloseLeaves
<1>10. CASE Mount \/ PowerLoss
      BY <1>1, <1>10, FreshLoses
<1>11. ASSUME NEW f \in Files, NEW m \in {"create", "append"}, OpenCall(f, m)
       PROVE  Stays
      <2>1. UNCHANGED <<disk, view, fil>>
            BY <1>11 DEF OpenCall
      <2> QED BY <2>1, DiskStill, SeenStill DEF Stays, WriterKept
<1>12. CASE UNCHANGED vars
      <2>1. UNCHANGED <<disk, view, fil>>
            BY <1>12 DEF vars
      <2> QED BY <2>1, DiskStill, SeenStill DEF Stays, WriterKept
<1> QED BY <1>2, <1>3, <1>4, <1>5, <1>6, <1>7, <1>8, <1>9, <1>10, <1>11, <1>12
           DEF Next, Step

\* A step of FatVolume is a step of FileStore, or none.
LEMMA StoreStep == Inv /\ [Next]_vars => [Store!Next]_(Store!store)
<1> SUFFICES ASSUME Inv, [Next]_vars PROVE Store!Next \/ UNCHANGED Store!store
    OBVIOUS
<1> DEFINE D == [f \in Files |-> OnDisk(f)]
           A == [f \in Files |-> AsSeen(f)]
<1>d. DiskKept => D' = D
      BY DEF DiskKept
<1>s. SeenKept => A' = A
      BY DEF SeenKept
<1>1. CASE Stays
      <2>1. UNCHANGED <<D, A, fil.file, fil.text>>
            BY <1>1, <1>d, <1>s DEF Stays, WriterKept
      <2> QED BY <2>1 DEF Store!store
<1>2. CASE Truncates
      <2>1. PICK f \in Files : Emptied(f)
            BY <1>2 DEF Truncates
      <2>2. A' = [A EXCEPT ![f] = <<>>]
            BY <2>1 DEF Emptied
      <2>3. UNCHANGED <<D, fil.file, fil.text>>
            BY <1>2, <1>d DEF Truncates, WriterKept
      <2>4. Store!Truncate(f)
            BY <2>2, <2>3 DEF Store!Truncate
      <2> QED BY <2>4 DEF Store!Next
<1>3. CASE Opens
      <2> PICK f \in Files : f = fil'.file
          BY <1>3 DEF Opens
      <2>1. fil'.text = A[f]
            BY <1>3 DEF Opens
      <2>2. UNCHANGED <<D, A>> /\ fil.file = Nobody /\ fil'.file = f
            BY <1>3, <1>d, <1>s DEF Opens
      <2>3. Store!Open(f)
            BY <2>1, <2>2 DEF Store!Open
      <2> QED BY <2>3 DEF Store!Next
<1>4. CASE Puts
      <2>1. /\ UNCHANGED <<D, A, fil.file>> /\ fil.file # Nobody
            /\ fil'.text = Append(fil.text, opens) /\ opens \in Units
            BY <1>4, <1>d, <1>s DEF Puts
      <2>2. Store!Put(opens)
            BY <2>1 DEF Store!Put
      <2> QED BY <2>1, <2>2 DEF Store!Next
<1>5. CASE Closes
      <2>1. A' = [A EXCEPT ![fil.file] = fil.text]
            BY <1>5 DEF Closes
      <2>2. UNCHANGED <<D, fil.file, fil.text>> /\ fil.file # Nobody
            BY <1>5, <1>d DEF Closes, WriterKept
      <2>3. Store!Close
            BY <2>1, <2>2 DEF Store!Close
      <2> QED BY <2>3 DEF Store!Next
<1>6. CASE Settles
      <2>1. D' = A
            BY <1>6 DEF Settles
      <2>2. UNCHANGED <<A, fil.file, fil.text>>
            BY <1>6, <1>s DEF Settles, WriterKept
      <2>3. Store!Settle
            BY <2>1, <2>2 DEF Store!Settle
      <2> QED BY <2>3 DEF Store!Next
<1>7. CASE Leaves
      <2>1. UNCHANGED <<D, A>> /\ fil'.file = Nobody /\ fil'.text = <<>>
            BY <1>7, <1>d, <1>s DEF Leaves, Left
      <2>2. Store!Leave
            BY <2>1 DEF Store!Leave
      <2> QED BY <2>2 DEF Store!Next
<1>8. CASE Loses
      <2>1. A' = D
            BY <1>8 DEF Loses
      <2>2. UNCHANGED D /\ fil'.file = Nobody /\ fil'.text = <<>>
            BY <1>8, <1>d DEF Loses, Left
      <2>3. Store!Lose
            BY <2>1, <2>2 DEF Store!Lose
      <2> QED BY <2>3 DEF Store!Next
<1> QED BY <1>1, <1>2, <1>3, <1>4, <1>5, <1>6, <1>7, <1>8, Effects

LEMMA StoreInit == Init => Store!Init
<1> SUFFICES ASSUME Init PROVE Store!Init
    OBVIOUS
<1>1. /\ disk.dir = [f \in Files |-> NoEntry] /\ view = [fat |-> disk.fat, dir |-> disk.dir]
      /\ view.dir = disk.dir /\ fil = NoFile
      BY DEF Init
<1>2. \A f \in Files : OnDisk(f) = <<>> /\ AsSeen(f) = <<>>
      <2>1. \A f \in Files : disk.dir[f].size = 0 /\ view.dir[f].size = 0
            BY <1>1, NoTypes
      <2> QED BY <2>1, NoText DEF OnDisk, AsSeen
<1>3. <<>> \in Seq(Units)
      OBVIOUS
<1>4. [f \in Files |-> OnDisk(f)] \in [Files -> Seq(Units)]
      BY <1>2, <1>3
<1>5. [f \in Files |-> AsSeen(f)] = [f \in Files |-> OnDisk(f)]
      BY <1>2
<1> QED BY <1>1, <1>4, <1>5, NoFileText DEF Store!Init

\* FatVolume implements FileStore: at every moment, and whatever fails, a file
\* on the card holds what it held before, nothing if its creation has begun, or
\* all that its writer had written when it was closed, and no file changes but
\* the one at hand (f_open, f_write and f_sync of ff.c, with move_window and
\* sync_window between them).
THEOREM FilesAreStored == Spec => StoreSpec
<1>1. Spec => []Inv
      BY AlwaysInv
<1>2. Inv /\ [Next]_vars => [Store!Next]_(Store!store)
      BY StoreStep
<1>3. Spec => Store!Init /\ [][Store!Next]_(Store!store)
      BY <1>1, <1>2, StoreInit, PTL DEF Spec
<1> QED BY <1>3 DEF StoreSpec, Store!Spec
-----------------------------------------------------------------------------
(* What a close has reported.                                                *)

Closing == pc \in {"data", "entry", "dir", "info"}

\* What is acknowledged is also what the window shows, so that no write of the
\* window takes it back; a file that is being closed has nothing acknowledged.
AckInv ==
    /\ \A f \in Files : acked[f] # Unsettled =>
          OnDisk(f) = acked[f] /\ AsSeen(f) = acked[f]
    /\ Closing => acked[fil.file] = Unsettled

LEMMA AckKept ==
    ASSUME AckInv, acked' = acked, Stays \/ Opens \/ Puts \/ Settles \/ Leaves \/ Loses,
           Closing' => Closing /\ fil'.file = fil.file
    PROVE  AckInv'
<1>1. Closing' => acked'[fil'.file] = Unsettled
      BY DEF AckInv
<1>2. ASSUME NEW f \in Files, acked[f] # Unsettled
      PROVE  OnDisk(f)' = acked[f] /\ AsSeen(f)' = acked[f]
      <2>1. OnDisk(f) = acked[f] /\ AsSeen(f) = acked[f]
            BY <1>2 DEF AckInv
      <2>2. CASE Stays \/ Opens \/ Puts \/ Leaves
            BY <2>1, <2>2 DEF Stays, Opens, Puts, Leaves, DiskKept, SeenKept
      <2>3. CASE Settles
            BY <2>1, <2>3 DEF Settles, SeenKept
      <2>4. CASE Loses
            BY <2>1, <2>4 DEF Loses, DiskKept
      <2> QED BY <2>2, <2>3, <2>4
<1> QED BY <1>1, <1>2 DEF AckInv

\* A file that is made anew loses what was acknowledged.
LEMMA AckClear ==
    ASSUME Typed, Control, Lengths, AckInv, Clear
    PROVE  AckInv'
<1> PICK h : h = arg.file
    OBVIOUS
<1>1. h \in Files /\ DiskKept /\ Emptied(h)
      BY ClearTruncates
<1>2. acked' = [acked EXCEPT ![h] = Unsettled] /\ ~Closing'
      BY ClearIs DEF Closing
<1>3. ASSUME NEW f \in Files, acked'[f] # Unsettled
      PROVE  OnDisk(f)' = acked'[f] /\ AsSeen(f)' = acked'[f]
      <2>1. f # h /\ acked'[f] = acked[f]
            BY <1>2, <1>3 DEF Typed
      <2> QED BY <1>1, <1>3, <2>1 DEF AckInv, DiskKept, Emptied
<1> QED BY <1>2, <1>3 DEF AckInv

\* The entry that is written is that of a file that has nothing acknowledged.
LEMMA AckEntry ==
    ASSUME Typed, Control, TextInv, AckInv, Entry
    PROVE  AckInv'
<1>1. Closes /\ pc = "entry" /\ pc' = "dir" /\ acked' = acked /\ fil' = fil
      BY EntryCloses, EntryIs
<1>2. acked[fil.file] = Unsettled
      BY <1>1 DEF AckInv, Closing
<1>3. ASSUME NEW f \in Files, acked[f] # Unsettled
      PROVE  OnDisk(f)' = acked[f] /\ AsSeen(f)' = acked[f]
      BY <1>1, <1>2, <1>3 DEF AckInv, Closes, DiskKept
<1> QED BY <1>1, <1>2, <1>3 DEF AckInv

\* A close begins.
LEMMA AckBegins ==
    ASSUME Typed, Control, AckInv, CloseCall, fil.modified
    PROVE  AckInv'
<1>1. /\ UNCHANGED <<disk, view, fil>> /\ fil.file \in Files
      /\ acked' = [acked EXCEPT ![fil.file] = Unsettled]
      BY Fields DEF CloseCall, Control, IsOpen
<1>2. DiskKept /\ SeenKept
      BY <1>1, DiskStill, SeenStill
<1>3. acked'[fil'.file] = Unsettled
      BY <1>1 DEF Typed
<1>4. ASSUME NEW f \in Files, acked'[f] # Unsettled
      PROVE  OnDisk(f)' = acked'[f] /\ AsSeen(f)' = acked'[f]
      <2>1. acked'[f] = acked[f]
            BY <1>1, <1>4 DEF Typed
      <2> QED BY <1>2, <1>4, <2>1 DEF AckInv, DiskKept, SeenKept
<1> QED BY <1>3, <1>4 DEF AckInv

\* The card holds what the close that ends here has reported.
LEMMA AckInfo ==
    ASSUME Inv, AckInv, Info
    PROVE  AckInv'
<1>1. Typed /\ Control /\ Coherent /\ TextInv
      BY DEF Inv
<1>2. /\ pc = "info" /\ Closed /\ pc' = "ready" /\ view' = view
      /\ disk'.fat = disk.fat /\ disk'.dir = disk.dir /\ disk'.data = disk.data
      BY <1>1, InfoIs
<1>3. fil.file \in Files /\ fil.modified /\ ~fil.dirty /\ ~win.dirty
      BY <1>1, <1>2, Fields DEF Control, IsOpen, Coherent
<1>4. acked' = [acked EXCEPT ![fil.file] = fil.text]
      BY <1>2, <1>3 DEF Closed
<1>5. DiskKept /\ SeenKept
      BY <1>2, DiskStill, SeenStill
<1>6. disk.fat = view.fat /\ disk.dir = view.dir
      <2>1. disk.fat \in Fat /\ view.fat \in Fat
            BY <1>1, Fields
      <2> QED BY <1>1, <1>3, <2>1 DEF Coherent, Fat
<1>7. OnDisk(fil.file) = fil.text /\ AsSeen(fil.file) = fil.text
      <2>1. view.dir[fil.file].start = fil.start /\ view.dir[fil.file].size = fil.size
            BY <1>1, <1>2 DEF TextInv
      <2>2. Text(view.dir[fil.file], view.fat, disk.data) = fil.text
            BY <1>1, <1>3, <2>1, WholeText
      <2> QED BY <1>6, <2>2 DEF OnDisk, AsSeen
<1>8. ASSUME NEW f \in Files, acked'[f] # Unsettled
      PROVE  OnDisk(f)' = acked'[f] /\ AsSeen(f)' = acked'[f]
      <2>1. OnDisk(f)' = OnDisk(f) /\ AsSeen(f)' = AsSeen(f)
            BY <1>5 DEF DiskKept, SeenKept
      <2>2. CASE f = fil.file
            <3>1. acked'[f] = fil.text
                  BY <1>1, <1>4, <2>2 DEF Typed
            <3> QED BY <1>7, <2>1, <2>2, <3>1
      <2>3. CASE f # fil.file
            <3>1. acked'[f] = acked[f]
                  BY <1>1, <1>4, <2>3 DEF Typed
            <3> QED BY <1>8, <2>1, <3>1 DEF AckInv
      <2> QED BY <2>2, <2>3
<1>9. ~Closing'
      BY <1>2 DEF Closing
<1> QED BY <1>8, <1>9 DEF AckInv

LEMMA AckStep ==
    ASSUME ~Retry, Inv, AckInv, [Next]_vars
    PROVE  AckInv'
<1>1. Typed /\ Control /\ Coherent /\ Rooted /\ Lengths /\ TextInv
      BY DEF Inv
<1>2. CASE Flush \/ Dir
      <2>1. Settles /\ acked' = acked /\ fil' = fil
            BY <1>1, <1>2, SyncSettles, SyncIs
      <2>2. Closing' => Closing
            BY <1>2 DEF Closing, Flush, Dir
      <2> QED BY <2>1, <2>2, AckKept
<1>3. CASE Clear
      BY <1>1, <1>3, AckClear
<1>4. CASE Free \/ Link \/ Grow
      <2>1. Stays /\ acked' = acked
            BY <1>1, <1>4, FatStays DEF Free, Link, Grow
      <2>2. ~Closing'
            BY <1>4 DEF Closing, Free, Link, Grow, Return
      <2> QED BY <2>1, <2>2, AckKept
<1>5. CASE Reopen \/ Find \/ Seek
      <2>1. (Stays \/ Opens) /\ acked' = acked
            BY <1>1, <1>5, OpenOpens DEF Reopen, Find, Seek
      <2>2. ~Closing'
            BY <1>5 DEF Closing, Reopen, Find, Seek, Return
      <2> QED BY <2>1, <2>2, AckKept
<1>6. CASE Spill \/ WriteCall
      <2>1. (Stays \/ Puts) /\ acked' = acked
            BY <1>1, <1>6, WritePuts DEF Spill, WriteCall
      <2>2. ~Closing'
            BY <1>6 DEF Closing, Spill, WriteCall, Return
      <2> QED BY <2>1, <2>2, AckKept
<1>7. CASE Data
      <2>1. Stays /\ acked' = acked /\ Closing /\ fil'.file = fil.file
            BY <1>1, <1>7, DataStays, DataIs DEF Closing
      <2> QED BY <2>1, AckKept
<1>8. CASE Entry
      BY <1>1, <1>8, AckEntry
<1>9. CASE Info
      BY <1>9, AckInfo
<1>10. CASE Forget \/ Fail \/ Locked
      <2>1. (Stays \/ Leaves) /\ acked' = acked
            BY <1>1, <1>10, CloseLeaves DEF Forget, Fail, Locked
      <2>2. ~Closing'
            BY <1>10 DEF Closing, Forget, Fail, Locked, Return
      <2> QED BY <2>1, <2>2, AckKept
<1>11. CASE CloseCall /\ fil.modified
      BY <1>1, <1>11, AckBegins
<1>12. CASE CloseCall /\ ~fil.modified
      <2>1. fil.bad # "close" /\ Closed
            BY <1>12 DEF CloseCall
      <2>2. acked' = acked /\ ~Closing'
            BY <1>12, <2>1 DEF Closed, Return, Closing
      <2>3. Stays \/ Leaves
            BY <1>1, <1>12, CloseLeaves
      <2> QED BY <2>2, <2>3, AckKept
<1>13. CASE Mount \/ PowerLoss
      <2>1. Loses /\ acked' = acked /\ ~Closing'
            BY <1>1, <1>13, FreshLoses, FreshIs DEF Closing
      <2> QED BY <2>1, AckKept
<1>14. ASSUME NEW f \in Files, NEW m \in {"create", "append"}, OpenCall(f, m)
       PROVE  AckInv'
      <2>1. UNCHANGED <<disk, view, fil, acked>> /\ ~Closing'
            BY <1>14 DEF OpenCall, Closing
      <2>2. Stays
            BY <2>1, DiskStill, SeenStill DEF Stays, WriterKept
      <2> QED BY <2>1, <2>2, AckKept
<1>15. CASE UNCHANGED vars
      <2>1. UNCHANGED <<disk, view, fil, acked, pc>>
            BY <1>15 DEF vars
      <2>2. Stays
            BY <2>1, DiskStill, SeenStill DEF Stays, WriterKept
      <2> QED BY <2>1, <2>2, AckKept DEF Closing
<1> QED BY <1>2, <1>3, <1>4, <1>5, <1>6, <1>7, <1>8, <1>9, <1>10, <1>11, <1>12,
           <1>13, <1>14, <1>15 DEF Next, Step

\* What a close that returned FR_OK has reported stays on the card until the
\* file is created anew or its next close begins, whatever fails and whenever
\* the power does, if nobody calls a close again that failed (f_sync clears
\* FA_MODIFIED although sync_fs failed; no caller in the repository does so).
THEOREM ClosedIsDurable == ~Retry => (Spec => []AckedIsDurable)
<1> SUFFICES ASSUME ~Retry PROVE Spec => []AckedIsDurable
    OBVIOUS
<1>1. Init => AckInv
      BY DEF Init, AckInv, Closing
<1>2. Inv /\ AckInv /\ [Next]_vars => AckInv'
      BY AckStep
<1>3. AckInv => AckedIsDurable
      BY DEF AckInv, AckedIsDurable
<1> QED BY <1>1, <1>2, <1>3, AlwaysInv, PTL DEF Spec
-----------------------------------------------------------------------------
(* As long as nothing has failed or been cut off: what is outstanding.       *)

Count(t) == Cardinality(Used(t))

\* There is something for the card that the close of the open file will write.
Busy == fil.modified \/ pc \in {"free", "reopen", "link", "spill"}

Pending ==
    clean => /\ win.dirty \/ fs.flag = 1 => Busy
             /\ IsOpen \/ pc # "ready" => fs.mounted
             /\ ~fs.mounted => ~win.dirty /\ disk.free + Count(disk) = Clusters

\* free_clst is short of no cluster but the one that is not linked yet.
Counted ==
    clean /\ fs.mounted =>
        /\ fs.free + Count(view) = IF pc = "link" THEN Clusters + 1 ELSE Clusters
        /\ fs.flag = 0 => disk.free = fs.free

LEMMA Tally == \A t : IsFiniteSet(Used(t)) /\ Count(t) \in 0..Clusters
<1> SUFFICES ASSUME NEW t PROVE IsFiniteSet(Used(t)) /\ Count(t) \in 0..Clusters
    OBVIOUS
<1>1. Used(t) \in SUBSET Cluster
      BY DEF Used
<1>2. IsFiniteSet(Used(t)) /\ Cardinality(Used(t)) =< Cardinality(Cluster)
      BY <1>1, ClusterFacts, FS_Subset
<1>3. Cardinality(Used(t)) \in Nat
      BY <1>2, FS_CardinalityType
<1> QED BY <1>2, <1>3, ClusterFacts DEF Count

LEMMA TallySame ==
    ASSUME NEW t, NEW u, \A c \in Cluster : u.fat[c] # 0 <=> t.fat[c] # 0
    PROVE  Count(u) = Count(t)
<1>1. Used(u) = Used(t)
      BY DEF Used
<1> QED BY <1>1 DEF Count

\* One cluster more is used in u than in t.
LEMMA TallyMore ==
    ASSUME NEW t, NEW u, NEW d \in Cluster, OnlyAt(t.fat, u.fat, d),
           t.fat[d] = 0, u.fat[d] # 0
    PROVE  Count(u) = Count(t) + 1
<1>1. Used(u) = Used(t) \cup {d} /\ d \notin Used(t)
      BY DEF Used, OnlyAt
<1> QED BY <1>1, Tally, FS_AddElement DEF Count

\* What a step that leaves everything well can be.
LEMMA CleanStep ==
    ASSUME Typed, Next, clean'
    PROVE  /\ clean /\ ~Fail /\ ~Forget /\ ~PowerLoss
           /\ Mount => fil = NoFile
           /\ Info /\ fs.flag = 1 => disk' = [disk EXCEPT !.free = fs.free, !.last = fs.last]
<1>1. ~Fail /\ ~Forget /\ ~PowerLoss
      BY DEF Fail, Forget, PowerLoss
<1>2. CASE Mount
      BY <1>1, <1>2 DEF Mount, Info
<1>3. CASE Info
      BY <1>1, <1>3 DEF Mount, Info
<1>4. CASE ~Mount /\ ~Info
      <2>1. clean' = clean
            BY <1>1, <1>4 DEF Next, Step, Flush, Locked, Clear, Free, Reopen, Find, Seek,
                  Grow, Link, Spill, Data, Entry, Dir, WriteCall, CloseCall, OpenCall
      <2> QED BY <1>1, <1>4, <2>1
<1> QED BY <1>2, <1>3, <1>4

LEMMA BookedIs ==
    \A c : Typed /\ Booked(c) =>
        /\ fs'.mounted = fs.mounted /\ fs'.flag = 1
        /\ fs'.free = IF fs.free =< Clusters THEN fs.free - 1 ELSE fs.free
<1> SUFFICES ASSUME NEW c, Typed, Booked(c)
             PROVE  /\ fs'.mounted = fs.mounted /\ fs'.flag = 1
                    /\ fs'.free = IF fs.free =< Clusters THEN fs.free - 1 ELSE fs.free
    OBVIOUS
<1> DEFINE k == IF fs.free =< Clusters THEN fs.free - 1 ELSE fs.free
<1>1. fs \in Mounts
      BY DEF Typed
<1>2. fs' = [fs EXCEPT !.last = c, !.flag = 1, !.free = k]
      BY <1>1 DEF Booked, Mounts
<1> HIDE DEF k
<1>3. fs'.mounted = fs.mounted /\ fs'.flag = 1 /\ fs'.free = k
      BY <1>1, <1>2 DEF Mounts
<1> QED BY <1>3 DEF k

\* Nothing but f_mount is called on a card that is not mounted.
LEMMA Mounted ==
    ASSUME Control, Pending, Next, clean, ~Fail, ~Forget, ~PowerLoss, ~Mount
    PROVE  fs.mounted
<1>1. CASE Flush
      <2>1. win.dirty
            BY <1>1 DEF Flush
      <2> QED BY <2>1 DEF Pending
<1>2. CASE \E f \in Files, m \in {"create", "append"} : OpenCall(f, m)
      BY <1>2 DEF OpenCall
<1>3. CASE WriteCall \/ CloseCall
      BY <1>3 DEF WriteCall, CloseCall, Control, Pending
<1>4. CASE ~Flush /\ Step
      <2>1. pc # "ready"
            BY <1>4 DEF Step, Locked, Clear, Free, Reopen, Find, Seek, Grow, Link, Spill,
                  Data, Entry, Dir, Info
      <2> QED BY <2>1 DEF Pending
<1> QED BY <1>1, <1>2, <1>3, <1>4 DEF Next

LEMMA PendingKept ==
    ASSUME Pending, clean, fs.mounted, fs'.mounted = fs.mounted,
           win'.dirty => win.dirty \/ Busy', fs'.flag = 1 => fs.flag = 1 \/ Busy',
           Busy => Busy'
    PROVE  Pending'
BY DEF Pending

LEMMA PendingQuiet ==
    ASSUME fs'.mounted, ~win'.dirty, fs'.flag # 1
    PROVE  Pending'
BY DEF Pending

LEMMA Quiet ==
    ASSUME Control, Pending, clean, ~Busy
    PROVE  ~win.dirty /\ fs.flag # 1
BY DEF Pending

\* What a card and its window have when nothing is outstanding.
LEMMA QuietCard ==
    ASSUME Typed, Coherent, Pending, Counted, clean, ~Busy
    PROVE  /\ disk.fat = view.fat /\ disk.dir = view.dir /\ ~win.dirty
           /\ disk.free + Count(disk) = Clusters
<1>1. ~win.dirty /\ fs.flag # 1
      BY DEF Pending
<1>2. /\ disk.fat \in Fat /\ view.fat \in Fat /\ fs.flag \in 0..1
      /\ fs.mounted \in BOOLEAN
      BY Fields DEF Typed, Mounts
<1>3. disk.fat = view.fat /\ disk.dir = view.dir
      BY <1>1, <1>2 DEF Coherent, Fat
<1>4. CASE fs.mounted
      <2>1. pc # "link" /\ fs.flag = 0
            BY <1>1, <1>2 DEF Busy
      <2>2. disk.free + Count(view) = Clusters
            BY <1>4, <2>1 DEF Counted
      <2>3. Count(disk) = Count(view)
            BY <1>3, TallySame
      <2> QED BY <1>1, <1>3, <2>2, <2>3
<1>5. CASE ~fs.mounted
      BY <1>1, <1>3, <1>5 DEF Pending
<1> QED BY <1>2, <1>4, <1>5

LEMMA PendingStep ==
    ASSUME Typed, Control, Coherent, Lengths, Pending, Next
    PROVE  Pending'
<1> SUFFICES ASSUME clean' PROVE Pending'
    BY DEF Pending
<1>0. /\ clean /\ ~Fail /\ ~Forget /\ ~PowerLoss /\ (Mount => fil = NoFile)
      /\ (~Mount => fs.mounted)
      BY CleanStep, Mounted
<1>1. CASE Flush \/ Dir
      <2>1. fs' = fs /\ fil' = fil /\ win'.dirty = FALSE
            BY <1>1, SyncIs
      <2>2. Busy => Busy'
            BY <1>1, <2>1 DEF Busy, Flush, Dir, Control
      <2>3. fs.mounted
            BY <1>0, <1>1 DEF Flush, Dir, Pending
      <2> QED BY <1>0, <2>1, <2>2, <2>3, PendingKept
<1>2. CASE Clear
      <2>1. Busy' /\ fs' = fs
            BY <1>2, ClearIs DEF Busy
      <2>2. fs.mounted
            BY <1>2 DEF Pending, Clear
      <2> QED BY <1>0, <2>1, <2>2, PendingKept
<1>3. CASE Free
      <2>1. Busy' /\ fs'.mounted = fs.mounted /\ fs.mounted
            BY <1>0, <1>3, FreeIs DEF Busy, Pending
      <2> QED BY <1>0, <2>1, PendingKept
<1>4. CASE Reopen
      <2>1. Busy' /\ fs'.mounted = fs.mounted /\ fs.mounted
            BY <1>0, <1>4, ReopenIs DEF Busy, Pending
      <2> QED BY <1>0, <2>1, PendingKept
<1>5. CASE Find \/ Seek \/ Locked
      <2>1. pc \in {"find", "seek"} /\ fs' = fs
            BY <1>5 DEF Find, Seek, Locked
      <2>2. WinKept
            <3>1. CASE Find \/ Seek
                  BY <3>1, FindIs, SeekKeeps
            <3>2. CASE Locked
                  <4>1. win.dirty => win.at = DirSector
                        BY <3>2 DEF Locked, Reach, Wanted
                  <4> QED BY <3>2, <4>1, SeenKeeps DEF Locked
            <3> QED BY <1>5, <3>1, <3>2
      <2>3. ~Busy
            BY <2>1, NoTypes DEF Busy, Control
      <2>4. ~win.dirty /\ fs.flag # 1 /\ fs.mounted
            BY <1>0, <2>1, <2>3, Quiet DEF Pending
      <2> QED BY <2>1, <2>2, <2>4, PendingQuiet DEF WinKept
<1>6. CASE Grow
      <2>1. pc = "grow" /\ fs.mounted
            BY <1>0, <1>6, GrowSplit DEF Pending
      <2>2. CASE Onward \/ Full
            <3>1. Busy' /\ fs' = fs
                  BY <2>2 DEF Busy, Onward, Full
            <3> QED BY <1>0, <2>1, <3>1, PendingKept
      <2>3. ASSUME NEW c \in Cluster, Taken(c) PROVE Pending'
            <3>1. Busy' /\ fs'.mounted = fs.mounted
                  BY <2>3, BookedIs DEF Busy, Taken
            <3> QED BY <1>0, <2>1, <3>1, PendingKept
      <2> QED BY <1>6, <2>2, <2>3, GrowSplit
<1>7. CASE Link
      <2>1. Busy' /\ fs'.mounted = fs.mounted /\ fs.mounted
            BY <1>0, <1>7, LinkIs, BookedIs DEF Busy, Pending
      <2> QED BY <1>0, <2>1, PendingKept
<1>8. CASE Spill \/ Data \/ Entry
      <2>1. pc \in {"spill", "data", "entry"} /\ fs' = fs
            BY <1>8, SpillIs, DataIs, EntryIs
      <2>2. Busy'
            <3>1. CASE Spill
                  BY <3>1, SpillIs DEF Busy
            <3>2. CASE Data \/ Entry
                  BY <3>2, DataIs, EntryIs DEF Busy, Control
            <3> QED BY <1>8, <3>1, <3>2
      <2>3. fs.mounted
            BY <1>0, <2>1 DEF Pending
      <2> QED BY <1>0, <2>1, <2>2, <2>3, PendingKept
<1>9. CASE Info
      <2>1. ~win.dirty /\ fs.mounted
            BY <1>0, <1>9 DEF Coherent, Pending, Info
      <2>2. ~win'.dirty
            BY <1>9, <2>1, InfoIs
      <2>3. fs'.mounted = fs.mounted /\ fs'.flag # 1
            <3>1. fs \in Mounts
                  BY DEF Typed
            <3>2. fs' = [fs EXCEPT !.flag = 0] \/ (fs' = fs /\ fs.flag # 1)
                  BY <1>9 DEF Info
            <3> QED BY <3>1, <3>2 DEF Mounts
      <2> QED BY <2>1, <2>2, <2>3, PendingQuiet
<1>10. CASE Mount
      <2>1. fs'.mounted /\ fs'.flag # 1 /\ ~win'.dirty
            BY <1>10 DEF Mount
      <2> QED BY <2>1, PendingQuiet
<1>11. CASE WriteCall
      <2>1. fs.mounted /\ fs' = fs /\ win' = win /\ pc = "ready"
            BY <1>0, <1>11 DEF WriteCall, Pending, Control
      <2>2. Busy => Busy'
            <3>1. CASE fil.size % SectorUnits # 0
                  BY <1>11, <3>1, WriteIs DEF Busy
            <3>2. CASE fil.size % SectorUnits = 0
                  BY <1>11, <2>1, <3>2, WriteOn DEF Busy
            <3> QED BY <3>1, <3>2
      <2> QED BY <1>0, <2>1, <2>2, PendingKept
<1>12. CASE CloseCall
      <2>1. fs.mounted /\ fs' = fs /\ win' = win /\ pc = "ready"
            BY <1>0, <1>12 DEF CloseCall, Pending, Control
      <2>2. CASE fil.modified
            <3>1. Busy'
                  BY <1>12, <2>2 DEF CloseCall, Busy
            <3> QED BY <1>0, <2>1, <3>1, PendingKept
      <2>3. CASE ~fil.modified
            <3>1. ~Busy
                  BY <2>1, <2>3 DEF Busy
            <3>2. ~win.dirty /\ fs.flag # 1
                  BY <1>0, <3>1, Quiet
            <3> QED BY <2>1, <3>2, PendingQuiet
      <2> QED BY <2>2, <2>3
<1>13. ASSUME NEW f \in Files, NEW m \in {"create", "append"}, OpenCall(f, m)
       PROVE  Pending'
      <2>1. fs.mounted /\ fs' = fs /\ win' = win /\ fil' = fil /\ pc = "ready"
            BY <1>13 DEF OpenCall
      <2>2. Busy => Busy'
            BY <2>1 DEF Busy
      <2> QED BY <1>0, <2>1, <2>2, PendingKept
<1> QED BY <1>0, <1>1, <1>2, <1>3, <1>4, <1>5, <1>6, <1>7, <1>8, <1>9, <1>10, <1>11,
           <1>12, <1>13 DEF Next, Step

LEMMA CountedKept ==
    ASSUME Counted, clean, fs.mounted, fs'.mounted = fs.mounted, fs'.free = fs.free,
           fs'.flag = fs.flag, disk'.free = disk.free,
           \A c \in Cluster : view'.fat[c] # 0 <=> view.fat[c] # 0,
           pc' = "link" <=> pc = "link"
    PROVE  Counted'
<1>1. Count(view') = Count(view)
      BY TallySame
<1> QED BY <1>1 DEF Counted

\* remove_chain counts the cluster that it frees: it was used, so that the
\* count is below the number of clusters.
LEMMA CountedFree ==
    ASSUME Typed, Control, Coherent, Rooted, Counted, clean, fs.mounted, Free
    PROVE  Counted'
<1> DEFINE c == arg.clu
<1>1. /\ pc = "free" /\ pc' # "link" /\ c \in Cluster /\ disk' = disk
      /\ fs'.mounted = fs.mounted
      /\ IF fs.free < Clusters THEN fs'.free = fs.free + 1 /\ fs'.flag = 1
         ELSE fs' = fs
      BY FreeIs, FreeOf
<1>2. view.fat[c] # 0 /\ view'.fat = [view.fat EXCEPT ![c] = 0] /\ view.fat \in Fat
      BY FreeOf, Fields
<1>3. OnlyAt(view'.fat, view.fat, c) /\ view'.fat[c] = 0
      BY <1>1, <1>2 DEF OnlyAt, Fat
<1>4. Count(view) = Count(view') + 1
      BY <1>1, <1>2, <1>3, TallyMore
<1>5. Count(view) \in Nat /\ Count(view') \in Nat /\ fs.free \in Nat /\ Clusters \in Nat
      BY Tally, Fields, ClusterFacts
<1>6. fs.free + Count(view) = Clusters
      BY <1>1 DEF Counted
<1> HIDE DEF c
<1>7. fs.free < Clusters
      BY <1>4, <1>5, <1>6
<1>8. fs'.free + Count(view') = Clusters /\ fs'.flag # 0
      BY <1>1, <1>4, <1>5, <1>6, <1>7
<1> QED BY <1>1, <1>8 DEF Counted

\* create_chain counts the cluster that it takes, once it is linked.
LEMMA CountedTaken ==
    ASSUME Typed, Counted, clean, fs.mounted, pc = "grow", disk' = disk,
           NEW c \in Cluster, Taken(c)
    PROVE  Counted'
<1>1. view.fat[c] = 0 /\ view'.fat = [view.fat EXCEPT ![c] = EOC] /\ view.fat \in Fat
      BY Fields DEF Taken
<1>2. OnlyAt(view.fat, view'.fat, c) /\ view'.fat[c] # 0
      BY <1>1, FatAssumption DEF OnlyAt, Fat, EOC
<1>3. Count(view') = Count(view) + 1
      BY <1>1, <1>2, TallyMore
<1>4. /\ Count(view) \in Nat /\ fs.free \in Nat /\ Clusters \in Nat
      /\ fs.free + Count(view) = Clusters
      BY Tally, Fields, ClusterFacts DEF Counted
<1>5. CASE pc' = "spill" /\ Booked(c)
      <2>1. fs.free =< Clusters
            BY <1>4
      <2>2. fs'.flag = 1 /\ fs'.free = fs.free - 1
            BY <1>5, <2>1, BookedIs
      <2> QED BY <1>3, <1>4, <1>5, <2>2 DEF Counted
<1>6. CASE pc' = "link" /\ fs' = fs
      <2>1. fs.flag = 0 => disk.free = fs.free
            BY DEF Counted
      <2> QED BY <1>3, <1>4, <1>6, <2>1 DEF Counted
<1> QED BY <1>5, <1>6 DEF Taken

LEMMA CountedLink ==
    ASSUME Typed, Control, Rooted, Lengths, Counted, clean, fs.mounted, Link
    PROVE  Counted'
<1>1. /\ pc = "link" /\ pc' = "spill" /\ fil.clust \in Cluster /\ arg.clu \in Cluster
      /\ view'.fat = [view.fat EXCEPT ![fil.clust] = arg.clu] /\ Booked(arg.clu)
      BY LinkIs
<1>2. view.fat \in Fat /\ view.fat[fil.clust] # 0 /\ arg.clu # 0
      BY <1>1, Fields, ClusterFacts, FatAssumption DEF Rooted, EOC
<1>3. Count(view') = Count(view)
      <2>1. \A c \in Cluster : view'.fat[c] # 0 <=> view.fat[c] # 0
            BY <1>1, <1>2 DEF Fat
      <2> QED BY <2>1, TallySame
<1>4. /\ Count(view) \in Nat /\ fs.free \in Nat /\ Clusters \in Nat
      /\ fs.free + Count(view) = Clusters + 1
      BY <1>1, Tally, Fields, ClusterFacts DEF Counted
<1>5. Count(view) # 0
      <2>1. fil.clust \in Used(view)
            BY <1>1, <1>2 DEF Used
      <2> QED BY <2>1, Tally, FS_EmptySet DEF Count
<1>6. fs'.flag = 1 /\ fs'.free = fs.free - 1
      <2>1. fs.free =< Clusters
            BY <1>4, <1>5
      <2> QED BY <1>1, <2>1, BookedIs
<1> QED BY <1>1, <1>3, <1>4, <1>6 DEF Counted

LEMMA CountedStep ==
    ASSUME Typed, Control, Coherent, Rooted, Lengths, Pending, Counted, Next
    PROVE  Counted'
<1> SUFFICES ASSUME clean' PROVE Counted'
    BY DEF Counted
<1>0. /\ clean /\ ~Fail /\ ~Forget /\ ~PowerLoss /\ (Mount => fil = NoFile)
      /\ (~Mount => fs.mounted)
      BY CleanStep, Mounted
<1>1. CASE Mount
      <2>1. ~Busy
            BY <1>0, <1>1, NoTypes DEF Mount, Busy
      <2>2. disk.fat = view.fat /\ disk.free + Count(disk) = Clusters
            BY <1>0, <2>1, QuietCard
      <2>3. disk' = disk /\ view'.fat = disk.fat /\ fs'.free = disk.free /\ pc' # "link"
            BY <1>1 DEF Mount, Fresh
      <2>4. Count(view') = Count(disk)
            BY <2>3, TallySame
      <2> QED BY <2>2, <2>3, <2>4 DEF Counted
<1> SUFFICES ASSUME ~Mount PROVE Counted'
    BY <1>1
<1>2. fs.mounted
      BY <1>0
<1>3. CASE Flush \/ Dir
      <2>1. fs' = fs /\ view' = view /\ disk'.free = disk.free
            BY <1>3, SyncIs
      <2>2. pc' = "link" <=> pc = "link"
            BY <1>3 DEF Flush, Dir
      <2> QED BY <1>0, <1>2, <2>1, <2>2, CountedKept
<1>4. CASE Clear
      <2>1. fs' = fs /\ view'.fat = view.fat /\ disk' = disk /\ pc # "link" /\ pc' # "link"
            BY <1>4, ClearIs
      <2> QED BY <1>0, <1>2, <2>1, CountedKept
<1>5. CASE Free
      BY <1>0, <1>2, <1>5, CountedFree
<1>6. CASE Reopen \/ Find \/ Seek
      <2>1. /\ fs'.mounted = fs.mounted /\ fs'.free = fs.free /\ fs'.flag = fs.flag
            /\ view' = view /\ disk' = disk /\ pc # "link" /\ pc' # "link"
            BY <1>6, ReopenIs, FindIs, SeekKeeps
      <2> QED BY <1>0, <1>2, <2>1, CountedKept
<1>7. CASE Grow
      <2>1. pc = "grow" /\ disk' = disk
            BY <1>7, GrowSplit
      <2>2. CASE Onward \/ Full
            <3>1. fs' = fs /\ view' = view /\ pc' # "link"
                  BY <2>2 DEF Onward, Full
            <3> QED BY <1>0, <1>2, <2>1, <3>1, CountedKept
      <2>3. ASSUME NEW c \in Cluster, Taken(c) PROVE Counted'
            BY <1>0, <1>2, <2>1, <2>3, CountedTaken
      <2> QED BY <1>7, <2>2, <2>3, GrowSplit
<1>8. CASE Link
      BY <1>0, <1>2, <1>8, CountedLink
<1>9. CASE Spill \/ Data
      <2>1. fs' = fs /\ view' = view /\ disk'.free = disk.free /\ pc # "link" /\ pc' # "link"
            BY <1>9, SpillIs, DataIs, FlushedIs DEF Spill, Data
      <2> QED BY <1>0, <1>2, <2>1, CountedKept
<1>10. CASE Entry
      <2>1. fs' = fs /\ view'.fat = view.fat /\ disk' = disk /\ pc # "link" /\ pc' # "link"
            BY <1>10, EntryIs
      <2> QED BY <1>0, <1>2, <2>1, CountedKept
<1>11. CASE Info
      <2>1. pc = "info" /\ pc' = "ready" /\ view' = view
            BY <1>11, InfoIs
      <2>2. fs.free + Count(view) = Clusters
            BY <1>0, <1>2, <2>1 DEF Counted
      <2>3. CASE fs.flag = 1
            <3>1. fs \in Mounts /\ disk \in Volumes
                  BY DEF Typed
            <3>2. disk' = [disk EXCEPT !.free = fs.free, !.last = fs.last]
                  BY <1>11, <2>3, CleanStep
            <3>3. fs' = [fs EXCEPT !.flag = 0]
                  BY <1>11, <2>3 DEF Info
            <3>4. fs'.free = fs.free /\ disk'.free = fs.free
                  BY <3>1, <3>2, <3>3 DEF Mounts, Volumes
            <3> QED BY <2>1, <2>2, <3>4 DEF Counted
      <2>4. CASE fs.flag # 1
            <3>1. fs' = fs /\ disk' = disk
                  BY <1>11, <2>4 DEF Info
            <3> QED BY <1>0, <1>2, <2>1, <3>1, CountedKept
      <2> QED BY <2>3, <2>4
<1>12. CASE Locked \/ WriteCall \/ CloseCall
      <2>1. fs' = fs /\ view' = view /\ disk' = disk /\ pc # "link" /\ pc' # "link"
            BY <1>12 DEF Locked, WriteCall, CloseCall, Closed, Return
      <2> QED BY <1>0, <1>2, <2>1, CountedKept
<1>13. ASSUME NEW f \in Files, NEW m \in {"create", "append"}, OpenCall(f, m)
       PROVE  Counted'
      <2>1. fs' = fs /\ view' = view /\ disk' = disk /\ pc # "link" /\ pc' # "link"
            BY <1>13 DEF OpenCall
      <2> QED BY <1>0, <1>2, <2>1, CountedKept
<1> QED BY <1>0, <1>3, <1>4, <1>5, <1>6, <1>7, <1>8, <1>9, <1>10, <1>11, <1>12, <1>13
        DEF Next, Step

LEMMA CountsInit == Init => Pending /\ Counted
<1> SUFFICES ASSUME Init PROVE Pending /\ Counted
    OBVIOUS
<1>1. /\ disk.fat = [c \in Cluster |-> 0] /\ disk.free = Clusters
      /\ win.dirty = FALSE /\ fs.mounted = FALSE /\ fs.flag = 0 /\ pc = "ready" /\ fil = NoFile
      BY DEF Init
<1>2. Used(disk) = {}
      BY <1>1 DEF Used
<1>3. Count(disk) = 0
      BY <1>2, FS_EmptySet DEF Count
<1>4. disk.free + Count(disk) = Clusters
      BY <1>1, <1>3, ClusterFacts
<1> QED BY <1>1, <1>4, NoTypes DEF Pending, Counted, IsOpen

LEMMA CountsStep == Inv /\ Pending /\ Counted /\ [Next]_vars => Pending' /\ Counted'
<1> SUFFICES ASSUME Inv, Pending, Counted, [Next]_vars PROVE Pending' /\ Counted'
    OBVIOUS
<1>1. Typed /\ Control /\ Coherent /\ Rooted /\ Lengths
      BY DEF Inv
<1>2. CASE Next
      BY <1>1, <1>2, PendingStep, CountedStep
<1>3. CASE UNCHANGED vars
      <2>1. UNCHANGED <<clean, win, fs, fil, pc, disk, view>>
            BY <1>3 DEF vars
      <2> QED BY <2>1 DEF Pending, Counted, Busy, IsOpen, Count, Used
<1> QED BY <1>2, <1>3

LEMMA AlwaysCounted == Spec => [](Pending /\ Counted)
BY CountsInit, CountsStep, AlwaysInv, PTL DEF Spec

\* As long as every call ends well and no mount or power loss cuts one off,
\* free_clst, which create_chain trusts to tell a full card, counts the free
\* clusters between two files, and so does the FSINFO sector that sync_fs left
\* for the next mount: remove_chain and create_chain book each cluster once.
THEOREM FreeCountIsRight == Spec => []FreeCountRight
<1>1. Inv /\ Pending /\ Counted => FreeCountRight
      <2> SUFFICES ASSUME Inv, Pending, Counted, clean, pc = "ready", fil = NoFile
                   PROVE  /\ fs.mounted => fs.free = Clusters - Cardinality(Used(view))
                          /\ disk.free = Clusters - Cardinality(Used(disk))
          BY DEF FreeCountRight
      <2>1. Typed /\ Coherent
            BY DEF Inv
      <2>2. ~Busy
            BY NoTypes DEF Busy
      <2>3. disk.free + Count(disk) = Clusters
            BY <2>1, <2>2, QuietCard
      <2>4. fs.mounted => fs.free + Count(view) = Clusters
            BY DEF Counted
      <2>5. /\ Count(disk) \in Nat /\ Count(view) \in Nat /\ Clusters \in Nat
            /\ fs.free \in Nat /\ disk.free \in Nat
            BY <2>1, Tally, Fields, ClusterFacts
      <2> QED BY <2>3, <2>4, <2>5 DEF Count
<1> QED BY <1>1, AlwaysInv, AlwaysCounted, PTL
-----------------------------------------------------------------------------
(* As long as nothing has failed or been cut off: whose each cluster is.     *)

\* Cluster c is on the chain that begins at s.
On(fat, s, c) == \E n \in Nat : Reaches(fat, s, n) /\ Walk(fat, s)[n] = c

\* Cluster c belongs to a file or to the call in progress.
Owned(c) ==
    \/ \E f \in Files : On(view.fat, view.dir[f].start, c)
    \/ On(view.fat, fil.start, c)
    \/ pc = "free" /\ On(view.fat, arg.clu, c)
    \/ pc \in {"link", "spill"} /\ c = arg.clu

Kept == clean => \A c \in Cluster : view.fat[c] # 0 => Owned(c)

\* The entry of the open file knows the chain that the file object writes to,
\* or none, and then the close will write it.
Owner ==
    IsOpen => /\ view.dir[fil.file].start # 0 => view.dir[fil.file].start = fil.start
              /\ clean /\ ~fil.modified => view.dir[fil.file].start = fil.start

LEMMA OnNone == \A fat, c : ~On(fat, 0, c)
BY DEF On, Reaches

LEMMA OnGrown ==
    ASSUME NEW s, NEW c, Grown(s), On(view.fat, s, c)
    PROVE  On(view'.fat, s, c)
<1>1. PICK n \in Nat : Reaches(view.fat, s, n) /\ Walk(view.fat, s)[n] = c
      BY DEF On
<1>2. Reaches(view'.fat, s, n) /\ Same(view.fat, view'.fat, s, n)
      BY <1>1 DEF Grown
<1>3. n \in 0..n
      OBVIOUS
<1> QED BY <1>1, <1>2, <1>3 DEF On, Same

\* What follows the first cluster of a chain begins at the second.
LEMMA Shift ==
    ASSUME NEW fat \in Fat, NEW d \in Cluster
    PROVE  \A k \in Nat : k < Clusters => Walk(fat, fat[d])[k] = Walk(fat, d)[k + 1]
<1> DEFINE v == Walk(fat, d)
           w == Walk(fat, fat[d])
           S == {k \in Nat : k < Clusters => w[k] = v[k + 1]}
<1>1. d \in 0..EOC /\ fat[d] \in 0..EOC /\ Clusters \in Nat \ {0}
      BY ClusterFacts DEF Fat
<1>2. w[0] = fat[d] /\ v[0] = d
      BY <1>1, WalkFacts
<1>3. /\ \A n \in Nat : n < Clusters => w[n + 1] = Follow(fat, w[n])
      /\ \A n \in Nat : n < Clusters => v[n + 1] = Follow(fat, v[n])
      BY <1>1, WalkNext
<1> HIDE DEF v, w
<1>4. 0 \in S
      <2>1. v[0 + 1] = fat[d]
            BY <1>1, <1>2, <1>3 DEF Follow
      <2> QED BY <1>2, <2>1
<1>5. ASSUME NEW k \in Nat, k \in S PROVE k + 1 \in S
      <2> SUFFICES ASSUME k + 1 < Clusters PROVE w[k + 1] = v[(k + 1) + 1]
          OBVIOUS
      <2>1. k < Clusters /\ k + 1 \in Nat
            BY <1>1
      <2>2. w[k] = v[k + 1]
            BY <1>5, <2>1
      <2>3. w[k + 1] = Follow(fat, w[k])
            BY <1>3, <2>1
      <2>4. v[(k + 1) + 1] = Follow(fat, v[k + 1])
            BY <1>3, <2>1
      <2> QED BY <2>2, <2>3, <2>4
<1> HIDE DEF S
<1>6. \A k \in Nat : k \in S
      BY <1>4, <1>5, Induct
<1> QED BY <1>6 DEF S, v, w

\* remove_chain: the rest of the chain is still one.
LEMMA OnRest ==
    ASSUME NEW fat \in Fat, Linked(fat), NEW d, Begins(fat, d), NEW new,
           new = [fat EXCEPT ![d] = 0], NEW c \in Cluster, c # d, On(fat, d, c)
    PROVE  fat[d] \in Cluster /\ On(new, fat[d], c)
<1>1. PICK n \in Nat : Reaches(fat, d, n) /\ Walk(fat, d)[n] = c
      BY DEF On
<1>2. /\ d \in Cluster /\ d \in 0..EOC /\ Clusters \in Nat /\ fat[d] \in 0..EOC /\ fat[d] # d
      /\ n < Clusters
      BY <1>1, ClusterFacts DEF Begins, Fat, Reaches
<1>3. Walk(fat, d)[0] = d
      BY <1>2, WalkFacts
<1>4. n # 0 /\ n - 1 \in Nat /\ n - 1 < Clusters /\ (n - 1) + 1 = n
      BY <1>1, <1>2, <1>3
<1>5. Walk(fat, fat[d])[n - 1] = c
      <2>1. Walk(fat, fat[d])[n - 1] = Walk(fat, d)[(n - 1) + 1]
            BY <1>2, <1>4, Shift
      <2> QED BY <1>1, <1>4, <2>1
<1>6. n - 1 \in 0..Clusters /\ 0 \in 0..(n - 1)
      BY <1>2, <1>4
<1>7. fat[d] \in Cluster
      <2>1. Walk(fat, fat[d])[0] \in Cluster
            BY <1>2, <1>5, <1>6, Earlier
      <2> QED BY <1>2, <2>1, WalkFacts
<1>8. Same(fat, new, fat[d], Clusters)
      BY <1>2, FreeFat
<1>9. Walk(new, fat[d])[n - 1] = c /\ fat[d] # 0
      BY <1>5, <1>6, <1>7, <1>8, ClusterFacts DEF Same
<1>10. Reaches(new, fat[d], n - 1)
      BY <1>4, <1>9 DEF Reaches
<1> QED BY <1>4, <1>7, <1>9, <1>10 DEF On

LEMMA OwnerKept ==
    ASSUME Owner, view'.dir = view.dir, fil'.file = fil.file, fil'.start = fil.start,
           clean' /\ ~fil'.modified => clean /\ ~fil.modified
    PROVE  Owner'
BY DEF Owner, IsOpen

LEMMA OwnerSpill ==
    ASSUME Owner, view'.dir = view.dir, fil'.file = fil.file, fil'.modified \/ ~clean',
           fil.start # 0 => fil'.start = fil.start
    PROVE  Owner'
BY DEF Owner, IsOpen

LEMMA OwnerOpen ==
    ASSUME IsOpen' => view'.dir[fil'.file].start = fil'.start
    PROVE  Owner'
BY DEF Owner

LEMMA OwnerStep ==
    ASSUME Typed, Control, Coherent, Lengths, Owner, Next
    PROVE  Owner'
<1>0. /\ NoFile.file = Nobody /\ (~IsOpen => fil = NoFile)
      /\ fil' = NoFile => ~IsOpen'
      BY NoTypes DEF Control, IsOpen
<1>1. CASE Flush \/ Dir
      <2>1. UNCHANGED <<view, fil, clean>>
            BY <1>1, SyncIs
      <2> QED BY <2>1, OwnerKept
<1>2. CASE Clear
      <2>1. CASE fil' = fil
            BY <1>0, <1>2, <2>1, ClearIs, OwnerOpen DEF IsOpen
      <2>2. CASE fil'.file = arg.file /\ fil'.start = 0
            BY <1>2, <2>2, ClearIs, OwnerOpen
      <2> QED BY <1>2, <2>1, <2>2, ClearIs
<1>3. CASE Free \/ Link
      BY <1>3, FreeIs, LinkIs, OwnerKept
<1>4. CASE Reopen \/ Find \/ Seek
      <2>1. view' = view /\ ~IsOpen
            BY <1>4, ReopenIs, FindIs, SeekKeeps
      <2>2. CASE fil' = fil
            <3>1. ~IsOpen'
                  BY <2>1, <2>2 DEF IsOpen
            <3> QED BY <3>1, OwnerOpen
      <2>3. CASE fil'.file = arg.file /\ fil'.start = view.dir[arg.file].start
            BY <2>1, <2>3, OwnerOpen
      <2> QED BY <1>4, <2>2, <2>3, ReopenIs, FindIs, SeekIs
<1>5. CASE Grow
      <2>1. CASE Onward
            BY <2>1, OwnerKept DEF Onward
      <2>2. CASE Full
            BY <2>2, OwnerKept DEF Full
      <2>3. ASSUME NEW c \in Cluster, Taken(c) PROVE Owner'
            BY <2>3, OwnerKept DEF Taken
      <2> QED BY <1>5, <2>1, <2>2, <2>3, GrowSplit
<1>6. CASE Spill
      BY <1>6, SpillIs, OwnerSpill
<1>7. CASE Data
      <2>1. clean' = clean
            BY <1>7 DEF Data
      <2> QED BY <1>7, <2>1, DataIs, OwnerKept
<1>8. CASE Entry
      BY <1>8, EntryIs, OwnerOpen
<1>9. CASE Info \/ Forget \/ Mount \/ PowerLoss
      <2>1. fil' = NoFile
            BY <1>9, InfoIs, FreshIs DEF Forget
      <2> QED BY <1>0, <2>1, OwnerOpen
<1>10. CASE Fail
      <2>1. ~clean' /\ fil'.file = fil.file /\ view' = view
            BY <1>10, FailIs
      <2>2. fil.start # 0 => fil'.start = fil.start
            BY <1>10, FailIs
      <2> QED BY <2>1, <2>2, OwnerSpill
<1>11. CASE Locked
      <2>1. UNCHANGED <<view, fil, clean>>
            BY <1>11 DEF Locked
      <2> QED BY <2>1, OwnerKept
<1>12. CASE WriteCall
      <2>1. view' = view /\ clean' = clean
            BY <1>12 DEF WriteCall
      <2>2. CASE fil.size % SectorUnits # 0
            BY <1>12, <2>1, <2>2, WriteIs, OwnerKept
      <2>3. CASE fil.size % SectorUnits = 0
            BY <1>12, <2>1, <2>3, WriteOn, OwnerKept
      <2> QED BY <2>2, <2>3
<1>13. CASE CloseCall
      <2>1. view' = view /\ clean' = clean /\ (fil' = fil \/ fil' = NoFile)
            BY <1>13 DEF CloseCall, Closed
      <2>2. CASE fil' = fil
            BY <2>1, <2>2, OwnerKept
      <2>3. CASE fil' = NoFile
            BY <1>0, <2>3, OwnerOpen
      <2> QED BY <2>1, <2>2, <2>3
<1>14. ASSUME NEW f \in Files, NEW m \in {"create", "append"}, OpenCall(f, m)
       PROVE  Owner'
      <2>1. UNCHANGED <<view, fil, clean>>
            BY <1>14 DEF OpenCall
      <2> QED BY <2>1, OwnerKept
<1> QED BY <1>1, <1>2, <1>3, <1>4, <1>5, <1>6, <1>7, <1>8, <1>9, <1>10, <1>11, <1>12,
           <1>13, <1>14 DEF Next, Step

LEMMA KeptSame ==
    ASSUME Kept, clean, view'.fat = view.fat, view'.dir = view.dir,
           fil.start # 0 => fil'.start = fil.start,
           pc = "free" => pc' = "free" /\ arg'.clu = arg.clu,
           pc \in {"link", "spill"} => pc' \in {"link", "spill"} /\ arg'.clu = arg.clu
    PROVE  Kept'
<1> SUFFICES ASSUME NEW c \in Cluster, view'.fat[c] # 0 PROVE Owned(c)'
    BY DEF Kept
<1>1. Owned(c)
      BY DEF Kept
<1>2. On(view.fat, fil.start, c) => On(view'.fat, fil'.start, c)
      <2>1. fil.start = 0 => ~On(view.fat, fil.start, c)
            BY OnNone
      <2> QED BY <2>1
<1> QED BY <1>1, <1>2 DEF Owned

\* The file is closed, and its entry has what the file object had.
LEMMA KeptClosed ==
    ASSUME Kept, clean, view' = view, fil.file \in Files,
           view.dir[fil.file].start = fil.start, pc \notin {"free", "link", "spill"}
    PROVE  Kept'
<1> SUFFICES ASSUME NEW c \in Cluster, view'.fat[c] # 0 PROVE Owned(c)'
    BY DEF Kept
<1>1. Owned(c)
      BY DEF Kept
<1>2. \E f \in Files : On(view.fat, view.dir[f].start, c)
      BY <1>1 DEF Owned
<1> QED BY <1>2 DEF Owned

LEMMA KeptClear ==
    ASSUME Typed, Control, Kept, clean, Clear
    PROVE  Kept'
<1> SUFFICES ASSUME NEW c \in Cluster, view'.fat[c] # 0 PROVE Owned(c)'
    BY DEF Kept
<1>1. PICK f : f = arg.file
      OBVIOUS
<1>2. /\ pc = "find" /\ f \in Files /\ ~IsOpen /\ view'.fat = view.fat
      /\ \A g \in Files \ {f} : view'.dir[g] = view.dir[g]
      /\ \/ view.dir[f].start = 0
         \/ pc' = "free" /\ arg'.clu = view.dir[f].start
      BY <1>1, ClearIs
<1>3. Owned(c)
      BY <1>2 DEF Kept
<1>4. ~On(view.fat, fil.start, c)
      BY <1>2, NoTypes, OnNone DEF Control
<1>5. PICK g \in Files : On(view.fat, view.dir[g].start, c)
      BY <1>2, <1>3, <1>4 DEF Owned
<1>6. CASE g # f
      BY <1>2, <1>5, <1>6 DEF Owned
<1>7. CASE g = f
      <2>1. view.dir[f].start # 0
            BY <1>5, <1>7, OnNone
      <2> QED BY <1>2, <1>5, <1>7, <2>1 DEF Owned
<1> QED BY <1>6, <1>7

LEMMA KeptFree ==
    ASSUME Typed, Control, Coherent, Rooted, Kept, clean, Free
    PROVE  Kept'
<1> SUFFICES ASSUME NEW c \in Cluster, view'.fat[c] # 0 PROVE Owned(c)'
    BY DEF Kept
<1>1. PICK d : d = arg.clu
      OBVIOUS
<1>2. /\ pc = "free" /\ Begins(view.fat, d) /\ fil.start = 0 /\ view'.dir = view.dir
      /\ view'.fat = [view.fat EXCEPT ![d] = 0]
      /\ view.fat \in Fat /\ Linked(view.fat)
      BY <1>1, FreeOf, FreeIs, Fields DEF Rooted
<1>3. c # d /\ view.fat[c] # 0
      BY <1>2 DEF Fat, Begins
<1>4. Owned(c)
      BY <1>3 DEF Kept
<1>5. ASSUME NEW f \in Files, On(view.fat, view.dir[f].start, c) PROVE Owned(c)'
      <2>1. Grown(view.dir[f].start)
            BY FreeGrown
      <2>2. On(view'.fat, view'.dir[f].start, c)
            BY <1>2, <1>5, <2>1, OnGrown
      <2> QED BY <2>2 DEF Owned
<1>6. CASE On(view.fat, d, c)
      <2>1. view.fat[d] \in Cluster /\ On(view'.fat, view.fat[d], c)
            BY <1>2, <1>3, <1>6, OnRest
      <2>2. pc' = "free" /\ arg'.clu = view.fat[d]
            <3>1. arg \in Args
                  BY DEF Typed
            <3> QED BY <1>1, <2>1, <3>1 DEF Free, Args
      <2> QED BY <2>1, <2>2 DEF Owned
<1>7. ~On(view.fat, fil.start, c)
      BY <1>2, OnNone
<1> QED BY <1>1, <1>2, <1>4, <1>5, <1>6, <1>7 DEF Owned

\* A cluster more, or a longer chain.
LEMMA KeptTable ==
    ASSUME Kept, clean, Grown(fil.start), \A f \in Files : Grown(view.dir[f].start),
           view'.dir = view.dir, fil' = fil, pc' \in {"link", "spill"},
           pc \in {"grow", "link"}, pc = "link" => arg'.clu = arg.clu,
           \A c \in Cluster : view'.fat[c] # 0 => view.fat[c] # 0 \/ c = arg'.clu
    PROVE  Kept'
<1> SUFFICES ASSUME NEW c \in Cluster, view'.fat[c] # 0 PROVE Owned(c)'
    BY DEF Kept
<1>1. CASE c = arg'.clu
      BY <1>1 DEF Owned
<1>2. CASE c # arg'.clu
      <2>1. Owned(c)
            BY <1>2 DEF Kept
      <2>2. ASSUME NEW f \in Files, On(view.fat, view.dir[f].start, c) PROVE Owned(c)'
            <3>1. On(view'.fat, view'.dir[f].start, c)
                  BY <2>2, OnGrown
            <3> QED BY <3>1 DEF Owned
      <2>3. CASE On(view.fat, fil.start, c)
            <3>1. On(view'.fat, fil'.start, c)
                  BY <2>3, OnGrown
            <3> QED BY <3>1 DEF Owned
      <2> QED BY <1>2, <2>1, <2>2, <2>3 DEF Owned
<1> QED BY <1>1, <1>2

LEMMA KeptSpill ==
    ASSUME Typed, Control, Rooted, Lengths, Kept, clean, Spill
    PROVE  Kept'
<1> SUFFICES ASSUME NEW c \in Cluster, view'.fat[c] # 0 PROVE Owned(c)'
    BY DEF Kept
<1>1. /\ pc = "spill" /\ view' = view
      /\ fil'.start = IF fil.start = 0 THEN arg.clu ELSE fil.start
      BY SpillIs
<1>2. Owned(c)
      BY <1>1 DEF Kept
<1>3. CASE c = arg.clu
      <2> DEFINE s == IF fil.start = 0 THEN arg.clu ELSE fil.start
                 n == Idx(fil.size + 1)
      <2>1. Reaches(view.fat, s, n) /\ Walk(view.fat, s)[n] = arg.clu
            BY <1>1, SpillTo
      <2> HIDE DEF s, n
      <2>2. On(view.fat, s, c)
            BY <1>3, <2>1 DEF On, Reaches
      <2>3. On(view'.fat, fil'.start, c)
            BY <1>1, <2>2 DEF s
      <2> QED BY <2>3 DEF Owned
<1>4. CASE On(view.fat, fil.start, c)
      BY <1>1, <1>4, OnNone DEF Owned
<1> QED BY <1>1, <1>2, <1>3, <1>4 DEF Owned

LEMMA KeptEntry ==
    ASSUME Typed, Control, Owner, Kept, clean, Entry
    PROVE  Kept'
<1> SUFFICES ASSUME NEW c \in Cluster, view'.fat[c] # 0 PROVE Owned(c)'
    BY DEF Kept
<1>1. PICK f : f = fil.file
      OBVIOUS
<1>2. /\ pc = "entry" /\ f \in Files /\ view'.fat = view.fat /\ fil' = fil
      /\ \A g \in Files \ {f} : view'.dir[g] = view.dir[g]
      BY <1>1, EntryIs
<1>3. view.dir[f].start = 0 \/ view.dir[f].start = fil.start
      BY <1>1, <1>2, NoTypes DEF Owner, IsOpen, Control
<1>4. Owned(c)
      BY <1>2 DEF Kept
<1>5. CASE On(view.fat, view.dir[f].start, c)
      <2>1. view.dir[f].start = fil.start
            BY <1>3, <1>5, OnNone
      <2> QED BY <1>2, <1>5, <2>1 DEF Owned
<1> QED BY <1>2, <1>4, <1>5 DEF Owned

LEMMA KeptGrow ==
    ASSUME Typed, Control, Rooted, Lengths, Kept, clean, Grow
    PROVE  Kept'
<1>1. pc = "grow" /\ view.fat \in Fat
      BY GrowSplit, Fields
<1>2. CASE Onward \/ Full
      <2>1. view' = view /\ fil'.start = fil.start
            BY <1>2 DEF Onward, Full
      <2> QED BY <1>1, <2>1, KeptSame
<1>3. ASSUME NEW d \in Cluster, Taken(d) PROVE Kept'
      <2>1. /\ view'.dir = view.dir /\ fil' = fil /\ arg'.clu = d
            /\ pc' \in {"link", "spill"} /\ view'.fat = [view.fat EXCEPT ![d] = EOC]
            BY <1>3 DEF Taken
      <2>2. \A c \in Cluster : view'.fat[c] # 0 => view.fat[c] # 0 \/ c = arg'.clu
            BY <1>1, <2>1 DEF Fat
      <2>3. Grown(fil.start) /\ \A f \in Files : Grown(view.dir[f].start)
            BY <1>3, TakenGrown
      <2> QED BY <1>1, <2>1, <2>2, <2>3, KeptTable
<1> QED BY <1>2, <1>3, GrowSplit

LEMMA KeptLink ==
    ASSUME Typed, Control, Rooted, Lengths, Kept, clean, Link
    PROVE  Kept'
<1>1. /\ pc = "link" /\ pc' = "spill" /\ fil.clust \in Cluster
      /\ view'.fat = [view.fat EXCEPT ![fil.clust] = arg.clu] /\ view'.dir = view.dir
      /\ fil' = fil /\ arg' = arg
      BY LinkIs
<1>2. view.fat \in Fat /\ view.fat[fil.clust] # 0
      BY <1>1, Fields, ClusterFacts, FatAssumption DEF Rooted, EOC
<1>3. \A c \in Cluster : view'.fat[c] # 0 => view.fat[c] # 0 \/ c = arg'.clu
      BY <1>1, <1>2 DEF Fat
<1>4. Grown(fil.start) /\ \A f \in Files : Grown(view.dir[f].start)
      BY LinkGrown
<1> QED BY <1>1, <1>3, <1>4, KeptTable

LEMMA KeptMount ==
    ASSUME Typed, Control, Coherent, Pending, Counted, Kept, clean, Mount, fil = NoFile
    PROVE  Kept'
<1>1. ~Busy /\ pc = "ready" /\ fil.start = 0
      BY NoTypes DEF Mount, Busy
<1>2. view'.fat = view.fat /\ view'.dir = view.dir
      BY <1>1, QuietCard, FreshIs
<1> QED BY <1>1, <1>2, KeptSame

LEMMA KeptStep ==
    ASSUME Typed, Control, Coherent, Rooted, Lengths, TextInv, Pending, Counted,
           Owner, Kept, Next
    PROVE  Kept'
<1> SUFFICES ASSUME clean' PROVE Kept'
    BY DEF Kept
<1>0. clean /\ ~Fail /\ ~Forget /\ ~PowerLoss /\ (Mount => fil = NoFile)
      BY CleanStep
<1>1. CASE Flush \/ Dir
      <2>1. view' = view /\ fil' = fil /\ arg' = arg
            BY <1>1, SyncIs
      <2>2. pc' = pc \/ pc \notin {"free", "link", "spill"}
            BY <1>1 DEF Flush, Dir
      <2> QED BY <1>0, <2>1, <2>2, KeptSame
<1>2. CASE Clear
      BY <1>0, <1>2, KeptClear
<1>3. CASE Free
      BY <1>0, <1>3, KeptFree
<1>4. CASE Reopen \/ Find \/ Seek
      <2>1. view' = view /\ pc \in {"reopen", "find", "seek"} /\ ~IsOpen
            BY <1>4, ReopenIs, FindIs, SeekKeeps
      <2>2. fil.start = 0
            BY <2>1, NoTypes DEF Control
      <2> QED BY <1>0, <2>1, <2>2, KeptSame
<1>5. CASE Grow
      BY <1>0, <1>5, KeptGrow
<1>6. CASE Link
      BY <1>0, <1>6, KeptLink
<1>7. CASE Spill
      BY <1>0, <1>7, KeptSpill
<1>8. CASE Data
      BY <1>0, <1>8, DataIs, KeptSame
<1>9. CASE Entry
      BY <1>0, <1>9, KeptEntry
<1>10. CASE Info
      <2>1. pc = "info" /\ view' = view
            BY <1>10, InfoIs
      <2>2. fil.file \in Files
            BY <2>1, Fields DEF Control, IsOpen
      <2>3. view.dir[fil.file].start = fil.start
            BY <2>1 DEF TextInv
      <2> QED BY <1>0, <2>1, <2>2, <2>3, KeptClosed
<1>11. CASE Mount
      BY <1>0, <1>11, KeptMount
<1>12. CASE Locked
      BY <1>0, <1>12, KeptSame DEF Locked
<1>13. CASE WriteCall
      <2>1. view' = view /\ pc = "ready" /\ fil'.start = fil.start
            <3>1. CASE fil.size % SectorUnits # 0
                  BY <1>13, <3>1, WriteIs
            <3>2. CASE fil.size % SectorUnits = 0
                  BY <1>13, <3>2, WriteOn
            <3> QED BY <3>1, <3>2
      <2> QED BY <1>0, <2>1, KeptSame
<1>14. CASE CloseCall
      <2>1. view' = view /\ pc = "ready" /\ IsOpen
            BY <1>14 DEF CloseCall, Control
      <2>2. CASE fil.modified
            BY <1>0, <1>14, <2>1, <2>2, KeptSame DEF CloseCall
      <2>3. CASE ~fil.modified
            <3>1. fil.file \in Files
                  BY <2>1, Fields DEF IsOpen
            <3>2. view.dir[fil.file].start = fil.start
                  BY <1>0, <2>1, <2>3 DEF Owner
            <3> QED BY <1>0, <2>1, <3>1, <3>2, KeptClosed
      <2> QED BY <2>2, <2>3
<1>15. ASSUME NEW f \in Files, NEW m \in {"create", "append"}, OpenCall(f, m)
       PROVE  Kept'
      <2>1. view' = view /\ fil' = fil /\ pc = "ready"
            BY <1>15 DEF OpenCall
      <2> QED BY <1>0, <2>1, KeptSame
<1> QED BY <1>0, <1>1, <1>2, <1>3, <1>4, <1>5, <1>6, <1>7, <1>8, <1>9, <1>10, <1>11,
           <1>12, <1>13, <1>14, <1>15 DEF Next, Step

LEMMA KeptInit == Init => Kept /\ Owner
<1> SUFFICES ASSUME Init PROVE Kept /\ Owner
    OBVIOUS
<1>1. /\ disk.fat = [c \in Cluster |-> 0] /\ view = [fat |-> disk.fat, dir |-> disk.dir]
      /\ fil = NoFile
      BY DEF Init
<1>2. \A c \in Cluster : view.fat[c] = 0
      BY <1>1
<1>3. ~IsOpen
      BY <1>1, NoTypes DEF IsOpen
<1> QED BY <1>2, <1>3 DEF Kept, Owner

LEMMA KeptNext ==
    Inv /\ (Pending /\ Counted) /\ (Kept /\ Owner) /\ [Next]_vars => (Kept /\ Owner)'
<1> SUFFICES ASSUME Inv, Pending, Counted, Kept, Owner, [Next]_vars PROVE Kept' /\ Owner'
    OBVIOUS
<1>1. Typed /\ Control /\ Coherent /\ Rooted /\ Lengths /\ TextInv
      BY DEF Inv
<1>2. CASE Next
      BY <1>1, <1>2, KeptStep, OwnerStep
<1>3. CASE UNCHANGED vars
      <2>1. UNCHANGED <<clean, fil, pc, view, arg>>
            BY <1>3 DEF vars
      <2> QED BY <2>1 DEF Kept, Owner, Owned, IsOpen
<1> QED BY <1>2, <1>3

LEMMA AlwaysKept == Spec => [](Kept /\ Owner)
BY KeptInit, KeptNext, AlwaysInv, AlwaysCounted, PTL DEF Spec

LEMMA OnChain ==
    ASSUME NEW fat, NEW s, NEW c \in Cluster, On(fat, s, c)
    PROVE  c \in Chain(fat, s)
<1>1. PICK n \in Nat : Reaches(fat, s, n) /\ Walk(fat, s)[n] = c
      BY DEF On
<1>2. n \in 0..Clusters
      BY <1>1, ClusterFacts DEF Reaches
<1> QED BY <1>1, <1>2 DEF Chain

LEMMA ChainHeld ==
    ASSUME NEW fat \in Fat, Linked(fat), NEW s \in Starts, Root(fat, s),
           NEW c \in Chain(fat, s)
    PROVE  c \in Cluster /\ fat[c] # 0
<1>1. PICK n \in 0..Clusters : Walk(fat, s)[n] = c /\ c \in Cluster
      BY DEF Chain
<1>2. s \in 0..EOC /\ 0 \notin Cluster /\ EOC \notin Cluster /\ Clusters \in Nat
      BY StartFacts, ClusterFacts
<1>3. s # 0
      <2>1. 0 \in 0..n
            BY <1>2
      <2>2. Walk(fat, s)[0] \in Cluster
            BY <1>1, <1>2, <2>1, Earlier
      <2> QED BY <1>2, <2>2, WalkFacts
<1>4. Begins(fat, s)
      BY <1>3 DEF Root
<1> QED BY <1>1, <1>2, <1>4, ChainUsed

\* As long as every call ends well and no mount or power loss cuts one off, a
\* cluster that the FAT on the card calls used belongs to a file, and those of
\* a file are used: f_open frees the chain that it takes from an entry, f_close
\* writes the entry of the chain that f_write has begun.
THEOREM NothingIsLost == Spec => []NothingLost
<1>1. Inv /\ (Pending /\ Counted) /\ (Kept /\ Owner) => NothingLost
      <2> SUFFICES ASSUME Inv, Pending, Counted, Kept, clean, pc = "ready", fil = NoFile
                   PROVE  Used(disk) = Held(disk)
          BY DEF NothingLost
      <2>1. Typed /\ Coherent /\ Rooted
            BY DEF Inv
      <2>2. ~Busy /\ fil.start = 0
            BY NoTypes DEF Busy
      <2>3. disk.fat = view.fat /\ disk.dir = view.dir
            BY <2>1, <2>2, QuietCard
      <2>4. ASSUME NEW c \in Cluster, disk.fat[c] # 0
            PROVE  \E f \in Files : c \in Chain(disk.fat, disk.dir[f].start)
            <3>1. Owned(c)
                  BY <2>3, <2>4 DEF Kept
            <3>2. PICK f \in Files : On(disk.fat, disk.dir[f].start, c)
                  BY <2>2, <2>3, <3>1, OnNone DEF Owned
            <3> QED BY <3>2, OnChain
      <2>5. ASSUME NEW f \in Files, NEW c \in Chain(disk.fat, disk.dir[f].start)
            PROVE  c \in Cluster /\ disk.fat[c] # 0
            <3>1. /\ disk.fat \in Fat /\ Linked(disk.fat) /\ disk.dir[f].start \in Starts
                  /\ Root(disk.fat, disk.dir[f].start)
                  BY <2>1, Fields DEF Rooted
            <3> QED BY <2>5, <3>1, ChainHeld
      <2> QED BY <2>4, <2>5 DEF Used, Held
<1> QED BY <1>1, AlwaysInv, AlwaysCounted, AlwaysKept, PTL
-----------------------------------------------------------------------------
(* A call ends.                                                              *)

\* How far the end of the call is away.
Stage ==
    CASE pc = "ready" -> 0
      [] pc \in {"info", "spill", "seek", "reopen"} -> 1
      [] pc \in {"dir", "link"} -> 2
      [] pc \in {"entry", "grow"} -> 3
      [] pc = "data" -> 4
      [] pc = "free" -> 2 + Count(view)
      [] pc = "find" -> 3 + Clusters
ToDo == 2 * Stage + (IF win.dirty THEN 1 ELSE 0)

LEMMA StageIs ==
    /\ pc = "ready" => Stage = 0
    /\ pc \in {"info", "spill", "seek", "reopen"} => Stage = 1
    /\ pc \in {"dir", "link"} => Stage = 2
    /\ pc \in {"entry", "grow"} => Stage = 3
    /\ pc = "data" => Stage = 4
    /\ pc = "free" => Stage = 2 + Count(view)
    /\ pc = "find" => Stage = 3 + Clusters
BY DEF Stage

LEMMA StageNext ==
    /\ pc' = "ready" => Stage' = 0
    /\ pc' \in {"info", "spill", "seek", "reopen"} => Stage' = 1
    /\ pc' \in {"dir", "link"} => Stage' = 2
    /\ pc' \in {"entry", "grow"} => Stage' = 3
    /\ pc' = "data" => Stage' = 4
    /\ pc' = "free" => Stage' = 2 + Count(view')
    /\ pc' = "find" => Stage' = 3 + Clusters
BY DEF Stage, Count, Used, Clusters, Cluster

LEMMA StageType ==
    ASSUME Typed
    PROVE  Stage \in 0..(Clusters + 4) /\ (pc # "ready" => Stage > 0)
<1>1. Count(view) \in 0..Clusters /\ Clusters \in Nat \ {0}
      BY Tally, ClusterFacts
<1>2. pc \in Steps
      BY DEF Typed
<1> QED BY <1>1, <1>2, StageIs DEF Steps

\* A step further in the call, or the write that the step has to wait for.
LEMMA Nearer ==
    ASSUME Stage \in Nat, Stage' \in Nat,
           \/ Stage' < Stage
           \/ Stage' = Stage /\ win.dirty = TRUE /\ win'.dirty = FALSE
    PROVE  ToDo' < ToDo
<1>1. CASE Stage' < Stage
      <2> DEFINE a == IF win.dirty THEN 1 ELSE 0
                 b == IF win'.dirty THEN 1 ELSE 0
      <2>1. ToDo = 2 * Stage + a /\ ToDo' = 2 * Stage' + b
            BY DEF ToDo
      <2>2. a \in 0..1 /\ b \in 0..1
            OBVIOUS
      <2>3. \A x, y \in Nat, u, v \in 0..1 : y < x => 2 * y + v < 2 * x + u
            OBVIOUS
      <2> HIDE DEF a, b
      <2>4. 2 * Stage' + b < 2 * Stage + a
            BY <1>1, <2>2, <2>3
      <2> QED BY <2>1, <2>4
<1>2. CASE Stage' = Stage /\ win.dirty = TRUE /\ win'.dirty = FALSE
      BY <1>2 DEF ToDo
<1> QED BY <1>1, <1>2

LEMMA StageStep ==
    ASSUME Typed, Control, Coherent, Rooted, Lengths, Next, pc # "ready"
    PROVE  \/ Stage' < Stage
           \/ Stage' = Stage /\ win.dirty = TRUE /\ win'.dirty = FALSE
<1>0. /\ Count(view) \in 0..Clusters /\ Count(view') \in 0..Clusters
      /\ Clusters \in Nat \ {0} /\ Stage > 0
      BY Tally, ClusterFacts, StageType
<1>1. CASE Flush
      <2>1. win.dirty = TRUE /\ win'.dirty = FALSE /\ view' = view /\ pc' = pc
            <3>1. win.dirty = TRUE
                  BY <1>1 DEF Flush, Typed, Windows
            <3> QED BY <1>1, <3>1, SyncIs DEF Flush
      <2>2. Stage' = Stage
            BY <2>1 DEF Stage, Count, Used, Clusters, Cluster
      <2> QED BY <2>1, <2>2
<1>2. CASE Locked \/ Find
      <2>1. pc = "find" /\ pc' \in {"ready", "seek"}
            BY <1>2, FindIs DEF Locked, Return
      <2> QED BY <1>0, <2>1, StageIs, StageNext
<1>3. CASE Clear
      <2>1. pc = "find" /\ pc' \in {"ready", "free"}
            BY <1>3, ClearIs
      <2> QED BY <1>0, <2>1, StageIs, StageNext
<1>4. CASE Free
      <2>1. pc = "free" /\ pc' \in {"free", "reopen"}
            BY <1>4 DEF Free
      <2>2. Count(view) = Count(view') + 1
            <3>1. PICK d : d = arg.clu
                  OBVIOUS
            <3>2. /\ d \in Cluster /\ view.fat[d] # 0
                  /\ view'.fat = [view.fat EXCEPT ![d] = 0] /\ view.fat \in Fat
                  BY <1>4, <3>1, FreeOf, FreeIs, Fields
            <3>3. OnlyAt(view'.fat, view.fat, d) /\ view'.fat[d] = 0
                  BY <3>2 DEF OnlyAt, Fat
            <3> QED BY <3>2, <3>3, TallyMore
      <2> QED BY <1>0, <2>1, <2>2, StageIs, StageNext
<1>5. CASE Reopen \/ Seek
      <2>1. pc \in {"reopen", "seek"} /\ pc' = "ready"
            BY <1>5, ReopenIs, SeekKeeps
      <2> QED BY <2>1, StageIs, StageNext
<1>6. CASE Grow
      <2>1. pc = "grow" /\ pc' \in {"spill", "link", "ready"}
            BY <1>6, GrowSplit DEF Onward, Full, Taken
      <2> QED BY <2>1, StageIs, StageNext
<1>7. CASE Link \/ Spill
      <2>1. (pc = "link" /\ pc' = "spill") \/ (pc = "spill" /\ pc' = "ready")
            BY <1>7, LinkIs, SpillIs
      <2> QED BY <2>1, StageIs, StageNext
<1>8. CASE Data \/ Entry \/ Dir \/ Info
      <2>1. \/ pc = "data" /\ pc' = "entry"
            \/ pc = "entry" /\ pc' = "dir"
            \/ pc = "dir" /\ pc' = "info"
            \/ pc = "info" /\ pc' = "ready"
            BY <1>8 DEF Data, Entry, Dir, Info, Closed, Return
      <2> QED BY <2>1, StageIs, StageNext
<1>9. CASE Fail \/ PowerLoss
      <2>1. pc' = "ready"
            BY <1>9 DEF Fail, PowerLoss, Return
      <2> QED BY <1>0, <2>1, StageNext
<1>10. ~Forget /\ ~Mount /\ ~WriteCall /\ ~CloseCall
      BY DEF Forget, Mount, WriteCall, CloseCall
<1>11. \A f \in Files, m \in {"create", "append"} : ~OpenCall(f, m)
      BY DEF OpenCall
<1> QED BY <1>1, <1>2, <1>3, <1>4, <1>5, <1>6, <1>7, <1>8, <1>9, <1>10, <1>11 DEF Next, Step

\* Every step that is taken while a call is in progress, a failure or a loss of
\* power too, brings its end nearer, which is never further away than twice the
\* number of clusters and a few steps: no loop along a chain or over the FAT
\* runs for ever, whatever the card holds and whatever has failed before.
THEOREM CallsEnd ==
    Spec => /\ [](ToDo \in 0..(2 * (Clusters + 4) + 1))
            /\ [][pc # "ready" => ToDo' < ToDo]_vars
<1>1. Inv => ToDo \in 0..(2 * (Clusters + 4) + 1)
      <2> SUFFICES ASSUME Inv PROVE ToDo \in 0..(2 * (Clusters + 4) + 1)
          OBVIOUS
      <2>1. Stage \in 0..(Clusters + 4) /\ Clusters \in Nat
            BY StageType, ClusterFacts DEF Inv
      <2> QED BY <2>1 DEF ToDo
<1>2. Inv /\ Inv' /\ [Next]_vars => [pc # "ready" => ToDo' < ToDo]_vars
      <2> SUFFICES ASSUME Inv, Inv', Next, pc # "ready" PROVE ToDo' < ToDo
          OBVIOUS
      <2>1. Typed /\ Control /\ Coherent /\ Rooted /\ Lengths /\ Typed'
            BY DEF Inv
      <2>2. Stage \in Nat
            BY <2>1, StageType, ClusterFacts
      <2>3. Stage' \in Nat
            <3>1. pc' \in Steps /\ Count(view') \in Nat /\ Clusters \in Nat
                  BY <2>1, Tally, ClusterFacts DEF Typed
            <3> QED BY <3>1, StageNext DEF Steps
      <2> QED BY <2>1, <2>2, <2>3, StageStep, Nearer
<1> QED BY <1>1, <1>2, AlwaysInv, PTL DEF Spec
=============================================================================
