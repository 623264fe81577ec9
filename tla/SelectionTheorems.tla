-------------------------- MODULE SelectionTheorems --------------------------
(***************************************************************************)
(* What TorrentSelection promises, for every set of torrents, releases,    *)
(* episodes and profiles: the ranking finds the one release that beats all *)
(* others, and no pass swaps a release for a worse one.                    *)
(***************************************************************************)
EXTENDS TorrentSelection, NaturalsInduction, FiniteSetTheorems, TLAPS

-----------------------------------------------------------------------------
\* What the assumption says of the constants.
LEMMA SelectionConstants ==
    /\ Hashes \subseteq Nat /\ NoSpace \notin Spaces
    /\ \A h \in Hashes : Match[h] \in Spaces \union {NoSpace}
    /\ \A h \in Hashes : Release[h]["VERSION"] \in Int /\ Release[h].repack \in Int
    /\ \A p \in Profiles :
        /\ p.priorities \in Seq(Criteria) /\ p.upgrades \in BOOLEAN
        /\ \A c \in Criteria \ {"VERSION"} : p.preferred[c] \in Seq(Range(p.preferred[c]))
    /\ MaxRequests \in Nat /\ MaxPasses \in Nat
    /\ \A S \in SUBSET Hashes : IsFiniteSet(S)
<1>1. \A S \in SUBSET Hashes : IsFiniteSet(S)
  BY SelectionAssumption, FS_Subset
<1> QED
  BY <1>1, SelectionAssumption

\* A set of numbers has a least one.
LEMMA LeastNumber ==
    ASSUME NEW S \in SUBSET Nat, S # {} PROVE \E n \in S : \A m \in S : n <= m
<1>1. PICK n \in S : \A m \in S : ~(<<m, n>> \in OpToRel(<, Nat))
  BY NatLessThanWellFounded, WFMin
<1>2. \A m \in S : ~(m < n)
  BY <1>1 DEF OpToRel
<1> QED
  BY <1>2

\* Of finitely many torrents one has the least value of a measure.
LEMMA FiniteHasLeast ==
    ASSUME NEW r, \A h \in Hashes : r[h] \in Int, NEW S \in SUBSET Hashes, S # {}
    PROVE  \E h \in S : \A g \in S : r[h] <= r[g]
<1> DEFINE Least(T) == \E h \in T : \A g \in T : r[h] <= r[g]
           bad == {n \in Nat : \E T \in SUBSET Hashes : T # {} /\ Cardinality(T) = n /\ ~Least(T)}
<1>1. bad = {}
  <2> SUFFICES ASSUME bad # {} PROVE FALSE
    OBVIOUS
  <2>1. PICK n \in bad : \A m \in bad : n <= m
    <3>1. bad \in SUBSET Nat
      OBVIOUS
    <3> QED
      BY <3>1, LeastNumber
  <2>2. PICK T \in SUBSET Hashes : T # {} /\ Cardinality(T) = n /\ ~Least(T)
    BY <2>1
  <2>3. PICK x \in T : TRUE
    BY <2>2
  <2> DEFINE R == T \ {x}
  <2>4. IsFiniteSet(T) /\ IsFiniteSet(R) /\ n \in Nat
    BY SelectionConstants, <2>1
  <2>5. Cardinality(R) = n - 1 /\ Cardinality(R) \in Nat
    BY <2>2, <2>4, FS_RemoveElement, FS_CardinalityType
  <2>6. R # {}
    <3> SUFFICES ASSUME R = {} PROVE FALSE
      OBVIOUS
    <3>1. T = {x}
      BY <2>3
    <3>2. r[x] \in Int
      OBVIOUS
    <3> QED
      BY <3>1, <3>2, <2>2
  <2>7. Least(R)
    <3> SUFFICES ASSUME ~Least(R) PROVE FALSE
      OBVIOUS
    <3>1. n - 1 \in bad
      <4>1. R \in SUBSET Hashes /\ n - 1 \in Nat
        BY <2>5
      <4> HIDE DEF R, Least
      <4> QED
        BY <4>1, <2>5, <2>6
    <3>2. n <= n - 1
      BY <2>1, <3>1
    <3> QED
      BY ONLY <2>4, <3>2
  <2>8. PICK y \in R : \A g \in R : r[y] <= r[g]
    BY <2>7
  <2>9. r[x] \in Int /\ r[y] \in Int /\ \A g \in T : r[g] \in Int
    OBVIOUS
  <2>10. CASE r[x] <= r[y]
    <3>1. \A g \in T : r[x] <= r[g]
      BY <2>8, <2>9, <2>10
    <3> QED
      BY <3>1, <2>2, <2>3
  <2>11. CASE r[y] < r[x]
    <3>1. \A g \in T : r[y] <= r[g]
      BY <2>8, <2>9, <2>11
    <3> QED
      BY <3>1, <2>2, <2>8
  <2> QED
    BY <2>9, <2>10, <2>11
<1>2. Cardinality(S) \in Nat
  BY SelectionConstants, FS_CardinalityType
<1> QED
  BY <1>1, <1>2

-----------------------------------------------------------------------------
\* The least position of a value is what both definitions of a rank mean.
LEMMA RanksAgree ==
    ASSUME NEW p \in Profiles, NEW c \in Criteria, NEW h \in Hashes
    PROVE  /\ RankOf(p, c, h) \in Int
           /\ c # "VERSION" => PreferenceRank(Preferred(p, c), Release[h][c]) = RankOf(p, c, h)
           /\ c = "VERSION" => RankOf(p, c, h) = 100 - Release[h][c]
<1>1. CASE c = "VERSION"
  BY <1>1, SelectionConstants DEF RankOf
<1>2. CASE c # "VERSION"
  <2> DEFINE s == Preferred(p, c)
             v == Release[h][c]
             at == {i \in DOMAIN s : s[i] = v}
  <2>1. s \in Seq(Range(s))
    BY <1>2, SelectionConstants DEF Preferred
  <2> HIDE DEF s, v
  <2>2. Len(s) \in Nat /\ DOMAIN s = 1..Len(s)
    BY <2>1
  <2>3. CASE at = {}
    <3>1. PreferenceRank(s, v) = Len(s) + 1
      BY <2>3 DEF PreferenceRank
    <3>2. RankOf(p, c, h) = Len(s) + 1
      BY <1>2, <2>3 DEF RankOf, s, v
    <3> QED
      BY <3>1, <3>2, <2>2, <1>2 DEF s, v
  <2>4. CASE at # {}
    <3>1. at \in SUBSET Nat
      BY <2>2
    <3>2. PICK k \in at : \A j \in at : k <= j
      BY <3>1, <2>4, LeastNumber
    <3>3. k \in 1..Len(s) /\ s[k] = v
      BY <3>2, <2>2
    <3>4. \A j \in 1..(k - 1) : s[j] # v
      BY <3>2, <3>3, <2>2
    <3>5. \A i \in DOMAIN s : s[i] = v /\ (\A j \in 1..(i - 1) : s[j] # v) => i = k
      <4> SUFFICES ASSUME NEW i \in DOMAIN s, s[i] = v, \A j \in 1..(i - 1) : s[j] # v
                   PROVE  i = k
        OBVIOUS
      <4>1. i \in 1..Len(s) /\ k <= i
        BY <2>2, <3>2
      <4>2. ~(k < i)
        BY <3>3, <4>1, <2>2
      <4> QED
        BY <4>1, <4>2, <3>3, <2>2
    <3>6. PreferenceRank(s, v) = k
      BY <3>3, <3>4, <3>5, <2>2, <2>4 DEF PreferenceRank
    <3>7. \A i \in at : (\A j \in at : i <= j) => i = k
      BY <3>1, <3>2
    <3>8. RankOf(p, c, h) = CHOOSE i \in at : \A j \in at : i <= j
      BY <1>2, <2>4 DEF RankOf, s, v
    <3>9. RankOf(p, c, h) = k
      BY <3>2, <3>7, <3>8
    <3> QED
      BY <3>3, <3>6, <3>9, <2>2, <1>2 DEF s, v
  <2> QED
    BY <2>3, <2>4
<1> QED
  BY <1>1, <1>2

\* What a criterion keeps are the candidates of the best rank; there is one.
LEMMA KeepBestIsBest ==
    ASSUME NEW p \in Profiles, NEW c \in Criteria, NEW S \in SUBSET Hashes
    PROVE  /\ KeepBest(p, S, c) = {h \in S : \A g \in S : RankOf(p, c, h) <= RankOf(p, c, g)}
           /\ S # {} => KeepBest(p, S, c) # {}
<1> DEFINE better(g, h) == IF c = "VERSION"
                           THEN Release[g][c] > Release[h][c]
                           ELSE PreferenceRank(Preferred(p, c), Release[g][c])
                              < PreferenceRank(Preferred(p, c), Release[h][c])
           rank == [h \in Hashes |-> RankOf(p, c, h)]
<1>1. \A h \in Hashes : RankOf(p, c, h) \in Int
  BY RanksAgree
<1>2. ASSUME NEW g \in Hashes, NEW h \in Hashes
      PROVE  better(g, h) <=> RankOf(p, c, g) < RankOf(p, c, h)
  <2>1. CASE c = "VERSION"
    <3>1. /\ RankOf(p, c, g) = 100 - Release[g][c] /\ RankOf(p, c, h) = 100 - Release[h][c]
          /\ Release[g][c] \in Int /\ Release[h][c] \in Int
      BY <2>1, RanksAgree, SelectionConstants
    <3> QED
      BY <3>1, <2>1
  <2>2. CASE c # "VERSION"
    BY <2>2, RanksAgree
  <2> QED
    BY <2>1, <2>2
<1>3. KeepBest(p, S, c) = {h \in S : ~\E g \in S : better(g, h)}
  BY DEF KeepBest
<1> HIDE DEF better
<1>4. KeepBest(p, S, c) = {h \in S : \A g \in S : RankOf(p, c, h) <= RankOf(p, c, g)}
  BY <1>1, <1>2, <1>3
<1>5. ASSUME S # {} PROVE \E h \in S : \A g \in S : RankOf(p, c, h) <= RankOf(p, c, g)
  <2>1. \A h \in Hashes : rank[h] \in Int
    BY <1>1
  <2>2. \E h \in S : \A g \in S : rank[h] <= rank[g]
    BY <2>1, <1>5, FiniteHasLeast
  <2> QED
    BY <2>2
<1> QED
  BY <1>4, <1>5

-----------------------------------------------------------------------------
\* One criterion of the ranking.
Round(p, S, c) == IF Cardinality(S) <= 1 THEN S ELSE KeepBest(p, S, c)

\* f holds what the first n criteria leave.
RoundsTo(f, p, group, n) ==
    f = [i \in 0..n |-> IF i = 0 THEN group ELSE Round(p, f[i - 1], p.priorities[i])]

\* The rounds are defined, one after the other.
LEMMA RoundsExist ==
    ASSUME NEW p, NEW group, NEW n \in Nat
    PROVE  \E f : RoundsTo(f, p, group, n)
<1> DEFINE Built(f, m) == f = [i \in 0..m |-> IF i = 0 THEN group
                                              ELSE Round(p, f[i - 1], p.priorities[i])]
           bad == {m \in Nat : ~\E f : Built(f, m)}
<1>1. bad = {}
  <2> SUFFICES ASSUME bad # {} PROVE FALSE
    OBVIOUS
  <2>1. PICK m \in bad : \A k \in bad : m <= k
    <3>1. bad \in SUBSET Nat
      OBVIOUS
    <3> QED
      BY <3>1, LeastNumber
  <2>2. m \in Nat /\ ~\E f : Built(f, m)
    BY <2>1
  <2>3. CASE m = 0
    <3>1. Built([i \in 0..0 |-> group], 0)
      OBVIOUS
    <3> QED
      BY <2>2, <2>3, <3>1
  <2>4. CASE m > 0
    <3>1. m - 1 \in Nat /\ ~(m <= m - 1)
      BY <2>2, <2>4
    <3>2. PICK f : Built(f, m - 1)
      BY <2>1, <3>1
    <3> DEFINE last == Round(p, f[m - 1], p.priorities[m])
               g == [i \in 0..m |-> IF i = m THEN last ELSE f[i]]
    <3>3. \A i \in 0..m - 1 : g[i] = f[i]
      BY <2>2, <2>4
    <3>4. \A i \in 0..m : g[i] = IF i = 0 THEN group ELSE Round(p, g[i - 1], p.priorities[i])
      <4> SUFFICES ASSUME NEW i \in 0..m
                   PROVE  g[i] = IF i = 0 THEN group ELSE Round(p, g[i - 1], p.priorities[i])
        OBVIOUS
      <4>1. CASE i = m
        <5>1. g[i] = last /\ i # 0 /\ g[i - 1] = f[m - 1]
          BY <4>1, <2>2, <2>4, <3>3
        <5> QED
          BY <5>1, <4>1
      <4>2. CASE i # m /\ i # 0
        <5>1. i \in 0..m - 1 /\ i - 1 \in 0..m - 1
          BY <4>2, <2>2, <2>4
        <5>2. f[i] = Round(p, f[i - 1], p.priorities[i])
          <6> HIDE DEF g, last
          <6> QED
            BY <5>1, <4>2, <3>2
        <5>3. g[i] = f[i] /\ g[i - 1] = f[i - 1]
          BY <5>1, <3>3
        <5> QED
          BY <5>2, <5>3, <4>2
      <4>3. CASE i # m /\ i = 0
        <5>1. 0 \in 0..m - 1
          BY <2>2, <2>4
        <5>2. f[0] = group
          <6> HIDE DEF g, last
          <6> QED
            BY <5>1, <3>2
        <5>3. g[0] = f[0]
          BY <5>1, <3>3
        <5> QED
          BY <5>2, <5>3, <4>3
      <4> QED
        BY <4>1, <4>2, <4>3
    <3>5. g = [i \in 0..m |-> g[i]]
      OBVIOUS
    <3> HIDE DEF g
    <3>6. Built(g, m)
      BY <3>4, <3>5
    <3> QED
      BY <2>2, <3>6
  <2> QED
    BY <2>2, <2>3, <2>4
<1>2. \E f : Built(f, n)
  BY <1>1
<1> QED
  BY <1>2 DEF RoundsTo

\* The first round leaves the group, and each one what its criterion leaves.
LEMMA RoundsAre ==
    ASSUME NEW p \in Profiles, NEW group
    PROVE  /\ Len(p.priorities) \in Nat
           /\ Rounds(p, group)[0] = group
           /\ \A i \in 1..Len(p.priorities) :
                Rounds(p, group)[i] = Round(p, Rounds(p, group)[i - 1], p.priorities[i])
<1> DEFINE n == Len(p.priorities)
           L == Rounds(p, group)
<1>1. n \in Nat
  BY SelectionConstants
<1> HIDE DEF n
<1>2. \E f : RoundsTo(f, p, group, n)
  BY <1>1, RoundsExist
<1>3. L = CHOOSE f : RoundsTo(f, p, group, n)
  BY DEF Rounds, Round, RoundsTo, n
<1> HIDE DEF L
<1>4. L = [i \in 0..n |-> IF i = 0 THEN group ELSE Round(p, L[i - 1], p.priorities[i])]
  <2>1. RoundsTo(L, p, group, n)
    BY <1>2, <1>3
  <2> QED
    BY <2>1 DEF RoundsTo
<1>5. \A i \in 0..n : L[i] = IF i = 0 THEN group ELSE Round(p, L[i - 1], p.priorities[i])
  BY <1>4
<1>6. L[0] = group /\ \A i \in 1..n : L[i] = Round(p, L[i - 1], p.priorities[i])
  BY <1>1, <1>5
<1> QED
  BY <1>1, <1>6 DEF n, L

\* After i rounds the candidates left are equal in the criteria so far, and each
\* of them beats each that was dropped in the first on which they differ.
EqualSo(p, h, g, i) ==
    \A j \in 1..i : RankOf(p, p.priorities[j], h) = RankOf(p, p.priorities[j], g)
AheadIn(p, h, g, j) ==
    /\ RankOf(p, p.priorities[j], h) < RankOf(p, p.priorities[j], g)
    /\ EqualSo(p, h, g, j - 1)

Sifted(p, group, S, i) ==
    /\ S \in SUBSET group /\ S # {}
    /\ \A h \in S, g \in S : EqualSo(p, h, g, i)
    /\ \A h \in S, g \in group \ S : \E j \in 1..i : AheadIn(p, h, g, j)

LEMMA RoundSifts ==
    ASSUME NEW p \in Profiles, NEW group \in SUBSET Hashes, NEW i \in 1..Len(p.priorities), NEW S,
           Sifted(p, group, S, i - 1)
    PROVE  Sifted(p, group, Round(p, S, p.priorities[i]), i)
<1> DEFINE c == p.priorities[i]
           T == Round(p, S, c)
<1>1. c \in Criteria /\ i \in Nat /\ i > 0
  BY SelectionConstants
<1>2. S \in SUBSET group /\ S # {} /\ S \in SUBSET Hashes
  BY DEF Sifted
<1> HIDE DEF c
<1>3. \A h \in Hashes : RankOf(p, c, h) \in Int
  BY <1>1, RanksAgree
<1>4. /\ T \in SUBSET S /\ T # {}
      /\ \A h \in T, g \in S : RankOf(p, c, h) <= RankOf(p, c, g)
      /\ \A g \in S \ T : \E h \in S : RankOf(p, c, h) < RankOf(p, c, g)
  <2>1. CASE Cardinality(S) <= 1
    <3>1. T = S
      BY <2>1 DEF Round
    <3>2. IsFiniteSet(S) /\ Cardinality(S) \in Nat /\ Cardinality(S) # 0
      BY <1>2, SelectionConstants, FS_CardinalityType, FS_EmptySet
    <3>3. Cardinality(S) = 1
      BY <2>1, <3>2
    <3>4. \E x : S = {x}
      BY <3>2, <3>3, FS_Singleton
    <3> QED
      BY <3>1, <3>4, <1>2, <1>3
  <2>2. CASE ~(Cardinality(S) <= 1)
    <3>1. T = KeepBest(p, S, c)
      BY <2>2 DEF Round
    <3>2. T = {h \in S : \A g \in S : RankOf(p, c, h) <= RankOf(p, c, g)} /\ T # {}
      BY <3>1, <1>1, <1>2, KeepBestIsBest
    <3> HIDE DEF T
    <3>3. \A g \in S \ T : \E h \in S : RankOf(p, c, h) < RankOf(p, c, g)
      BY <3>2, <1>2, <1>3
    <3> QED
      BY <3>2, <3>3
  <2> QED
    BY <2>1, <2>2
<1> HIDE DEF T
<1>5. ASSUME NEW h \in T, NEW g \in T PROVE EqualSo(p, h, g, i)
  <2>1. RankOf(p, c, h) = RankOf(p, c, g)
    BY <1>2, <1>3, <1>4
  <2>2. EqualSo(p, h, g, i - 1)
    BY <1>4 DEF Sifted
  <2>3. \A j \in 1..i : j = i \/ j \in 1..i - 1
    BY <1>1
  <2> QED
    BY <2>1, <2>2, <2>3 DEF EqualSo, c
<1>6. ASSUME NEW h \in T, NEW g \in group \ T PROVE \E j \in 1..i : AheadIn(p, h, g, j)
  <2>1. CASE g \notin S
    <3>1. PICK j \in 1..i - 1 : AheadIn(p, h, g, j)
      BY <2>1, <1>4 DEF Sifted
    <3>2. j \in 1..i
      BY <1>1
    <3> QED
      BY <3>1, <3>2
  <2>2. CASE g \in S
    <3>1. PICK x \in S : RankOf(p, c, x) < RankOf(p, c, g)
      BY <2>2, <1>4
    <3>2. RankOf(p, c, h) < RankOf(p, c, g)
      BY <3>1, <2>2, <1>2, <1>3, <1>4
    <3>3. EqualSo(p, h, g, i - 1)
      BY <2>2, <1>4 DEF Sifted
    <3>4. AheadIn(p, h, g, i) /\ i \in 1..i
      BY <3>2, <3>3, <1>1 DEF AheadIn, c
    <3> QED
      BY <3>4
  <2> QED
    BY <2>1, <2>2
<1>7. T \in SUBSET group
  BY <1>2, <1>4
<1>8. Sifted(p, group, T, i)
  BY <1>4, <1>5, <1>6, <1>7 DEF Sifted
<1> QED
  BY <1>8 DEF T, c

LEMMA AllRoundsSift ==
    ASSUME NEW p \in Profiles, NEW group \in SUBSET Hashes, group # {}
    PROVE  Sifted(p, group, Rounds(p, group)[Len(p.priorities)], Len(p.priorities))
<1> DEFINE n == Len(p.priorities)
           L == Rounds(p, group)
           bad == {i \in 0..n : ~Sifted(p, group, L[i], i)}
<1>1. n \in Nat /\ L[0] = group /\ \A i \in 1..n : L[i] = Round(p, L[i - 1], p.priorities[i])
  BY RoundsAre
<1>2. Sifted(p, group, L[0], 0)
  <2>1. \A h, g : EqualSo(p, h, g, 0)
    BY DEF EqualSo
  <2> HIDE DEF L
  <2> QED
    BY <1>1, <2>1 DEF Sifted
<1>3. \A i \in 1..n : Sifted(p, group, L[i - 1], i - 1) => Sifted(p, group, L[i], i)
  <2> SUFFICES ASSUME NEW i \in 1..n, Sifted(p, group, L[i - 1], i - 1)
               PROVE  Sifted(p, group, L[i], i)
    OBVIOUS
  <2>1. Sifted(p, group, Round(p, L[i - 1], p.priorities[i]), i)
    BY RoundSifts
  <2> QED
    BY <2>1, <1>1
<1> HIDE DEF n, L
<1>4. bad = {}
  <2> SUFFICES ASSUME bad # {} PROVE FALSE
    OBVIOUS
  <2>1. bad \in SUBSET Nat
    BY <1>1
  <2>2. PICK m \in bad : \A k \in bad : m <= k
    BY <2>1, LeastNumber
  <2>3. m \in 0..n /\ ~Sifted(p, group, L[m], m)
    BY <2>2
  <2>4. m # 0
    BY <1>2, <2>3
  <2>5. m \in 1..n /\ m - 1 \in 0..n /\ ~(m <= m - 1)
    BY <1>1, <2>3, <2>4
  <2>6. Sifted(p, group, L[m - 1], m - 1)
    BY <2>2, <2>5
  <2> QED
    BY <1>3, <2>3, <2>5, <2>6
<1>5. n \in 0..n
  BY <1>1
<1>6. Sifted(p, group, L[n], n)
  BY <1>4, <1>5
<1> QED
  BY <1>6 DEF n, L

\* Of finitely many torrents one wins every tie.
LEMMA TieIsBroken ==
    ASSUME NEW S \in SUBSET Hashes, S # {}
    PROVE  \E h \in S : \A g \in S \ {h} : TieBreak(h, g)
<1> DEFINE byRepack == [h \in Hashes |-> -Release[h].repack]
           byHash == [h \in Hashes |-> -h]
           first == {h \in S : \A g \in S : byRepack[h] <= byRepack[g]}
<1>1. \A h \in Hashes : h \in Nat /\ Release[h].repack \in Int
  BY SelectionConstants
<1>2. \A h \in Hashes : byRepack[h] = -Release[h].repack /\ byHash[h] = -h
  OBVIOUS
<1>3. \A h \in Hashes : byRepack[h] \in Int /\ byHash[h] \in Int
  BY <1>1
<1> HIDE DEF byRepack, byHash
<1>4. first # {} /\ first \in SUBSET Hashes
  <2>1. \E h \in S : \A g \in S : byRepack[h] <= byRepack[g]
    BY <1>3, FiniteHasLeast
  <2> QED
    BY <2>1
<1> HIDE DEF first
<1>5. PICK h \in first : \A g \in first : byHash[h] <= byHash[g]
  BY <1>3, <1>4, FiniteHasLeast
<1>6. h \in S /\ h \in Hashes
  BY <1>4 DEF first
<1>7. ASSUME NEW g \in S \ {h} PROVE TieBreak(h, g)
  <2>1. /\ h \in Nat /\ g \in Nat /\ g # h
        /\ Release[h].repack \in Int /\ Release[g].repack \in Int
        /\ byRepack[h] = -Release[h].repack /\ byRepack[g] = -Release[g].repack
        /\ byHash[h] = -h /\ byHash[g] = -g
    BY <1>1, <1>2, <1>6
  <2>2. byRepack[h] <= byRepack[g]
    BY DEF first
  <2>3. CASE g \in first
    <3>1. byHash[h] <= byHash[g]
      BY <2>3, <1>5
    <3> QED
      BY <2>1, <2>2, <3>1 DEF TieBreak
  <2>4. CASE g \notin first
    <3>1. PICK x \in S : ~(byRepack[g] <= byRepack[x])
      BY <2>4 DEF first
    <3>2. byRepack[h] <= byRepack[x]
      BY DEF first
    <3>3. byRepack[x] \in Int /\ byRepack[g] \in Int /\ byRepack[h] \in Int
      BY <1>3, <1>6
    <3>4. byRepack[h] < byRepack[g]
      BY <3>1, <3>2, <3>3
    <3> QED
      BY <2>1, <3>4 DEF TieBreak
  <2> QED
    BY <2>3, <2>4
<1> QED
  BY <1>6, <1>7

\* The ranking picks one of the group, which is preferred to all the others.
THEOREM BestBeatsAll ==
    ASSUME NEW p \in Profiles, NEW group \in SUBSET Hashes, group # {}
    PROVE  /\ BestTorrent(p, group) \in group
           /\ \A g \in group \ {BestTorrent(p, group)} : Beats(p, BestTorrent(p, group), g)
<1> DEFINE n == Len(p.priorities)
           last == Rounds(p, group)[n]
           best == BestTorrent(p, group)
<1>1. Sifted(p, group, last, n) /\ n \in Nat /\ DOMAIN p.priorities = 1..n
  BY AllRoundsSift, SelectionConstants
<1>2. best = CHOOSE h \in last : \A g \in last \ {h} : TieBreak(h, g)
  BY DEF BestTorrent
<1> HIDE DEF last, n, best
<1>3. last \in SUBSET group /\ last # {} /\ last \in SUBSET Hashes
  BY <1>1 DEF Sifted
<1>4. best \in last /\ \A g \in last \ {best} : TieBreak(best, g)
  BY <1>2, <1>3, TieIsBroken
<1>5. ASSUME NEW g \in group \ {best} PROVE Beats(p, best, g)
  <2> DEFINE differ == {i \in DOMAIN p.priorities :
                           RankOf(p, p.priorities[i], best) # RankOf(p, p.priorities[i], g)}
  <2>1. CASE g \in last
    <3>1. EqualSo(p, best, g, n)
      BY <2>1, <1>1, <1>4 DEF Sifted
    <3>2. differ = {}
      BY <3>1, <1>1 DEF EqualSo
    <3> QED
      BY <3>2, <2>1, <1>4 DEF Beats
  <2>2. CASE g \notin last
    <3>1. PICK j \in 1..n : AheadIn(p, best, g, j)
      BY <2>2, <1>1, <1>4 DEF Sifted
    <3>2. \A i \in 1..n : p.priorities[i] \in Criteria
      BY <1>1, SelectionConstants DEF n
    <3>3. /\ RankOf(p, p.priorities[j], best) \in Int /\ RankOf(p, p.priorities[j], g) \in Int
          /\ RankOf(p, p.priorities[j], best) < RankOf(p, p.priorities[j], g)
      BY <3>1, <3>2, <1>3, <1>4, RanksAgree DEF AheadIn
    <3>4. j \in differ
      BY <3>3, <1>1
    <3>5. \A i \in differ : j <= i
      <4> SUFFICES ASSUME NEW i \in differ PROVE j <= i
        OBVIOUS
      <4>1. i \in 1..n /\ RankOf(p, p.priorities[i], best) # RankOf(p, p.priorities[i], g)
        BY <1>1
      <4>2. i \notin 1..j - 1
        BY <4>1, <3>1 DEF AheadIn, EqualSo
      <4> QED
        BY <4>1, <4>2, <1>1
    <3>6. \A i \in differ : (\A k \in differ : i <= k) => i = j
      BY <3>4, <3>5, <1>1
    <3>7. (CHOOSE i \in differ : \A k \in differ : i <= k) = j
      BY <3>4, <3>5, <3>6
    <3> QED
      BY <3>3, <3>4, <3>7 DEF Beats
  <2> QED
    BY <2>1, <2>2
<1> QED
  BY <1>3, <1>4, <1>5 DEF best

-----------------------------------------------------------------------------
\* A row says which episode it belongs to from the start, and only a torrent that
\* is known has a download.
RowOK(row) ==
    /\ row \in Row /\ (Known(row) <=> row.space # NoSpace)
    /\ row.dl # "none" => Known(row)

RestTypes ==
    /\ auto \subseteq Spaces /\ profile \in Profiles /\ order \subseteq Hashes \X Hashes
    /\ req \in Request /\ requests \in 0..MaxRequests /\ passes \in 0..MaxPasses
    /\ standing \subseteq auto

PassTypes ==
    /\ work \in [Hashes -> Row] /\ snap \in [Hashes -> Row]
    /\ pc \in {"idle", "matching", "sending"} /\ mode \in {"feed", "search"}
    /\ scope \subseteq Hashes /\ written \subseteq Hashes
    /\ todo \subseteq Hashes /\ mine \subseteq Hashes
    /\ marked \subseteq Spaces /\ held \subseteq Spaces
    /\ \A h \in Hashes : RowOK(snap[h])

\* While a pass holds a torrent, nobody changes what is committed of it; what it has
\* inserted has no download before it commits.
PassOwnsRows ==
    /\ \A h \in written : RowOK(work[h]) /\ Known(work[h])
    /\ \A h \in todo \union mine : Known(View(h))
    /\ \A h \in mine : h \in written /\ torrent[h].dl = "none" /\ h \notin todo
    /\ pc # "sending" => written = {} /\ todo = {} /\ mine = {}

\* Of the episodes a pass has, it knows auto_discard as it was when it began, if it
\* has not been changed since.
Heeding ==
    /\ pc = "idle" => held = {}
    /\ pc = "matching" => standing \intersect Loaded \subseteq marked

SelectionInv ==
    /\ torrent \in [Hashes -> Row] /\ \A h \in Hashes : RowOK(torrent[h])
    /\ RestTypes /\ PassTypes /\ PassOwnsRows /\ Heeding

LEMMA SelectionInvTypes == SelectionInv => TypeOK
BY DEF SelectionInv, RestTypes, PassTypes, TypeOK, RowOK

LEMMA NoRowOK == RowOK(NoRow) /\ NoRow.dl = "none" /\ ~Known(NoRow)
BY DEF RowOK, NoRow, Row, Known, Download

LEMMA SelectionInitially == Init => SelectionInv
<1> SUFFICES ASSUME Init PROVE SelectionInv
  OBVIOUS
<1>1. NoRow \in Row /\ RowOK(NoRow)
  BY NoRowOK DEF RowOK
<1>2. RestTypes
  BY SelectionConstants DEF Init, RestTypes, Request
<1>3. PassTypes
  BY <1>1 DEF Init, PassTypes
<1>4. PassOwnsRows
  BY DEF Init, PassOwnsRows
<1>5. Heeding
  BY DEF Init, Heeding
<1> QED
  BY <1>1, <1>2, <1>3, <1>4, <1>5 DEF Init, SelectionInv

\* A row with another status of its download.
LEMMA Restated ==
    ASSUME NEW old \in Row, NEW d \in Download
    PROVE  LET new == [old EXCEPT !.dl = d]
           IN  /\ new \in Row /\ new.dl = d /\ new.id = old.id /\ new.space = old.space
               /\ new.discarded = old.discarded
BY DEF Row

\* What a pass sees of a row.
LEMMA ViewIs ==
    ASSUME SelectionInv, NEW h \in Hashes
    PROVE  /\ View(h) \in Row /\ RowOK(View(h)) /\ View(h).dl = torrent[h].dl
           /\ h \in written => /\ View(h).id = work[h].id /\ View(h).space = work[h].space
                               /\ View(h).discarded = work[h].discarded
<1>1. torrent[h] \in Row /\ RowOK(torrent[h]) /\ torrent[h].dl \in Download /\ work[h] \in Row
  BY DEF SelectionInv, PassTypes, Row
<1>2. CASE h \in written
  <2>1. View(h) = [work[h] EXCEPT !.dl = torrent[h].dl] /\ RowOK(work[h]) /\ Known(work[h])
    BY <1>2 DEF View, SelectionInv, PassOwnsRows
  <2>2. /\ View(h) \in Row /\ View(h).dl = torrent[h].dl /\ View(h).id = work[h].id
        /\ View(h).space = work[h].space /\ View(h).discarded = work[h].discarded
    BY <1>1, <2>1, Restated
  <2> QED
    BY <2>1, <2>2 DEF RowOK, Known
<1>3. CASE h \notin written
  BY <1>1, <1>3 DEF View
<1> QED
  BY <1>2, <1>3

LEMMA Views ==
    ASSUME SelectionInv
    PROVE  /\ \A h \in Hashes : View(h) \in Row /\ RowOK(View(h)) /\ View(h).dl = torrent[h].dl
           /\ Rows \subseteq Hashes
BY ViewIs DEF SelectionInv, PassTypes, Rows

LEMMA HeedingKeeps ==
    ASSUME SelectionInv, UNCHANGED passVars, standing' \subseteq standing PROVE Heeding'
<1>1. UNCHANGED <<pc, scope, snap, marked, held>>
  BY DEF passVars
<1> QED
  BY <1>1 DEF SelectionInv, Heeding, Loaded

LEMMA OrderTypes ==
    ASSUME SelectionInv
    PROVE  /\ \A h \in Hashes : After(h) \subseteq Hashes \X Hashes
           /\ \A S : Without(S) \subseteq Hashes \X Hashes
BY Views DEF SelectionInv, RestTypes, After, Without

\* A step of others on one row: a torrent that no pass holds, which is not
\* forgotten, or the download of any.
LEMMA ChangeKeeps ==
    ASSUME SelectionInv, NEW h \in Hashes, NEW row, RowOK(row), Known(torrent[h]) => Known(row),
           torrent' = [torrent EXCEPT ![h] = row],
           \/ h \notin written
           \/ /\ torrent[h].dl # "none"
              /\ row.id = torrent[h].id /\ row.space = torrent[h].space,
           UNCHANGED passVars, RestTypes', standing' \subseteq standing
    PROVE  SelectionInv'
<1>1. row \in Row
  BY DEF RowOK
<1>2. UNCHANGED <<pc, mode, scope, snap, marked, held, work, written, todo, mine>>
  BY DEF passVars
<1>3. torrent' \in [Hashes -> Row] /\ \A g \in Hashes : RowOK(torrent'[g])
  BY <1>1 DEF SelectionInv
<1>4. PassTypes'
  BY <1>2 DEF SelectionInv, PassTypes
<1>5. torrent'[h] = row /\ \A g \in Hashes \ {h} : torrent'[g] = torrent[g]
  BY DEF SelectionInv
<1>6. ASSUME NEW g \in todo \union mine PROVE Known(View(g)')
  <2>1. g \in Hashes /\ Known(View(g)) /\ torrent'[g] \in Row /\ torrent'[g].dl \in Download
    BY <1>3 DEF SelectionInv, PassTypes, PassOwnsRows, Row
  <2>2. CASE g \in written
    <3>1. View(g)' = [work[g] EXCEPT !.dl = torrent'[g].dl] /\ work[g] \in Row /\ Known(work[g])
      BY <1>2, <2>1, <2>2 DEF View, SelectionInv, PassTypes, PassOwnsRows
    <3>2. View(g)'.id = work[g].id
      BY <2>1, <3>1, Restated
    <3> QED
      BY <3>1, <3>2 DEF Known
  <2>3. CASE g \notin written
    <3>1. View(g)' = torrent'[g] /\ View(g) = torrent[g]
      BY <1>2, <2>3 DEF View
    <3> QED
      BY <1>5, <2>1, <3>1
  <2> QED
    BY <2>2, <2>3
<1>7. \A g \in mine : torrent'[g].dl = "none"
  BY <1>5 DEF SelectionInv, PassTypes, PassOwnsRows
<1>8. \A g \in todo \union mine : Known(View(g))'
  BY <1>6 DEF Known
<1>9. PassOwnsRows'
  BY <1>2, <1>7, <1>8 DEF SelectionInv, PassOwnsRows, RowOK, Known
<1> QED
  BY <1>3, <1>4, <1>9, HeedingKeeps DEF SelectionInv

LEMMA SetsKeeps ==
    ASSUME SelectionInv, NEW h \in Hashes, NEW row, RowOK(row), Known(torrent[h]) => Known(row),
           Sets(h, row), UNCHANGED passVars, RestTypes', standing' \subseteq standing
    PROVE  SelectionInv'
BY ChangeKeeps DEF Sets

\* A request that changes no row.
LEMMA OthersKeep ==
    ASSUME SelectionInv, UNCHANGED <<torrent, passVars>>, RestTypes', standing' \subseteq standing
    PROVE  SelectionInv'
<1>1. UNCHANGED <<torrent, pc, mode, scope, snap, marked, held, work, written, todo, mine>>
  BY DEF passVars
<1> QED
  BY <1>1, HeedingKeeps DEF SelectionInv, PassTypes, PassOwnsRows, View, RowOK, Known

LEMMA AsksTypes == ASSUME SelectionInv, Asks PROVE requests' \in 0..MaxRequests
BY SelectionConstants DEF SelectionInv, RestTypes, Asks

LEMMA ReadsKeep ==
    ASSUME SelectionInv, NEW h \in Hashes, NEW op \in {"discard", "download"}, Reads(op, h)
    PROVE  SelectionInv'
<1>1. torrent[h] \in Row
  BY DEF SelectionInv
<1>2. req' \in Request
  BY <1>1 DEF Reads, Request, Row
<1>3. UNCHANGED <<torrent, auto, order, standing, profile, passVars, passes>>
  BY DEF Reads, dbVars
<1>4. RestTypes'
  BY <1>2, <1>3, AsksTypes DEF Reads, SelectionInv, RestTypes
<1> QED
  BY <1>3, <1>4, OthersKeep

LEMMA DiscardKeeps ==
    ASSUME SelectionInv, DiscardWrites \/ \E h \in Hashes : DiscardReads(h) PROVE SelectionInv'
<1>1. ASSUME NEW h \in Hashes, DiscardReads(h) PROVE SelectionInv'
  BY <1>1, ReadsKeep DEF DiscardReads
<1>2. ASSUME DiscardWrites PROVE SelectionInv'
  <2>1. RestTypes'
    BY <1>2 DEF DiscardWrites, SelectionInv, RestTypes, Request
  <2>2. CASE ~Known(torrent[req.h])
    BY <1>2, <2>1, <2>2, OthersKeep DEF DiscardWrites
  <2>3. CASE Known(torrent[req.h])
    <3> DEFINE h == req.h
               old == torrent[h]
               new == [old EXCEPT !.discarded = TRUE,
                                  !.dl = IF req.dl # "none" /\ old.id = req.id /\ @ # "none"
                                         THEN "discarded" ELSE @]
    <3>1. h \in Hashes
      BY <1>2 DEF DiscardWrites, SelectionInv, RestTypes, Request, NoRequest
    <3>2. Sets(h, new) /\ UNCHANGED <<passVars, standing>>
      BY <1>2, <2>3 DEF DiscardWrites
    <3>3. old \in Row /\ RowOK(old)
      BY <3>1 DEF SelectionInv
    <3> HIDE DEF h, old
    <3>4. new \in Row /\ new.id = old.id /\ new.space = old.space
      BY <3>3 DEF Row, Download
    <3>5. RowOK(new) /\ Known(new)
      BY <3>3, <3>4, <2>3 DEF RowOK, Known, h, old
    <3> HIDE DEF new
    <3> QED
      BY <2>1, <3>1, <3>2, <3>5, SetsKeeps
  <2> QED
    BY <2>2, <2>3
<1> QED
  BY <1>1, <1>2

LEMMA OverrideKeeps ==
    ASSUME SelectionInv, NEW h \in Hashes, NEW future \in BOOLEAN, Override(h, future)
    PROVE  SelectionInv'
<1> DEFINE old == torrent[h]
           new == [old EXCEPT !.dl = "going", !.discarded = FALSE, !.override = TRUE]
<1>1. old \in Row /\ RowOK(old) /\ Known(old) /\ Sets(h, new) /\ UNCHANGED passVars
  BY DEF SelectionInv, Override
<1>2. old.space \in Spaces
  BY <1>1 DEF RowOK, Row
<1>3. RestTypes' /\ standing' \subseteq standing
  BY <1>2, AsksTypes, OrderTypes DEF Override, SetsFlags, SelectionInv, RestTypes
<1> HIDE DEF old
<1>4. new \in Row /\ new.id = old.id /\ new.space = old.space
  BY <1>1 DEF Row, Download
<1>5. RowOK(new) /\ Known(new)
  BY <1>1, <1>4 DEF RowOK, Known
<1> HIDE DEF new
<1> QED
  BY <1>1, <1>3, <1>5, SetsKeeps

LEMMA IdentifyKeeps ==
    ASSUME SelectionInv, NEW s \in Spaces, NEW future \in BOOLEAN, Identify(s, future)
    PROVE  SelectionInv'
<1> DEFINE h   == req.h
           old == torrent[h]
           new == [id |-> old.id + 1, space |-> s, discarded |-> FALSE, override |-> future,
                   dl |-> "none"]
           same == [old EXCEPT !.discarded = FALSE, !.override = future]
<1>1. h \in Hashes /\ old \in Row /\ RowOK(old) /\ req \in Request /\ req.op = "download"
  BY DEF Identify, SelectionInv, RestTypes, Request, NoRequest
<1>2. UNCHANGED <<profile, passes, requests, passVars>>
  BY DEF Identify
<1>3. CASE old.id # req.id
  <2>1. req' = NoRequest /\ UNCHANGED <<torrent, auto, order, standing>>
    BY <1>3 DEF Identify, dbVars
  <2>2. RestTypes'
    BY <1>2, <2>1 DEF SelectionInv, RestTypes, Request
  <2> QED
    BY <1>2, <2>1, <2>2, OthersKeep
<1>4. CASE old.id = req.id
  <2>1. /\ Sets(h, IF Afresh(s) THEN new ELSE same)
        /\ order' = IF Afresh(s) THEN Without({h}) ELSE order
        /\ SetsFlags(IF future THEN auto \union {s} ELSE IF Afresh(s) THEN auto \ {s} ELSE auto)
        /\ req' = [req EXCEPT !.op = "identify"]
    BY <1>4 DEF Identify
  <2>2. req' \in Request
    <3>1. req \in [op: {"discard", "identify", "download"}, h: Hashes, id: Nat,
                   dl: Download, space: Spaces \union {NoSpace}]
      BY <1>1 DEF Request, NoRequest
    <3> QED
      BY <2>1, <3>1 DEF Request
  <2>3. RestTypes' /\ standing' \subseteq standing
    BY <1>2, <2>1, <2>2, OrderTypes DEF SetsFlags, SelectionInv, RestTypes
  <2>4. s # NoSpace
    BY SelectionConstants
  <2> HIDE DEF h, old
  <2>5. RowOK(new) /\ Known(new)
    <3>1. old.id \in Nat
      BY <1>1 DEF Row
    <3>2. new \in Row /\ new.id # 0
      BY <3>1 DEF Row, Download
    <3> QED
      BY <2>4, <3>2 DEF RowOK, Known
  <2>6. RowOK(same) /\ (Known(old) => Known(same))
    <3>1. same \in Row /\ same.id = old.id /\ same.space = old.space /\ same.dl = old.dl
      BY <1>1 DEF Row
    <3> HIDE DEF same
    <3> QED
      BY <1>1, <3>1 DEF RowOK, Known
  <2> HIDE DEF new, same
  <2>7. CASE Afresh(s)
    BY <1>1, <1>2, <2>1, <2>3, <2>5, <2>7, SetsKeeps
  <2>8. CASE ~Afresh(s)
    BY <1>1, <1>2, <2>1, <2>3, <2>6, <2>8, SetsKeeps DEF old
  <2> QED
    BY <2>7, <2>8
<1> QED
  BY <1>3, <1>4

LEMMA StatusRow ==
    ASSUME NEW old, RowOK(old), Known(old), NEW d \in Download
    PROVE  RowOK([old EXCEPT !.dl = d]) /\ Known([old EXCEPT !.dl = d])
<1>1. old \in Row
  BY DEF RowOK
<1> QED
  BY <1>1, Restated DEF RowOK, Known

LEMMA IdentifyDownloadsKeeps == ASSUME SelectionInv, IdentifyDownloads PROVE SelectionInv'
<1> DEFINE h == req.h
<1>1. h \in Hashes /\ UNCHANGED <<passVars, standing>>
  BY DEF IdentifyDownloads, SelectionInv, RestTypes, Request, NoRequest
<1>2. RestTypes'
  BY <1>1, OrderTypes DEF IdentifyDownloads, SelectionInv, RestTypes, Request
<1>3. CASE Known(torrent[h]) /\ torrent[h].dl = "none"
  <2>1. Sets(h, [torrent[h] EXCEPT !.dl = "going"]) /\ RowOK(torrent[h])
    BY <1>1, <1>3 DEF IdentifyDownloads, SelectionInv
  <2>2. "going" \in Download
    BY DEF Download
  <2> HIDE DEF h
  <2> QED
    BY <1>1, <1>2, <1>3, <2>1, <2>2, StatusRow, SetsKeeps
<1>4. CASE ~(Known(torrent[h]) /\ torrent[h].dl = "none")
  BY <1>1, <1>2, <1>4, OthersKeep DEF IdentifyDownloads
<1> QED
  BY <1>3, <1>4

LEMMA RetryKeeps ==
    ASSUME SelectionInv, NEW h \in Hashes, NEW b \in BOOLEAN,
           Retry(h) \/ DeleteDownload(h, b) \/ WorkerMoves(h)
    PROVE  SelectionInv'
<1> DEFINE old == torrent[h]
<1>1. old.dl # "none" /\ RowOK(old) /\ Known(old) /\ old \in Row
  BY DEF Retry, DeleteDownload, WorkerMoves, SelectionInv, RowOK
<1>2. RestTypes' /\ UNCHANGED <<passVars, standing>>
  BY AsksTypes, OrderTypes DEF Retry, DeleteDownload, WorkerMoves, SelectionInv, RestTypes
<1>3. \/ \E d \in Download : SetsDownload(h, d)
      \/ Sets(h, [old EXCEPT !.dl = "none", !.discarded = TRUE])
  BY DEF Retry, DeleteDownload, WorkerMoves, Download
<1>4. CASE \E d \in Download : SetsDownload(h, d)
  <2>1. PICK d \in Download : torrent' = [torrent EXCEPT ![h].dl = d]
    BY <1>4 DEF SetsDownload
  <2>2. torrent' = [torrent EXCEPT ![h] = [old EXCEPT !.dl = d]]
    BY <2>1
  <2> HIDE DEF old
  <2>3. /\ RowOK([old EXCEPT !.dl = d]) /\ Known([old EXCEPT !.dl = d])
        /\ [old EXCEPT !.dl = d].id = old.id /\ [old EXCEPT !.dl = d].space = old.space
    BY <1>1, StatusRow, Restated
  <2> QED
    BY <1>1, <1>2, <2>2, <2>3, ChangeKeeps DEF old
<1>5. CASE Sets(h, [old EXCEPT !.dl = "none", !.discarded = TRUE])
  <2> DEFINE new == [old EXCEPT !.dl = "none", !.discarded = TRUE]
  <2> HIDE DEF old
  <2>1. new \in Row /\ new.id = old.id /\ new.space = old.space /\ new.dl = "none"
    BY <1>1 DEF Row, Download
  <2>2. RowOK(new) /\ Known(new)
    BY <1>1, <2>1 DEF RowOK, Known
  <2> HIDE DEF new
  <2> QED
    BY <1>2, <1>5, <2>2, SetsKeeps DEF new
<1> QED
  BY <1>3, <1>4, <1>5

LEMMA SettingsKeep ==
    ASSUME SelectionInv,
           (\E s \in Spaces : SetAutoDiscard(s)) \/ (\E q \in Profiles : SetProfile(q))
    PROVE  SelectionInv'
<1>1. UNCHANGED <<torrent, passVars>> /\ RestTypes' /\ standing' \subseteq standing
  BY AsksTypes DEF SetAutoDiscard, SetProfile, SetsFlags, dbVars, SelectionInv, RestTypes
<1> QED
  BY <1>1, OthersKeep

-----------------------------------------------------------------------------
LEMMA BeginsKeeps ==
    ASSUME SelectionInv, NEW m \in {"feed", "search"}, NEW listed \in SUBSET Hashes,
           PassBegins(m, listed)
    PROVE  SelectionInv'
<1>1. /\ UNCHANGED <<dbVars, profile, held, work, written, todo, mine, req, requests>>
      /\ marked' = {torrent[h].space : h \in listed} \intersect auto /\ standing' = auto
      /\ pc = "idle" /\ pc' = "matching" /\ mode' = m /\ scope' = listed /\ passes' = passes + 1
      /\ passes < MaxPasses
      /\ snap' = [h \in Hashes |-> IF h \in listed THEN torrent[h] ELSE NoRow]
  BY DEF PassBegins
<1>2. UNCHANGED <<torrent, auto, order>>
  BY <1>1 DEF dbVars
<1>3. RestTypes'
  BY <1>1, <1>2, SelectionConstants DEF SelectionInv, RestTypes
<1>4. PassTypes'
  <2>1. \A h \in Hashes : snap'[h] \in Row /\ RowOK(snap'[h])
    BY <1>1, NoRowOK DEF SelectionInv, RowOK
  <2> QED
    BY <2>1, <1>1 DEF SelectionInv, RestTypes, PassTypes
<1>5. PassOwnsRows'
  BY <1>1, <1>2 DEF SelectionInv, PassOwnsRows
<1>6. Heeding'
  <2>1. held' = {} /\ pc' = "matching"
    BY <1>1 DEF SelectionInv, Heeding
  <2>2. \A h \in listed : snap'[h] = torrent[h]
    BY <1>1
  <2>3. Loaded' = {torrent[h].space : h \in listed}
    BY <1>1, <2>1, <2>2 DEF Loaded
  <2> QED
    BY <1>1, <2>1, <2>3 DEF Heeding
<1> QED
  BY <1>2, <1>3, <1>4, <1>5, <1>6 DEF SelectionInv

LEMMA LooksUpKeeps ==
    ASSUME SelectionInv, NEW s \in Spaces, PassLooksUp(s) PROVE SelectionInv'
<1>1. /\ UNCHANGED <<torrent, auto, order, profile, pc, mode, scope, snap, work, written, todo,
                    mine, req, requests, passes, standing>>
      /\ pc = "matching" /\ held' = held \union {s}
      /\ marked' = IF s \in Loaded THEN marked ELSE marked \union ({s} \intersect auto)
  BY DEF PassLooksUp, dbVars
<1>2. Loaded' = Loaded \union {s}
  BY <1>1 DEF Loaded
<1>3. Heeding'
  BY <1>1, <1>2 DEF SelectionInv, RestTypes, Heeding
<1>4. PassTypes'
  BY <1>1 DEF SelectionInv, PassTypes
<1> QED
  BY <1>1, <1>3, <1>4 DEF SelectionInv, RestTypes, PassOwnsRows, View

\* What the pass writes are rows of tracked episodes, with the downloads they have.
LEMMA WrittenRows ==
    ASSUME SelectionInv, ~Conflict, NEW h \in Processed
    PROVE  /\ RowOK(WrittenRow(h)) /\ Known(WrittenRow(h)) /\ WrittenRow(h).space = Match[h]
           /\ Match[h] \in Spaces /\ WrittenRow(h).dl = torrent[h].dl
           /\ WrittenRow(h).discarded = (Match[h] \in marked \/ (Known(snap[h]) /\ snap[h].discarded))
<1>1. /\ h \in Hashes /\ Match[h] \in Spaces /\ Match[h] # NoSpace /\ torrent[h].id = snap[h].id
      /\ torrent[h] \in Row /\ snap[h] \in Row /\ RowOK(torrent[h]) /\ RowOK(snap[h])
  BY SelectionConstants DEF Processed, Conflict, SelectionInv, PassTypes
<1>2. CASE Known(snap[h])
  <2> DEFINE old == torrent[h]
             read == snap[h]
             new == [old EXCEPT !.id = read.id, !.space = Match[h],
                                !.discarded = Match[h] \in marked \/ read.discarded]
  <2>1. WrittenRow(h) = new
    BY <1>2 DEF WrittenRow
  <2>2. old \in Row /\ read \in Row /\ read.id # 0
    BY <1>1, <1>2 DEF Known
  <2> HIDE DEF old, read
  <2>3. /\ new \in Row /\ new.id = read.id /\ new.space = Match[h] /\ new.dl = old.dl
        /\ new.discarded = (Match[h] \in marked \/ read.discarded)
    BY <1>1, <2>2 DEF Row
  <2> HIDE DEF new
  <2>4. RowOK(new) /\ Known(new)
    BY <1>1, <2>2, <2>3 DEF RowOK, Known
  <2> QED
    BY <1>1, <1>2, <2>1, <2>3, <2>4 DEF old, read
<1>3. CASE ~Known(snap[h])
  <2> DEFINE new == [id |-> 1, space |-> Match[h], discarded |-> Match[h] \in marked,
                     override |-> FALSE, dl |-> "none"]
  <2>1. WrittenRow(h) = new
    BY <1>3 DEF WrittenRow, NewTorrent
  <2>2. /\ new \in Row /\ new.id = 1 /\ new.space = Match[h] /\ new.dl = "none"
        /\ new.discarded = (Match[h] \in marked)
    BY <1>1 DEF NoRow, Row, Download
  <2>3. torrent[h].dl = "none"
    BY <1>1, <1>3 DEF RowOK, Known
  <2> HIDE DEF new
  <2>4. RowOK(new) /\ Known(new)
    BY <1>1, <2>2 DEF RowOK, Known
  <2> QED
    BY <1>1, <1>3, <2>1, <2>2, <2>3, <2>4
<1> QED
  BY <1>2, <1>3

\* The rows as the pass leaves them.
Written(h) == IF h \in Processed THEN WrittenRow(h) ELSE torrent[h]

LEMMA WinnerWins ==
    ASSUME SelectionInv, NEW row, NEW t, Competitors(row, t) # {}
    PROVE  LET w == Winner(row, t)
           IN  /\ w \in Competitors(row, t)
               /\ \/ ~profile.upgrades /\ Active(row[w])
                  \/ /\ ~(~profile.upgrades /\ \E g \in Competitors(row, t) : Active(row[g]))
                     /\ \A g \in Competitors(row, t) \ {w} : Beats(profile, w, g)
<1> DEFINE group    == Competitors(row, t)
           acquired == {h \in group : Active(row[h])}
           w == Winner(row, t)
<1>1. profile \in Profiles /\ group \in SUBSET Hashes
  BY DEF SelectionInv, RestTypes, Competitors
<1>2. CASE ~profile.upgrades /\ acquired # {}
  <2>1. w = MinHash(acquired)
    BY <1>2 DEF Winner
  <2>2. acquired \in SUBSET Nat
    BY <1>1, SelectionConstants
  <2>3. \E h \in acquired : \A g \in acquired : h <= g
    BY <1>2, <2>2, LeastNumber
  <2>4. w \in acquired
    BY <2>1, <2>3 DEF MinHash
  <2> QED
    BY <1>2, <2>4
<1>3. CASE ~(~profile.upgrades /\ acquired # {})
  <2>1. w = BestTorrent(profile, group)
    BY <1>3 DEF Winner
  <2>2. /\ BestTorrent(profile, group) \in group
        /\ \A g \in group \ {BestTorrent(profile, group)} :
                Beats(profile, BestTorrent(profile, group), g)
    BY <1>1, BestBeatsAll
  <2> QED
    BY <1>3, <2>1, <2>2
<1> QED
  BY <1>2, <1>3

\* A torrent that a pass is going to send is the winner of one of its episodes.
LEMMA Picked ==
    ASSUME SelectionInv, PassWrites, NEW h \in todo'
    PROVE  /\ h \in scope /\ work' = [g \in Hashes |-> Written(g)]
           /\ Competitors(work', work'[h].space) # {}
           /\ h = Winner(work', work'[h].space)
           /\ \E g \in Processed : ~work'[g].discarded /\ work'[g].space = work'[h].space
<1> DEFINE row == [g \in Hashes |-> IF g \in Processed THEN WrittenRow(g) ELSE torrent[g]]
           looked == {row[g].space : g \in {x \in Processed : ~row[x].discarded}}
<1>1. /\ work' = row
      /\ todo' = {Winner(row, s) : s \in {t \in looked : Competitors(row, t) # {}}} \cap scope
  BY DEF PassWrites
<1> HIDE DEF row
<1>2. PICK s \in looked : Competitors(row, s) # {} /\ h = Winner(row, s)
  BY <1>1
<1>3. h \in Competitors(row, s)
  BY <1>2, WinnerWins
<1>4. row[h].space = s
  BY <1>3 DEF Competitors
<1>5. \E g \in Processed : ~row[g].discarded /\ row[g].space = s
  BY <1>2
<1> QED
  BY <1>1, <1>2, <1>4, <1>5 DEF Written, row

LEMMA WritesKeeps == ASSUME SelectionInv, PassWrites PROVE SelectionInv'
<1>1. /\ UNCHANGED <<torrent, auto, order, profile, mode, scope, snap, held, mine, req, requests,
                    passes>>
      /\ marked' = {} /\ standing' = {}
      /\ pc = "matching" /\ ~Conflict /\ written' = Processed /\ pc' = "sending"
      /\ work' = [g \in Hashes |-> Written(g)]
  BY DEF PassWrites, dbVars, Written
<1>2. Processed \subseteq Hashes
  BY DEF Processed, SelectionInv, PassTypes
<1>3. \A h \in Processed : /\ RowOK(Written(h)) /\ Known(Written(h))
                           /\ Written(h).dl = torrent[h].dl /\ Written(h).space \in Spaces
  BY <1>1, WrittenRows DEF Written
<1>4. \A h \in Hashes : RowOK(Written(h))
  BY <1>3 DEF Written, SelectionInv
<1>5. mine = {}
  BY <1>1 DEF SelectionInv, PassOwnsRows
<1>6. todo' \subseteq scope
  BY Picked
<1>7. PassTypes'
  <2>1. work' \in [Hashes -> Row]
    BY <1>1, <1>4 DEF RowOK
  <2> QED
    BY <2>1, <1>1, <1>2, <1>6 DEF SelectionInv, PassTypes
<1>8. PassOwnsRows'
  <2>1. \A h \in written' : RowOK(work'[h]) /\ Known(work'[h])
    BY <1>1, <1>2, <1>3
  <2>2. ASSUME NEW h \in todo' PROVE Known(View(h)')
    <3>1. h \in Hashes
      BY <1>6 DEF SelectionInv, PassTypes
    <3>2. View(h)'.id = work'[h].id
      <4>1. torrent[h].dl \in Download /\ work'[h] \in Row
        BY <3>1, <1>1, <1>4 DEF SelectionInv, Row, RowOK
      <4>2. CASE h \in written'
        BY <4>1, <4>2, <1>1, Restated DEF View
      <4>3. CASE h \notin written'
        BY <3>1, <4>3, <1>1 DEF View, Written
      <4> QED
        BY <4>2, <4>3
    <3>3. PICK g \in Processed : ~work'[g].discarded /\ work'[g].space = work'[h].space
      BY Picked
    <3>4. work'[g].space \in Spaces
      BY <3>3, <1>1, <1>2, <1>3
    <3>5. RowOK(work'[h]) /\ work'[h].space # NoSpace
      BY <3>1, <3>3, <3>4, <1>1, <1>4, SelectionConstants
    <3> QED
      BY <3>2, <3>5 DEF RowOK, Known
  <2> QED
    <3>1. \A h \in todo' : Known(View(h))'
      BY <2>2 DEF Known
    <3> QED
      BY <2>1, <3>1, <1>1, <1>5 DEF PassOwnsRows
<1> QED
  BY <1>1, <1>7, <1>8 DEF SelectionInv, RestTypes, Heeding

LEMMA SendsKeeps ==
    ASSUME SelectionInv, NEW h \in Hashes, PassSends(h) PROVE SelectionInv'
<1>1. /\ UNCHANGED <<torrent, auto, profile, pc, mode, scope, snap, marked, held, req, requests,
                    passes, standing>>
      /\ pc = "sending" /\ h \in todo /\ todo' = todo \ {h}
  BY DEF PassSends
<1>2. CASE View(h).dl # "none"
  <2>1. UNCHANGED <<mine, written, work, order>>
    BY <1>2 DEF PassSends
  <2> QED
    BY <1>1, <2>1 DEF SelectionInv, RestTypes, PassTypes, PassOwnsRows, Heeding, View, RowOK, Known
<1>3. CASE View(h).dl = "none"
  <2>1. /\ mine' = mine \union {h} /\ written' = written \union {h} /\ order' = After(h)
        /\ work' = [work EXCEPT ![h] = View(h)]
    BY <1>3 DEF PassSends
  <2>2. RowOK(View(h)) /\ View(h) \in Row /\ Known(View(h)) /\ torrent[h].dl = "none"
    BY <1>1, <1>3, Views DEF SelectionInv, PassOwnsRows
  <2>3. RestTypes'
    BY <1>1, <2>1, OrderTypes DEF SelectionInv, RestTypes
  <2>4. PassTypes'
    BY <1>1, <2>1, <2>2 DEF SelectionInv, PassTypes, RowOK
  <2>5. work'[h] = View(h) /\ \A g \in Hashes \ {h} : work'[g] = work[g]
    BY <2>1 DEF SelectionInv, PassTypes
  <2>6. \A g \in written' : RowOK(work'[g]) /\ Known(work'[g])
    BY <1>3, <2>1, <2>2, <2>5 DEF SelectionInv, PassTypes, PassOwnsRows
  <2>7. ASSUME NEW g \in Hashes PROVE View(g)' = View(g)
    <3>1. CASE g # h
      BY <1>1, <2>1, <2>5, <3>1 DEF View
    <3>2. CASE g = h
      <4>1. View(h)' = [View(h) EXCEPT !.dl = torrent[h].dl]
        BY <1>1, <2>1, <2>5 DEF View
      <4>2. View(h).dl = torrent[h].dl
        BY <1>3, <2>2
      <4> HIDE DEF View
      <4> QED
        BY <2>2, <3>2, <4>1, <4>2 DEF Row
    <3> QED
      BY <3>1, <3>2
  <2>8. PassOwnsRows'
    BY <1>1, <1>3, <2>1, <2>2, <2>5, <2>6, <2>7 DEF SelectionInv, PassTypes, PassOwnsRows, RowOK, Known
  <2> QED
    BY <1>1, <2>3, <2>4, <2>8 DEF SelectionInv, Heeding
<1> QED
  BY <1>2, <1>3

\* The pass is over: it holds nothing any more.
LEMMA EndsKeeps ==
    ASSUME SelectionInv, PassEnds PROVE PassTypes' /\ PassOwnsRows' /\ Heeding' /\ standing' = {}
BY NoRowOK DEF PassEnds, PassTypes, PassOwnsRows, RowOK, Heeding

LEMMA CommitsKeeps == ASSUME SelectionInv, PassCommits PROVE SelectionInv'
<1>1. /\ torrent' = [h \in Hashes |->
                       IF h \in mine THEN [View(h) EXCEPT !.dl = "going"] ELSE View(h)]
      /\ PassEnds /\ UNCHANGED <<auto, order, profile, req, requests, passes>>
  BY DEF PassCommits
<1>2. ASSUME NEW h \in Hashes PROVE RowOK(torrent'[h])
  <2>1. RowOK(View(h)) /\ (h \in mine => Known(View(h)))
    BY Views DEF SelectionInv, PassOwnsRows
  <2>2. "going" \in Download
    BY DEF Download
  <2>3. CASE h \in mine
    <3>1. torrent'[h] = [View(h) EXCEPT !.dl = "going"]
      BY <1>1, <2>3
    <3>2. RowOK([View(h) EXCEPT !.dl = "going"])
      BY <2>1, <2>2, <2>3, StatusRow
    <3> QED
      BY <3>1, <3>2
  <2>4. CASE h \notin mine
    <3>1. torrent'[h] = View(h)
      BY <1>1, <2>4
    <3> QED
      BY <3>1, <2>1
  <2> QED
    BY <2>3, <2>4
<1>3. torrent' \in [Hashes -> Row]
  BY <1>1, <1>2 DEF RowOK
<1>4. RestTypes'
  BY <1>1, EndsKeeps DEF SelectionInv, RestTypes
<1> QED
  BY <1>1, <1>2, <1>3, <1>4, EndsKeeps DEF SelectionInv

LEMMA FailsKeeps == ASSUME SelectionInv, PassFails PROVE SelectionInv'
<1>1. PassEnds /\ UNCHANGED <<torrent, auto, profile, req, requests, passes>>
      /\ order' = Without(mine)
  BY DEF PassFails
<1>2. RestTypes'
  BY <1>1, OrderTypes, EndsKeeps DEF SelectionInv, RestTypes
<1> QED
  BY <1>1, <1>2, EndsKeeps DEF SelectionInv

LEMMA SelectionStepKeeps == ASSUME SelectionInv, [Next]_vars PROVE SelectionInv'
<1>1. CASE Pass
  <2>1. ASSUME NEW m \in {"feed", "search"}, NEW listed \in SUBSET Hashes \ {{}},
               PassBegins(m, listed)
        PROVE  SelectionInv'
    BY <2>1, BeginsKeeps
  <2>2. ASSUME NEW h \in Hashes, PassSends(h) PROVE SelectionInv'
    BY <2>2, SendsKeeps
  <2>3. ASSUME NEW s \in Spaces, PassLooksUp(s) PROVE SelectionInv'
    BY <2>3, LooksUpKeeps
  <2> QED
    BY <1>1, <2>1, <2>2, <2>3, WritesKeeps, CommitsKeeps, FailsKeeps DEF Pass
<1>2. CASE Users
  <2>1. ASSUME NEW h \in Hashes, NEW b \in BOOLEAN, Override(h, b) \/ DeleteDownload(h, b)
        PROVE  SelectionInv'
    BY <2>1, OverrideKeeps, RetryKeeps
  <2>2. ASSUME NEW s \in Spaces, NEW b \in BOOLEAN, Identify(s, b) PROVE SelectionInv'
    BY <2>2, IdentifyKeeps
  <2>3. ASSUME NEW h \in Hashes, DiscardReads(h) \/ IdentifyReads(h) \/ Retry(h) PROVE SelectionInv'
    <3>1. TRUE \in BOOLEAN
      OBVIOUS
    <3> QED
      BY <2>3, <3>1, DiscardKeeps, ReadsKeep, RetryKeeps DEF IdentifyReads
  <2> QED
    BY <1>2, <2>1, <2>2, <2>3, DiscardKeeps, IdentifyDownloadsKeeps, SettingsKeep DEF Users
<1>3. ASSUME NEW h \in Hashes, WorkerMoves(h) PROVE SelectionInv'
  <2>1. TRUE \in BOOLEAN
    OBVIOUS
  <2> QED
    BY <1>3, <2>1, RetryKeeps
<1>4. CASE UNCHANGED vars
  BY <1>4, OthersKeep DEF vars, dbVars, SelectionInv, RestTypes
<1> QED
  BY <1>1, <1>2, <1>3, <1>4 DEF Next

\* What the pass holds stays as the others left it, whatever they ask meanwhile.
THEOREM SelectionInvariance == Spec => []SelectionInv
<1>1. SelectionInv /\ [Next]_vars => SelectionInv'
  BY SelectionStepKeeps
<1> QED
  BY <1>1, SelectionInitially, PTL DEF Spec

\* The type invariant: a torrent is known if and only if it belongs to an episode.
THEOREM SelectionTyped == Spec => []TypeOK
BY SelectionInvariance, SelectionInvTypes, PTL

-----------------------------------------------------------------------------
\* Only the pass itself decides.
LEMMA OnlyPassDecides ==
    ASSUME [Next]_vars, Deciding PROVE PassWrites
<1>1. pc = "matching" /\ pc' = "sending"
  BY DEF Deciding
<1>2. CASE Pass
  BY <1>1, <1>2 DEF Pass, PassBegins, PassLooksUp, PassCommits, PassFails, PassEnds, PassSends
<1>3. CASE Users \/ \E h \in Hashes : WorkerMoves(h)
  <2>1. pc' = pc
    BY <1>3 DEF Users, DiscardWrites, IdentifyDownloads, Override, DeleteDownload, Identify,
                DiscardReads, IdentifyReads, Reads, Retry, SetAutoDiscard, SetProfile,
                WorkerMoves, passVars
  <2> QED
    BY <1>1, <2>1
<1>4. CASE UNCHANGED vars
  BY <1>1, <1>4 DEF vars, passVars
<1> QED
  BY <1>2, <1>3, <1>4 DEF Next

\* A release that the pass is going to start has no download yet, so that it won
\* against all the others that compete for its episode.
LEMMA PickBeats ==
    ASSUME SelectionInv, [Next]_vars, Deciding, NEW h \in Picks'
    PROVE  /\ PassWrites /\ h \in Hashes /\ h \in todo'
           /\ work' = [g \in Hashes |-> Written(g)]
           /\ \A g \in Competitors(work', work'[h].space) \ {h} : Beats(profile, h, g)
           /\ ~profile.upgrades =>
                 \A g \in Competitors(work', work'[h].space) : ~Active(work'[g])
           /\ \E g \in Processed : ~work'[g].discarded /\ work'[g].space = work'[h].space
<1>1. PassWrites
  BY OnlyPassDecides
<1>2. h \in todo' /\ View(h)'.dl = "none" /\ SelectionInv'
  BY SelectionStepKeeps DEF Picks
<1>3. /\ h \in scope /\ work' = [g \in Hashes |-> Written(g)]
      /\ Competitors(work', work'[h].space) # {}
      /\ h = Winner(work', work'[h].space)
      /\ \E g \in Processed : ~work'[g].discarded /\ work'[g].space = work'[h].space
  BY <1>1, <1>2, Picked
<1>4. h \in Hashes
  BY <1>3 DEF SelectionInv, PassTypes
<1>5. work'[h].dl = torrent[h].dl /\ View(h)'.dl = torrent[h].dl
  <2>1. Written(h).dl = torrent[h].dl /\ torrent' = torrent
    BY <1>1, <1>4, WrittenRows DEF Written, PassWrites, dbVars
  <2>2. View(h)'.dl = torrent'[h].dl
    <3>1. work'[h] \in Row /\ torrent'[h] \in Row
      BY <1>2, <1>4 DEF SelectionInv, PassTypes
    <3>2. CASE h \in written'
      BY <3>1, <3>2, Restated DEF View, Row
    <3>3. CASE h \notin written'
      BY <3>3 DEF View
    <3> QED
      BY <3>2, <3>3
  <2> QED
    BY <1>3, <1>4, <2>1, <2>2
<1>6. ~Active(work'[h])
  BY <1>2, <1>5 DEF Active
<1>7. \/ ~profile.upgrades /\ Active(work'[h])
      \/ /\ ~(~profile.upgrades /\ \E g \in Competitors(work', work'[h].space) : Active(work'[g]))
         /\ \A g \in Competitors(work', work'[h].space) \ {h} : Beats(profile, h, g)
  BY <1>3, WinnerWins
<1> QED
  BY <1>1, <1>2, <1>3, <1>4, <1>6, <1>7

\* No pass swaps a release for a worse one: what it starts beats whatever the feed
\* lists or the library has for the same episode.
THEOREM PassesNeverDowngrade == Spec => NeverDowngrades
<1>1. ASSUME SelectionInv, [Next]_vars
      PROVE  [Deciding => \A h \in Picks', g \in Hashes :
                /\ g # h /\ work'[g].space = work'[h].space /\ ~work'[g].discarded
                /\ Dismissal(profile, g) = {}
                /\ g \in scope \/ Active(work'[g])
                => Beats(profile, h, g)]_vars
  <2> SUFFICES ASSUME Deciding, NEW h \in Picks', NEW g \in Hashes,
                      g # h, work'[g].space = work'[h].space, ~work'[g].discarded,
                      Dismissal(profile, g) = {}, g \in scope \/ Active(work'[g])
               PROVE  Beats(profile, h, g)
    OBVIOUS
  <2>1. g \in Competitors(work', work'[h].space) \ {h}
    BY DEF Competitors
  <2> QED
    BY <1>1, <2>1, PickBeats
<1> QED
  BY <1>1, SelectionInvariance, PTL DEF Spec, NeverDowngrades

\* With accept_release_upgrades off a pass starts nothing beside a download that
\* the profile admits.
THEOREM PassesKeepWhatThereIs == Spec => KeepsWhatItHas
<1>1. ASSUME SelectionInv, [Next]_vars
      PROVE  [Deciding /\ ~profile.upgrades => \A h \in Picks', g \in Hashes :
                ~(/\ Active(torrent[g]) /\ work'[g].space = work'[h].space
                  /\ ~work'[g].discarded /\ Dismissal(profile, g) = {})]_vars
  <2> SUFFICES ASSUME Deciding, ~profile.upgrades, NEW h \in Picks', NEW g \in Hashes,
                      Active(torrent[g]), work'[g].space = work'[h].space,
                      ~work'[g].discarded, Dismissal(profile, g) = {}
               PROVE  FALSE
    OBVIOUS
  <2>1. PassWrites /\ work'[g] = Written(g)
    BY <1>1, PickBeats
  <2>2. Written(g).dl = torrent[g].dl
    BY <1>1, <2>1, WrittenRows DEF Written, PassWrites
  <2>3. Active(work'[g])
    BY <2>1, <2>2 DEF Active
  <2>4. g \in Competitors(work', work'[h].space)
    BY <2>3 DEF Competitors
  <2> QED
    BY <1>1, <2>3, <2>4, PickBeats
<1> QED
  BY <1>1, SelectionInvariance, PTL DEF Spec, KeepsWhatItHas

\* auto_discard that was set when a pass began, and has been since, stops it: of the
\* episodes it came by with the rows and of those it looked up later, it has it.
THEOREM AutoDiscardIsHeeded == Spec => AutoDiscardStops
<1>1. ASSUME SelectionInv, [Next]_vars
      PROVE  [Deciding => \A h \in Picks' : work'[h].space \notin standing]_vars
  <2> SUFFICES ASSUME Deciding, NEW h \in Picks' PROVE work'[h].space \notin standing
    OBVIOUS
  <2>1. PassWrites /\ work' = [g \in Hashes |-> Written(g)]
    BY <1>1, PickBeats
  <2>2. PICK g \in Processed : ~work'[g].discarded /\ work'[g].space = work'[h].space
    BY <1>1, PickBeats
  <2>3. g \in Hashes /\ work'[g] = WrittenRow(g)
    BY <1>1, <2>1 DEF Processed, SelectionInv, PassTypes, Written
  <2>4. WrittenRow(g).space = Match[g] /\ (Match[g] \in marked => WrittenRow(g).discarded)
    BY <1>1, <2>1, WrittenRows DEF PassWrites
  <2>5. Match[g] \in Loaded
    BY <2>1, <2>2 DEF PassWrites, Episodes, Loaded
  <2>6. Match[g] \in standing => Match[g] \in marked
    BY <1>1, <2>1, <2>5 DEF PassWrites, SelectionInv, Heeding
  <2> QED
    BY <2>2, <2>3, <2>4, <2>6
<1> QED
  BY <1>1, SelectionInvariance, PTL DEF Spec, AutoDiscardStops

-----------------------------------------------------------------------------
\* Left alone by the users.

Unmarked(h, row) == Known(row) => row.space = Match[h] /\ ~row.discarded

Started == {h \in Hashes : torrent[h].dl # "none"} \union mine

\* No row has anything that only a request gives it.
AloneRows ==
    /\ req = NoRequest /\ auto = {} /\ marked = {}
    /\ \A h \in Hashes : /\ Unmarked(h, torrent[h]) /\ Unmarked(h, snap[h])
                         /\ h \in written => Unmarked(h, work[h])

\* What is started is what the profile admits; a download is newer than those that
\* were there, and what a pass inserts is newer than all it found.
AloneOrder ==
    /\ \A g, h \in Hashes : <<g, h>> \in order =>
          g # h /\ g \in Started /\ h \in Started /\ (g \in mine => h \in mine)
    /\ \A h \in Started \union todo : Dismissal(profile, h) = {}
    /\ \A g, h \in todo \union mine : g # h => Match[g] # Match[h]

\* What is started, or is going to be, beats what its episode already had.
AloneBeats ==
    /\ \A h \in todo, g \in Hashes :
          torrent[h].dl = "none" /\ g # h /\ Match[g] = Match[h] /\ Active(torrent[g])
          => Beats(profile, h, g)
    /\ \A g, h \in Hashes :
          /\ <<g, h>> \in order /\ Match[g] = Match[h]
          /\ Active(torrent[g]) /\ (Active(torrent[h]) \/ h \in mine)
          => Beats(profile, h, g)

Alone == AloneRows /\ AloneOrder /\ AloneBeats

LEMMA RowsAreStarted == ASSUME SelectionInv PROVE Rows = Started
BY Views DEF Rows, Started

LEMMA AloneViews == ASSUME SelectionInv, Alone, NEW h \in Hashes PROVE Unmarked(h, View(h))
<1>1. CASE h \in written
  <2>1. /\ View(h).id = work[h].id /\ View(h).space = work[h].space
        /\ View(h).discarded = work[h].discarded /\ Unmarked(h, work[h])
    BY <1>1, ViewIs DEF Alone, AloneRows
  <2> QED
    BY <2>1 DEF Unmarked, Known
<1>2. CASE h \notin written
  BY <1>2 DEF Alone, AloneRows, View
<1> QED
  BY <1>1, <1>2

LEMMA AloneImproves == SelectionInv /\ (requests = 0 => Alone) => ImprovesAlone
<1> SUFFICES ASSUME SelectionInv, Alone, NEW g \in Hashes, NEW h \in Hashes,
                    <<g, h>> \in order, View(g).space = View(h).space, Active(View(g)),
                    Active(View(h)) \/ h \in mine
             PROVE  Beats(profile, h, g)
  BY DEF ImprovesAlone
<1>1. Active(torrent[g]) /\ (Active(torrent[h]) \/ h \in mine)
  BY Views DEF Active
<1>2. ASSUME NEW x \in Hashes, x \in Started PROVE View(x).space = Match[x]
  <2>1. Known(View(x))
    BY <1>2, Views DEF Started, SelectionInv, PassOwnsRows, RowOK
  <2>2. Unmarked(x, View(x))
    BY <1>2, AloneViews
  <2> QED
    BY <2>1, <2>2 DEF Unmarked
<1>3. Match[g] = Match[h]
  BY <1>2 DEF Alone, AloneOrder
<1> QED
  BY <1>1, <1>3 DEF Alone, AloneBeats

LEMMA AloneInitially == Init => Alone
BY NoRowOK DEF Init, Alone, AloneRows, AloneOrder, AloneBeats, Unmarked, Started

LEMMA AloneBegins ==
    ASSUME SelectionInv, Alone, NEW m, NEW listed, PassBegins(m, listed) PROVE Alone'
<1>1. /\ UNCHANGED <<torrent, auto, order, profile, work, written, todo, mine, req>>
      /\ snap' = [h \in Hashes |-> IF h \in listed THEN torrent[h] ELSE NoRow]
      /\ marked' \subseteq auto
  BY DEF PassBegins, dbVars
<1>2. Started' = Started
  BY <1>1 DEF Started
<1>3. AloneRows'
  BY <1>1, NoRowOK DEF Alone, AloneRows, Unmarked
<1>4. AloneOrder' /\ AloneBeats'
  BY <1>1, <1>2 DEF Alone, AloneOrder, AloneBeats
<1> QED
  BY <1>3, <1>4 DEF Alone

LEMMA AloneLooksUp == ASSUME Alone, NEW s, PassLooksUp(s) PROVE Alone'
<1>1. /\ UNCHANGED <<torrent, auto, order, profile, snap, work, written, todo, mine, req>>
      /\ marked' \subseteq marked \union auto
  BY DEF PassLooksUp, dbVars
<1>2. Started' = Started
  BY <1>1 DEF Started
<1> QED
  BY <1>1, <1>2 DEF Alone, AloneRows, AloneOrder, AloneBeats

LEMMA AloneWrites == ASSUME SelectionInv, Alone, PassWrites PROVE Alone'
<1>1. /\ UNCHANGED <<torrent, auto, order, profile, snap, mine, req, scope>>
      /\ ~Conflict /\ written' = Processed /\ pc = "matching" /\ marked' = {}
      /\ work' = [g \in Hashes |-> Written(g)]
  BY DEF PassWrites, dbVars, Written
<1>2. Started' = Started /\ mine = {} /\ Processed \subseteq Hashes
  BY <1>1 DEF Started, SelectionInv, PassOwnsRows, Processed, PassTypes
<1>3. \A h \in Hashes : Unmarked(h, Written(h))
  BY <1>1, WrittenRows DEF Alone, AloneRows, Unmarked, Written
<1>4. AloneRows'
  BY <1>1, <1>2, <1>3 DEF Alone, AloneRows
<1>5. ASSUME NEW h \in todo'
      PROVE  /\ h \in Hashes /\ h \in Competitors(work', work'[h].space)
             /\ h = Winner(work', work'[h].space)
             /\ Known(work'[h]) /\ work'[h].space = Match[h]
  <2>1. /\ h \in scope /\ Competitors(work', work'[h].space) # {}
        /\ h = Winner(work', work'[h].space)
        /\ \E g \in Processed : ~work'[g].discarded /\ work'[g].space = work'[h].space
    BY Picked
  <2>2. h \in Hashes /\ h \in Competitors(work', work'[h].space)
    BY <2>1, WinnerWins DEF SelectionInv, PassTypes
  <2>3. PICK g \in Processed : work'[g].space = work'[h].space
    BY <2>1
  <2>4. work'[g].space \in Spaces
    BY <2>3, <1>1, <1>2, WrittenRows DEF Written
  <2>5. RowOK(Written(h)) /\ work'[h] = Written(h)
    BY <1>1, <2>2, WrittenRows DEF Written, SelectionInv
  <2>6. Known(work'[h])
    BY <2>3, <2>4, <2>5, SelectionConstants DEF RowOK
  <2> QED
    BY <2>1, <2>2, <2>5, <2>6, <1>3 DEF Unmarked
<1>6. AloneOrder'
  <2>1. \A h \in todo' : Dismissal(profile, h) = {}
    BY <1>5 DEF Competitors
  <2>2. \A g, h \in todo' : g # h => Match[g] # Match[h]
    BY <1>5
  <2> QED
    BY <1>1, <1>2, <2>1, <2>2 DEF Alone, AloneOrder
<1>7. ASSUME NEW h \in todo', NEW g \in Hashes, torrent[h].dl = "none", g # h,
             Match[g] = Match[h], Active(torrent[g])
      PROVE  Beats(profile, h, g)
  <2>1. /\ h \in Hashes /\ work'[h] = Written(h) /\ work'[g] = Written(g)
        /\ Written(h).dl = torrent[h].dl /\ Written(g).dl = torrent[g].dl
        /\ RowOK(Written(g))
    BY <1>1, <1>5, WrittenRows DEF Written, SelectionInv
  <2>2. Active(work'[g]) /\ ~Active(work'[h]) /\ Known(work'[g])
    BY <1>7, <2>1 DEF Active, RowOK
  <2>3. work'[g].space = work'[h].space /\ ~work'[g].discarded
    BY <1>3, <1>5, <1>7, <2>1, <2>2 DEF Unmarked
  <2>4. Dismissal(profile, g) = {}
    BY <1>7 DEF Alone, AloneOrder, Started, Active
  <2>5. g \in Competitors(work', work'[h].space) \ {h}
    BY <1>7, <2>2, <2>3, <2>4 DEF Competitors
  <2> QED
    BY <1>5, <2>2, <2>5, WinnerWins
<1>8. AloneBeats'
  BY <1>1, <1>7 DEF Alone, AloneBeats
<1> QED
  BY <1>4, <1>6, <1>8 DEF Alone

LEMMA AloneSends == ASSUME SelectionInv, Alone, NEW h \in Hashes, PassSends(h) PROVE Alone'
<1>1. /\ UNCHANGED <<torrent, auto, profile, scope, snap, marked, req>>
      /\ h \in todo /\ todo' = todo \ {h}
  BY DEF PassSends
<1>2. CASE View(h).dl # "none"
  <2>1. UNCHANGED <<mine, written, work, order>>
    BY <1>2 DEF PassSends
  <2>2. Started' = Started
    BY <1>1, <2>1 DEF Started
  <2> QED
    BY <1>1, <2>1, <2>2 DEF Alone, AloneRows, AloneOrder, AloneBeats
<1>3. CASE View(h).dl = "none"
  <2>1. /\ mine' = mine \union {h} /\ written' = written \union {h} /\ order' = After(h)
        /\ work' = [work EXCEPT ![h] = View(h)]
    BY <1>3 DEF PassSends
  <2>2. After(h) = order \union {<<g, h>> : g \in Started}
    BY RowsAreStarted DEF After
  <2>3. torrent[h].dl = "none" /\ h \notin mine /\ h \notin Started
    BY <1>1, <1>3, Views DEF Started, SelectionInv, PassOwnsRows
  <2>4. Started' = Started \union {h}
    BY <1>1, <2>1 DEF Started
  <2>5. Unmarked(h, View(h))
    BY AloneViews
  <2>6. work'[h] = View(h) /\ \A g \in Hashes \ {h} : work'[g] = work[g]
    BY <2>1 DEF SelectionInv, PassTypes
  <2>7. AloneRows'
    BY <1>1, <2>1, <2>5, <2>6 DEF Alone, AloneRows
  <2>8. AloneOrder'
    BY <1>1, <2>1, <2>2, <2>3, <2>4 DEF Alone, AloneOrder
  <2>9. ASSUME NEW g \in Hashes, NEW x \in Hashes, <<g, x>> \in order', Match[g] = Match[x],
               Active(torrent[g]), Active(torrent[x]) \/ x \in mine'
        PROVE  Beats(profile, x, g)
    <3>1. CASE <<g, x>> \in order
      <4>1. x # h
        BY <2>3, <3>1 DEF Alone, AloneOrder
      <4> QED
        BY <2>1, <2>9, <3>1, <4>1 DEF Alone, AloneBeats
    <3>2. CASE <<g, x>> \notin order
      <4>1. x = h /\ g # h
        BY <2>1, <2>2, <2>3, <2>9, <3>2
      <4> QED
        BY <1>1, <2>3, <2>9, <4>1 DEF Alone, AloneBeats
    <3> QED
      BY <3>1, <3>2
  <2>10. AloneBeats'
    BY <1>1, <2>9 DEF Alone, AloneBeats
  <2> QED
    BY <2>7, <2>8, <2>10 DEF Alone
<1> QED
  BY <1>2, <1>3

LEMMA AloneCommits == ASSUME SelectionInv, Alone, PassCommits PROVE Alone'
<1>1. /\ torrent' = [h \in Hashes |->
                       IF h \in mine THEN [View(h) EXCEPT !.dl = "going"] ELSE View(h)]
      /\ UNCHANGED <<auto, order, profile, req>>
      /\ written' = {} /\ todo' = {} /\ mine' = {} /\ snap' = [h \in Hashes |-> NoRow]
      /\ marked' = {}
  BY DEF PassCommits, PassEnds
<1>2. ASSUME NEW h \in Hashes
      PROVE  /\ torrent'[h].dl = IF h \in mine THEN "going" ELSE torrent[h].dl
             /\ Unmarked(h, torrent'[h])
  <2>1. Unmarked(h, View(h)) /\ View(h) \in Row /\ View(h).dl = torrent[h].dl
    BY Views, AloneViews
  <2>2. CASE h \in mine
    <3>1. torrent'[h] = [View(h) EXCEPT !.dl = "going"]
      BY <1>1, <2>2
    <3>2. /\ torrent'[h].dl = "going" /\ torrent'[h].id = View(h).id
          /\ torrent'[h].space = View(h).space /\ torrent'[h].discarded = View(h).discarded
      BY <2>1, <3>1 DEF Row
    <3> QED
      BY <2>1, <2>2, <3>2 DEF Unmarked, Known
  <2>3. CASE h \notin mine
    <3>1. torrent'[h] = View(h)
      BY <1>1, <2>3
    <3> QED
      BY <2>1, <2>3, <3>1
  <2> QED
    BY <2>2, <2>3
<1>3. Started' = Started
  <2>1. mine \subseteq Hashes
    BY DEF SelectionInv, PassTypes
  <2>2. Started' = {h \in Hashes : torrent'[h].dl # "none"}
    BY <1>1 DEF Started
  <2>3. \A h \in Hashes : torrent'[h].dl # "none" <=> h \in Started
    BY <1>2 DEF Started
  <2>4. Started \subseteq Hashes
    BY <2>1 DEF Started
  <2> QED
    BY <2>2, <2>3, <2>4
<1>4. AloneRows'
  BY <1>1, <1>2, NoRowOK DEF Alone, AloneRows, Unmarked
<1>5. AloneOrder'
  BY <1>1, <1>3 DEF Alone, AloneOrder
<1>6. ASSUME NEW g \in Hashes, NEW h \in Hashes, <<g, h>> \in order, Match[g] = Match[h],
             Active(torrent'[g]), Active(torrent'[h])
      PROVE  Beats(profile, h, g)
  <2>1. g \notin mine
    BY <1>6 DEF Alone, AloneOrder
  <2>2. Active(torrent[g]) /\ (Active(torrent[h]) \/ h \in mine)
    BY <1>2, <1>6, <2>1 DEF Active
  <2> QED
    BY <1>6, <2>2 DEF Alone, AloneBeats
<1>7. AloneBeats'
  BY <1>1, <1>6 DEF AloneBeats
<1> QED
  BY <1>4, <1>5, <1>7 DEF Alone

LEMMA AloneFails == ASSUME SelectionInv, Alone, PassFails PROVE Alone'
<1>1. /\ UNCHANGED <<torrent, auto, profile, req>> /\ order' = Without(mine)
      /\ written' = {} /\ todo' = {} /\ mine' = {} /\ snap' = [h \in Hashes |-> NoRow]
      /\ marked' = {}
  BY DEF PassFails, PassEnds
<1>2. \A g, h \in Hashes : <<g, h>> \in order' =>
         <<g, h>> \in order /\ g \notin mine /\ h \notin mine
  BY <1>1 DEF Without
<1>3. Started' = {h \in Hashes : torrent[h].dl # "none"}
  BY <1>1 DEF Started
<1>4. AloneRows'
  BY <1>1, NoRowOK DEF Alone, AloneRows, Unmarked
<1>5. AloneOrder'
  BY <1>1, <1>2, <1>3 DEF Alone, AloneOrder, Started
<1>6. AloneBeats'
  BY <1>1, <1>2 DEF Alone, AloneBeats
<1> QED
  BY <1>4, <1>5, <1>6 DEF Alone

LEMMA AloneWorks == ASSUME SelectionInv, Alone, NEW h \in Hashes, WorkerMoves(h) PROVE Alone'
<1>1. UNCHANGED <<auto, order, profile, snap, marked, work, written, todo, mine, req>>
  BY DEF WorkerMoves, passVars
<1>2. PICK to \in {"discarded", "processed", "deleted"} :
         torrent' = [torrent EXCEPT ![h] = [torrent[h] EXCEPT !.dl = to]]
  BY DEF WorkerMoves, SetsDownload
<1>3. torrent[h].dl = "going" /\ torrent \in [Hashes -> Row]
  BY DEF WorkerMoves, SelectionInv
<1>4. /\ \A g \in Hashes \ {h} : torrent'[g] = torrent[g]
      /\ torrent'[h] = [torrent[h] EXCEPT !.dl = to]
  BY <1>2, <1>3
<1>5. /\ torrent'[h].dl = to /\ torrent'[h].id = torrent[h].id
      /\ torrent'[h].space = torrent[h].space /\ torrent'[h].discarded = torrent[h].discarded
  BY <1>3, <1>4 DEF Row
<1>6. \A g \in Hashes : /\ Active(torrent'[g]) => Active(torrent[g])
                        /\ torrent'[g].dl = "none" <=> torrent[g].dl = "none"
                        /\ Unmarked(g, torrent'[g])
  BY <1>3, <1>4, <1>5 DEF Active, Alone, AloneRows, Unmarked, Known
<1>7. Started' = Started
  BY <1>1, <1>6 DEF Started
<1>8. AloneRows'
  BY <1>1, <1>6 DEF Alone, AloneRows
<1>9. AloneOrder'
  BY <1>1, <1>7 DEF Alone, AloneOrder
<1>10. \A x \in todo : x \in Hashes
  BY DEF SelectionInv, PassTypes
<1>11. AloneBeats'
  BY <1>1, <1>6, <1>10 DEF Alone, AloneBeats
<1> QED
  BY <1>8, <1>9, <1>11 DEF Alone

\* As long as nobody has asked for anything, only passes and workers have moved.
LEMMA AloneStep ==
    ASSUME SelectionInv, requests = 0 => Alone, [Next]_vars PROVE (requests = 0 => Alone)'
<1> SUFFICES ASSUME requests' = 0 PROVE Alone'
  OBVIOUS
<1>1. requests \in Nat
  BY DEF SelectionInv, RestTypes
<1>2. CASE Pass
  <2>1. requests' = requests
    BY <1>2 DEF Pass, PassBegins, PassLooksUp, PassWrites, PassCommits, PassFails, PassSends
  <2> QED
    BY <1>2, <2>1, AloneBegins, AloneLooksUp, AloneWrites, AloneSends, AloneCommits, AloneFails DEF Pass
<1>3. CASE Users
  <2>1. ~Asks
    BY <1>1 DEF Asks
  <2>2. /\ DiscardWrites \/ IdentifyDownloads \/ \E s \in Spaces, b \in BOOLEAN : Identify(s, b)
        /\ requests' = requests
    BY <1>3, <2>1 DEF Users, Override, DeleteDownload, Identify, DiscardReads, IdentifyReads,
                      Reads, Retry, SetAutoDiscard, SetProfile, DiscardWrites, IdentifyDownloads
  <2>3. req = NoRequest
    BY <2>2 DEF Alone, AloneRows
  <2> QED
    BY <2>2, <2>3 DEF DiscardWrites, Identify, IdentifyDownloads, NoRequest
<1>4. ASSUME NEW h \in Hashes, WorkerMoves(h) PROVE Alone'
  BY <1>4, AloneWorks DEF WorkerMoves
<1>5. CASE UNCHANGED vars
  <2>1. UNCHANGED <<torrent, auto, order, profile, snap, marked, work, written, todo, mine, req,
                    requests>>
    BY <1>5 DEF vars, dbVars, passVars
  <2>2. Started' = Started
    BY <2>1 DEF Started
  <2> QED
    BY <2>1, <2>2 DEF Alone, AloneRows, AloneOrder, AloneBeats
<1> QED
  BY <1>2, <1>3, <1>4, <1>5 DEF Next

\* Left alone, the downloads that an episode keeps are each better than those
\* started before: the workers take a newer row for an upgrade, and it is one.
THEOREM UpgradesImprove == Spec => []ImprovesAlone
<1> DEFINE Inv == SelectionInv /\ (requests = 0 => Alone)
<1>1. Init => Inv
  BY SelectionInitially, AloneInitially
<1>2. Inv /\ [Next]_vars => Inv'
  <2> SUFFICES ASSUME SelectionInv, requests = 0 => Alone, [Next]_vars PROVE Inv'
    OBVIOUS
  <2>1. SelectionInv' /\ (requests = 0 => Alone)'
    BY SelectionStepKeeps, AloneStep
  <2> QED
    BY <2>1
<1>3. Inv => ImprovesAlone
  BY AloneImproves
<1> HIDE DEF Inv
<1> QED
  BY <1>1, <1>2, <1>3, PTL DEF Spec
=============================================================================
