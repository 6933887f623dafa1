------------------------- MODULE VersionFilesProofs -------------------------
(***************************************************************************)
(* Proofs about VersionFiles, for any number of lists, versions and files: *)
(* the collector never takes a file from a version that sees it, and when  *)
(* its moves are done no file is left that nobody sees.                    *)
(*                                                                         *)
(* The gap a removal returns holds no version that lives, merged gaps hold *)
(* none either, and the gap of the last version removed that saw a file is *)
(* around the whole life of the file.                                      *)
(***************************************************************************)
EXTENDS VersionFiles, FiniteSetTheorems, SequenceTheorems, WellFoundedInduction, TLAPS

-----------------------------------------------------------------------------
(* Numbers.                                                                 *)

\* Induction: a set of naturals that is not empty has a least element.
LEMMA Least ==
  ASSUME NEW T, T \subseteq Nat, T # {}
  PROVE  \E x \in T : \A y \in T : x <= y
<1> DEFINE R == OpToRel(<, Nat)
<1> HIDE DEF R
<1>1. IsWellFoundedOn(R, Nat)
  BY NatLessThanWellFounded DEF R
<1>2. PICK x \in T : \A y \in T : ~ (<<y, x>> \in R)
  BY <1>1, WFMin
<1>3. ASSUME NEW y \in T PROVE x <= y
  <2>1. x \in Nat /\ y \in Nat /\ (<<y, x>> \in R <=> y < x)
    BY DEF OpToRel, R
  <2> QED BY <1>2, <2>1
<1> QED BY <1>3

LEMMA MinIs ==
  ASSUME NEW S, S \subseteq Vids, S # {}
  PROVE  Min(S) \in S /\ \A x \in S : Min(S) <= x
<1>1. S \subseteq Nat
  BY FilesOK DEF Vids
<1> QED BY <1>1, Least DEF Min

LEMMA MaxOf ==
  ASSUME NEW N \in Nat, NEW S, S \subseteq 0..N, S # {}
  PROVE  Max(S) \in S /\ \A x \in S : Max(S) >= x
<1> DEFINE T == {N - x : x \in S}
<1>1. T \subseteq Nat /\ T # {}
  <2>1. \A x \in S : x \in Nat /\ x <= N /\ N - x \in Nat
    OBVIOUS
  <2> QED BY <2>1
<1>2. PICK t \in T : \A y \in T : t <= y
  BY <1>1, Least
<1>3. PICK x \in S : t = N - x
  OBVIOUS
<1>4. ASSUME NEW y \in S PROVE x >= y
  <2>1. t <= N - y /\ x \in Int /\ y \in Int /\ N \in Int
    BY <1>2
  <2> QED BY <1>3, <2>1
<1> QED BY <1>4 DEF Max

LEMMA MaxIs ==
  ASSUME NEW S, S \subseteq Vids, S # {}
  PROVE  Max(S) \in S /\ \A x \in S : Max(S) >= x
BY MaxOf, FilesOK DEF Vids

LEMMA VidsFinite ==
  ASSUME NEW S, S \subseteq Vids
  PROVE  IsFiniteSet(S) /\ Cardinality(S) \in Nat
<1>1. IsFiniteSet(Vids)
  BY FS_Interval, FilesOK DEF Vids
<1> QED BY <1>1, FS_Subset, FS_CardinalityType

\* Nth counts the elements of S in ascending order.
LEMMA NthIs ==
  ASSUME NEW S, S \subseteq Vids
  PROVE  /\ \A k \in 1..Cardinality(S) : Nth(S, k) \in S
         /\ \A v \in S : \E k \in 1..Cardinality(S) : v = Nth(S, k)
         /\ \A j, k \in 1..Cardinality(S) : j < k => Nth(S, j) < Nth(S, k)
<1> DEFINE n == Cardinality(S)
           below(v) == {w \in S : w < v}
           rank == [v \in S |-> Cardinality(below(v)) + 1]
<1>0. \A v \in S : v \in Int
  BY FilesOK DEF Vids
<1>1. IsFiniteSet(S) /\ n \in Nat
  BY VidsFinite
<1>2. \A v \in S : below(v) \subseteq S /\ Cardinality(below(v)) \in Nat
  BY VidsFinite
<1>3. ASSUME NEW u \in S, NEW v \in S, u < v PROVE rank[u] < rank[v]
  <2>1. below(u) \subseteq below(v) /\ u \in below(v) /\ u \notin below(u)
    <3>1. u \in Int /\ v \in Int
      BY <1>0
    <3>2. ASSUME NEW w \in S, w < u PROVE w < v
      <4>1. w \in Int
        BY <1>0
      <4> QED BY <1>3, <3>1, <3>2, <4>1
    <3>3. ~ (u < u)
      BY <3>1
    <3> QED BY <1>3, <3>2, <3>3
  <2>2. IsFiniteSet(below(v))
    BY <1>1, FS_Subset
  <2>3. Cardinality(below(u)) < Cardinality(below(v))
    <3>1. /\ Cardinality(below(u)) <= Cardinality(below(v))
          /\ Cardinality(below(v)) = Cardinality(below(u)) => below(v) = below(u)
      BY <2>1, <2>2, FS_Subset
    <3>2. below(v) # below(u)
      BY <2>1
    <3> HIDE DEF below
    <3> QED BY <1>2, <3>1, <3>2
  <2> QED BY <1>2, <2>3
<1>4. rank \in [S -> 1..n]
  <2> SUFFICES ASSUME NEW v \in S PROVE Cardinality(below(v)) + 1 \in 1..n
    OBVIOUS
  <2>1. v \in S /\ v \notin below(v) /\ below(v) \subseteq S
    BY DEF Vids
  <2>2. Cardinality(below(v)) < n
    BY <1>1, <1>2, <2>1, FS_Subset
  <2> QED BY <1>1, <1>2, <2>2
<1>5. rank \in Injection(S, 1..n)
  <2>1. \A u, v \in S : rank[u] = rank[v] => u = v
    <3> SUFFICES ASSUME NEW u \in S, NEW v \in S, rank[u] = rank[v], u # v PROVE FALSE
      OBVIOUS
    <3>1. u < v \/ v < u
      <4>1. u \in Int /\ v \in Int
        BY <1>0
      <4> QED BY <4>1
    <3>2. rank[u] \in Nat /\ rank[v] \in Nat
      BY <1>4
    <3>3. rank[u] < rank[v] \/ rank[v] < rank[u]
      BY <1>3, <3>1
    <3> HIDE DEF rank
    <3> QED BY <3>2, <3>3
  <2> QED BY <1>4, <2>1 DEF Injection, IsInjective
<1>6. rank \in Surjection(S, 1..n)
  <2>1. IsFiniteSet(1..n) /\ Cardinality(1..n) = n
    BY <1>1, FS_Interval
  <2> QED BY <1>5, <2>1, FS_Injection
<1>7. \A k \in 1..n : Nth(S, k) \in S /\ rank[Nth(S, k)] = k
  <2> SUFFICES ASSUME NEW k \in 1..n PROVE Nth(S, k) \in S /\ rank[Nth(S, k)] = k
    OBVIOUS
  <2>1. PICK v \in S : rank[v] = k
    BY <1>6 DEF Surjection
  <2>2. Cardinality(below(v)) = k - 1
    BY <1>2, <2>1
  <2>3. Nth(S, k) \in S /\ Cardinality(below(Nth(S, k))) = k - 1
    BY <2>2 DEF Nth
  <2> QED BY <2>3
<1>8. \A v \in S : v = Nth(S, rank[v])
  BY <1>4, <1>5, <1>7 DEF Injection, IsInjective
<1>9. ASSUME NEW j \in 1..n, NEW k \in 1..n, j < k PROVE Nth(S, j) < Nth(S, k)
  <2>1. Nth(S, j) \in S /\ rank[Nth(S, j)] = j /\ Nth(S, k) \in S /\ rank[Nth(S, k)] = k
    BY <1>7
  <2>2. j \in Int /\ k \in Int /\ Nth(S, j) \in Int /\ Nth(S, k) \in Int
    BY <1>0, <1>1, <2>1
  <2>3. Nth(S, k) < Nth(S, j) => rank[Nth(S, k)] < rank[Nth(S, j)]
    BY <1>3, <2>1
  <2>4. Nth(S, k) < Nth(S, j) => k < j
    BY <2>1, <2>3
  <2>5. Nth(S, k) # Nth(S, j)
    BY <1>9, <2>1, <2>2
  <2> HIDE DEF rank
  <2> QED BY <1>9, <2>2, <2>4, <2>5
<1> QED BY <1>4, <1>7, <1>8, <1>9

-----------------------------------------------------------------------------
(* Gaps.                                                                    *)

\* The next versions around v that are left in the chain when v is removed.
LEMMA GapIs ==
  ASSUME NEW l, chain[l] \subseteq Vids, NEW S, NEW v \in Vids
  PROVE  LET g == Gap(l, S, v)
             left == chain[l] \ {w \in S : w < v}
         IN  /\ g.list = l /\ g = [list |-> l, lo |-> g.lo, hi |-> g.hi]
             /\ \/ g.lo = v - 1 /\ \A w \in left : ~ (w < v)
                \/ g.lo \in left /\ g.lo < v /\ \A w \in left : w < v => w <= g.lo
             /\ \/ g.hi = v + 1 /\ \A w \in left : ~ (w > v)
                \/ g.hi \in left /\ g.hi > v /\ \A w \in left : w > v => g.hi <= w
<1> DEFINE left == chain[l] \ {w \in S : w < v}
           below == {w \in left : w < v}
           above == {w \in left : w > v}
<1>1. Gap(l, S, v) = [list |-> l, lo |-> IF below = {} THEN v - 1 ELSE Max(below),
                                  hi |-> IF above = {} THEN v + 1 ELSE Min(above)]
  BY DEF Gap, Set!Neighbours, Set!Below, Set!Above, Set!Max, Set!Min, Max, Min
<1>2. below \subseteq Vids /\ above \subseteq Vids
  OBVIOUS
<1>3. below # {} => Max(below) \in below /\ \A w \in below : Max(below) >= w
  BY <1>2, MaxIs
<1>4. above # {} => Min(above) \in above /\ \A w \in above : Min(above) <= w
  BY <1>2, MinIs
<1>5. \A w \in Vids : w \in Int
  BY DEF Vids
<1>6. below # {} => Max(below) \in left /\ Max(below) < v /\ \A w \in left : w < v => w <= Max(below)
  BY <1>2, <1>3, <1>5
<1>7. above # {} => Min(above) \in left /\ Min(above) > v /\ \A w \in left : w > v => Min(above) <= w
  BY <1>2, <1>4, <1>5
<1>8. (below = {} => \A w \in left : ~ (w < v)) /\ (above = {} => \A w \in left : ~ (w > v))
  OBVIOUS
<1> DEFINE lo == IF below = {} THEN v - 1 ELSE Max(below)
           hi == IF above = {} THEN v + 1 ELSE Min(above)
<1>9. Gap(l, S, v).list = l /\ Gap(l, S, v).lo = lo /\ Gap(l, S, v).hi = hi
  BY <1>1
<1> HIDE DEF below, above, left
<1> QED BY <1>1, <1>6, <1>7, <1>8, <1>9 DEF left

LEMMA GapType ==
  ASSUME NEW l \in Lists, chain[l] \subseteq Vids, NEW S, NEW v \in Vids
  PROVE  Gap(l, S, v) \in Range3
<1> DEFINE g == Gap(l, S, v)
<1>1. /\ g = [list |-> l, lo |-> g.lo, hi |-> g.hi]
      /\ g.lo = v - 1 \/ g.lo \in Vids
      /\ g.hi = v + 1 \/ g.hi \in Vids
  BY GapIs
<1> HIDE DEF g
<1>2. g.lo \in -1..MaxVid /\ g.hi \in -1..(MaxVid + 1)
  BY <1>1, FilesOK DEF Vids
<1> QED BY <1>1, <1>2 DEF Range3, g

\* Nothing that is left in the chain is inside a gap.
LEMMA GapEmpty ==
  ASSUME NEW l, chain[l] \subseteq Vids, NEW S, NEW v \in S, v \in Vids, NEW w \in chain[l] \ S
  PROVE  ~ (Gap(l, S, v).lo < w /\ w < Gap(l, S, v).hi)
<1> DEFINE g == Gap(l, S, v)
           left == chain[l] \ {x \in S : x < v}
<1>1. w \in left /\ w # v /\ w \in Int /\ v \in Int
  BY DEF Vids
<1>2. /\ \/ g.lo = v - 1 /\ \A x \in left : ~ (x < v)
         \/ g.lo \in left /\ g.lo < v /\ \A x \in left : x < v => x <= g.lo
      /\ \/ g.hi = v + 1 /\ \A x \in left : ~ (x > v)
         \/ g.hi \in left /\ g.hi > v /\ \A x \in left : x > v => g.hi <= x
  BY GapIs
<1>3. \A x \in left : x \in Int
  BY DEF Vids
<1> HIDE DEF g, left
<1>4. ASSUME w < v PROVE ~ (g.lo < w)
  <2>1. w <= g.lo /\ g.lo \in left
    BY <1>1, <1>2, <1>4
  <2>2. g.lo \in Int
    BY <1>3, <2>1
  <2> QED BY <1>1, <2>1, <2>2
<1>5. ASSUME w > v PROVE ~ (w < g.hi)
  <2>1. g.hi <= w /\ g.hi \in left
    BY <1>1, <1>2, <1>5
  <2>2. g.hi \in Int
    BY <1>3, <2>1
  <2> QED BY <1>1, <2>1, <2>2
<1> QED BY <1>1, <1>4, <1>5 DEF g

\* Gaps of one list move up.
LEMMA GapsAscend ==
  ASSUME NEW l, chain[l] \subseteq Vids, NEW S, S \subseteq chain[l],
         NEW u \in S, NEW v \in S, u < v
  PROVE  Gap(l, S, u).lo <= Gap(l, S, v).lo /\ Gap(l, S, u).hi <= Gap(l, S, v).hi
<1> DEFINE g == Gap(l, S, u)
           h == Gap(l, S, v)
           L == chain[l] \ {x \in S : x < u}
           M == chain[l] \ {x \in S : x < v}
<1>1. \A x \in chain[l] : x \in Int
  BY DEF Vids
<1>2. /\ \/ g.lo = u - 1 /\ \A x \in L : ~ (x < u)
         \/ g.lo \in L /\ g.lo < u /\ \A x \in L : x < u => x <= g.lo
      /\ \/ g.hi = u + 1 /\ \A x \in L : ~ (x > u)
         \/ g.hi \in L /\ g.hi > u /\ \A x \in L : x > u => g.hi <= x
  BY GapIs
<1>3. /\ \/ h.lo = v - 1 /\ \A x \in M : ~ (x < v)
         \/ h.lo \in M /\ h.lo < v /\ \A x \in M : x < v => x <= h.lo
      /\ \/ h.hi = v + 1 /\ \A x \in M : ~ (x > v)
         \/ h.hi \in M /\ h.hi > v /\ \A x \in M : x > v => h.hi <= x
  BY GapIs
<1> HIDE DEF g, h
<1>4. u \in Int /\ v \in Int /\ v \in L
  BY <1>1
<1>5. g.hi <= v /\ v < h.hi
  <2>1. g.hi \in L /\ g.hi <= v
    BY <1>2, <1>4
  <2>2. h.hi = v + 1 \/ h.hi > v
    BY <1>3
  <2> QED BY <1>1, <1>4, <2>1, <2>2
<1>6. g.hi \in Int /\ h.hi \in Int
  BY <1>1, <1>2, <1>3, <1>4
<1>7. g.lo <= h.lo
  <2>1. CASE g.lo = u - 1 /\ \A x \in L : ~ (x < u)
    <3>1. CASE h.lo = v - 1
      BY <1>4, <2>1, <3>1
    <3>2. CASE h.lo \in M
      <4>1. h.lo \in L /\ h.lo \in Int
        <5>1. h.lo \in chain[l] /\ h.lo \in Int /\ ~ (h.lo \in S /\ h.lo < v)
          BY <1>1, <3>2
        <5> QED BY <1>4, <5>1
      <4>2. ~ (h.lo < u)
        BY <2>1, <4>1
      <4> QED BY <1>4, <2>1, <4>1, <4>2
    <3> QED BY <1>3, <3>1, <3>2
  <2>2. CASE g.lo \in L /\ g.lo < u
    <3>1. g.lo \in M /\ g.lo < v /\ g.lo \in Int
      BY <1>1, <1>4, <2>2
    <3>2. h.lo \in M /\ g.lo <= h.lo
      BY <1>3, <3>1
    <3> QED BY <3>2
  <2> QED BY <1>2, <2>1, <2>2
<1> QED BY <1>5, <1>6, <1>4, <1>7 DEF g, h

-----------------------------------------------------------------------------
(* The gaps of all lists, one after the other.                              *)

\* FlattenSeq appends sequence by sequence.
LEMMA Flattened ==
  ASSUME NEW n \in Nat \ {0}, NEW ss, ss = [i \in 1..n |-> ss[i]],
         \A i \in 1..n : ss[i] \in Seq(Range3)
  PROVE  \E m : /\ m[1] = ss[1]
                /\ \A i \in 1..n : i # 1 => m[i] = m[i - 1] \o ss[i]
                /\ \A i \in 1..n : m[i] \in Seq(Range3)
                /\ FlattenSeq(ss) = m[n]
<1> DEFINE At(m, i) == IF i = 1 THEN ss[1] ELSE m[i - 1] \o ss[i]
           Solves(m, k) == m = [i \in 1..k |-> m[i]] /\ \A i \in 1..k : m[i] = At(m, i)
           T == {k \in Nat : k # 0 /\ ~ \E m : Solves(m, k)}
<1>1. T = {}
  <2> SUFFICES ASSUME T # {} PROVE FALSE
    OBVIOUS
  <2>1. PICK k \in T : \A j \in T : k <= j
    BY Least
  <2>2. CASE k = 1
    <3>1. Solves([i \in 1..1 |-> ss[1]], 1)
      OBVIOUS
    <3> QED BY <2>1, <2>2, <3>1
  <2>3. CASE k # 1
    <3>1. k \in Nat /\ k - 1 \in Nat /\ k - 1 # 0 /\ ~ (k <= k - 1)
      BY <2>3
    <3>2. k - 1 \notin T
      BY <2>1, <3>1
    <3>3. PICK m : Solves(m, k - 1)
      BY <3>1, <3>2
    <3> DEFINE g == [i \in 1..k |-> IF i = k THEN m[k - 1] \o ss[k] ELSE m[i]]
    <3>4. \A i \in 1..(k - 1) : g[i] = m[i]
      BY <3>1
    <3>5. \A i \in 1..k : g[i] = At(g, i)
      <4> SUFFICES ASSUME NEW i \in 1..k PROVE g[i] = At(g, i)
        OBVIOUS
      <4>1. CASE i = k
        <5>0. k \in 1..k /\ k - 1 \in 1..(k - 1)
          BY <3>1
        <5>1. g[k] = m[k - 1] \o ss[k]
          BY <5>0
        <5>2. g[k - 1] = m[k - 1]
          BY <3>4, <5>0
        <5> HIDE DEF g
        <5> QED BY <2>3, <4>1, <5>1, <5>2
      <4>2. CASE i # k /\ i # 1
        <5>1. i \in 1..(k - 1) /\ i - 1 \in 1..(k - 1)
          BY <4>2, <3>1
        <5>2. g[i] = m[i] /\ g[i - 1] = m[i - 1] /\ m[i] = At(m, i)
          BY <3>3, <3>4, <5>1
        <5> HIDE DEF g
        <5> QED BY <4>2, <5>2
      <4>3. CASE i = 1 /\ i # k
        <5>1. i \in 1..(k - 1)
          BY <4>3, <3>1
        <5>2. g[i] = m[i] /\ m[i] = At(m, i)
          BY <3>3, <3>4, <5>1
        <5> HIDE DEF g
        <5> QED BY <4>3, <5>2
      <4> QED BY <4>1, <4>2, <4>3
    <3>6. g = [i \in 1..k |-> g[i]]
      OBVIOUS
    <3>7. Solves(g, k)
      BY <3>5, <3>6
    <3> QED BY <2>1, <3>7
  <2> QED BY <2>2, <2>3
<1>2. PICK m : Solves(m, n)
  BY <1>1
<1>3. m = [i \in 1..n |-> At(m, i)]
  BY <1>2
<1>4. \E g : g = [i \in 1..n |-> IF i = 1 THEN ss[i] ELSE g[i - 1] \o ss[i]] /\ FlattenSeq(ss) = g[n]
  <2>1. Len(ss) = n /\ n # 0
    OBVIOUS
  <2>2. m = [i \in 1..n |-> IF i = 1 THEN ss[i] ELSE m[i - 1] \o ss[i]]
    BY <1>2
  <2> QED BY <2>1, <2>2 DEF FlattenSeq
<1>5. PICK g : g = [i \in 1..n |-> IF i = 1 THEN ss[i] ELSE g[i - 1] \o ss[i]] /\ FlattenSeq(ss) = g[n]
  BY <1>4
<1>6. \A i \in 1..n : g[i] = IF i = 1 THEN ss[i] ELSE g[i - 1] \o ss[i]
  BY <1>5
<1>7. g[1] = ss[1] /\ \A i \in 1..n : i # 1 => g[i] = g[i - 1] \o ss[i]
  <2>1. ASSUME NEW i \in 1..n, i # 1 PROVE g[i] = g[i - 1] \o ss[i]
    BY <1>6, <2>1
  <2>2. 1 \in 1..n
    OBVIOUS
  <2>3. g[1] = ss[1]
    BY <1>6, <2>2
  <2> QED BY <2>1, <2>3
<1> DEFINE U == {i \in Nat : i \in 1..n /\ g[i] \notin Seq(Range3)}
<1>8. U = {}
  <2> SUFFICES ASSUME U # {} PROVE FALSE
    OBVIOUS
  <2>1. PICK i \in U : \A j \in U : i <= j
    BY Least
  <2>2. i # 1
    BY <1>7, <2>1
  <2>3. i - 1 \in 1..n /\ i - 1 \notin U
    BY <2>1, <2>2
  <2>4. g[i] = g[i - 1] \o ss[i] /\ g[i - 1] \in Seq(Range3) /\ ss[i] \in Seq(Range3)
    BY <1>7, <2>1, <2>2, <2>3
  <2>5. g[i] \in Seq(Range3)
    BY <2>4
  <2> QED BY <2>1, <2>5
<1>9. \A i \in 1..n : g[i] \in Seq(Range3)
  BY <1>8
<1> HIDE DEF U
<1> QED BY <1>5, <1>7, <1>9

\* Neighbours of one list move up.
Orderly(r) ==
    \A k \in 1..Len(r) : k # 1 /\ r[k - 1].list = r[k].list =>
        r[k - 1].lo <= r[k].lo /\ r[k - 1].hi <= r[k].hi

LEMMA GapsAre ==
  ASSUME NEW l \in Lists, chain[l] \subseteq Vids, NEW S, S \subseteq chain[l]
  PROVE  /\ Gaps(l, S) \in Seq(Range3)
         /\ \A k \in 1..Len(Gaps(l, S)) :
                Gaps(l, S)[k].list = l /\ \E v \in S : Gaps(l, S)[k] = Gap(l, S, v)
         /\ \A v \in S : \E k \in 1..Len(Gaps(l, S)) : Gaps(l, S)[k] = Gap(l, S, v)
         /\ Orderly(Gaps(l, S))
<1> DEFINE n == Cardinality(S)
           g(v) == Gap(l, S, v)
           nth(k) == Nth(S, k)
<1>1. S \subseteq Vids /\ n \in Nat
  BY VidsFinite
<1>2. /\ \A k \in 1..n : nth(k) \in S
      /\ \A v \in S : \E k \in 1..n : v = nth(k)
      /\ \A j, k \in 1..n : j < k => nth(j) < nth(k)
  BY <1>1, NthIs
<1>3. \A v \in S : g(v) \in Range3 /\ g(v).list = l
  <2> SUFFICES ASSUME NEW v \in S PROVE g(v) \in Range3 /\ g(v).list = l
    OBVIOUS
  <2>1. v \in Vids
    BY <1>1
  <2>2. g(v) \in Range3
    BY <2>1, GapType
  <2>3. g(v).list = l
    BY <2>1, GapIs
  <2> QED BY <2>2, <2>3
<1>4. \A u, v \in S : u < v => g(u).lo <= g(v).lo /\ g(u).hi <= g(v).hi
  BY GapsAscend
<1>5. Gaps(l, S) = [k \in 1..n |-> g(nth(k))]
  BY DEF Gaps
<1> HIDE DEF g, nth, n
<1>6. Gaps(l, S) \in Seq(Range3) /\ Len(Gaps(l, S)) = n
  <2>1. \A k \in 1..n : g(nth(k)) \in Range3
    BY <1>2, <1>3
  <2> QED BY <1>1, <1>5, <2>1
<1>7. Orderly(Gaps(l, S))
  <2> SUFFICES ASSUME NEW k \in 1..n, k # 1
               PROVE  /\ Gaps(l, S)[k - 1].lo <= Gaps(l, S)[k].lo
                      /\ Gaps(l, S)[k - 1].hi <= Gaps(l, S)[k].hi
    BY <1>6 DEF Orderly
  <2>1. k - 1 \in 1..n /\ k - 1 < k
    BY <1>1
  <2>2. nth(k - 1) \in S /\ nth(k) \in S /\ nth(k - 1) < nth(k)
    BY <1>2, <2>1
  <2>3. Gaps(l, S)[k] = g(nth(k)) /\ Gaps(l, S)[k - 1] = g(nth(k - 1))
    BY <1>5, <2>1
  <2> QED BY <1>4, <2>2, <2>3
<1>8. \A k \in 1..n : Gaps(l, S)[k].list = l /\ \E v \in S : Gaps(l, S)[k] = g(v)
  BY <1>2, <1>3, <1>5
<1>9. \A v \in S : \E k \in 1..n : Gaps(l, S)[k] = g(v)
  BY <1>2, <1>5
<1> QED BY <1>6, <1>7, <1>8, <1>9 DEF g

LEMMA OrderlyTogether ==
  ASSUME NEW p \in Seq(Range3), NEW q \in Seq(Range3), Orderly(p), Orderly(q),
         \A j \in 1..Len(p), k \in 1..Len(q) : p[j].list # q[k].list
  PROVE  Orderly(p \o q)
<1> DEFINE r == p \o q
<1>1. /\ Len(p) \in Nat /\ Len(q) \in Nat /\ Len(r) = Len(p) + Len(q)
      /\ \A k \in 1..Len(r) : r[k] = IF k <= Len(p) THEN p[k] ELSE q[k - Len(p)]
  OBVIOUS
<1> HIDE DEF r
<1> SUFFICES ASSUME NEW k \in 1..Len(r), k # 1, r[k - 1].list = r[k].list
             PROVE  r[k - 1].lo <= r[k].lo /\ r[k - 1].hi <= r[k].hi
  BY DEF Orderly, r
<1>2. k \in Nat /\ k - 1 \in 1..Len(r)
  BY <1>1
<1>3. CASE k <= Len(p)
  <2>1. r[k] = p[k] /\ r[k - 1] = p[k - 1] /\ k \in 1..Len(p)
    BY <1>1, <1>2, <1>3
  <2> QED BY <2>1 DEF Orderly
<1>4. CASE k = Len(p) + 1
  <2>1. k - 1 \in 1..Len(p) /\ k - Len(p) \in 1..Len(q) /\ ~ (k <= Len(p)) /\ k - 1 <= Len(p)
    BY <1>1, <1>2, <1>4
  <2>2. r[k - 1] = p[k - 1] /\ r[k] = q[k - Len(p)]
    BY <1>1, <1>2, <2>1
  <2> QED BY <2>1, <2>2
<1>5. CASE k > Len(p) + 1
  <2> DEFINE i == k - Len(p)
  <2>1. i \in 1..Len(q) /\ i # 1 /\ ~ (k <= Len(p)) /\ ~ (k - 1 <= Len(p)) /\ k - 1 - Len(p) = i - 1
    BY <1>1, <1>2, <1>5
  <2>2. r[k] = q[i] /\ r[k - 1] = q[i - 1]
    BY <1>1, <1>2, <2>1
  <2> HIDE DEF i
  <2> QED BY <2>1, <2>2 DEF Orderly
<1> QED BY <1>1, <1>2, <1>3, <1>4, <1>5

\* r holds gaps of the lists 1..i and nothing else; it holds all of them; it is
\* what list i contributes.
Sound(r, S, i) ==
    \A k \in 1..Len(r) : r[k].list \in 1..i /\ \E v \in S[r[k].list] : r[k] = Gap(r[k].list, S[r[k].list], v)
Own(r, S, i) ==
    /\ \A k \in 1..Len(r) : r[k].list = i /\ \E v \in S[i] : r[k] = Gap(i, S[i], v)
    /\ \A v \in S[i] : \E k \in 1..Len(r) : r[k] = Gap(i, S[i], v)
Full(r, S, i) == \A l \in 1..i : \A v \in S[l] : \E k \in 1..Len(r) : r[k] = Gap(l, S[l], v)

LEMMA GapsAppended ==
  ASSUME NEW S, NEW i \in Nat, i > 1, NEW p \in Seq(Range3), NEW q \in Seq(Range3),
         Sound(p, S, i - 1), Full(p, S, i - 1), Orderly(p), Own(q, S, i), Orderly(q)
  PROVE  Sound(p \o q, S, i) /\ Full(p \o q, S, i) /\ Orderly(p \o q)
<1> DEFINE r == p \o q
           G(l, v) == Gap(l, S[l], v)
<1>1. /\ Len(p) \in Nat /\ Len(q) \in Nat /\ Len(r) = Len(p) + Len(q)
      /\ \A k \in 1..Len(r) : r[k] = IF k <= Len(p) THEN p[k] ELSE q[k - Len(p)]
  OBVIOUS
<1>2. i \notin 1..(i - 1) /\ 1..i = (1..(i - 1)) \cup {i}
  OBVIOUS
<1>3. \A k \in 1..Len(p) : p[k].list \in 1..(i - 1) /\ \E v \in S[p[k].list] : p[k] = G(p[k].list, v)
  BY DEF Sound
<1>4. \A k \in 1..Len(q) : q[k].list = i /\ \E v \in S[i] : q[k] = G(i, v)
  BY DEF Own
<1>5. Orderly(r)
  <2>1. \A a \in 1..Len(p), k \in 1..Len(q) : p[a].list # q[k].list
    BY <1>2, <1>3, <1>4
  <2> QED BY <2>1, OrderlyTogether
<1>6. \A l \in 1..(i - 1) : \A v \in S[l] : \E k \in 1..Len(p) : p[k] = G(l, v)
  BY DEF Full
<1>7. \A v \in S[i] : \E k \in 1..Len(q) : q[k] = G(i, v)
  BY DEF Own
<1> HIDE DEF r, G
<1>8. ASSUME NEW k \in 1..Len(r)
      PROVE  r[k].list \in 1..i /\ \E v \in S[r[k].list] : r[k] = G(r[k].list, v)
  <2>1. CASE k <= Len(p)
    <3>1. k \in 1..Len(p) /\ r[k] = p[k]
      BY <1>1, <2>1
    <3> QED BY <1>2, <1>3, <3>1
  <2>2. CASE ~ (k <= Len(p))
    <3>1. k - Len(p) \in 1..Len(q) /\ r[k] = q[k - Len(p)]
      <4>1. k \in Nat /\ k <= Len(p) + Len(q)
        BY <1>1
      <4> QED BY <1>1, <2>2, <4>1
    <3> QED BY <1>2, <1>4, <3>1
  <2> QED BY <2>1, <2>2
<1>9. ASSUME NEW l \in 1..i, NEW v \in S[l]
      PROVE  \E k \in 1..Len(r) : r[k] = G(l, v)
  <2>1. CASE l = i
    <3>1. PICK k \in 1..Len(q) : q[k] = G(i, v)
      BY <1>7, <2>1
    <3>2. k + Len(p) \in 1..Len(r) /\ ~ (k + Len(p) <= Len(p)) /\ k + Len(p) - Len(p) = k
      BY <1>1
    <3>3. r[k + Len(p)] = q[k]
      BY <1>1, <3>2
    <3> QED BY <2>1, <3>1, <3>2, <3>3
  <2>2. CASE l # i
    <3>1. l \in 1..(i - 1)
      BY <1>2, <2>2
    <3>2. PICK k \in 1..Len(p) : p[k] = G(l, v)
      BY <1>6, <3>1
    <3>3. k \in 1..Len(r) /\ k <= Len(p)
      BY <1>1
    <3>4. r[k] = p[k]
      BY <1>1, <3>3
    <3> QED BY <3>2, <3>3, <3>4
  <2> QED BY <2>1, <2>2
<1> QED BY <1>5, <1>8, <1>9 DEF Sound, Full, r, G

\* The gaps of all lists: every gap of every list is among them, nothing else is,
\* and those of one list are neighbours that move up.
LEMMA GapsTogether ==
  ASSUME NEW S, Lists # {}, \A l \in Lists : chain[l] \subseteq Vids /\ S[l] \subseteq chain[l]
  PROVE  LET r == FlattenSeq([l \in Lists |-> Gaps(l, S[l])])
         IN  /\ r \in Seq(Range3)
             /\ Sound(r, S, MaxList) /\ Full(r, S, MaxList) /\ Orderly(r)
<1> DEFINE ss == [l \in 1..MaxList |-> Gaps(l, S[l])]
<1>0. MaxList \in Nat \ {0} /\ Lists = 1..MaxList
  BY FilesOK DEF Lists
<1>1. ASSUME NEW l \in 1..MaxList
      PROVE  /\ ss[l] \in Seq(Range3) /\ Orderly(ss[l])
             /\ Own(ss[l], S, l)
  <2>1. ss[l] = Gaps(l, S[l]) /\ l \in Lists
    BY <1>0
  <2> HIDE DEF ss
  <2> QED BY <2>1, GapsAre DEF Own
<1>2. ss = [l \in 1..MaxList |-> ss[l]]
  OBVIOUS
<1>3. FlattenSeq([l \in Lists |-> Gaps(l, S[l])]) = FlattenSeq(ss)
  BY <1>0
<1> HIDE DEF ss
<1>4. \A l \in 1..MaxList : ss[l] \in Seq(Range3)
  BY <1>1
<1>5. PICK m : /\ m[1] = ss[1]
               /\ \A i \in 1..MaxList : i # 1 => m[i] = m[i - 1] \o ss[i]
               /\ \A i \in 1..MaxList : m[i] \in Seq(Range3)
               /\ FlattenSeq(ss) = m[MaxList]
  <2> HIDE <1>1
  <2> QED BY <1>0, <1>2, <1>4, Flattened
<1> DEFINE Good(i) == Sound(m[i], S, i) /\ Full(m[i], S, i) /\ Orderly(m[i])
           U == {i \in Nat : i \in 1..MaxList /\ ~ Good(i)}
<1>6. U = {}
  <2> SUFFICES ASSUME U # {} PROVE FALSE
    OBVIOUS
  <2>1. PICK i \in U : \A j \in U : i <= j
    BY Least
  <2>2. i \in 1..MaxList /\ ~ Good(i) /\ i \in Nat
    BY <2>1
  <2>3. CASE i = 1
    <3>1. m[1] = ss[1] /\ 1 \in 1..MaxList /\ 1..1 = {1}
      BY <1>0, <1>5
    <3>2. Orderly(ss[1]) /\ Own(ss[1], S, 1)
      BY <1>1, <3>1
    <3>3. Sound(m[1], S, 1)
      BY <3>1, <3>2 DEF Sound, Own
    <3>4. Full(m[1], S, 1)
      BY <3>1, <3>2 DEF Full, Own
    <3> QED BY <2>2, <2>3, <3>1, <3>2, <3>3, <3>4
  <2>4. CASE i # 1
    <3>1. i - 1 \in 1..MaxList /\ i - 1 \in Nat /\ i - 1 \notin U /\ i > 1
      BY <1>0, <2>1, <2>2, <2>4
    <3>2. Good(i - 1)
      BY <3>1
    <3>3. m[i] = m[i - 1] \o ss[i] /\ m[i - 1] \in Seq(Range3) /\ ss[i] \in Seq(Range3)
      BY <1>4, <1>5, <2>2, <2>4, <3>1
    <3>4. Orderly(ss[i]) /\ Own(ss[i], S, i)
      BY <1>1, <2>2
    <3>5. Sound(m[i], S, i) /\ Full(m[i], S, i) /\ Orderly(m[i])
      BY <2>2, <3>1, <3>2, <3>3, <3>4, GapsAppended
    <3> QED BY <2>2, <3>5
  <2> QED BY <2>3, <2>4
<1>7. MaxList \in 1..MaxList /\ MaxList \in Nat
  BY <1>0
<1>8. Good(MaxList)
  BY <1>6, <1>7
<1>9. m[MaxList] \in Seq(Range3)
  BY <1>5, <1>7
<1> QED BY <1>3, <1>5, <1>8, <1>9

-----------------------------------------------------------------------------
(* Merging.                                                                 *)

\* No version of live is inside the range.
Hollow(g, live) == \A w \in live[g.list] : ~ (g.lo < w /\ w < g.hi)
Covers(g, h) == g.list = h.list /\ g.lo <= h.lo /\ h.hi <= g.hi

MergeOne(acc, g) ==
    IF acc # <<>> /\ Overlap(Last(acc), g) THEN [acc EXCEPT ![Len(acc)].hi = g.hi] ELSE Append(acc, g)

\* acc is what merging the first k ranges of r gives.
MergedTo(acc, r, k, live) ==
    /\ acc \in Seq(Range3)
    /\ \A j \in 1..Len(acc) : /\ Hollow(acc[j], live)
                              /\ \E i \in 1..k : acc[j].list = r[i].list /\ acc[j].hi = r[i].hi
    /\ \A i \in 1..k : \E j \in 1..Len(acc) : Covers(acc[j], r[i])
    /\ k # 0 => /\ Len(acc) # 0
                /\ acc[Len(acc)].list = r[k].list /\ acc[Len(acc)].hi = r[k].hi /\ acc[Len(acc)].lo <= r[k].lo

LEMMA MergeStep ==
  ASSUME NEW r \in Seq(Range3), Orderly(r), NEW live, \A l \in Lists : live[l] \subseteq Vids,
         NEW k \in 1..Len(r), Hollow(r[k], live), NEW acc, MergedTo(acc, r, k - 1, live)
  PROVE  MergedTo(MergeOne(acc, r[k]), r, k, live)
<1> DEFINE g == r[k]
           n == Len(acc)
           b == MergeOne(acc, g)
<1>1. g \in Range3 /\ k \in Nat /\ k - 1 \in Nat /\ 1..k = (1..(k - 1)) \cup {k}
  OBVIOUS
<1>2. /\ acc \in Seq(Range3) /\ n \in Nat
      /\ \A j \in 1..n : acc[j] \in Range3 /\ Hollow(acc[j], live)
      /\ \A j \in 1..n : \E i \in 1..(k - 1) : acc[j].list = r[i].list /\ acc[j].hi = r[i].hi
      /\ \A i \in 1..(k - 1) : \E j \in 1..n : Covers(acc[j], r[i])
      /\ k # 1 => /\ n # 0
                  /\ acc[n].list = r[k - 1].list /\ acc[n].hi = r[k - 1].hi /\ acc[n].lo <= r[k - 1].lo
  <2>1. acc \in Seq(Range3) /\ n \in Nat /\ \A j \in 1..n : acc[j] \in Range3
    <3>1. acc \in Seq(Range3)
      BY DEF MergedTo
    <3> QED BY <3>1
  <2>2. k # 1 => k - 1 # 0
    BY <1>1
  <2> QED BY <2>1, <2>2 DEF MergedTo
<1>3. \A h \in Range3 : /\ h.list \in Lists /\ h.lo \in Int /\ h.hi \in Int
                        /\ h.lo \in -1..MaxVid /\ h.hi \in -1..(MaxVid + 1)
  BY FilesOK DEF Range3
<1>4. CASE acc # <<>> /\ Overlap(Last(acc), g)
  <2> DEFINE last == acc[n]
             wide == [last EXCEPT !.hi = g.hi]
  <2>1. n # 0 /\ n \in 1..n /\ last \in Range3 /\ k # 1
    BY <1>1, <1>2, <1>4
  <2>2. last.list = g.list /\ g.lo < last.hi
    BY <1>4 DEF Overlap, Last
  <2>3. b = [acc EXCEPT ![n] = wide]
    BY <1>4 DEF MergeOne
  <2>4. wide \in Range3 /\ wide.list = g.list /\ wide.lo = last.lo /\ wide.hi = g.hi
    BY <1>1, <2>1, <2>2 DEF Range3
  <2>5. r[k - 1].lo <= g.lo /\ r[k - 1].hi <= g.hi /\ r[k - 1] \in Range3
    BY <1>1, <1>2, <2>1, <2>2 DEF Orderly
  <2>6. last.lo <= g.lo /\ last.hi <= g.hi /\ last.hi = r[k - 1].hi
    <3>1. last.hi = r[k - 1].hi /\ last.lo <= r[k - 1].lo
      BY <1>2, <2>1
    <3>2. last.lo \in Int /\ r[k - 1].lo \in Int /\ g.lo \in Int
      BY <1>1, <1>3, <2>1, <2>5
    <3> HIDE DEF last, g
    <3> QED BY <2>5, <3>1, <3>2
  <2>7. Hollow(wide, live)
    <3> SUFFICES ASSUME NEW w \in live[g.list], last.lo < w, w < g.hi PROVE FALSE
      BY <2>4 DEF Hollow
    <3>1. w \in Int
      BY <1>1, <1>3 DEF Vids
    <3>2. ~ (w < last.hi)
      BY <1>2, <2>1, <2>2 DEF Hollow
    <3>3. ~ (g.lo < w)
      BY DEF Hollow
    <3> QED BY <1>1, <1>3, <2>1, <2>2, <3>1, <3>2, <3>3
  <2> HIDE DEF b, wide, last
  <2>8. /\ b \in Seq(Range3) /\ Len(b) = n /\ b[n] = wide
        /\ \A j \in 1..n : j # n => b[j] = acc[j]
    BY <1>2, <2>1, <2>3, <2>4
  <2>9. \A j \in 1..n : /\ Hollow(b[j], live)
                        /\ \E i \in 1..k : b[j].list = r[i].list /\ b[j].hi = r[i].hi
    <3> SUFFICES ASSUME NEW j \in 1..n
                 PROVE  /\ Hollow(b[j], live)
                        /\ \E i \in 1..k : b[j].list = r[i].list /\ b[j].hi = r[i].hi
      OBVIOUS
    <3>1. CASE j = n
      BY <1>1, <2>4, <2>7, <2>8, <3>1
    <3>2. CASE j # n
      <4>1. b[j] = acc[j]
        BY <2>8, <3>2
      <4>2. PICK i \in 1..(k - 1) : acc[j].list = r[i].list /\ acc[j].hi = r[i].hi
        BY <1>2
      <4> QED BY <1>1, <1>2, <4>1, <4>2
    <3> QED BY <3>1, <3>2
  <2>10. ASSUME NEW i \in 1..k PROVE \E j \in 1..n : Covers(b[j], r[i])
    <3>1. CASE i = k
      <4>1. Covers(wide, g)
        BY <1>1, <1>3, <2>4, <2>6 DEF Covers
      <4> QED BY <2>1, <2>8, <3>1, <4>1
    <3>2. CASE i # k
      <4>1. i \in 1..(k - 1) /\ r[i] \in Range3
        BY <1>1, <3>2
      <4>2. PICK j \in 1..n : Covers(acc[j], r[i])
        BY <1>2, <4>1
      <4>3. CASE j = n
        <5>1. Covers(last, r[i])
          BY <4>2, <4>3 DEF last
        <5>2. Covers(wide, r[i])
          <6> HIDE DEF g
          <6> QED BY <1>1, <1>3, <2>1, <2>2, <2>4, <2>6, <4>1, <5>1 DEF Covers
        <5> QED BY <2>1, <2>8, <5>2
      <4>4. CASE j # n
        BY <2>8, <4>2, <4>4
      <4> QED BY <4>3, <4>4
    <3> QED BY <3>1, <3>2
  <2> QED BY <2>1, <2>4, <2>6, <2>8, <2>9, <2>10 DEF MergedTo, b
<1>5. CASE ~ (acc # <<>> /\ Overlap(Last(acc), g))
  <2>1. b = Append(acc, g)
    BY <1>5 DEF MergeOne
  <2> HIDE DEF b
  <2>2. /\ b \in Seq(Range3) /\ Len(b) = n + 1 /\ b[n + 1] = g /\ \A j \in 1..n : b[j] = acc[j]
        /\ 1..(n + 1) = (1..n) \cup {n + 1}
    BY <1>1, <1>2, <2>1
  <2>3. \A j \in 1..(n + 1) : /\ Hollow(b[j], live)
                              /\ \E i \in 1..k : b[j].list = r[i].list /\ b[j].hi = r[i].hi
    <3> SUFFICES ASSUME NEW j \in 1..(n + 1)
                 PROVE  /\ Hollow(b[j], live)
                        /\ \E i \in 1..k : b[j].list = r[i].list /\ b[j].hi = r[i].hi
      OBVIOUS
    <3>1. CASE j = n + 1
      BY <1>1, <2>2, <3>1
    <3>2. CASE j \in 1..n
      <4>1. b[j] = acc[j]
        BY <2>2, <3>2
      <4>2. PICK i \in 1..(k - 1) : acc[j].list = r[i].list /\ acc[j].hi = r[i].hi
        BY <1>2, <3>2
      <4> QED BY <1>1, <1>2, <3>2, <4>1, <4>2
    <3> QED BY <2>2, <3>1, <3>2
  <2>4. ASSUME NEW i \in 1..k PROVE \E j \in 1..(n + 1) : Covers(b[j], r[i])
    <3>1. CASE i = k
      <4>1. Covers(g, g)
        BY <1>1, <1>3 DEF Covers
      <4> QED BY <2>2, <3>1, <4>1
    <3>2. CASE i # k
      <4>1. i \in 1..(k - 1)
        BY <1>1, <3>2
      <4>2. PICK j \in 1..n : Covers(acc[j], r[i])
        BY <1>2, <4>1
      <4> QED BY <2>2, <4>2
    <3> QED BY <3>1, <3>2
  <2>5. g.lo <= g.lo
    BY <1>1, <1>3
  <2> QED BY <1>2, <2>2, <2>3, <2>4, <2>5 DEF MergedTo, b
<1> QED BY <1>4, <1>5

\* Merged is a fold: the ranges are merged one by one.
LEMMA MergedFold ==
  ASSUME NEW r \in Seq(Range3)
  PROVE  \E m : /\ m[0] = <<>>
                /\ \A k \in 1..Len(r) : m[k] = MergeOne(m[k - 1], r[k])
                /\ Merged(r) = m[Len(r)]
<1> DEFINE n == Len(r)
           At(m, s) == IF s = {} THEN <<>> ELSE MergeOne(m[s \ {Max(s)}], r[Max(s)])
           Solves(m, k) == m = [s \in SUBSET (1..k) |-> m[s]] /\ \A s \in SUBSET (1..k) : m[s] = At(m, s)
           T == {k \in Nat : ~ \E m : Solves(m, k)}
<1>1. n \in Nat /\ DOMAIN r = 1..n
  OBVIOUS
<1>2. ASSUME NEW k \in Nat, NEW s \in SUBSET (1..k), s # {} PROVE Max(s) \in s /\ \A x \in s : Max(s) >= x
  <2>1. s \subseteq 0..k
    OBVIOUS
  <2> QED BY <1>2, <2>1, MaxOf
<1>3. T = {}
  <2> SUFFICES ASSUME T # {} PROVE FALSE
    OBVIOUS
  <2>1. PICK k \in T : \A j \in T : k <= j
    BY Least
  <2>2. CASE k = 0
    <3> DEFINE g == [s \in SUBSET (1..0) |-> <<>>]
    <3>1. SUBSET (1..0) = {{}}
      OBVIOUS
    <3>2. Solves(g, 0)
      BY <3>1
    <3> QED BY <2>1, <2>2, <3>2
  <2>3. CASE k # 0
    <3>1. k \in Nat /\ k - 1 \in Nat /\ ~ (k <= k - 1) /\ 1..k = (1..(k - 1)) \cup {k} /\ k \notin 1..(k - 1)
      BY <2>3
    <3>2. k - 1 \notin T
      BY <2>1, <3>1
    <3>3. PICK m : Solves(m, k - 1)
      BY <3>1, <3>2
    <3> DEFINE g == [s \in SUBSET (1..k) |-> IF k \in s THEN MergeOne(m[s \ {k}], r[k]) ELSE m[s]]
    <3>4. \A s \in SUBSET (1..(k - 1)) : g[s] = m[s]
      BY <3>1
    <3>5. ASSUME NEW s \in SUBSET (1..k) PROVE g[s] = At(g, s)
      <4>1. CASE k \in s
        <5>1. Max(s) = k
          <6>1. Max(s) \in s /\ Max(s) >= k
            BY <1>2, <3>1, <4>1
          <6>2. \A x \in s : x \in Nat /\ x <= k
            BY <3>1
          <6> QED BY <3>1, <6>1, <6>2
        <5>2. s \ {k} \in SUBSET (1..(k - 1))
          BY <3>1
        <5>3. g[s] = MergeOne(m[s \ {k}], r[k])
          BY <4>1
        <5> HIDE DEF g
        <5> QED BY <3>4, <4>1, <5>1, <5>2, <5>3
      <4>2. CASE k \notin s
        <5>1. s \in SUBSET (1..(k - 1)) /\ s \ {Max(s)} \in SUBSET (1..(k - 1))
          BY <3>1, <4>2
        <5>2. g[s] = m[s] /\ g[s \ {Max(s)}] = m[s \ {Max(s)}]
          BY <3>4, <5>1
        <5>3. m[s] = At(m, s)
          BY <3>3, <5>1
        <5> HIDE DEF g
        <5> QED BY <5>2, <5>3
      <4> QED BY <4>1, <4>2
    <3>6. g = [s \in SUBSET (1..k) |-> g[s]]
      OBVIOUS
    <3>7. Solves(g, k)
      BY <3>5, <3>6
    <3> QED BY <2>1, <3>7
  <2> QED BY <2>2, <2>3
<1>4. PICK m : Solves(m, n)
  BY <1>1, <1>3
<1>5. m = [s \in SUBSET DOMAIN r |-> IF s = {} THEN <<>> ELSE MergeOne(m[s \ {Max(s)}], r[Max(s)])]
  BY <1>1, <1>4
<1>6. PICK g : /\ g = [s \in SUBSET DOMAIN r |-> IF s = {} THEN <<>> ELSE MergeOne(g[s \ {Max(s)}], r[Max(s)])]
               /\ Merged(r) = g[DOMAIN r]
  BY <1>5 DEF Merged, FoldLeft, MapThenFoldSet, MergeOne
<1>7. ASSUME NEW s \in SUBSET (1..n) PROVE g[s] = At(g, s)
  BY <1>1, <1>6
<1> DEFINE h == [k \in 0..n |-> g[1..k]]
<1>8. h[0] = <<>>
  <2>1. 1..0 = {} /\ {} \in SUBSET (1..n) /\ 0 \in 0..n
    BY <1>1
  <2>2. g[{}] = <<>>
    BY <1>7, <2>1
  <2> QED BY <2>1, <2>2
<1>9. ASSUME NEW k \in 1..n PROVE h[k] = MergeOne(h[k - 1], r[k])
  <2>1. k \in Nat /\ k \in 0..n /\ k - 1 \in 0..n /\ 1..k \in SUBSET (1..n) /\ k \in 1..k
    BY <1>1
  <2>2. Max(1..k) = k
    <3>1. Max(1..k) \in 1..k /\ Max(1..k) >= k
      BY <1>2, <2>1
    <3> QED BY <2>1, <3>1
  <2>3. (1..k) \ {k} = 1..(k - 1)
    BY <2>1
  <2>4. g[1..k] = MergeOne(g[1..(k - 1)], r[k])
    <3>1. g[1..k] = At(g, 1..k)
      BY <1>7, <2>1
    <3> QED BY <2>1, <2>2, <2>3, <3>1
  <2> QED BY <2>1, <2>4
<1>10. Merged(r) = h[n]
  BY <1>1, <1>6
<1> QED BY <1>8, <1>9, <1>10

\* The merged ranges hold no version that lives, end where one of the ranges ends,
\* and cover them all.
LEMMA MergedIs ==
  ASSUME NEW r \in Seq(Range3), Orderly(r), NEW live, \A l \in Lists : live[l] \subseteq Vids,
         \A k \in 1..Len(r) : Hollow(r[k], live)
  PROVE  MergedTo(Merged(r), r, Len(r), live)
<1> DEFINE n == Len(r)
<1>1. n \in Nat
  OBVIOUS
<1>2. PICK m : /\ m[0] = <<>>
               /\ \A k \in 1..n : m[k] = MergeOne(m[k - 1], r[k])
               /\ Merged(r) = m[n]
  BY MergedFold
<1> HIDE DEF n
<1> DEFINE U == {k \in Nat : k <= n /\ ~ MergedTo(m[k], r, k, live)}
<1>3. U = {}
  <2> SUFFICES ASSUME U # {} PROVE FALSE
    OBVIOUS
  <2>1. PICK k \in U : \A j \in U : k <= j
    BY Least
  <2>2. CASE k = 0
    <3>1. MergedTo(<<>>, r, 0, live)
      <4>1. <<>> \in Seq(Range3) /\ Len(<<>>) = 0 /\ 1..0 = {}
        OBVIOUS
      <4> QED BY <4>1 DEF MergedTo
    <3> QED BY <1>2, <2>1, <2>2, <3>1
  <2>3. CASE k # 0
    <3>1. k \in Nat /\ k - 1 \in Nat /\ k \in 1..n /\ k - 1 <= n /\ ~ (k <= k - 1)
      BY <1>1, <2>1, <2>3
    <3>2. k - 1 \notin U
      BY <2>1, <3>1
    <3>3. MergedTo(m[k - 1], r, k - 1, live)
      BY <3>1, <3>2
    <3>4. MergedTo(MergeOne(m[k - 1], r[k]), r, k, live)
      BY <3>1, <3>3, MergeStep DEF n
    <3> QED BY <1>2, <2>1, <3>1, <3>4
  <2> QED BY <2>2, <2>3
<1> QED BY <1>1, <1>2, <1>3 DEF n

-----------------------------------------------------------------------------
(* Types.                                                                   *)

TInv ==
    /\ TypeOK
    /\ \A l \in Lists : engine[l] \subseteq chain[l]

LEMMA NewestIs ==
  ASSUME TypeOK, NEW l \in Lists, vers[l] # {}
  PROVE  Newest(l) \in vers[l] /\ Newest(l) \in Vids /\ \A v \in vers[l] : v <= Newest(l)
<1>1. vers[l] \subseteq Vids
  BY DEF TypeOK
<1>2. Newest(l) \in vers[l] /\ \A v \in vers[l] : Newest(l) >= v
  BY <1>1, MaxIs DEF Newest
<1>3. \A v \in Vids : v \in Int
  BY DEF Vids
<1> QED BY <1>1, <1>2, <1>3

\* What a commit writes.
CommitOf(l, v, gone, n) ==
    LET new == {[id |-> added + 1, list |-> l, start |-> v + 1, end |-> Open] : k \in 1..n}
        ended == {[f EXCEPT !.end = EndOf(v)] : f \in gone}
    IN  /\ files' = (files \ gone) \cup ended \cup new
        /\ content' = [content EXCEPT ![l][v + 1] = (Ids(Seen(l, v)) \ Ids(gone)) \cup Ids(new)]
        /\ added' = added + n
        /\ vers' = [vers EXCEPT ![l] = @ \cup {v + 1}]
        /\ queue' = queue \cup {<<l, v + 1>>}
        /\ UNCHANGED <<kept, deleted, engine, chain, moves, stuck>>

LEMMA CommitIs ==
  ASSUME TypeOK, NEW l \in Lists, Commit(l)
  PROVE  /\ vers[l] # {} /\ Newest(l) \in vers[l] /\ Newest(l) \in 0..(MaxVid - 1)
         /\ Newest(l) \in Vids /\ Newest(l) + 1 \in Vids
         /\ \E gone \in SUBSET Seen(l, Newest(l)), n \in 0..1 :
              added + n <= MaxFiles /\ CommitOf(l, Newest(l), gone, n)
<1>1. vers[l] # {} /\ Newest(l) \in vers[l] /\ Newest(l) \in Vids /\ Newest(l) < MaxVid
  BY NewestIs DEF Commit
<1>2. Newest(l) \in 0..(MaxVid - 1) /\ Newest(l) + 1 \in Vids
  BY <1>1, FilesOK DEF Vids
<1>3. \E gone \in SUBSET Seen(l, Newest(l)), n \in 0..1 :
              added + n <= MaxFiles /\ CommitOf(l, Newest(l), gone, n)
  BY DEF Commit, CommitOf
<1> QED BY <1>1, <1>2, <1>3

LEMMA CommitTypes ==
  ASSUME TInv, NEW l \in Lists, Commit(l)
  PROVE  TInv'
<1> DEFINE v == Newest(l)
<1>1. v \in 0..(MaxVid - 1) /\ v \in Vids /\ v + 1 \in Vids
  BY CommitIs DEF TInv
<1>2. PICK gone \in SUBSET Seen(l, v), n \in 0..1 : added + n <= MaxFiles /\ CommitOf(l, v, gone, n)
  BY CommitIs DEF TInv
<1> HIDE DEF v
<1> DEFINE new == {[id |-> added + 1, list |-> l, start |-> v + 1, end |-> Open] : k \in 1..n}
           ended == {[f EXCEPT !.end = EndOf(v)] : f \in gone}
<1>3. added \in 0..MaxFiles /\ added + n \in 0..MaxFiles
  BY <1>2, FilesOK DEF TInv, TypeOK
<1>4. ASSUME NEW f \in new PROVE f \in File /\ f.start < f.end
  <2>1. f = [id |-> added + 1, list |-> l, start |-> v + 1, end |-> Open] /\ 1 \in 1..n
    BY <1>2
  <2>2. added + 1 \in 1..MaxFiles /\ v + 1 \in 1..MaxVid /\ Open \in 1..Open /\ v + 1 < Open
    BY <1>1, <1>2, <1>3, <2>1, FilesOK DEF Open
  <2> QED BY <2>1, <2>2 DEF File
<1>5. ASSUME NEW f \in ended PROVE f \in File /\ f.start < f.end
  <2>1. PICK g \in gone : f = [g EXCEPT !.end = EndOf(v)]
    OBVIOUS
  <2>2. g \in files /\ g \in File /\ g.start <= v
    BY <1>2 DEF Seen, TInv, TypeOK
  <2>3. g.start \in 1..MaxVid /\ EndOf(v) = v + 1 /\ EndOf(v) \in 1..Open
    BY <1>1, <2>2, FilesOK DEF File, EndOf, Open
  <2>4. f.start = g.start /\ f.end = v + 1 /\ f \in File
    BY <2>1, <2>2, <2>3 DEF File
  <2> QED BY <1>1, <2>2, <2>3, <2>4
<1>6. files' = (files \ gone) \cup ended \cup new
  BY <1>2 DEF CommitOf
<1>7. ASSUME NEW f \in files' PROVE f \in File /\ f.start < f.end
  BY <1>4, <1>5, <1>6 DEF TInv, TypeOK
<1>8. content' \in [Lists -> [Vids -> SUBSET (1..MaxFiles)]]
  <2>1. content' = [content EXCEPT ![l][v + 1] = (Ids(Seen(l, v)) \ Ids(gone)) \cup Ids(new)]
    BY <1>2 DEF CommitOf
  <2>2. Ids(Seen(l, v)) \subseteq 1..MaxFiles
    BY DEF Ids, Seen, TInv, TypeOK, File
  <2>3. Ids(new) \subseteq 1..MaxFiles
    BY <1>4 DEF Ids, File
  <2> HIDE DEF new
  <2>4. (Ids(Seen(l, v)) \ Ids(gone)) \cup Ids(new) \in SUBSET (1..MaxFiles)
    BY <2>2, <2>3
  <2>5. content \in [Lists -> [Vids -> SUBSET (1..MaxFiles)]]
    BY DEF TInv, TypeOK
  <2> QED BY <1>1, <2>1, <2>4, <2>5
<1>9. vers' \in [Lists -> SUBSET Vids] /\ queue' \subseteq Lists \X Vids /\ added' \in 0..MaxFiles
  BY <1>1, <1>2, <1>3 DEF CommitOf, TInv, TypeOK
<1>10. UNCHANGED <<kept, deleted, engine, chain, moves, stuck>>
  BY <1>2 DEF CommitOf
<1> HIDE DEF new, ended
<1> QED BY <1>7, <1>8, <1>9, <1>10 DEF TInv, TypeOK

\* The first version of a list that waits joins its chain.
LEMMA NewVersionIs ==
  ASSUME TypeOK, NewVersion
  PROVE  \E l \in Lists, v \in Vids :
           /\ <<l, v>> \in queue /\ \A w \in Vids : <<l, w>> \in queue => w >= v
           /\ queue' = queue \ {<<l, v>>}
           /\ engine' = [engine EXCEPT ![l] = @ \cup {v}]
           /\ \/ chain' = [chain EXCEPT ![l] = @ \cup {v}]
              \/ chain[l] = {} /\ chain' = [chain EXCEPT ![l] = {0, v}]
           /\ UNCHANGED <<catalogVars, moves, stuck>>
<1>1. PICK e \in queue :
         /\ \A q \in queue : q[1] = e[1] => q[2] >= e[2]
         /\ queue' = queue \ {e}
         /\ engine' = [engine EXCEPT ![e[1]] = @ \cup {e[2]}]
         /\ chain' = [chain EXCEPT ![e[1]] = Set(e[1])!Inserted(@, e[2])]
         /\ UNCHANGED <<catalogVars, moves, stuck>>
  BY DEF NewVersion
<1>2. e \in Lists \X Vids /\ chain \in [Lists -> SUBSET Vids]
  BY DEF TypeOK
<1>3. PICK l \in Lists, v \in Vids : e = <<l, v>>
  BY <1>2
<1>4. e[1] = l /\ e[2] = v
  BY <1>3
<1>5. \/ chain' = [chain EXCEPT ![l] = @ \cup {v}]
      \/ chain[l] = {} /\ chain' = [chain EXCEPT ![l] = {0, v}]
  BY <1>1, <1>2, <1>4 DEF Set!Inserted
<1>6. \A w \in Vids : <<l, w>> \in queue => w >= v
  BY <1>1, <1>4
<1> QED BY <1>1, <1>3, <1>4, <1>5, <1>6

LEMMA NewVersionTypes ==
  ASSUME TInv, NewVersion
  PROVE  TInv'
<1>1. PICK l \in Lists, v \in Vids :
           /\ queue' = queue \ {<<l, v>>}
           /\ engine' = [engine EXCEPT ![l] = @ \cup {v}]
           /\ \/ chain' = [chain EXCEPT ![l] = @ \cup {v}]
              \/ chain[l] = {} /\ chain' = [chain EXCEPT ![l] = {0, v}]
           /\ UNCHANGED <<catalogVars, moves, stuck>>
  BY NewVersionIs DEF TInv
<1>2. {0, v} \subseteq Vids
  BY FilesOK DEF Vids
<1>3. chain' \in [Lists -> SUBSET Vids] /\ engine' \in [Lists -> SUBSET Vids]
  BY <1>1, <1>2 DEF TInv, TypeOK
<1>4. \A k \in Lists : engine'[k] \subseteq chain'[k]
  BY <1>1, <1>2 DEF TInv, TypeOK
<1> QED BY <1>1, <1>3, <1>4 DEF TInv, TypeOK, catalogVars

\* A collection takes versions the engine knows.
Taken(S) == S \in [Lists -> SUBSET Vids] /\ Release(S)

LEMMA UnreachableIs == TypeOK => Unreachable \subseteq [Lists -> SUBSET Vids]
<1> SUFFICES ASSUME TypeOK, NEW S \in Unreachable PROVE S \in [Lists -> SUBSET Vids]
  OBVIOUS
<1>1. ASSUME NEW l \in Lists PROVE Expired(l) \subseteq SUBSET Vids
  BY DEF Expired, TypeOK
<1> QED BY <1>1 DEF Unreachable

\* Its moves are the merged gaps, or none are tried and their files are noted.
LEMMA CollectIs ==
  ASSUME TypeOK, Collect
  PROVE  \E S : Taken(S) /\ moves' = Ranges(S) /\ UNCHANGED <<kept, stuck>>
BY UnreachableIs DEF Collect, Taken

LEMMA CollectFailsIs ==
  ASSUME TypeOK, CollectFails
  PROVE  \E S : /\ Taken(S) /\ UNCHANGED moves
                /\ stuck' = stuck \cup Skipped(Ranges(S))
                /\ kept' \in [Lists -> SUBSET Vids]
<1>1. PICK S \in Unreachable, done \in 0..(MaxList - 1) :
         /\ Release(S)
         /\ kept' = [l \in Lists |-> IF l <= done THEN kept[l] ELSE kept[l] \cup (S[l] \cap vers[l])]
         /\ stuck' = stuck \cup Skipped(Ranges(S)) /\ UNCHANGED moves
  BY DEF CollectFails
<1>2. Taken(S)
  BY <1>1, UnreachableIs DEF Taken
<1>3. kept' \in [Lists -> SUBSET Vids]
  BY <1>1 DEF TypeOK
<1> QED BY <1>1, <1>2, <1>3

LEMMA RangesIn ==
  ASSUME TInv, NEW S, Taken(S)
  PROVE  Ranges(S) \in Seq(Range3)
<1> DEFINE r == FlattenSeq([l \in Lists |-> Gaps(l, S[l])])
           live == [l \in Lists |-> {}]
<1>2. \A l \in Lists : chain[l] \subseteq Vids /\ S[l] \subseteq chain[l] /\ S[l] \subseteq engine[l]
  BY DEF Taken, Release, Expired, TInv, TypeOK
<1>3. Lists # {}
  BY DEF Taken, Release
<1>4. r \in Seq(Range3) /\ Orderly(r)
  BY <1>2, <1>3, GapsTogether
<1>5. \A k \in 1..Len(r) : Hollow(r[k], live)
  <2> HIDE DEF r
  <2>1. \A k \in 1..Len(r) : r[k] \in Range3
    BY <1>4
  <2>2. \A k \in 1..Len(r) : r[k].list \in Lists
    BY <2>1 DEF Range3
  <2> QED BY <2>2 DEF Hollow
<1>6. \A l \in Lists : live[l] \subseteq Vids
  OBVIOUS
<1> HIDE DEF r, live
<1>7. Merged(r) \in Seq(Range3)
  BY <1>4, <1>5, <1>6, MergedIs DEF MergedTo
<1> QED BY <1>7 DEF Ranges, r

LEMMA TakenTypes ==
  ASSUME TInv, NEW S, Taken(S), moves' \in Seq(Range3), kept' \in [Lists -> SUBSET Vids],
         stuck' \subseteq 1..MaxFiles
  PROVE  TInv'
<1>1. /\ vers' \in [Lists -> SUBSET Vids] /\ engine' \in [Lists -> SUBSET Vids]
      /\ chain' \in [Lists -> SUBSET Vids]
      /\ \A l \in Lists : engine'[l] \subseteq chain'[l]
  BY DEF Taken, Release, TInv, TypeOK
<1>2. UNCHANGED <<files, added, deleted, content, queue>>
  BY DEF Taken, Release
<1> QED BY <1>1, <1>2 DEF TInv, TypeOK

LEMMA SkippedFiles == ASSUME TypeOK, NEW rs PROVE Skipped(rs) \subseteq 1..MaxFiles
BY DEF Skipped, Ids, Affected, TypeOK, File

LEMMA CollectTypes ==
  ASSUME TInv, Collect
  PROVE  TInv'
<1>1. PICK S : Taken(S) /\ moves' = Ranges(S) /\ UNCHANGED <<kept, stuck>>
  BY CollectIs DEF TInv
<1>2. Ranges(S) \in Seq(Range3)
  BY <1>1, RangesIn
<1>3. moves' \in Seq(Range3) /\ kept' \in [Lists -> SUBSET Vids] /\ stuck' \subseteq 1..MaxFiles
  BY <1>1, <1>2 DEF TInv, TypeOK
<1> QED BY <1>1, <1>3, TakenTypes

LEMMA CollectFailsTypes ==
  ASSUME TInv, CollectFails
  PROVE  TInv'
<1>1. PICK S : /\ Taken(S) /\ UNCHANGED moves
               /\ stuck' = stuck \cup Skipped(Ranges(S))
               /\ kept' \in [Lists -> SUBSET Vids]
  BY CollectFailsIs DEF TInv
<1>2. Skipped(Ranges(S)) \subseteq 1..MaxFiles
  BY SkippedFiles DEF TInv
<1>3. moves' \in Seq(Range3) /\ stuck' \subseteq 1..MaxFiles
  BY <1>1, <1>2 DEF TInv, TypeOK
<1> QED BY <1>1, <1>3, TakenTypes

LEMMA StepTypes == TInv /\ [Next]_vars => TInv'
<1> SUFFICES ASSUME TInv, [Next]_vars PROVE TInv'
  OBVIOUS
<1>1. ASSUME NEW l \in Lists, CommitOnGone(l) PROVE TInv'
  <2>1. PICK v \in 0..(MaxVid - 1) : queue' = queue \cup {<<l, v + 1>>}
    BY <1>1 DEF CommitOnGone
  <2>2. v + 1 \in Vids
    BY FilesOK DEF Vids
  <2> QED BY <1>1, <2>1, <2>2 DEF CommitOnGone, TInv, TypeOK, catalogVars
<1>2. CASE Move
  <2>1. files' \subseteq files /\ deleted' = deleted \cup Ids(Affected(Head(moves))) /\ moves' = Tail(moves)
    BY <1>2 DEF Move
  <2>2. Ids(Affected(Head(moves))) \subseteq 1..MaxFiles
    BY DEF Ids, Affected, TInv, TypeOK, File
  <2>3. moves' \in Seq(Range3)
    BY <1>2, <2>1 DEF Move, TInv, TypeOK
  <2> QED BY <1>2, <2>1, <2>2, <2>3 DEF Move, TInv, TypeOK
<1>3. CASE MoveFails
  <2>1. Skipped(moves) \subseteq 1..MaxFiles
    BY SkippedFiles DEF TInv
  <2>2. stuck' = stuck \cup Skipped(moves) /\ moves' = <<>> /\ UNCHANGED <<catalogVars, queue, engine, chain>>
    BY <1>3 DEF MoveFails
  <2>3. moves' \in Seq(Range3)
    BY <2>2
  <2> QED BY <2>1, <2>2, <2>3 DEF TInv, TypeOK, catalogVars
<1>4. CASE UNCHANGED vars
  BY <1>4 DEF vars, catalogVars, gcVars, TInv, TypeOK
<1> QED BY <1>1, <1>2, <1>3, <1>4, CommitTypes, NewVersionTypes, CollectTypes, CollectFailsTypes DEF Next

LEMMA InitTypes == Init => TInv
<1> SUFFICES ASSUME Init PROVE TInv
  OBVIOUS
<1>1. 0 \in Vids /\ 0 \in 0..MaxFiles
  BY FilesOK DEF Vids
<1>2. vers \in [Lists -> SUBSET Vids] /\ queue \subseteq Lists \X Vids
  BY <1>1 DEF Init
<1> QED BY <1>1, <1>2 DEF Init, TInv, TypeOK

\* Every variable keeps its type: no gap ends outside the versions, and no file starts
\* after it ends.
THEOREM TypeCorrect == Spec => []TypeOK
<1>1. TInv => TypeOK
  BY DEF TInv
<1> QED BY <1>1, InitTypes, StepTypes, PTL DEF Spec

-----------------------------------------------------------------------------
(* What the engine knows of the versions, if the newest one always stays.   *)

Queued(l, v) == <<l, v>> \in queue

\* The engine and the chain know no version that was not committed; a version in
\* the catalog is known or on its way.
Known(l) == \A v \in Vids :
    /\ v \in engine[l] \/ v \in chain[l] \/ Queued(l, v) => v <= Newest(l)
    /\ v \in chain[l] /\ v # 0 => v \in engine[l]
    /\ v \in vers[l] => v \in engine[l] \/ Queued(l, v)

\* A version in the catalog that is on its way is above those that arrived; so are
\* those after it, and the one before it is still there.
Young(l) == \A w \in vers[l] : Queued(l, w) =>
    /\ \A u \in chain[l] : u < w
    /\ \A u \in Vids : w <= u /\ u <= Newest(l) => u \in vers[l] /\ Queued(l, u)
    /\ w # 0 => w - 1 \in vers[l]

ListOK(l) == vers[l] # {} /\ Known(l) /\ Young(l)
VInv == TInv /\ \A l \in Lists : ListOK(l)

LEMMA MaxUnique ==
  ASSUME NEW V, V \subseteq Vids, NEW n \in V, \A v \in V : v <= n
  PROVE  Max(V) = n
<1>1. Max(V) \in V /\ \A x \in V : Max(V) >= x
  BY MaxIs
<1>2. \A v \in V : v \in Int
  BY DEF Vids
<1> QED BY <1>1, <1>2

LEMMA SameList ==
  ASSUME NEW k \in Lists, ListOK(k), vers'[k] = vers[k], engine'[k] = engine[k], chain'[k] = chain[k],
         \A v \in Vids : Queued(k, v)' <=> Queued(k, v), TypeOK
  PROVE  ListOK(k)'
<1>1. Newest(k)' = Newest(k) /\ vers[k] \subseteq Vids
  BY DEF Newest, TypeOK
<1>2. Known(k)'
  BY <1>1 DEF ListOK, Known
<1>3. Young(k)'
  BY <1>1 DEF ListOK, Young
<1> QED BY <1>2, <1>3 DEF ListOK

LEMMA CommitVInv ==
  ASSUME VInv, NEW l \in Lists, Commit(l)
  PROVE  VInv'
<1> DEFINE v == Newest(l)
<1>0. TypeOK
  BY DEF VInv, TInv
<1>1. TInv'
  BY CommitTypes DEF VInv
<1>2. v \in vers[l] /\ v \in Vids /\ v + 1 \in Vids /\ \A u \in vers[l] : u <= v
  BY <1>0, CommitIs, NewestIs
<1>3. /\ vers' = [vers EXCEPT ![l] = @ \cup {v + 1}] /\ queue' = queue \cup {<<l, v + 1>>}
      /\ engine' = engine /\ chain' = chain
  BY <1>0, CommitIs DEF CommitOf
<1>4. vers'[l] = vers[l] \cup {v + 1} /\ \A k \in Lists : k # l => vers'[k] = vers[k]
  BY <1>0, <1>3 DEF TypeOK
<1>5. ASSUME NEW k \in Lists, k # l PROVE ListOK(k)'
  <2>1. \A u \in Vids : Queued(k, u)' <=> Queued(k, u)
    BY <1>3, <1>5 DEF Queued
  <2> QED BY <1>0, <1>3, <1>4, <1>5, <2>1, SameList DEF VInv
<1>6. \A u \in Vids : u \in Int
  BY DEF Vids
<1>7. vers[l] \subseteq Vids /\ chain[l] \subseteq Vids /\ engine[l] \subseteq Vids
  BY <1>0 DEF TypeOK
<1>8. Newest(l)' = v + 1
  <2>1. vers'[l] \subseteq Vids /\ v + 1 \in vers'[l]
    BY <1>2, <1>4, <1>7
  <2>2. \A u \in vers'[l] : u <= v + 1
    BY <1>2, <1>4, <1>6, <1>7
  <2> QED BY <2>1, <2>2, MaxUnique DEF Newest
<1>9. \A u \in Vids : Queued(l, u)' <=> Queued(l, u) \/ u = v + 1
  BY <1>3 DEF Queued
<1>10. \A u \in Vids : u \in engine[l] \/ u \in chain[l] \/ Queued(l, u) => u <= v
  BY DEF VInv, ListOK, Known
<1> HIDE DEF v
<1>11. Known(l)'
  <2> SUFFICES ASSUME NEW u \in Vids
               PROVE  /\ u \in engine'[l] \/ u \in chain'[l] \/ Queued(l, u)' => u <= v + 1
                      /\ u \in chain'[l] /\ u # 0 => u \in engine'[l]
                      /\ u \in vers'[l] => u \in engine'[l] \/ Queued(l, u)'
    BY <1>8 DEF Known
  <2>1. u \in Int /\ v \in Int
    BY <1>2, <1>6
  <2>2. u \in engine'[l] \/ u \in chain'[l] \/ Queued(l, u)' => u <= v + 1
    BY <1>3, <1>9, <1>10, <2>1
  <2>3. u \in chain[l] /\ u # 0 => u \in engine[l]
    BY DEF VInv, ListOK, Known
  <2>4. u \in vers[l] => u \in engine[l] \/ Queued(l, u)
    BY DEF VInv, ListOK, Known
  <2> QED BY <1>3, <1>4, <1>9, <2>2, <2>3, <2>4
<1>12. Young(l)'
  <2> SUFFICES ASSUME NEW w \in vers'[l], Queued(l, w)'
               PROVE  /\ \A u \in chain'[l] : u < w
                      /\ \A u \in Vids : w <= u /\ u <= v + 1 => u \in vers'[l] /\ Queued(l, u)'
                      /\ w # 0 => w - 1 \in vers'[l]
    BY <1>8 DEF Young
  <2>1. v \in Int
    BY <1>2, <1>6
  <2>2. CASE w = v + 1
    <3>1. \A u \in chain'[l] : u < w
      BY <1>3, <1>6, <1>7, <1>10, <2>1, <2>2
    <3>2. \A u \in Vids : w <= u /\ u <= v + 1 => u = v + 1
      BY <1>6, <2>1, <2>2
    <3>3. w - 1 = v
      BY <2>1, <2>2
    <3> QED BY <1>2, <1>4, <1>9, <3>1, <3>2, <3>3
  <2>3. CASE w # v + 1
    <3>1. w \in vers[l] /\ w \in Vids /\ Queued(l, w)
      BY <1>4, <1>7, <1>9, <2>3
    <3>2. /\ \A u \in chain[l] : u < w
          /\ \A u \in Vids : w <= u /\ u <= v => u \in vers[l] /\ Queued(l, u)
          /\ w # 0 => w - 1 \in vers[l]
      BY <3>1 DEF VInv, ListOK, Young, v
    <3>3. \A u \in Vids : u <= v + 1 => u <= v \/ u = v + 1
      BY <1>6, <2>1
    <3> QED BY <1>2, <1>3, <1>4, <1>9, <3>2, <3>3
  <2> QED BY <2>2, <2>3
<1>13. ListOK(l)'
  BY <1>4, <1>11, <1>12 DEF ListOK
<1> QED BY <1>1, <1>5, <1>13 DEF VInv

LEMMA CommitOnGoneVInv ==
  ASSUME VInv, TInv', NEW l \in Lists, CommitOnGone(l)
  PROVE  VInv'
<1>0. TypeOK
  BY DEF VInv, TInv
<1>1. PICK v \in 0..(MaxVid - 1) :
         /\ v < Newest(l) /\ v + 1 \notin vers[l] \cup engine[l]
         /\ queue' = queue \cup {<<l, v + 1>>}
  BY DEF CommitOnGone, Rows
<1>2. UNCHANGED <<vers, engine, chain>>
  BY DEF CommitOnGone, catalogVars
<1>3. ASSUME NEW k \in Lists, k # l PROVE ListOK(k)'
  <2>1. \A u \in Vids : Queued(k, u)' <=> Queued(k, u)
    BY <1>1, <1>3 DEF Queued
  <2> QED BY <1>0, <1>2, <1>3, <2>1, SameList DEF VInv
<1>4. Newest(l)' = Newest(l) /\ Newest(l) \in Vids /\ vers[l] \subseteq Vids
  BY <1>0, <1>2, NewestIs DEF Newest, VInv, ListOK, TypeOK
<1>5. \A u \in Vids : Queued(l, u)' <=> Queued(l, u) \/ u = v + 1
  BY <1>1 DEF Queued
<1>6. v + 1 <= Newest(l)
  BY <1>1, <1>4 DEF Vids
<1>7. Known(l)'
  BY <1>2, <1>4, <1>5, <1>6 DEF VInv, ListOK, Known
<1>8. Young(l)'
  <2> SUFFICES ASSUME NEW w \in vers[l], Queued(l, w)'
               PROVE  /\ \A u \in chain[l] : u < w
                      /\ \A u \in Vids : w <= u /\ u <= Newest(l) => u \in vers[l] /\ Queued(l, u)'
                      /\ w # 0 => w - 1 \in vers[l]
    BY <1>2, <1>4 DEF Young
  <2>1. Queued(l, w)
    BY <1>1, <1>4, <1>5
  <2> QED BY <1>5, <2>1 DEF VInv, ListOK, Young
<1> QED BY <1>2, <1>3, <1>7, <1>8 DEF VInv, ListOK

LEMMA NewVersionVInv ==
  ASSUME VInv, NewVersion
  PROVE  VInv'
<1>0. TypeOK /\ TInv'
  BY NewVersionTypes DEF VInv, TInv
<1>1. PICK l \in Lists, v \in Vids :
           /\ Queued(l, v) /\ \A w \in Vids : Queued(l, w) => w >= v
           /\ queue' = queue \ {<<l, v>>}
           /\ engine' = [engine EXCEPT ![l] = @ \cup {v}]
           /\ \/ chain' = [chain EXCEPT ![l] = @ \cup {v}]
              \/ chain[l] = {} /\ chain' = [chain EXCEPT ![l] = {0, v}]
           /\ UNCHANGED <<catalogVars, moves, stuck>>
  BY <1>0, NewVersionIs DEF Queued
<1>2. vers' = vers
  BY <1>1 DEF catalogVars
<1>3. /\ engine'[l] = engine[l] \cup {v}
      /\ chain'[l] = chain[l] \cup {v} \/ chain'[l] = {0, v}
      /\ \A k \in Lists : k # l => engine'[k] = engine[k] /\ chain'[k] = chain[k]
  BY <1>0, <1>1 DEF TypeOK
<1>4. ASSUME NEW k \in Lists, k # l PROVE ListOK(k)'
  <2>1. \A u \in Vids : Queued(k, u)' <=> Queued(k, u)
    BY <1>1, <1>4 DEF Queued
  <2> QED BY <1>0, <1>2, <1>3, <1>4, <2>1, SameList DEF VInv
<1>5. Newest(l)' = Newest(l) /\ Newest(l) \in Vids /\ vers[l] \subseteq Vids
  BY <1>0, <1>2, NewestIs DEF Newest, VInv, ListOK, TypeOK
<1>6. \A u \in Vids : Queued(l, u)' <=> Queued(l, u) /\ u # v
  BY <1>1 DEF Queued
<1>7. v <= Newest(l) /\ 0 <= Newest(l) /\ chain[l] \subseteq Vids
  BY <1>0, <1>1, <1>5 DEF VInv, ListOK, Known, TypeOK, Vids
<1>8. Known(l)'
  <2> SUFFICES ASSUME NEW u \in Vids
               PROVE  /\ u \in engine'[l] \/ u \in chain'[l] \/ Queued(l, u)' => u <= Newest(l)
                      /\ u \in chain'[l] /\ u # 0 => u \in engine'[l]
                      /\ u \in vers[l] => u \in engine'[l] \/ Queued(l, u)'
    BY <1>2, <1>5 DEF Known
  <2>1. /\ u \in engine[l] \/ u \in chain[l] \/ Queued(l, u) => u <= Newest(l)
        /\ u \in chain[l] /\ u # 0 => u \in engine[l]
        /\ u \in vers[l] => u \in engine[l] \/ Queued(l, u)
    BY DEF VInv, ListOK, Known
  <2> QED BY <1>3, <1>6, <1>7, <2>1
<1>9. Young(l)'
  <2> SUFFICES ASSUME NEW w \in vers[l], Queued(l, w)'
               PROVE  /\ \A u \in chain'[l] : u < w
                      /\ \A u \in Vids : w <= u /\ u <= Newest(l) => u \in vers[l] /\ Queued(l, u)'
                      /\ w # 0 => w - 1 \in vers[l]
    BY <1>2, <1>5 DEF Young
  <2>1. Queued(l, w) /\ w # v /\ w \in Vids
    BY <1>5, <1>6
  <2>2. /\ \A u \in chain[l] : u < w
        /\ \A u \in Vids : w <= u /\ u <= Newest(l) => u \in vers[l] /\ Queued(l, u)
        /\ w # 0 => w - 1 \in vers[l]
    BY <2>1 DEF VInv, ListOK, Young
  <2>3. \A u \in Vids : u \in Int /\ u >= 0
    BY DEF Vids
  <2>4. v < w /\ 0 < w
    BY <1>1, <2>1, <2>3
  <2>5. \A u \in Vids : w <= u => u # v
    BY <1>1, <2>1, <2>3, <2>4
  <2> QED BY <1>3, <1>6, <2>2, <2>4, <2>5
<1> QED BY <1>0, <1>2, <1>4, <1>8, <1>9 DEF VInv, ListOK

\* What is taken from a list: never the newest version, nor the one before a version
\* on its way.
LEMMA TakenIs ==
  ASSUME VInv, "newest" \in Stay, NEW S, Taken(S), NEW l \in Lists
  PROVE  /\ S[l] \subseteq Vids /\ S[l] \subseteq engine[l] /\ S[l] \subseteq chain[l]
         /\ Newest(l) \in vers[l] \ S[l] /\ \A v \in S[l] : ~ Queued(l, v + 1)
         /\ \A v \in S[l] : v <= Newest(l)
         /\ vers'[l] = vers[l] \ S[l] /\ engine'[l] = engine[l] \ S[l] /\ chain'[l] = chain[l] \ S[l]
         /\ Newest(l)' = Newest(l)
<1>0. TypeOK /\ vers[l] # {} /\ vers[l] \subseteq Vids
  BY DEF VInv, TInv, TypeOK, ListOK
<1>1. /\ S[l] \subseteq Vids /\ S[l] \subseteq engine[l] /\ S[l] \subseteq chain[l]
      /\ Newest(l) \notin S[l] /\ \A v \in S[l] : ~ Queued(l, v + 1)
      /\ vers'[l] = vers[l] \ S[l] /\ engine'[l] = engine[l] \ S[l] /\ chain'[l] = chain[l] \ S[l]
  BY DEF Taken, Release, Expired, Queued, VInv, TInv, TypeOK
<1>2. Newest(l) \in vers[l] /\ \A v \in vers[l] : v <= Newest(l)
  BY <1>0, NewestIs
<1>3. \A v \in S[l] : v <= Newest(l)
  BY <1>1 DEF VInv, ListOK, Known
<1>4. Newest(l)' = Newest(l)
  BY <1>0, <1>1, <1>2, MaxUnique DEF Newest
<1> QED BY <1>1, <1>2, <1>3, <1>4

LEMMA TakenVInv ==
  ASSUME VInv, "newest" \in Stay, NEW S, Taken(S), TInv'
  PROVE  VInv'
<1>1. ASSUME NEW l \in Lists PROVE ListOK(l)'
  <2>1. /\ S[l] \subseteq Vids /\ S[l] \subseteq engine[l] /\ S[l] \subseteq chain[l]
        /\ Newest(l) \in vers[l] \ S[l] /\ \A v \in S[l] : ~ Queued(l, v + 1)
        /\ vers'[l] = vers[l] \ S[l] /\ engine'[l] = engine[l] \ S[l] /\ chain'[l] = chain[l] \ S[l]
        /\ Newest(l)' = Newest(l)
    BY TakenIs
  <2>2. queue' = queue /\ Known(l) /\ Young(l) /\ vers[l] \subseteq Vids
    BY DEF Taken, Release, VInv, ListOK, TInv, TypeOK
  <2>3. Known(l)'
    BY <2>1, <2>2 DEF Known, Queued
  <2>4. Young(l)'
    <3> SUFFICES ASSUME NEW w \in vers[l] \ S[l], Queued(l, w)
                 PROVE  /\ \A u \in chain[l] \ S[l] : u < w
                        /\ \A u \in Vids : w <= u /\ u <= Newest(l) => u \in vers[l] \ S[l] /\ Queued(l, u)
                        /\ w # 0 => w - 1 \in vers[l] \ S[l]
      BY <2>1, <2>2 DEF Young, Queued
    <3>1. /\ \A u \in chain[l] : u < w
          /\ \A u \in Vids : w <= u /\ u <= Newest(l) => u \in vers[l] /\ Queued(l, u)
          /\ w # 0 => w - 1 \in vers[l]
      BY <2>2 DEF Young
    <3>2. \A u \in S[l] : ~ (w <= u)
      <4>1. \A u \in Vids : u \in Int
        BY DEF Vids
      <4> QED BY <2>1, <2>2, <3>1, <4>1
    <3>3. w - 1 \notin S[l]
      <4>1. w \in Int /\ w - 1 + 1 = w
        BY <2>2 DEF Vids
      <4> QED BY <2>1, <4>1
    <3> QED BY <3>1, <3>2, <3>3
  <2> QED BY <2>1, <2>3, <2>4 DEF ListOK
<1> QED BY <1>1 DEF VInv

LEMMA StepVInv == "newest" \in Stay /\ VInv /\ [Next]_vars => VInv'
<1> SUFFICES ASSUME "newest" \in Stay, VInv, [Next]_vars PROVE VInv'
  OBVIOUS
<1>0. TypeOK /\ TInv'
  BY StepTypes DEF VInv, TInv
<1>1. ASSUME UNCHANGED <<vers, engine, chain, queue>> PROVE VInv'
  <2>1. ASSUME NEW k \in Lists PROVE ListOK(k)'
    BY <1>0, <1>1, SameList DEF VInv, Queued
  <2> QED BY <1>0, <2>1 DEF VInv
<1>2. CASE Move
  BY <1>1, <1>2 DEF Move
<1>3. CASE MoveFails
  BY <1>1, <1>3 DEF MoveFails, catalogVars
<1>4. CASE UNCHANGED vars
  BY <1>1, <1>4 DEF vars, catalogVars, gcVars
<1>5. ASSUME Collect \/ CollectFails PROVE VInv'
  <2>1. PICK S : Taken(S)
    BY <1>0, <1>5, CollectIs, CollectFailsIs
  <2> QED BY <1>0, <2>1, TakenVInv
<1> QED BY <1>0, <1>2, <1>3, <1>4, <1>5, CommitVInv, CommitOnGoneVInv, NewVersionVInv DEF Next

LEMMA InitVInv == Init => VInv
<1> SUFFICES ASSUME Init PROVE VInv
  OBVIOUS
<1>1. TInv /\ 0 \in Vids
  BY InitTypes, FilesOK DEF Vids
<1>2. ASSUME NEW l \in Lists PROVE ListOK(l)
  <2>1. vers[l] = {0} /\ engine[l] = {} /\ chain[l] = {} /\ \A v \in Vids : Queued(l, v) <=> v = 0
    BY DEF Init, Queued
  <2>2. Newest(l) = 0
    BY <1>1, <2>1, MaxUnique DEF Newest
  <2>3. \A u \in Vids : 0 <= u /\ u <= 0 => u = 0
    BY DEF Vids
  <2> QED BY <1>1, <2>1, <2>2, <2>3 DEF ListOK, Known, Young
<1> QED BY <1>1, <1>2 DEF VInv

-----------------------------------------------------------------------------
(* Files.                                                                   *)

FilesKnown ==
    /\ \A f \in files : /\ f.start <= Newest(f.list)
                        /\ f.end <= Newest(f.list) \/ f.end = Open
                        /\ f.id <= added /\ f.id \notin deleted
    /\ \A f, g \in files : f.id = g.id => f = g
    /\ \A i \in deleted : i <= added

\* No range that waits to be moved is around a version of its list.
MovesHollow ==
    \A k \in 1..Len(moves) : /\ Hollow(moves[k], vers)
                             /\ moves[k].hi <= Newest(moves[k].list) + 1

SInv == VInv /\ FilesKnown /\ MovesHollow /\ SnapshotsIntact

\* The files after a commit: those it did not delete, those it did, and a new one.
LEMMA CommitFiles ==
  ASSUME TypeOK, NEW l \in Lists, NEW v \in Vids, NEW gone \in SUBSET Seen(l, v), NEW n \in 0..1,
         CommitOf(l, v, gone, n), v + 1 \in Vids
  PROVE  /\ \A f \in files' :
              \/ f \in files \ gone
              \/ \E g \in gone : f.id = g.id /\ f.list = l /\ f.start = g.start /\ f.end = v + 1
              \/ n = 1 /\ f.id = added + 1 /\ f.list = l /\ f.start = v + 1 /\ f.end = Open
         /\ files \ gone \subseteq files'
         /\ \A g \in gone : \E f \in files' : f.id = g.id /\ f.list = l /\ f.start = g.start /\ f.end = v + 1
         /\ n = 1 => \E f \in files' : f.id = added + 1 /\ f.list = l /\ f.start = v + 1 /\ f.end = Open
         /\ content' = [content EXCEPT ![l][v + 1] = (Ids(Seen(l, v)) \ Ids(gone))
                                                     \cup (IF n = 1 THEN {added + 1} ELSE {})]
<1> DEFINE one == [id |-> added + 1, list |-> l, start |-> v + 1, end |-> Open]
           new == {one : k \in 1..n}
           ended == {[f EXCEPT !.end = EndOf(v)] : f \in gone}
<1>1. /\ files' = (files \ gone) \cup ended \cup new
      /\ content' = [content EXCEPT ![l][v + 1] = (Ids(Seen(l, v)) \ Ids(gone)) \cup Ids(new)]
  BY DEF CommitOf
<1>2. one.id = added + 1 /\ one.list = l /\ one.start = v + 1 /\ one.end = Open
  OBVIOUS
<1>3. new = IF n = 1 THEN {one} ELSE {}
  OBVIOUS
<1>4. Ids(new) = IF n = 1 THEN {added + 1} ELSE {}
  BY <1>2, <1>3 DEF Ids
<1>5. \A g \in gone : g \in File /\ g.list = l
  BY DEF Seen, TypeOK
<1>6. \A g \in gone : LET f == [g EXCEPT !.end = EndOf(v)]
                      IN  f.id = g.id /\ f.list = l /\ f.start = g.start /\ f.end = v + 1
  BY <1>5 DEF File, EndOf
<1> HIDE DEF one, new
<1>7. \A f \in ended : \E g \in gone : f.id = g.id /\ f.list = l /\ f.start = g.start /\ f.end = v + 1
  BY <1>6
<1>8. \A g \in gone : \E f \in ended : f.id = g.id /\ f.list = l /\ f.start = g.start /\ f.end = v + 1
  BY <1>6
<1> HIDE DEF ended
<1> QED BY <1>1, <1>2, <1>3, <1>4, <1>7, <1>8

LEMMA CommitSInv ==
  ASSUME SInv, VInv', NEW l \in Lists, Commit(l)
  PROVE  SInv'
<1> DEFINE v == Newest(l)
<1>0. TypeOK /\ TypeOK'
  BY DEF SInv, VInv, TInv
<1>1. /\ v \in vers[l] /\ v \in Vids /\ v + 1 \in Vids /\ vers[l] \subseteq Vids
      /\ \A u \in vers[l] : u <= v
  BY <1>0, CommitIs, NewestIs DEF TypeOK
<1>2. PICK gone \in SUBSET Seen(l, v), n \in 0..1 : added + n <= MaxFiles /\ CommitOf(l, v, gone, n)
  BY <1>0, CommitIs
<1> HIDE DEF v
<1>3. /\ \A f \in files' :
              \/ f \in files \ gone
              \/ \E g \in gone : f.id = g.id /\ f.list = l /\ f.start = g.start /\ f.end = v + 1
              \/ n = 1 /\ f.id = added + 1 /\ f.list = l /\ f.start = v + 1 /\ f.end = Open
      /\ files \ gone \subseteq files'
      /\ \A g \in gone : \E f \in files' : f.id = g.id /\ f.list = l /\ f.start = g.start /\ f.end = v + 1
      /\ n = 1 => \E f \in files' : f.id = added + 1 /\ f.list = l /\ f.start = v + 1 /\ f.end = Open
      /\ content' = [content EXCEPT ![l][v + 1] = (Ids(Seen(l, v)) \ Ids(gone))
                                                  \cup (IF n = 1 THEN {added + 1} ELSE {})]
  BY <1>0, <1>1, <1>2, CommitFiles
<1>4. /\ vers'[l] = vers[l] \cup {v + 1} /\ \A k \in Lists : k # l => vers'[k] = vers[k]
      /\ added' = added + n /\ deleted' = deleted /\ moves' = moves
  BY <1>0, <1>2 DEF CommitOf, TypeOK
<1>5. Newest(l)' = v + 1 /\ \A k \in Lists : k # l => Newest(k)' = Newest(k)
  <2>1. \A k \in Lists : k # l => Newest(k)' = Newest(k)
    BY <1>4 DEF Newest
  <2>2. \A u \in vers'[l] : u <= v + 1
    <3>1. \A u \in Vids : u \in Int
      BY DEF Vids
    <3> QED BY <1>1, <1>4, <3>1
  <2>3. vers'[l] \subseteq Vids /\ v + 1 \in vers'[l]
    BY <1>1, <1>4
  <2> QED BY <2>1, <2>2, <2>3, MaxUnique DEF Newest
<1>6. \A f \in files : f \in File /\ f.id \in Int /\ f.list \in Lists /\ f.start \in Int /\ f.end \in Int
  BY <1>0 DEF TypeOK, File
<1>7. v \in Int /\ v < Open /\ v + 1 < Open /\ added \in Int
  BY <1>0, <1>1, FilesOK DEF Vids, Open, TypeOK
<1>8. \A g \in gone : g \in files /\ g.list = l /\ g.start <= v /\ g.end > v
  BY <1>2 DEF Seen
<1>9. /\ \A f \in files : /\ f.start <= Newest(f.list)
                          /\ f.end <= Newest(f.list) \/ f.end = Open
                          /\ f.id <= added /\ f.id \notin deleted
      /\ \A f, g \in files : f.id = g.id => f = g
      /\ \A i \in deleted : i <= added
  BY DEF SInv, FilesKnown
<1>10. FilesKnown'
  <2>1. ASSUME NEW f \in files'
        PROVE  /\ f.start <= Newest(f.list)'
               /\ f.end <= Newest(f.list)' \/ f.end = Open
               /\ f.id <= added' /\ f.id \notin deleted'
    <3>1. CASE f \in files \ gone
      <4>1. \/ f.list = l /\ Newest(f.list)' = v + 1 /\ Newest(f.list) = v
            \/ Newest(f.list)' = Newest(f.list)
        BY <1>5, <1>6, <3>1 DEF v
      <4> QED BY <1>4, <1>6, <1>7, <1>9, <3>1, <4>1
    <3>2. CASE \E g \in gone : f.id = g.id /\ f.list = l /\ f.start = g.start /\ f.end = v + 1
      <4>1. PICK g \in gone : f.id = g.id /\ f.list = l /\ f.start = g.start /\ f.end = v + 1
        BY <3>2
      <4>2. g \in files /\ g.start <= v
        BY <1>8
      <4> QED BY <1>4, <1>5, <1>6, <1>7, <1>9, <4>1, <4>2
    <3>3. CASE n = 1 /\ f.id = added + 1 /\ f.list = l /\ f.start = v + 1 /\ f.end = Open
      <4>1. added + 1 \notin deleted
        BY <1>7, <1>9
      <4> QED BY <1>4, <1>5, <1>7, <3>3, <4>1
    <3> QED BY <1>3, <3>1, <3>2, <3>3
  <2>2. ASSUME NEW f \in files', NEW g \in files', f.id = g.id PROVE f = g
    <3>1. \A h \in files' : h \in File
      BY <1>0 DEF TypeOK
    <3>2. ASSUME NEW h \in files' PROVE
              \/ h \in files \ gone
              \/ \E e \in gone : h.id = e.id /\ h.list = l /\ h.start = e.start /\ h.end = v + 1
              \/ h.id = added + 1 /\ h.list = l /\ h.start = v + 1 /\ h.end = Open
      BY <1>3
    <3>3. \A e \in files : e.id # added + 1
      BY <1>6, <1>7, <1>9
    <3>4. f.list = g.list /\ f.start = g.start /\ f.end = g.end
      <4>1. CASE f \in files \ gone
        <5>1. g \in files \ gone
          BY <1>8, <1>9, <2>2, <3>2, <3>3, <4>1
        <5> QED BY <1>9, <2>2, <4>1, <5>1
      <4>2. CASE f.id = added + 1 /\ f.list = l /\ f.start = v + 1 /\ f.end = Open
        <5>0. g.id = added + 1
          BY <2>2, <4>2
        <5>1. g.id = added + 1 /\ g.list = l /\ g.start = v + 1 /\ g.end = Open
          BY <1>8, <3>2, <3>3, <5>0
        <5> QED BY <4>2, <5>1
      <4>3. ASSUME NEW e \in gone, f.id = e.id /\ f.list = l /\ f.start = e.start /\ f.end = v + 1
            PROVE  f.list = g.list /\ f.start = g.start /\ f.end = g.end
        <5>1. \/ g \in files \ gone
              \/ \E d \in gone : g.id = d.id /\ g.list = l /\ g.start = d.start /\ g.end = v + 1
          BY <1>8, <2>2, <3>2, <3>3, <4>3
        <5>2. CASE g \in files \ gone
          <6>1. e = g
            BY <1>8, <1>9, <2>2, <4>3, <5>2
          <6> QED BY <5>2, <6>1
        <5>3. ASSUME NEW d \in gone, g.id = d.id /\ g.list = l /\ g.start = d.start /\ g.end = v + 1
              PROVE  f.list = g.list /\ f.start = g.start /\ f.end = g.end
          <6>1. e = d
            BY <1>8, <1>9, <2>2, <4>3, <5>3
          <6> QED BY <4>3, <5>3, <6>1
        <5> QED BY <5>1, <5>2, <5>3
      <4> QED BY <3>2, <4>1, <4>2, <4>3
    <3> QED BY <2>2, <3>1, <3>4 DEF File
  <2>3. \A i \in deleted' : i <= added'
    <3>1. \A i \in deleted : i \in Int
      BY <1>0 DEF TypeOK
    <3> QED BY <1>4, <1>7, <1>9, <3>1
  <2> QED BY <2>1, <2>2, <2>3 DEF FilesKnown
<1>11. MovesHollow'
  <2> SUFFICES ASSUME NEW k \in 1..Len(moves)
               PROVE  Hollow(moves[k], vers') /\ moves[k].hi <= Newest(moves[k].list)' + 1
    BY <1>4 DEF MovesHollow
  <2> DEFINE g == moves[k]
  <2>1. g \in Range3
    BY <1>0 DEF TypeOK
  <2>2. Hollow(g, vers) /\ g.hi <= Newest(g.list) + 1
    BY DEF SInv, MovesHollow
  <2>3. g.hi \in Int /\ g.list \in Lists
    BY <2>1, FilesOK DEF Range3
  <2> HIDE DEF g
  <2>4. CASE g.list = l
    <3>1. ~ (v + 1 < g.hi) /\ g.hi <= v + 1 + 1
      BY <1>7, <2>2, <2>3, <2>4 DEF v
    <3> QED BY <1>4, <1>5, <2>2, <2>4, <3>1 DEF Hollow, g
  <2>5. CASE g.list # l
    BY <1>4, <1>5, <2>2, <2>3, <2>5 DEF Hollow, g
  <2> QED BY <2>4, <2>5
<1>12. ASSUME NEW k \in Lists, NEW u \in vers'[k]
       PROVE  Ids(Seen(k, u))' = content'[k][u] /\ content'[k][u] \cap deleted' = {}
  <2>0. \A i : i \in Ids(Seen(k, u))' <=> \E f \in files' : f.id = i /\ f.list = k /\ f.start <= u /\ f.end > u
    BY DEF Ids, Seen
  <2>1. content \in [Lists -> [Vids -> SUBSET (1..MaxFiles)]] /\ u \in Vids /\ u \in Int
    BY <1>0 DEF TypeOK, Vids
  <2>2. CASE k # l
    <3>1. u \in vers[k] /\ content'[k][u] = content[k][u]
      BY <1>3, <1>4, <2>1, <2>2
    <3>2. \A f : f \in files' /\ f.list = k <=> f \in files /\ f.list = k
      BY <1>3, <1>8, <2>2
    <3>3. Ids(Seen(k, u))' = Ids(Seen(k, u))
      BY <3>2 DEF Ids, Seen
    <3> QED BY <1>4, <3>1, <3>3 DEF SInv, SnapshotsIntact
  <2>3. CASE k = l /\ u # v + 1
    <3>1. u \in vers[l] /\ u <= v /\ content'[k][u] = content[l][u]
      BY <1>1, <1>3, <1>4, <2>1, <2>3
    <3>2. ASSUME NEW f \in files', f.list = l /\ f.start <= u /\ f.end > u
          PROVE  \E g \in Seen(l, u) : g.id = f.id
      <4>1. CASE f \in files \ gone
        BY <3>2, <4>1 DEF Seen
      <4>2. ASSUME NEW g \in gone, f.id = g.id /\ f.start = g.start
            PROVE  \E h \in Seen(l, u) : h.id = f.id
        <5>1. g.end > u
          BY <1>6, <1>7, <1>8, <2>1, <3>1
        <5>2. g \in Seen(l, u)
          BY <1>8, <3>2, <4>2, <5>1 DEF Seen
        <5> QED BY <4>2, <5>2
      <4>3. f.start # v + 1
        BY <1>7, <2>1, <3>1, <3>2
      <4> QED BY <1>3, <4>1, <4>2, <4>3
    <3>3. ASSUME NEW g \in Seen(l, u)
          PROVE  \E f \in files' : f.id = g.id /\ f.list = l /\ f.start <= u /\ f.end > u
      <4>1. g \in files /\ g.list = l /\ g.start <= u /\ g.end > u /\ v + 1 > u
        BY <1>7, <2>1, <3>1 DEF Seen
      <4> QED BY <1>3, <4>1
    <3>4. Ids(Seen(k, u))' = Ids(Seen(l, u))
      <4>1. \A i : i \in Ids(Seen(l, u)) <=> \E g \in Seen(l, u) : g.id = i
        BY DEF Ids
      <4>2. \A i : i \in Ids(Seen(k, u))' <=> i \in Ids(Seen(l, u))
        BY <2>0, <2>3, <3>2, <3>3, <4>1
      <4> QED BY <4>2
    <3> QED BY <1>4, <3>1, <3>4 DEF SInv, SnapshotsIntact
  <2>4. CASE k = l /\ u = v + 1
    <3> DEFINE left == (Ids(Seen(l, v)) \ Ids(gone)) \cup (IF n = 1 THEN {added + 1} ELSE {})
    <3>1. content'[k][u] = left
      BY <1>3, <2>1, <2>4
    <3>2. ASSUME NEW f \in files', f.list = l /\ f.start <= v + 1 /\ f.end > v + 1
          PROVE  f.id \in left
      <4>1. CASE f \in files \ gone
        <5>1. f.start <= v /\ f.end > v
          BY <1>6, <1>7, <1>9, <3>2, <4>1 DEF v
        <5>2. f \in Seen(l, v)
          BY <3>2, <4>1, <5>1 DEF Seen
        <5>3. f.id \notin Ids(gone)
          BY <1>8, <1>9, <4>1 DEF Ids
        <5> QED BY <5>2, <5>3 DEF Ids
      <4>2. f.end # v + 1
        BY <1>7, <3>2
      <4> QED BY <1>3, <4>1, <4>2
    <3>3. ASSUME NEW i \in left
          PROVE  \E f \in files' : f.id = i /\ f.list = l /\ f.start <= v + 1 /\ f.end > v + 1
      <4>1. CASE i \in Ids(Seen(l, v)) \ Ids(gone)
        <5>1. PICK f \in Seen(l, v) : f.id = i
          BY <4>1 DEF Ids
        <5>2. f \in files /\ f.list = l /\ f.start <= v /\ f.end > v /\ f \notin gone
          BY <4>1, <5>1 DEF Seen, Ids
        <5>3. f.end = Open
          BY <1>6, <1>7, <1>9, <5>2 DEF v
        <5>4. f.start <= v + 1 /\ f.end > v + 1
          BY <1>6, <1>7, <5>2, <5>3
        <5> QED BY <1>3, <5>1, <5>2, <5>4
      <4>2. CASE n = 1 /\ i = added + 1
        <5>1. v + 1 <= v + 1
          BY <1>7
        <5> QED BY <1>3, <1>7, <4>2, <5>1
      <4> QED BY <4>1, <4>2
    <3>4. Ids(Seen(k, u))' = left
      BY <2>0, <2>4, <3>2, <3>3
    <3>5. left \cap deleted = {}
      <4>1. \A i \in Ids(Seen(l, v)) : i \notin deleted
        BY <1>9 DEF Ids, Seen
      <4>2. added + 1 \notin deleted
        BY <1>7, <1>9
      <4> QED BY <4>1, <4>2
    <3> QED BY <1>4, <3>1, <3>4, <3>5
  <2> QED BY <2>2, <2>3, <2>4
<1> QED BY <1>10, <1>11, <1>12 DEF SInv, SnapshotsIntact

\* The gap of a version that is taken holds no version that stays.
LEMMA GapHollow ==
  ASSUME VInv, "newest" \in Stay, NEW S, Taken(S), NEW l \in Lists, NEW v \in S[l]
  PROVE  Hollow(Gap(l, S[l], v), vers') /\ Gap(l, S[l], v).hi <= Newest(l) + 1
<1> DEFINE g == Gap(l, S[l], v)
           left == chain[l] \ {w \in S[l] : w < v}
<1>1. /\ S[l] \subseteq Vids /\ S[l] \subseteq engine[l] /\ S[l] \subseteq chain[l]
      /\ \A u \in S[l] : u <= Newest(l)
      /\ vers'[l] = vers[l] \ S[l]
  BY TakenIs
<1>2. chain[l] \subseteq Vids /\ vers[l] \subseteq Vids /\ v \in Vids
  BY <1>1 DEF VInv, TInv, TypeOK
<1>3. /\ g.list = l
      /\ \/ g.hi = v + 1 /\ \A w \in left : ~ (w > v)
         \/ g.hi \in left /\ g.hi > v /\ \A w \in left : w > v => g.hi <= w
  BY <1>2, GapIs
<1>4. \A u \in Vids : u \in Int
  BY DEF Vids
<1>5. \A u \in chain[l] : u <= Newest(l)
  BY <1>2 DEF VInv, ListOK, Known
<1>6. ASSUME NEW w \in vers[l] \ S[l], g.lo < w, w < g.hi PROVE FALSE
  <2>1. CASE w \in engine[l]
    <3>1. w \in chain[l] \ S[l]
      BY <2>1 DEF VInv, TInv
    <3> QED BY <1>2, <1>6, <3>1, GapEmpty
  <2>2. CASE Queued(l, w)
    <3>1. \A u \in chain[l] : u < w
      BY <2>2 DEF VInv, ListOK, Young
    <3>2. w \in Int /\ v \in Int /\ v < w
      BY <1>1, <1>2, <1>4, <3>1
    <3>3. g.hi = v + 1 \/ g.hi < w
      BY <1>3, <3>1
    <3>4. g.hi \in Int
      BY <1>2, <1>3, <1>4
    <3> HIDE DEF g
    <3> QED BY <1>6, <3>2, <3>3, <3>4
  <2> QED BY <1>2, <2>1, <2>2 DEF VInv, ListOK, Known
<1>7. g.hi <= Newest(l) + 1
  <2>1. Newest(l) \in Int
    BY <1>4, TakenIs, <1>2
  <2>2. g.hi \in chain[l] => g.hi <= Newest(l) /\ g.hi \in Int
    BY <1>2, <1>4, <1>5
  <2>3. v <= Newest(l) /\ v \in Int
    BY <1>1, <1>2, <1>4
  <2> HIDE DEF g
  <2> QED BY <1>3, <2>1, <2>2, <2>3
<1> HIDE DEF g
<1> QED BY <1>1, <1>3, <1>6, <1>7 DEF Hollow, g

\* The ranges of a collection: none is around a version that stays, and each gap is
\* covered by one.
LEMMA RangesAre ==
  ASSUME VInv, "newest" \in Stay, NEW S, Taken(S)
  PROVE  /\ \A j \in 1..Len(Ranges(S)) : /\ Hollow(Ranges(S)[j], vers')
                                         /\ Ranges(S)[j].hi <= Max(vers'[Ranges(S)[j].list]) + 1
         /\ \A l \in Lists : \A v \in S[l] : \E j \in 1..Len(Ranges(S)) : Covers(Ranges(S)[j], Gap(l, S[l], v))
<1> DEFINE r == FlattenSeq([l \in Lists |-> Gaps(l, S[l])])
<1>1. Lists = 1..MaxList /\ Lists # {}
  BY DEF Taken, Release, Lists
<1>2. \A l \in Lists : chain[l] \subseteq Vids /\ S[l] \subseteq chain[l] /\ vers'[l] \subseteq Vids
  BY TakenIs DEF VInv, TInv, TypeOK
<1>3. r \in Seq(Range3) /\ Sound(r, S, MaxList) /\ Full(r, S, MaxList) /\ Orderly(r)
  BY <1>1, <1>2, GapsTogether
<1>4. Ranges(S) = Merged(r)
  BY DEF Ranges
<1> HIDE DEF r
<1>5. ASSUME NEW k \in 1..Len(r)
      PROVE  r[k].list \in Lists /\ Hollow(r[k], vers') /\ r[k].hi <= Max(vers'[r[k].list]) + 1
  <2>1. PICK v \in S[r[k].list] : r[k] = Gap(r[k].list, S[r[k].list], v)
    BY <1>3 DEF Sound
  <2>2. r[k].list \in Lists
    BY <1>1, <1>3 DEF Sound
  <2>3. Max(vers'[r[k].list]) = Newest(r[k].list)
    <3>1. \A l \in Lists : Newest(l)' = Newest(l)
      BY TakenIs
    <3> QED BY <2>2, <3>1 DEF Newest
  <2> QED BY <2>1, <2>2, <2>3, GapHollow
<1>6. MergedTo(Merged(r), r, Len(r), vers')
  BY <1>2, <1>3, <1>5, MergedIs
<1>7. ASSUME NEW j \in 1..Len(Ranges(S))
      PROVE  Hollow(Ranges(S)[j], vers') /\ Ranges(S)[j].hi <= Max(vers'[Ranges(S)[j].list]) + 1
  <2>1. Hollow(Ranges(S)[j], vers')
    BY <1>4, <1>6 DEF MergedTo
  <2>2. PICK i \in 1..Len(r) : Ranges(S)[j].list = r[i].list /\ Ranges(S)[j].hi = r[i].hi
    BY <1>4, <1>6 DEF MergedTo
  <2> QED BY <1>5, <2>1, <2>2
<1>8. ASSUME NEW l \in Lists, NEW v \in S[l]
      PROVE  \E j \in 1..Len(Ranges(S)) : Covers(Ranges(S)[j], Gap(l, S[l], v))
  <2>1. PICK i \in 1..Len(r) : r[i] = Gap(l, S[l], v)
    BY <1>1, <1>3 DEF Full
  <2> QED BY <1>4, <1>6, <2>1 DEF MergedTo
<1> QED BY <1>7, <1>8

LEMMA TakenSInv ==
  ASSUME SInv, "newest" \in Stay, NEW S, Taken(S), VInv', moves' = Ranges(S) \/ UNCHANGED moves
  PROVE  SInv'
<1>1. MovesHollow'
  <2>1. CASE moves' = Ranges(S)
    BY <2>1, RangesAre DEF SInv, MovesHollow, Newest
  <2>2. CASE UNCHANGED moves
    <3>1. moves' = <<>>
      BY <2>2 DEF Taken, Release
    <3> QED BY <3>1 DEF MovesHollow
  <2> QED BY <2>1, <2>2
<1>3. UNCHANGED <<files, added, deleted, content>>
  BY DEF Taken, Release
<1>4. \A l \in Lists : Newest(l)' = Newest(l) /\ vers'[l] \subseteq vers[l]
  BY TakenIs DEF SInv
<1>5. \A f \in files : f.list \in Lists
  BY DEF SInv, VInv, TInv, TypeOK, File
<1>6. FilesKnown'
  BY <1>3, <1>4, <1>5 DEF SInv, FilesKnown
<1>7. SnapshotsIntact'
  <2>1. \A l \in Lists, v \in Vids : Ids(Seen(l, v))' = Ids(Seen(l, v))
    BY <1>3 DEF Ids, Seen
  <2>2. \A l \in Lists : vers[l] \subseteq Vids
    BY DEF SInv, VInv, TInv, TypeOK
  <2> QED BY <1>3, <1>4, <2>1, <2>2 DEF SInv, SnapshotsIntact
<1> QED BY <1>1, <1>6, <1>7 DEF SInv

LEMMA MoveSInv ==
  ASSUME SInv, VInv', Move
  PROVE  SInv'
<1> DEFINE g == Head(moves)
           out == Affected(g)
<1>0. TypeOK
  BY DEF SInv, VInv, TInv
<1>1. /\ moves \in Seq(Range3) /\ moves # <<>> /\ moves' = Tail(moves)
      /\ files' = files \ out /\ deleted' = deleted \cup Ids(out)
      /\ UNCHANGED <<vers, added, content>>
  BY <1>0 DEF Move, TypeOK
<1>2. /\ g = moves[1] /\ 1 \in 1..Len(moves) /\ g \in Range3
      /\ \A k \in 1..Len(moves') : moves'[k] = moves[k + 1] /\ k + 1 \in 1..Len(moves)
  BY <1>1
<1> HIDE DEF g
<1>3. Hollow(g, vers) /\ g.lo \in Int /\ g.hi \in Int /\ g.hi <= MaxVid + 1 /\ g.list \in Lists
  BY <1>2, FilesOK DEF SInv, MovesHollow, Range3
<1>4. \A l : Newest(l)' = Newest(l)
  BY <1>1 DEF Newest
<1>5. MovesHollow'
  BY <1>1, <1>2, <1>4 DEF SInv, MovesHollow
<1>6. \A f \in files : f.id \in Int /\ f.start \in Int /\ f.end \in Int
  BY <1>0 DEF TypeOK, File
<1>7. FilesKnown'
  <2>1. \A f \in files \ out : f.id \notin Ids(out)
    BY DEF Ids, SInv, FilesKnown, Affected
  <2>2. \A i \in Ids(out) : i <= added
    BY DEF Ids, SInv, FilesKnown, Affected
  <2> HIDE DEF out
  <2> QED BY <1>1, <1>4, <2>1, <2>2 DEF SInv, FilesKnown
<1>8. ASSUME NEW l \in Lists, NEW v \in vers[l]
      PROVE  Ids(Seen(l, v))' = content[l][v] /\ content[l][v] \cap deleted' = {}
  <2>1. Ids(Seen(l, v)) = content[l][v] /\ content[l][v] \cap deleted = {}
    BY DEF SInv, SnapshotsIntact
  <2>2. ASSUME NEW f \in out, f \in Seen(l, v) PROVE FALSE
    <3>1. f \in files /\ f.list = g.list /\ f.start > g.lo /\ f.end < g.hi + 1
      BY DEF Affected, Within
    <3>2. f.list = l /\ f.start <= v /\ f.end > v
      BY <2>2 DEF Seen
    <3>3. v \in Int
      BY <1>0 DEF TypeOK, Vids
    <3>4. g.lo < v /\ v < g.hi
      <4> HIDE DEF out
      <4> QED BY <1>3, <1>6, <3>1, <3>2, <3>3
    <3> QED BY <1>3, <3>1, <3>2, <3>4 DEF Hollow
  <2>3. Seen(l, v)' = Seen(l, v)
    <3>1. \A f : f \in Seen(l, v)' <=> f \in Seen(l, v) /\ f \notin out
      BY <1>1 DEF Seen
    <3>2. \A f : f \in Seen(l, v)' <=> f \in Seen(l, v)
      BY <2>2, <3>1
    <3> QED BY <3>2
  <2>4. content[l][v] \cap Ids(out) = {}
    <3>1. ASSUME NEW f \in out, NEW h \in Seen(l, v), f.id = h.id PROVE FALSE
      <4>1. f \in files /\ h \in files
        BY DEF Affected, Seen
      <4> QED BY <2>2, <3>1, <4>1 DEF SInv, FilesKnown
    <3> QED BY <2>1, <3>1 DEF Ids
  <2>5. Ids(Seen(l, v))' = Ids(Seen(l, v))
    BY <2>3 DEF Ids
  <2> HIDE DEF out
  <2> QED BY <1>1, <2>1, <2>4, <2>5
<1> QED BY <1>1, <1>5, <1>7, <1>8 DEF SInv, SnapshotsIntact

LEMMA StepSInv == "newest" \in Stay /\ SInv /\ [Next]_vars => SInv'
<1> SUFFICES ASSUME "newest" \in Stay, SInv, [Next]_vars PROVE SInv'
  OBVIOUS
<1>0. VInv'
  BY StepVInv DEF SInv
<1>1. ASSUME UNCHANGED catalogVars, moves' = moves \/ moves' = <<>> PROVE SInv'
  <2>1. UNCHANGED <<vers, files, added, deleted, content>>
    BY <1>1 DEF catalogVars
  <2>2. \A l : Newest(l)' = Newest(l)
    BY <2>1 DEF Newest
  <2>3. FilesKnown'
    BY <2>1, <2>2 DEF SInv, FilesKnown
  <2>4. MovesHollow'
    <3>1. CASE moves' = moves
      BY <2>1, <2>2, <3>1 DEF SInv, MovesHollow
    <3>2. CASE moves' = <<>>
      BY <3>2 DEF MovesHollow
    <3> QED BY <1>1, <3>1, <3>2
  <2>5. SnapshotsIntact'
    BY <2>1 DEF SInv, SnapshotsIntact, Ids, Seen
  <2> QED BY <1>0, <2>3, <2>4, <2>5 DEF SInv
<1>2. ASSUME NEW l \in Lists, CommitOnGone(l) PROVE SInv'
  BY <1>1, <1>2 DEF CommitOnGone
<1>3. CASE NewVersion
  BY <1>1, <1>3 DEF NewVersion
<1>4. CASE MoveFails
  BY <1>1, <1>4 DEF MoveFails
<1>5. CASE UNCHANGED vars
  BY <1>1, <1>5 DEF vars, gcVars
<1>6. ASSUME Collect \/ CollectFails PROVE SInv'
  <2>1. TypeOK
    BY DEF SInv, VInv, TInv
  <2>2. PICK S : Taken(S) /\ (moves' = Ranges(S) \/ UNCHANGED moves)
    BY <1>6, <2>1, CollectIs, CollectFailsIs
  <2> QED BY <1>0, <2>2, TakenSInv
<1> QED BY <1>0, <1>2, <1>3, <1>4, <1>5, <1>6, CommitSInv, MoveSInv DEF Next

LEMMA InitSInv == Init => SInv
<1> SUFFICES ASSUME Init PROVE SInv
  OBVIOUS
<1>1. FilesKnown /\ MovesHollow
  BY DEF Init, FilesKnown, MovesHollow
<1>2. ASSUME NEW l \in Lists, NEW v \in vers[l]
      PROVE  Ids(Seen(l, v)) = content[l][v] /\ content[l][v] \cap deleted = {}
  <2>1. v \in Vids /\ files = {} /\ deleted = {}
    BY FilesOK DEF Init, Vids
  <2>2. content[l][v] = {}
    BY <2>1 DEF Init
  <2> QED BY <2>1, <2>2 DEF Ids, Seen
<1> QED BY <1>1, <1>2, InitVInv DEF SInv, SnapshotsIntact

\* Every version in the catalog sees exactly the files its commit left, until the
\* collector takes it, whatever versions around it are collected, merged and moved and
\* whichever statements of rcCommit are given up; no file that it sees is ever in
\* DeleteFiles.  A version whose row outlives its collection is not meant.
THEOREM SnapshotsStay == "newest" \in Stay => (Spec => []SnapshotsIntact)
<1> SUFFICES ASSUME "newest" \in Stay PROVE Spec => []SnapshotsIntact
  OBVIOUS
<1>1. SInv /\ [Next]_vars => SInv'
  BY StepSInv
<1>2. SInv => SnapshotsIntact
  BY DEF SInv
<1> QED BY <1>1, <1>2, InitSInv, PTL DEF Spec

-----------------------------------------------------------------------------
(* No file is left that nobody sees.                                        *)

SeenBy(f, V) == \E v \in V : f.start <= v /\ f.end > v

\* A file that no version sees waits to be moved, unless its list has lost its first
\* version or its move was given up.
Accessible ==
    \A f \in files : \/ f.id \in stuck \/ 0 \notin vers[f.list]
                     \/ SeenBy(f, vers[f.list] \cup engine[f.list])
                     \/ \E k \in 1..Len(moves) : f \in Affected(moves[k])

AInv == SInv /\ Accessible

\* When the last versions that see a file are taken, the gap of the highest one is
\* around the file.
LEMMA GapAround ==
  ASSUME SInv, "newest" \in Stay, NEW S, Taken(S), NEW f \in files, 0 \in vers[f.list] \ S[f.list],
         SeenBy(f, vers[f.list] \cup engine[f.list]),
         ~ SeenBy(f, (vers[f.list] \cup engine[f.list]) \ S[f.list])
  PROVE  \E x \in S[f.list] : LET g == Gap(f.list, S[f.list], x)
                              IN  g.lo < f.start /\ f.end <= g.hi /\ g.lo \in Int /\ g.hi \in Int
<1> DEFINE l == f.list
           A == {v \in S[l] : f.start <= v /\ f.end > v}
<1>0. /\ l \in Lists /\ f.start \in 1..MaxVid /\ f.end \in Int /\ VInv /\ TInv
      /\ vers[l] \subseteq Vids /\ engine[l] \subseteq Vids /\ chain[l] \subseteq Vids
      /\ engine[l] \subseteq chain[l] /\ ListOK(l)
  <2>1. VInv /\ TInv /\ TypeOK
    BY DEF SInv, VInv, TInv
  <2>2. l \in Lists /\ f.start \in 1..MaxVid /\ f.end \in 1..Open
    BY <2>1 DEF TypeOK, File
  <2>3. vers[l] \subseteq Vids /\ engine[l] \subseteq Vids /\ chain[l] \subseteq Vids
    BY <2>1, <2>2 DEF TypeOK
  <2> QED BY <2>1, <2>2, <2>3 DEF VInv, TInv
<1>1. /\ S[l] \subseteq Vids /\ S[l] \subseteq engine[l] /\ S[l] \subseteq chain[l]
      /\ Newest(l) \in vers[l] \ S[l] /\ \A v \in S[l] : ~ Queued(l, v + 1)
      /\ \A v \in S[l] : v <= Newest(l)
  BY <1>0, TakenIs
<1>2. A # {} /\ A \subseteq Vids
  BY <1>1 DEF SeenBy
<1> DEFINE x == Max(A)
           left == chain[l] \ {w \in S[l] : w < x}
           g == Gap(l, S[l], x)
<1>3. x \in A /\ \A v \in A : x >= v
  BY <1>2, MaxIs
<1>4. \A v \in Vids : v \in Int /\ v >= 0
  BY DEF Vids
<1> HIDE DEF x
<1>5. x \in S[l] /\ x \in Vids /\ x \in Int /\ f.start <= x /\ f.end > x /\ f.start \in Int /\ f.start > 0
  BY <1>0, <1>1, <1>3, <1>4, FilesOK
<1>6. /\ \/ g.lo = x - 1 /\ \A w \in left : ~ (w < x)
         \/ g.lo \in left /\ g.lo < x /\ \A w \in left : w < x => w <= g.lo
      /\ \/ g.hi = x + 1 /\ \A w \in left : ~ (w > x)
         \/ g.hi \in left /\ g.hi > x /\ \A w \in left : w > x => g.hi <= w
  BY <1>0, <1>5, GapIs
<1> HIDE DEF g
\* The list's first version has arrived.
<1>7. ~ Queued(l, 0) /\ 0 \in engine[l]
  <2>1. 0 \in Vids /\ ~ (x < 0)
    BY <1>4, <1>5, FilesOK DEF Vids
  <2>2. x \in chain[l]
    BY <1>1, <1>5
  <2>3. ~ Queued(l, 0)
    BY <1>0, <2>1, <2>2 DEF ListOK, Young
  <2> QED BY <1>0, <2>1, <2>3 DEF ListOK, Known
<1>8. ASSUME NEW w \in chain[l] \ S[l], f.start <= w, f.end > w PROVE FALSE
  <2>1. w # 0
    BY <1>5, <1>8
  <2>2. w \in engine[l]
    BY <1>0, <1>8, <2>1 DEF ListOK, Known
  <2> QED BY <1>8, <2>2 DEF SeenBy
<1>9. g.lo < f.start /\ g.lo \in Int
  <2>1. 0 \in left /\ 0 < x
    BY <1>0, <1>5, <1>7
  <2>2. g.lo \in left /\ g.lo < x
    BY <1>6, <2>1
  <2>3. g.lo \in chain[l] \ S[l] /\ g.lo \in Int
    BY <1>0, <1>4, <2>2
  <2>4. ~ (f.start <= g.lo)
    <3>1. f.end > x => f.end > g.lo
      BY <1>0, <1>5, <2>2, <2>3
    <3> QED BY <1>5, <1>8, <2>3, <3>1
  <2> QED BY <1>5, <2>3, <2>4
<1>10. f.end <= g.hi /\ g.hi \in Int
  <2>1. CASE g.hi \in left /\ g.hi > x
    <3>1. g.hi \in chain[l] /\ g.hi \in Int /\ f.start <= g.hi
      <4>1. g.hi \in chain[l]
        BY <2>1
      <4>2. g.hi \in Int
        BY <1>0, <1>4, <4>1
      <4> QED BY <1>5, <2>1, <4>1, <4>2
    <3>2. ~ (f.end > g.hi)
      <4> SUFFICES ASSUME f.end > g.hi PROVE FALSE
        OBVIOUS
      <4>1. CASE g.hi \in S[l]
        <5>1. g.hi \in A
          BY <3>1, <4>1
        <5>2. x >= g.hi
          BY <1>3, <5>1
        <5> QED BY <1>5, <2>1, <3>1, <5>2
      <4>2. CASE g.hi \notin S[l]
        BY <1>8, <3>1, <4>2
      <4> QED BY <4>1, <4>2
    <3> QED BY <1>0, <3>1, <3>2
  <2>2. CASE g.hi = x + 1 /\ \A w \in left : ~ (w > x)
    <3> DEFINE N == Newest(l)
    <3>1. N \in vers[l] /\ N \notin S[l] /\ N \in Vids /\ N \in Int /\ x < N
      <4>1. N \in vers[l] /\ N \notin S[l] /\ N \in Vids /\ N \in Int /\ x <= N
        BY <1>0, <1>1, <1>4, <1>5
      <4> HIDE DEF N
      <4> QED BY <1>5, <4>1
    <3> HIDE DEF N
    <3>2. N \notin chain[l]
      BY <2>2, <3>1
    <3>3. Queued(l, N)
      BY <1>0, <3>1, <3>2 DEF ListOK, Known
    <3> DEFINE Q == {w \in vers[l] : Queued(l, w)}
    <3>4. Q \subseteq Nat /\ Q # {}
      BY <1>0, <3>1, <3>3 DEF Vids
    <3>5. PICK w \in Q : \A u \in Q : w <= u
      BY <3>4, Least
    <3>6. w \in vers[l] /\ Queued(l, w) /\ w \in Vids /\ w \in Int
      BY <1>0, <1>4, <3>5
    <3>7. x < w /\ w # 0
      BY <1>0, <1>1, <1>5, <1>7, <3>6 DEF ListOK, Young
    <3>8. w - 1 \in vers[l] /\ w - 1 \in Vids
      BY <1>0, <3>6, <3>7 DEF ListOK, Young
    <3>9. ~ Queued(l, w - 1)
      BY <3>5, <3>6, <3>8
    <3>10. w - 1 \in chain[l]
      BY <1>0, <3>8, <3>9 DEF ListOK, Known
    <3>11. w - 1 = x
      <4>1. ~ (w - 1 > x)
        <5> SUFFICES ASSUME w - 1 > x PROVE FALSE
          OBVIOUS
        <5>1. w - 1 \in left
          BY <1>5, <3>6, <3>10
        <5> QED BY <2>2, <5>1
      <4> QED BY <1>5, <3>6, <3>7, <4>1
    <3>12. x + 1 = w
      BY <1>5, <3>6, <3>11
    <3> QED BY <1>1, <1>5, <3>6, <3>12
  <2> QED BY <1>6, <2>1, <2>2
<1> QED BY <1>5, <1>9, <1>10 DEF g

\* A file that no version sees after a collection is in one of the ranges.
LEMMA TakenFiles ==
  ASSUME AInv, "newest" \in Stay, NEW S, Taken(S), NEW f \in files
  PROVE  \/ f.id \in stuck \/ 0 \notin vers'[f.list]
         \/ SeenBy(f, vers'[f.list] \cup engine'[f.list])
         \/ \E k \in 1..Len(Ranges(S)) : f \in Affected(Ranges(S)[k])
<1> DEFINE l == f.list
<1>1. l \in Lists /\ f.start \in Int /\ f.end \in Int /\ f.start < f.end
  BY DEF AInv, SInv, VInv, TInv, TypeOK, File
<1>2. vers'[l] = vers[l] \ S[l] /\ engine'[l] = engine[l] \ S[l]
  BY <1>1, TakenIs DEF AInv, SInv
<1>3. vers'[l] \cup engine'[l] = (vers[l] \cup engine[l]) \ S[l]
  BY <1>2
<1> SUFFICES ASSUME f.id \notin stuck, 0 \in vers'[l], ~ SeenBy(f, vers'[l] \cup engine'[l])
             PROVE  \E k \in 1..Len(Ranges(S)) :
                        Ranges(S)[k].hi - Ranges(S)[k].lo > 1 /\ Within(f, Ranges(S)[k])
  BY DEF Affected
<1>4. SeenBy(f, vers[l] \cup engine[l])
  <2>1. moves = <<>>
    BY DEF Taken, Release
  <2> QED BY <1>2, <2>1 DEF AInv, Accessible
<1>5. PICK x \in S[l] : LET g == Gap(l, S[l], x)
                        IN  g.lo < f.start /\ f.end <= g.hi /\ g.lo \in Int /\ g.hi \in Int
  BY <1>1, <1>2, <1>3, <1>4, GapAround DEF AInv
<1>6. Gap(l, S[l], x).list = l
  BY DEF Gap
<1>7. PICK k \in 1..Len(Ranges(S)) : Covers(Ranges(S)[k], Gap(l, S[l], x))
  BY <1>1, RangesAre DEF AInv, SInv
<1> DEFINE m == Ranges(S)[k]
           h == Gap(l, S[l], x)
<1>8. m \in Range3
  <2>1. Ranges(S) \in Seq(Range3)
    BY RangesIn DEF AInv, SInv, VInv
  <2> QED BY <2>1
<1>9. m.lo \in Int /\ m.hi \in Int
  BY <1>8, FilesOK DEF Range3
<1>10. /\ m.list = l /\ m.lo <= h.lo /\ h.hi <= m.hi
       /\ h.lo < f.start /\ f.end <= h.hi /\ h.lo \in Int /\ h.hi \in Int
  BY <1>5, <1>6, <1>7 DEF Covers
<1> HIDE DEF m, h
<1>11. m.hi - m.lo > 1 /\ f.start > m.lo /\ f.end < m.hi + 1
  BY <1>1, <1>9, <1>10
<1> QED BY <1>10, <1>11 DEF Within, m

LEMMA CollectAInv ==
  ASSUME AInv, "newest" \in Stay, SInv', Collect
  PROVE  AInv'
<1>1. PICK S : Taken(S) /\ moves' = Ranges(S) /\ UNCHANGED stuck
  BY CollectIs DEF AInv, SInv, VInv, TInv
<1>2. UNCHANGED files
  BY <1>1 DEF Taken, Release
<1>3. \A k \in 1..Len(moves') : Affected(moves'[k]) = Affected(moves[k])'
  BY <1>2 DEF Affected
<1>4. Accessible'
  BY <1>1, <1>2, <1>3, TakenFiles DEF Accessible
<1> QED BY <1>4 DEF AInv

LEMMA CollectFailsAInv ==
  ASSUME AInv, "newest" \in Stay, SInv', CollectFails
  PROVE  AInv'
<1>1. PICK S : Taken(S) /\ stuck' = stuck \cup Skipped(Ranges(S))
  BY CollectFailsIs DEF AInv, SInv, VInv, TInv
<1>2. UNCHANGED files
  BY <1>1 DEF Taken, Release
<1>3. Ranges(S) \in Seq(Range3)
  BY <1>1, RangesIn DEF AInv, SInv, VInv
<1>4. \A k \in 1..Len(Ranges(S)) : k \in DOMAIN Ranges(S)
  BY <1>3
<1>5. ASSUME NEW f \in files, NEW k \in 1..Len(Ranges(S)), f \in Affected(Ranges(S)[k]) PROVE f.id \in stuck'
  BY <1>1, <1>4, <1>5 DEF Skipped, Ids
<1>6. \A f \in files : f.id \in stuck => f.id \in stuck'
  BY <1>1
<1>7. Accessible'
  BY <1>1, <1>2, <1>5, <1>6, TakenFiles DEF Accessible
<1> QED BY <1>7 DEF AInv

LEMMA CommitAInv ==
  ASSUME AInv, SInv', NEW l \in Lists, Commit(l)
  PROVE  AInv'
<1> DEFINE v == Newest(l)
<1>0. TypeOK /\ TypeOK'
  BY DEF AInv, SInv, VInv, TInv
<1>1. v \in vers[l] /\ v \in Vids /\ v + 1 \in Vids
  BY <1>0, CommitIs, NewestIs DEF TypeOK
<1>2. PICK gone \in SUBSET Seen(l, v), n \in 0..1 : added + n <= MaxFiles /\ CommitOf(l, v, gone, n)
  BY <1>0, CommitIs
<1> HIDE DEF v
<1>3. \A f \in files' :
         \/ f \in files \ gone
         \/ \E g \in gone : f.id = g.id /\ f.list = l /\ f.start = g.start /\ f.end = v + 1
         \/ n = 1 /\ f.id = added + 1 /\ f.list = l /\ f.start = v + 1 /\ f.end = Open
  BY <1>0, <1>1, <1>2, CommitFiles
<1>4. vers' = [vers EXCEPT ![l] = @ \cup {v + 1}] /\ UNCHANGED <<engine, moves, stuck>>
  BY <1>2 DEF CommitOf
<1>5. /\ \A k \in Lists : vers[k] \subseteq vers'[k] /\ (0 \in vers'[k] => 0 \in vers[k])
      /\ v \in vers'[l] /\ v + 1 \in vers'[l]
  BY <1>0, <1>1, <1>4 DEF TypeOK, Vids
<1>6. v \in Int /\ v + 1 < Open
  BY <1>1, FilesOK DEF Vids, Open
<1>7. ASSUME NEW f \in files'
      PROVE  \/ f.id \in stuck' \/ 0 \notin vers'[f.list]
             \/ SeenBy(f, vers'[f.list] \cup engine'[f.list])
             \/ \E k \in 1..Len(moves') : f \in Affected(moves[k])'
  <2>1. CASE f \in files \ gone
    <3>1. f.list \in Lists
      BY <1>0, <2>1 DEF TypeOK, File
    <3>2. \A k \in 1..Len(moves) : f \in Affected(moves[k]) => f \in Affected(moves[k])'
      BY <1>4 DEF Affected
    <3> QED BY <1>4, <1>5, <2>1, <3>1, <3>2 DEF AInv, Accessible, SeenBy
  <2>2. ASSUME NEW g \in gone, f.list = l /\ f.start = g.start /\ f.end = v + 1
        PROVE  SeenBy(f, vers'[l])
    <3>1. g.start <= v /\ v + 1 > v
      BY <1>6 DEF Seen
    <3> QED BY <1>5, <2>2, <3>1 DEF SeenBy
  <2>3. CASE f.list = l /\ f.start = v + 1 /\ f.end = Open
    <3>1. f.start <= v + 1 /\ f.end > v + 1
      BY <1>6, <2>3
    <3> QED BY <1>5, <2>3, <3>1 DEF SeenBy
  <2> QED BY <1>3, <2>1, <2>2, <2>3 DEF SeenBy
<1>8. Accessible'
  BY <1>4, <1>7 DEF Accessible
<1> QED BY <1>8 DEF AInv

LEMMA StepAInv == "newest" \in Stay /\ AInv /\ [Next]_vars => AInv'
<1> SUFFICES ASSUME "newest" \in Stay, AInv, [Next]_vars PROVE AInv'
  OBVIOUS
<1>0. SInv' /\ TypeOK
  BY StepSInv DEF AInv, SInv, VInv, TInv
<1>1. \A f \in files : f.list \in Lists
  BY <1>0 DEF TypeOK, File
<1>2. ASSUME UNCHANGED <<vers, files, moves, stuck>>, \A l \in Lists : engine[l] \subseteq engine'[l]
      PROVE  AInv'
  <2>1. Accessible'
    BY <1>1, <1>2 DEF AInv, Accessible, Affected, SeenBy
  <2> QED BY <1>0, <2>1 DEF AInv
<1>3. ASSUME NEW l \in Lists, CommitOnGone(l) PROVE AInv'
  BY <1>2, <1>3 DEF CommitOnGone, catalogVars
<1>4. CASE NewVersion
  <2>1. PICK l \in Lists, v \in Vids :
           engine' = [engine EXCEPT ![l] = @ \cup {v}] /\ UNCHANGED <<catalogVars, moves, stuck>>
    BY <1>0, <1>4, NewVersionIs
  <2>2. \A k \in Lists : engine[k] \subseteq engine'[k]
    BY <1>0, <2>1 DEF TypeOK
  <2> QED BY <1>2, <2>1, <2>2 DEF catalogVars
<1>5. CASE UNCHANGED vars
  BY <1>2, <1>5 DEF vars, catalogVars, gcVars
<1>6. CASE Move
  <2> DEFINE out == Affected(Head(moves))
  <2>1. /\ moves \in Seq(Range3) /\ moves # <<>> /\ moves' = Tail(moves) /\ files' = files \ out
        /\ UNCHANGED <<vers, engine, stuck>>
    BY <1>0, <1>6 DEF Move, TypeOK
  <2>2. /\ Head(moves) = moves[1]
        /\ \A k \in 1..Len(moves) : k # 1 => k - 1 \in 1..Len(moves') /\ moves'[k - 1] = moves[k]
    <3>1. Len(moves) \in Nat /\ Len(moves') = Len(moves) - 1 /\ \A k \in 1..Len(moves') : moves'[k] = moves[k + 1]
      BY <2>1
    <3>2. \A k \in 1..Len(moves) : k # 1 => k - 1 \in 1..Len(moves') /\ k - 1 + 1 = k
      BY <3>1
    <3> QED BY <2>1, <3>1, <3>2
  <2>3. ASSUME NEW f \in files', NEW k \in 1..Len(moves), f \in Affected(moves[k])
        PROVE  \E j \in 1..Len(moves') : f \in files' /\ moves'[j].hi - moves'[j].lo > 1 /\ Within(f, moves'[j])
    <3>1. k # 1
      BY <2>1, <2>2, <2>3
    <3> QED BY <2>2, <2>3, <3>1 DEF Affected
  <2>4. \A f \in files' : f \in files
    BY <2>1
  <2> HIDE DEF out
  <2>5. Accessible'
    BY <2>1, <2>3, <2>4 DEF AInv, Accessible, Affected
  <2> QED BY <1>0, <2>5 DEF AInv
<1>7. CASE MoveFails
  <2>1. /\ stuck' = stuck \cup Skipped(moves)
        /\ UNCHANGED <<vers, files, engine>> /\ DOMAIN moves = 1..Len(moves)
    BY <1>0, <1>7 DEF MoveFails, catalogVars, TypeOK
  <2>2. ASSUME NEW f \in files, NEW k \in 1..Len(moves), f \in Affected(moves[k]) PROVE f.id \in stuck'
    BY <2>1, <2>2 DEF Skipped, Ids
  <2>3. \A f \in files : f.id \in stuck => f.id \in stuck'
    BY <2>1
  <2>4. UNCHANGED <<vers, files, engine>>
    BY <2>1
  <2> HIDE <2>1
  <2>5. Accessible'
    BY <2>2, <2>3, <2>4 DEF AInv, Accessible
  <2> QED BY <1>0, <2>5 DEF AInv
<1> QED BY <1>0, <1>3, <1>4, <1>5, <1>6, <1>7, CommitAInv, CollectAInv, CollectFailsAInv DEF Next

\* When the moves of a task are done, every file that is left is seen by a version the
\* engine still counts, or one that is new to it: none is forgotten, however the
\* gaps were merged, except where a move was given up or not tried, or the first
\* version is gone.
THEOREM FilesStayAccessible == "newest" \in Stay => (Spec => []FilesAreAccessible)
<1> SUFFICES ASSUME "newest" \in Stay PROVE Spec => []FilesAreAccessible
  OBVIOUS
<1>1. AInv /\ [Next]_vars => AInv'
  BY StepAInv
<1>2. AInv => FilesAreAccessible
  BY DEF AInv, Accessible, FilesAreAccessible, SeenBy
<1>3. Init => AInv
  BY InitSInv DEF Init, AInv, Accessible
<1> QED BY <1>1, <1>2, <1>3, PTL DEF Spec
=============================================================================
